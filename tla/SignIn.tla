------------------------------- MODULE SignIn -------------------------------
(***************************************************************************)
(* Connecting a ChatGPT account: internal/server/openai_auth.go.           *)
(*                                                                         *)
(* A browser login registers a state, sends the admin to OpenAI and is     *)
(* called back, on a callback server of its own, with that state; the      *)
(* admin page polls until the tokens are there.  A headless login asks     *)
(* OpenAI itself on each poll.  The three maps and the server's field are   *)
(* under one lock, which no network call holds.                            *)
(***************************************************************************)
EXTENDS Integers, FiniteSets

CONSTANTS
    Logins,         \* states and poll ids, each drawn once
    Headless,       \* those of them that are headless
    Workers,        \* goroutines of the admin site and of the callback server
    BrowserTTL,     \* openAIChatGPTAuthTTL
    HeadlessTTL,    \* openAIChatGPTHeadlessTTL
    MaxTime,        \* bound on the clock
    MaxCallbacks,   \* bound on callbacks of one state (reloads of the page)
    MaxFailures,    \* bound on exchanges and saves that fail
    None

\* What an instance must respect; the module that makes it assumes this.
SignInAssumption ==
    /\ Headless \subseteq Logins
    /\ BrowserTTL \in Nat /\ HeadlessTTL \in Nat
    /\ MaxTime \in Nat /\ MaxCallbacks \in Nat /\ MaxFailures \in Nat

VARIABLES
    time,
    browser,        \* per state, when the pending login ends, or None
    results,        \* browserResults: when the tokens are forgotten, or None
    headless,       \* per poll id, when the pending login ends, or None
    server,         \* the callbackServer field is set
    port,           \* a server is bound to the callback port
    worker,         \* what each goroutine is doing
    started,        \* logins handed out, with the time they end (history)
    callbacks,      \* callbacks per state so far
    exchanged,      \* logins whose code OpenAI has taken
    saves,          \* per login, how often its tokens were saved (history)
    failures

vars == <<time, browser, results, headless, server, port, worker, started,
          callbacks, exchanged, saves, failures>>

Init ==
    /\ time = 0
    /\ browser = [l \in Logins |-> None]
    /\ results = [l \in Logins |-> None]
    /\ headless = [l \in Logins |-> None]
    /\ server = FALSE /\ port = FALSE
    /\ worker = [w \in Workers |-> None]
    /\ started = [l \in Logins |-> None]
    /\ callbacks = [l \in Logins |-> 0]
    /\ exchanged = {}
    /\ saves = [l \in Logins |-> 0]
    /\ failures = 0

At(w, step) == worker[w] # None /\ worker[w].at = step
Login(w) == worker[w].login
Begin(w, step, l) == worker[w] = None /\ worker' = [worker EXCEPT ![w] = [at |-> step, login |-> l]]
Goto(w, step) == worker' = [worker EXCEPT ![w].at = step]
Return(w) == worker' = [worker EXCEPT ![w] = None]

\* now.After(expires)
Past(expires) == expires # None /\ time > expires

\* cleanupExpiredLocked, on one of the maps
Live(map) == [l \in Logins |-> IF Past(map[l]) THEN None ELSE map[l]]

Cleanup ==
    /\ browser' = Live(browser)
    /\ results' = Live(results)
    /\ headless' = Live(headless)

-----------------------------------------------------------------------------
(* Starting a browser login.                                               *)

\* ensureOpenAIChatGPTCallbackServer: the listener is bound under the lock; a
\* port that is still bound by a server being shut down is an error.
Ensure(w, l) ==
    /\ started[l] = None /\ l \notin Headless
    /\ \A v \in Workers : worker[v] # None => worker[v].login # l
    /\ Cleanup
    /\ IF ~server /\ port
       THEN UNCHANGED <<server, port, worker>>
       ELSE server' = TRUE /\ port' = TRUE /\ Begin(w, "register", l)
    /\ UNCHANGED <<time, started, callbacks, exchanged, saves, failures>>

Register(w) ==
    /\ At(w, "register")
    /\ browser' = [Live(browser) EXCEPT ![Login(w)] = time + BrowserTTL]
    /\ results' = Live(results) /\ headless' = Live(headless)
    /\ started' = [started EXCEPT ![Login(w)] = time + BrowserTTL]
    /\ Return(w)
    /\ UNCHANGED <<time, server, port, callbacks, exchanged, saves, failures>>

-----------------------------------------------------------------------------
(* The callback.  Taking the state out is what makes it single-use.        *)

StateTaken(l) == [browser EXCEPT ![l] = None]

\* The map is cleaned after the state was taken out of it, so its age is checked
\* again.
InTime(expires) == expires # None /\ ~Past(expires)

Callback(w, l) ==
    /\ port
    /\ started[l] # None /\ l \notin Headless
    /\ callbacks[l] < MaxCallbacks
    /\ callbacks' = [callbacks EXCEPT ![l] = @ + 1]
    /\ Begin(w, IF InTime(browser[l]) THEN "exchange" ELSE "idle", l)
    /\ browser' = [k \in Logins |-> IF Past(StateTaken(l)[k]) THEN None ELSE StateTaken(l)[k]]
    /\ results' = Live(results) /\ headless' = Live(headless)
    /\ UNCHANGED <<time, server, port, started, exchanged, saves, failures>>

\* exchangeOpenAIChatGPTCode: a new code for every callback, so OpenAI takes each.
Exchange(w, ok) ==
    /\ At(w, "exchange")
    /\ ok \/ failures < MaxFailures
    /\ failures' = IF ok THEN failures ELSE failures + 1
    /\ exchanged' = IF ok THEN exchanged \cup {Login(w)} ELSE exchanged
    /\ Goto(w, IF ok THEN "result" ELSE "idle")
    /\ UNCHANGED <<time, browser, results, headless, server, port, started, callbacks, saves>>

Result(w) ==
    /\ At(w, "result")
    /\ results' = [results EXCEPT ![Login(w)] = time + BrowserTTL]
    /\ Goto(w, "idle")
    /\ UNCHANGED <<time, browser, headless, server, port, started, callbacks, exchanged, saves, failures>>

\* stopOpenAIChatGPTCallbackServerIfIdle: the field goes under the lock, ...
StopIfIdle(w) ==
    /\ At(w, "idle")
    /\ IF server /\ \A l \in Logins : browser[l] = None
       THEN server' = FALSE /\ Goto(w, "shutdown")
       ELSE UNCHANGED server /\ Return(w)
    /\ UNCHANGED <<time, browser, results, headless, port, started, callbacks, exchanged, saves, failures>>

\* ... the port after it.
Shutdown(w) ==
    /\ At(w, "shutdown")
    /\ port' = FALSE
    /\ Return(w)
    /\ UNCHANGED <<time, browser, results, headless, server, started, callbacks, exchanged, saves, failures>>

-----------------------------------------------------------------------------
(* The admin page polls a browser login.                                   *)

\* Mutation: the tokens stay for the next poll.
ResultKept(l) == Live(results)

ResultTaken(l) == [Live(results) EXCEPT ![l] = None]

\* finishOpenAIChatGPTBrowserAuth: connected, pending, or expired; the last two
\* change nothing but the cleanup.
Finish(w, l) ==
    /\ started[l] # None /\ l \notin Headless
    /\ browser' = Live(browser) /\ headless' = Live(headless)
    /\ results' = ResultTaken(l)
    /\ IF Live(results)[l] # None THEN Begin(w, "save", l) ELSE UNCHANGED worker
    /\ UNCHANGED <<time, server, port, started, callbacks, exchanged, saves, failures>>

\* saveOpenAIChatGPTTokens, which RuntimeSettings has in its steps.
Save(w, ok) ==
    /\ At(w, "save")
    /\ ok \/ failures < MaxFailures
    /\ failures' = IF ok THEN failures ELSE failures + 1
    /\ saves' = IF ok THEN [saves EXCEPT ![Login(w)] = @ + 1] ELSE saves
    /\ IF ok /\ Login(w) \in Headless THEN Goto(w, "forget") ELSE Return(w)
    /\ UNCHANGED <<time, browser, results, headless, server, port, started, callbacks, exchanged>>

-----------------------------------------------------------------------------
(* A headless login.                                                       *)

StartHeadless(w, l) ==
    /\ started[l] = None /\ l \in Headless
    /\ headless' = [Live(headless) EXCEPT ![l] = time + HeadlessTTL]
    /\ browser' = Live(browser) /\ results' = Live(results)
    /\ started' = [started EXCEPT ![l] = time + HeadlessTTL]
    /\ UNCHANGED <<time, server, port, worker, callbacks, exchanged, saves, failures>>

\* pollOpenAIChatGPTHeadlessAuth looks the login up, without the cleanup.
PollHeadless(w, l) ==
    /\ started[l] # None /\ l \in Headless
    /\ IF InTime(headless[l])
       THEN Begin(w, "ask", l) /\ UNCHANGED headless
       ELSE headless' = [headless EXCEPT ![l] = None] /\ UNCHANGED worker
    /\ UNCHANGED <<time, browser, results, server, port, started, callbacks, exchanged, saves, failures>>

\* The admin has not confirmed the code yet, or the request fails; or OpenAI
\* answers with a code, which it takes back once, and whose answer may be lost.
Ask(w, confirmed) ==
    /\ At(w, "ask")
    /\ IF confirmed /\ Login(w) \notin exchanged
       THEN /\ exchanged' = exchanged \cup {Login(w)}
            /\ \/ Goto(w, "save") /\ UNCHANGED failures
               \/ failures < MaxFailures /\ failures' = failures + 1 /\ Return(w)
       ELSE UNCHANGED <<exchanged, failures>> /\ Return(w)
    /\ UNCHANGED <<time, browser, results, headless, server, port, started, callbacks, saves>>

Forget(w) ==
    /\ At(w, "forget")
    /\ headless' = [headless EXCEPT ![Login(w)] = None]
    /\ Return(w)
    /\ UNCHANGED <<time, browser, results, server, port, started, callbacks, exchanged, saves, failures>>

Tick ==
    /\ time < MaxTime
    /\ time' = time + 1
    /\ UNCHANGED <<browser, results, headless, server, port, worker, started, callbacks,
                   exchanged, saves, failures>>

BrowserStep(w) ==
    \/ \E l \in Logins : Ensure(w, l) \/ Callback(w, l) \/ Finish(w, l)
    \/ Register(w) \/ Result(w) \/ StopIfIdle(w) \/ Shutdown(w)
    \/ \E ok \in BOOLEAN : Exchange(w, ok) \/ Save(w, ok)

HeadlessStep(w) ==
    \/ \E l \in Logins : StartHeadless(w, l) \/ PollHeadless(w, l)
    \/ \E confirmed \in BOOLEAN : Ask(w, confirmed)
    \/ Forget(w)

Next ==
    \/ \E w \in Workers : BrowserStep(w) \/ HeadlessStep(w)
    \/ Tick

Spec == Init /\ [][Next]_vars

-----------------------------------------------------------------------------
(* Properties.                                                             *)

\* docs/security.md: "a single-use, time-limited state".  Single-use: however
\* often its callback page is reloaded and its login polled, the tokens of a
\* state are saved once at most.
SavedOnce == \A l \in Logins : saves[l] <= 1

\* Only one goroutine holds the tokens of a login: what a poll took is not still
\* there for another, nor on its way there.
TokensInOnePlace ==
    \A l \in Logins \ Headless :
        Cardinality({w \in Workers : \E s \in {"exchange", "result", "save"} : At(w, s) /\ Login(w) = l})
          + (IF browser[l] = None THEN 0 ELSE 1) + (IF results[l] = None THEN 0 ELSE 1) <= 1

\* A login's state is used once, at every moment of its way from the callback to
\* the settings.
SingleUse == SavedOnce /\ TokensInOnePlace
=============================================================================
