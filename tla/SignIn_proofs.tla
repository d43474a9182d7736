---------------------------- MODULE SignIn_proofs ----------------------------
(***************************************************************************)
(* The sign-in with ChatGPT, for any number of logins and goroutines, any    *)
(* lifetimes, however often the callback page is reloaded and the login      *)
(* polled: the state of a login is used once.                               *)
(***************************************************************************)
EXTENDS SignIn, FiniteSetTheorems, TLAPS

Steps == {"register", "exchange", "result", "idle", "shutdown", "save", "ask", "forget"}

Records == [at : Steps, login : Logins]

Shapes ==
    /\ DOMAIN browser = Logins /\ browser = [l \in Logins |-> browser[l]]
    /\ DOMAIN results = Logins /\ results = [l \in Logins |-> results[l]]
    /\ DOMAIN started = Logins /\ started = [l \in Logins |-> started[l]]
    /\ saves \in [Logins -> {0, 1}]
    /\ worker \in [Workers -> Records \cup {None}]

\* A goroutine that brings a login on its way, from its registration to the
\* moment its tokens are saved.
OnWay(w, l) ==
    /\ worker[w] # None /\ worker[w].login = l
    /\ worker[w].at \in {"register", "exchange", "result", "save"}

\* Which flow a goroutine's step belongs to, and that a login was handed out
\* before anything is done with it.
InFlow(w) ==
    worker[w] # None =>
        /\ worker[w].at \in {"register", "exchange", "result"} => worker[w].login \notin Headless
        /\ worker[w].at = "ask" => worker[w].login \in Headless /\ started[worker[w].login] # None
        /\ worker[w].at = "register" => started[worker[w].login] = None
        /\ worker[w].at \in {"exchange", "result", "save"} => started[worker[w].login] # None

\* A login is on its way with one goroutine, or pending, or its tokens wait for
\* the poll, or they were saved: no two of these at once.
Once(l) ==
    /\ \A v, w \in Workers : OnWay(v, l) /\ OnWay(w, l) => v = w
    /\ \A w \in Workers : OnWay(w, l) => browser[l] = None /\ results[l] = None /\ saves[l] = 0
    /\ browser[l] # None => results[l] = None /\ saves[l] = 0
    /\ results[l] # None => saves[l] = 0
    /\ started[l] = None => browser[l] = None /\ results[l] = None /\ saves[l] = 0

\* OpenAI takes the code of a headless login once.
TakenOnce(l) ==
    l \in Headless =>
        /\ browser[l] = None /\ results[l] = None
        /\ saves[l] # 0 => l \in exchanged
        /\ \A w \in Workers : OnWay(w, l) => l \in exchanged

SignInv ==
    /\ Shapes
    /\ \A w \in Workers : InFlow(w)
    /\ \A l \in Logins : Once(l) /\ TakenOnce(l)

-----------------------------------------------------------------------------

(* Expiry only takes entries away.                                          *)
LEMMA LiveShrinks ==
    ASSUME NEW map, NEW l \in Logins
    PROVE  Live(map)[l] \in {map[l], None}
  BY DEF Live

(* What nobody works on stays as it was, expiry aside.                      *)
LEMMA Elsewhere ==
    ASSUME SignInv, NEW l \in Logins,
           browser'[l] \in {browser[l], None}, results'[l] \in {results[l], None},
           saves'[l] = saves[l], started'[l] = started[l] \/ (started[l] = None /\ l \in Headless),
           exchanged \subseteq exchanged',
           \A w \in Workers : OnWay(w, l)' => OnWay(w, l)
    PROVE  Once(l)' /\ TakenOnce(l)'
  BY DEF SignInv, Once, TakenOnce

(* The other goroutines go on as they were.                                 *)
LEMMA Moved ==
    ASSUME SignInv, NEW w \in Workers, NEW r \in Records \cup {None},
           worker' = [worker EXCEPT ![w] = r]
    PROVE  /\ worker' \in [Workers -> Records \cup {None}]
           /\ worker'[w] = r
           /\ \A v \in Workers : v # w => worker'[v] = worker[v]
           /\ \A l \in Logins, v \in Workers : v # w => (OnWay(v, l)' <=> OnWay(v, l))
  BY DEF SignInv, Shapes, OnWay

LEMMA InitInv == Init => SignInv
  <1> SUFFICES ASSUME Init PROVE SignInv
    OBVIOUS
  <1>1. Shapes
    BY DEF Init, Shapes
  <1>2. \A w \in Workers : InFlow(w)
    BY DEF Init, InFlow
  <1>3. \A l \in Logins : Once(l) /\ TakenOnce(l)
    BY DEF Init, Once, TakenOnce, OnWay
  <1> QED
    BY <1>1, <1>2, <1>3 DEF SignInv

-----------------------------------------------------------------------------

LEMMA EnsureInv ==
    ASSUME SignInv, NEW w \in Workers, NEW l \in Logins, Ensure(w, l)
    PROVE  SignInv'
  <1> DEFINE r == [at |-> "register", login |-> l]
  <1>1. /\ browser' = Live(browser) /\ results' = Live(results)
        /\ UNCHANGED <<started, exchanged, saves>>
        /\ started[l] = None /\ l \notin Headless
        /\ \A v \in Workers : worker[v] # None => worker[v].login # l
    BY DEF Ensure, Cleanup
  <1>2. r \in Records /\ r.at = "register" /\ r.login = l
    BY DEF Records, Steps
  <1> HIDE DEF r
  <1>3. worker' = worker \/ (worker' = [worker EXCEPT ![w] = r] /\ worker[w] = None)
    BY DEF Ensure, Begin, r
  <1>4. Shapes'
    BY <1>1, <1>2, <1>3, Moved DEF SignInv, Shapes, Live
  <1>5. \A v \in Workers : InFlow(v)'
    BY <1>1, <1>2, <1>3, Moved DEF SignInv, InFlow
  <1>6. ASSUME NEW k \in Logins PROVE Once(k)' /\ TakenOnce(k)'
    <2>1. browser'[k] \in {browser[k], None} /\ results'[k] \in {results[k], None}
      BY <1>1, LiveShrinks
    <2>2. CASE k = l
      BY <1>1, <1>2, <1>3, <2>1, <2>2, Moved DEF SignInv, Once, TakenOnce, OnWay
    <2>3. CASE k # l
      <3>1. \A v \in Workers : OnWay(v, k)' => OnWay(v, k)
        BY <1>2, <1>3, <2>3, Moved DEF OnWay
      <3> QED
        BY <1>1, <2>1, <3>1, Elsewhere
    <2> QED
      BY <2>2, <2>3
  <1> QED
    BY <1>4, <1>5, <1>6 DEF SignInv

(* A step that ends a goroutine's work on a login, or takes it no further,   *)
(* changes nothing that the invariant says of the others.                   *)
LEMMA RegisterInv ==
    ASSUME SignInv, NEW w \in Workers, Register(w)
    PROVE  SignInv'
  <1> DEFINE l == worker[w].login
  <1>1. /\ worker[w] # None /\ worker[w].at = "register" /\ l \in Logins
        /\ OnWay(w, l) /\ l \notin Headless
    BY DEF Register, At, SignInv, Shapes, Records, InFlow, OnWay
  <1>2. /\ browser' = [Live(browser) EXCEPT ![l] = time + BrowserTTL]
        /\ results' = Live(results)
        /\ started' = [started EXCEPT ![l] = time + BrowserTTL]
        /\ worker' = [worker EXCEPT ![w] = None]
        /\ UNCHANGED <<exchanged, saves>>
    BY DEF Register, Return, Login
  <1>3. /\ \A k \in Logins \ {l} : browser'[k] \in {browser[k], None} /\ started'[k] = started[k]
        /\ \A k \in Logins : results'[k] \in {results[k], None}
        /\ browser'[l] = time + BrowserTTL /\ started'[l] = time + BrowserTTL
    <2>1. \A k \in Logins \ {l} : browser'[k] = Live(browser)[k]
      BY <1>2 DEF Live
    <2>2. browser'[l] = time + BrowserTTL
      BY <1>1, <1>2 DEF Live
    <2>3. \A k \in Logins : results'[k] \in {results[k], None}
      BY <1>2, LiveShrinks
    <2>4. started'[l] = time + BrowserTTL /\ \A k \in Logins \ {l} : started'[k] = started[k]
      BY <1>1, <1>2 DEF SignInv, Shapes
    <2> QED
      BY <2>1, <2>2, <2>3, <2>4, LiveShrinks
  <1>4. /\ ~OnWay(w, l)' /\ worker'[w] = None
        /\ \A v \in Workers, k \in Logins : OnWay(v, k)' => OnWay(v, k) /\ v # w
    BY <1>2, Moved DEF OnWay
  <1>5. Shapes'
    BY <1>2, Moved DEF SignInv, Shapes, Live
  <1>6. ASSUME NEW v \in Workers PROVE InFlow(v)'
    <2>1. CASE v = w
      BY <1>4, <2>1 DEF InFlow
    <2>2. CASE v # w
      <3>1. worker'[v] = worker[v]
        BY <1>2, <2>2, Moved
      <3>2. ~OnWay(v, l)
        BY <1>1, <2>2 DEF SignInv, Once
      <3>3. worker[v] # None => worker[v].login \in Logins
        BY DEF SignInv, Shapes, Records
      <3>4. CASE worker[v] # None /\ worker[v].login = l
        BY <1>1, <3>1, <3>2, <3>4 DEF SignInv, InFlow, OnWay
      <3>5. CASE worker[v] # None /\ worker[v].login # l
        BY <1>3, <3>1, <3>3, <3>5 DEF SignInv, InFlow
      <3> QED
        BY <3>1, <3>4, <3>5 DEF InFlow
    <2> QED
      BY <2>1, <2>2
  <1>7. ASSUME NEW k \in Logins PROVE Once(k)' /\ TakenOnce(k)'
    <2>1. CASE k = l
      <3>1. results[l] = None /\ saves[l] = 0 /\ \A v \in Workers : OnWay(v, l) => v = w
        BY <1>1 DEF SignInv, Once
      <3> QED
        BY <1>1, <1>2, <1>3, <1>4, <2>1, <3>1 DEF Once, TakenOnce
    <2>2. CASE k # l
      BY <1>2, <1>3, <1>4, <2>2, Elsewhere
    <2> QED
      BY <2>1, <2>2
  <1> QED
    BY <1>5, <1>6, <1>7 DEF SignInv

LEMMA CallbackInv ==
    ASSUME SignInv, NEW w \in Workers, NEW l \in Logins, Callback(w, l)
    PROVE  SignInv'
  <1> DEFINE step == IF InTime(browser[l]) THEN "exchange" ELSE "idle"
             r == [at |-> step, login |-> l]
  <1>1. /\ worker[w] = None /\ worker' = [worker EXCEPT ![w] = r]
        /\ started[l] # None /\ l \notin Headless
        /\ results' = Live(results)
        /\ browser' = [k \in Logins |-> IF Past(StateTaken(l)[k]) THEN None ELSE StateTaken(l)[k]]
        /\ UNCHANGED <<started, exchanged, saves>>
    BY DEF Callback, Begin
  <1>2. r \in Records /\ r.login = l /\ r.at \in {"exchange", "idle"}
    BY DEF Records, Steps
  <1>3. r.at = "exchange" => browser[l] # None
    BY DEF InTime
  <1> HIDE DEF r
  <1>4. /\ \A k \in Logins : browser'[k] \in {browser[k], None} /\ results'[k] \in {results[k], None}
        /\ browser'[l] = None
    BY <1>1, LiveShrinks DEF StateTaken, SignInv, Shapes
  <1>5. Shapes'
    BY <1>1, <1>2, Moved DEF SignInv, Shapes, Live
  <1>6. \A v \in Workers : InFlow(v)'
    BY <1>1, <1>2, Moved DEF SignInv, InFlow
  <1>7. ASSUME NEW k \in Logins PROVE Once(k)' /\ TakenOnce(k)'
    <2>1. CASE k = l /\ r.at = "exchange"
      <3>1. results[l] = None /\ saves[l] = 0 /\ \A v \in Workers : ~OnWay(v, l)
        BY <1>3, <2>1 DEF SignInv, Once
      <3>2. \A v \in Workers : OnWay(v, l)' => v = w
        BY <1>1, <1>2, <3>1, Moved
      <3> QED
        BY <1>1, <1>4, <2>1, <3>1, <3>2 DEF Once, TakenOnce
    <2>2. CASE k # l \/ r.at = "idle"
      <3>1. \A v \in Workers : OnWay(v, k)' => OnWay(v, k)
        BY <1>1, <1>2, <2>2, Moved DEF OnWay
      <3> QED
        BY <1>1, <1>4, <3>1, Elsewhere
    <2> QED
      BY <1>2, <2>1, <2>2
  <1> QED
    BY <1>5, <1>6, <1>7 DEF SignInv

(* A goroutine takes its login from one step to the next, or drops it.      *)
LEMMA Onward ==
    ASSUME SignInv, NEW w \in Workers, worker[w] # None, NEW r \in Records \cup {None},
           worker' = [worker EXCEPT ![w] = r],
           r # None => r.login = worker[w].login,
           r # None /\ r.at \in {"register", "exchange", "result", "save"} => OnWay(w, r.login),
           r # None => r.at \notin {"register", "ask"},
           r # None /\ r.at \in {"exchange", "result"} => worker[w].at = "exchange",
           r # None /\ r.at = "save" => worker[w].at = "save",
           exchanged \subseteq exchanged',
           UNCHANGED <<browser, results, started, saves>>
    PROVE  SignInv'
  <1>1. Shapes'
    BY Moved DEF SignInv, Shapes
  <1>2. \A v \in Workers : InFlow(v)'
    BY Moved DEF SignInv, InFlow
  <1>3. ASSUME NEW k \in Logins PROVE Once(k)' /\ TakenOnce(k)'
    <2>1. \A v \in Workers : OnWay(v, k)' => OnWay(v, k)
      BY Moved DEF OnWay
    <2> QED
      BY <2>1, Elsewhere
  <1> QED
    BY <1>1, <1>2, <1>3 DEF SignInv

LEMMA ExchangeInv ==
    ASSUME SignInv, NEW w \in Workers, NEW ok \in BOOLEAN, Exchange(w, ok)
    PROVE  SignInv'
  <1> DEFINE step == IF ok THEN "result" ELSE "idle"
             r == [worker[w] EXCEPT !.at = step]
  <1>1. worker[w] # None /\ worker[w].at = "exchange" /\ worker[w] \in Records
    BY DEF Exchange, At, SignInv, Shapes
  <1>2. r \in Records /\ r.login = worker[w].login /\ r.at \in {"result", "idle"}
    BY <1>1 DEF Records, Steps
  <1>3. worker' = [worker EXCEPT ![w] = r]
    BY DEF Exchange, Goto
  <1>4. exchanged \subseteq exchanged' /\ UNCHANGED <<browser, results, started, saves>>
    BY DEF Exchange
  <1>5. OnWay(w, r.login)
    BY <1>1, <1>2 DEF OnWay
  <1> HIDE DEF r
  <1> QED
    BY <1>1, <1>2, <1>3, <1>4, <1>5, Onward

LEMMA StopIfIdleInv == ASSUME SignInv, NEW w \in Workers, StopIfIdle(w) PROVE SignInv'
  <1>1. worker[w] # None /\ worker[w].at = "idle" /\ worker[w] \in Records
    BY DEF StopIfIdle, At, SignInv, Shapes
  <1>2. UNCHANGED <<browser, results, started, saves, exchanged>>
    BY DEF StopIfIdle
  <1>3. CASE worker' = [worker EXCEPT ![w] = None]
    BY <1>1, <1>2, <1>3, Onward
  <1>4. CASE worker' = [worker EXCEPT ![w] = [worker[w] EXCEPT !.at = "shutdown"]]
    <2>1. /\ [worker[w] EXCEPT !.at = "shutdown"] \in Records
          /\ [worker[w] EXCEPT !.at = "shutdown"].at = "shutdown"
          /\ [worker[w] EXCEPT !.at = "shutdown"].login = worker[w].login
      BY <1>1 DEF Records, Steps
    <2> QED
      BY <1>1, <1>2, <1>4, <2>1, Onward
  <1> QED
    BY <1>3, <1>4 DEF StopIfIdle, Goto, Return

LEMMA ShutdownInv == ASSUME SignInv, NEW w \in Workers, Shutdown(w) PROVE SignInv'
  BY Onward DEF Shutdown, At, Return

LEMMA ResultInv == ASSUME SignInv, NEW w \in Workers, Result(w) PROVE SignInv'
  <1> DEFINE l == worker[w].login
             r == [worker[w] EXCEPT !.at = "idle"]
  <1>1. worker[w] # None /\ worker[w].at = "result" /\ worker[w] \in Records /\ l \in Logins
    BY DEF Result, At, SignInv, Shapes, Records
  <1>2. r \in Records /\ r.login = l /\ r.at = "idle"
    BY <1>1 DEF Records, Steps
  <1>3. /\ worker' = [worker EXCEPT ![w] = r]
        /\ results' = [results EXCEPT ![l] = time + BrowserTTL]
        /\ UNCHANGED <<browser, started, exchanged, saves>>
    BY DEF Result, Goto, Login
  <1>4. OnWay(w, l) /\ l \notin Headless /\ started[l] # None
    BY <1>1 DEF OnWay, SignInv, InFlow
  <1> HIDE DEF r
  <1>5. \A v \in Workers, k \in Logins : OnWay(v, k)' => OnWay(v, k) /\ v # w
    BY <1>2, <1>3, Moved DEF OnWay
  <1>6. Shapes'
    BY <1>2, <1>3, Moved DEF SignInv, Shapes
  <1>7. \A v \in Workers : InFlow(v)'
    BY <1>2, <1>3, Moved DEF SignInv, InFlow
  <1>8. ASSUME NEW k \in Logins PROVE Once(k)' /\ TakenOnce(k)'
    <2>1. CASE k = l
      BY <1>3, <1>4, <1>5, <2>1 DEF SignInv, Once, TakenOnce
    <2>2. CASE k # l
      <3>1. results'[k] = results[k]
        BY <1>3, <2>2 DEF SignInv, Shapes
      <3> QED
        BY <1>3, <1>5, <2>2, <3>1, Elsewhere
    <2> QED
      BY <2>1, <2>2
  <1> QED
    BY <1>6, <1>7, <1>8 DEF SignInv

-----------------------------------------------------------------------------

LEMMA FinishInv ==
    ASSUME SignInv, NEW w \in Workers, NEW l \in Logins, Finish(w, l)
    PROVE  SignInv'
  <1> DEFINE r == [at |-> "save", login |-> l]
  <1>1. /\ started[l] # None /\ l \notin Headless
        /\ browser' = Live(browser) /\ results' = [Live(results) EXCEPT ![l] = None]
        /\ UNCHANGED <<started, exchanged, saves>>
    BY DEF Finish, ResultTaken
  <1>2. r \in Records /\ r.login = l /\ r.at = "save"
    BY DEF Records, Steps
  <1> HIDE DEF r
  <1>3. \/ worker' = worker
        \/ results[l] # None /\ worker[w] = None /\ worker' = [worker EXCEPT ![w] = r]
    BY LiveShrinks DEF Finish, Begin, r
  <1>4. /\ \A k \in Logins : browser'[k] \in {browser[k], None} /\ results'[k] \in {results[k], None}
        /\ results'[l] = None
    <2>1. \A k \in Logins \ {l} : results'[k] = Live(results)[k]
      BY <1>1 DEF Live
    <2>2. results'[l] = None
      BY <1>1 DEF Live
    <2> QED
      BY <1>1, <2>1, <2>2, LiveShrinks
  <1>5. Shapes'
    BY <1>1, <1>2, <1>3, Moved DEF SignInv, Shapes, Live
  <1>6. \A v \in Workers : InFlow(v)'
    BY <1>1, <1>2, <1>3, Moved DEF SignInv, InFlow
  <1>7. ASSUME NEW k \in Logins PROVE Once(k)' /\ TakenOnce(k)'
    <2>1. CASE k = l /\ worker' # worker
      <3>1. browser[l] = None /\ saves[l] = 0 /\ \A v \in Workers : ~OnWay(v, l)
        BY <1>3, <2>1 DEF SignInv, Once
      <3>2. \A v \in Workers : OnWay(v, l)' => v = w
        BY <1>2, <1>3, <2>1, <3>1, Moved
      <3> QED
        BY <1>1, <1>4, <2>1, <3>1, <3>2 DEF Once, TakenOnce
    <2>2. CASE k # l \/ worker' = worker
      <3>1. \A v \in Workers : OnWay(v, k)' => OnWay(v, k)
        BY <1>2, <1>3, <2>2, Moved DEF OnWay
      <3> QED
        BY <1>1, <1>4, <3>1, Elsewhere
    <2> QED
      BY <2>1, <2>2
  <1> QED
    BY <1>5, <1>6, <1>7 DEF SignInv

LEMMA SaveInv ==
    ASSUME SignInv, NEW w \in Workers, NEW ok \in BOOLEAN, Save(w, ok)
    PROVE  SignInv'
  <1>0. PICK l \in Logins : l = worker[w].login
    BY DEF Save, At, SignInv, Shapes, Records
  <1> DEFINE forget == [worker[w] EXCEPT !.at = "forget"]
  <1>1. /\ worker[w] # None /\ worker[w].at = "save" /\ worker[w] \in Records /\ l \in Logins
        /\ OnWay(w, l) /\ started[l] # None
    BY <1>0 DEF Save, At, SignInv, Shapes, Records, InFlow, OnWay
  <1>2. forget \in Records /\ forget.login = l /\ forget.at = "forget"
    BY <1>0, <1>1 DEF Records, Steps
  <1>3. UNCHANGED <<browser, results, started, exchanged>>
    BY DEF Save
  <1> HIDE DEF forget
  <1>4. PICK r \in {None, forget} : worker' = [worker EXCEPT ![w] = r]
    BY DEF Save, Goto, Return, Login, forget
  <1>5. CASE ~ok
    <2>1. saves' = saves
      BY <1>5 DEF Save
    <2> QED
      BY <1>0, <1>1, <1>2, <1>3, <1>4, <2>1, Onward
  <1>6. CASE ok
    <2>1. saves[l] = 0 /\ browser[l] = None /\ results[l] = None
      BY <1>1 DEF SignInv, Once
    <2>2. saves' = [saves EXCEPT ![l] = 1]
      BY <1>0, <1>6, <2>1 DEF Save, Login
    <2>3. \A v \in Workers, k \in Logins : OnWay(v, k)' => OnWay(v, k) /\ v # w
      BY <1>2, <1>4, Moved DEF OnWay
    <2>4. Shapes'
      BY <1>2, <1>3, <1>4, <2>2, Moved DEF SignInv, Shapes
    <2>5. \A v \in Workers : InFlow(v)'
      BY <1>2, <1>3, <1>4, Moved DEF SignInv, InFlow
    <2>6. ASSUME NEW k \in Logins PROVE Once(k)' /\ TakenOnce(k)'
      <3>1. CASE k = l
        <4>1. \A v \in Workers : ~OnWay(v, l)'
          BY <1>1, <2>3 DEF SignInv, Once
        <4>2. l \in Headless => l \in exchanged
          BY <1>1 DEF SignInv, TakenOnce
        <4> QED
          BY <1>1, <1>3, <2>1, <3>1, <4>1, <4>2 DEF Once, TakenOnce
      <3>2. CASE k # l
        <4>1. saves'[k] = saves[k]
          BY <2>2, <3>2 DEF SignInv, Shapes
        <4> QED
          BY <1>3, <2>3, <4>1, Elsewhere
      <3> QED
        BY <3>1, <3>2
    <2> QED
      BY <2>4, <2>5, <2>6 DEF SignInv
  <1> QED
    BY <1>5, <1>6

-----------------------------------------------------------------------------

LEMMA StartHeadlessInv ==
    ASSUME SignInv, NEW w \in Workers, NEW l \in Logins, StartHeadless(w, l)
    PROVE  SignInv'
  <1>1. /\ l \in Headless
        /\ browser' = Live(browser) /\ results' = Live(results)
        /\ started[l] = None /\ started' = [started EXCEPT ![l] = time + HeadlessTTL]
        /\ UNCHANGED <<worker, exchanged, saves>>
    BY DEF StartHeadless
  <1>2. \A k \in Logins : started'[k] = started[k] \/ (started[k] = None /\ k \in Headless)
    BY <1>1 DEF SignInv, Shapes
  <1>3. Shapes'
    BY <1>1 DEF SignInv, Shapes, Live
  <1>4. ASSUME NEW v \in Workers PROVE InFlow(v)'
    <2>1. worker[v] # None => worker[v].login \in Logins
      BY DEF SignInv, Shapes, Records
    <2> QED
      BY <1>1, <1>2, <2>1 DEF SignInv, InFlow
  <1>5. ASSUME NEW k \in Logins PROVE Once(k)' /\ TakenOnce(k)'
    <2>1. browser'[k] \in {browser[k], None} /\ results'[k] \in {results[k], None}
      BY <1>1, LiveShrinks
    <2>2. \A v \in Workers : OnWay(v, k)' => OnWay(v, k)
      BY <1>1 DEF OnWay
    <2> QED
      BY <1>1, <1>2, <2>1, <2>2, Elsewhere
  <1> QED
    BY <1>3, <1>4, <1>5 DEF SignInv

LEMMA PollHeadlessInv ==
    ASSUME SignInv, NEW w \in Workers, NEW l \in Logins, PollHeadless(w, l)
    PROVE  SignInv'
  <1> DEFINE r == [at |-> "ask", login |-> l]
  <1>1. /\ started[l] # None /\ l \in Headless
        /\ UNCHANGED <<browser, results, started, exchanged, saves>>
    BY DEF PollHeadless
  <1>2. r \in Records /\ r.login = l /\ r.at = "ask"
    BY DEF Records, Steps
  <1> HIDE DEF r
  <1>3. worker' = worker \/ (worker[w] = None /\ worker' = [worker EXCEPT ![w] = r])
    BY DEF PollHeadless, Begin, r
  <1>4. Shapes'
    BY <1>1, <1>2, <1>3, Moved DEF SignInv, Shapes
  <1>5. \A v \in Workers : InFlow(v)'
    BY <1>1, <1>2, <1>3, Moved DEF SignInv, InFlow
  <1>6. \A v \in Workers, k \in Logins : OnWay(v, k)' => OnWay(v, k)
    BY <1>2, <1>3, Moved DEF OnWay
  <1>7. \A k \in Logins : Once(k)' /\ TakenOnce(k)'
    BY <1>1, <1>6, Elsewhere
  <1> QED
    BY <1>4, <1>5, <1>7 DEF SignInv

LEMMA AskInv ==
    ASSUME SignInv, NEW w \in Workers, NEW confirmed \in BOOLEAN, Ask(w, confirmed)
    PROVE  SignInv'
  <1>0. PICK l \in Logins : l = worker[w].login
    BY DEF Ask, At, SignInv, Shapes, Records
  <1> DEFINE r == [worker[w] EXCEPT !.at = "save"]
  <1>1. /\ worker[w] # None /\ worker[w].at = "ask" /\ worker[w] \in Records /\ l \in Logins
        /\ l \in Headless /\ started[l] # None
    BY <1>0 DEF Ask, At, SignInv, Shapes, Records, InFlow
  <1>2. r \in Records /\ r.login = l /\ r.at = "save"
    BY <1>0, <1>1 DEF Records, Steps
  <1>3. UNCHANGED <<browser, results, started, saves>>
    BY DEF Ask
  <1> HIDE DEF r
  <1>4. CASE Return(w)
    <2>1. worker' = [worker EXCEPT ![w] = None] /\ exchanged \subseteq exchanged'
      BY <1>4 DEF Ask, Return
    <2> QED
      BY <1>1, <1>3, <2>1, <1>0, Onward
  <1>5. CASE confirmed /\ l \notin exchanged /\ Goto(w, "save")
    <2>1. worker' = [worker EXCEPT ![w] = r] /\ exchanged' = exchanged \cup {l}
      BY <1>0, <1>5 DEF Ask, Login, Goto, r
    <2>2. /\ browser[l] = None /\ results[l] = None /\ saves[l] = 0
          /\ \A v \in Workers : ~OnWay(v, l)
      BY <1>1, <1>5 DEF SignInv, TakenOnce
    <2>3. Shapes'
      BY <1>2, <1>3, <2>1, Moved DEF SignInv, Shapes
    <2>4. \A v \in Workers : InFlow(v)'
      BY <1>1, <1>2, <1>3, <2>1, Moved DEF SignInv, InFlow
    <2>5. ASSUME NEW k \in Logins PROVE Once(k)' /\ TakenOnce(k)'
      <3>1. CASE k = l
        <4>1. \A v \in Workers : OnWay(v, l)' => v = w
          BY <2>1, <2>2, Moved, <1>2
        <4> QED
          BY <1>1, <1>3, <2>1, <2>2, <3>1, <4>1 DEF Once, TakenOnce
      <3>2. CASE k # l
        <4>1. \A v \in Workers : OnWay(v, k)' => OnWay(v, k)
          BY <1>2, <2>1, <3>2, Moved DEF OnWay
        <4> QED
          BY <1>3, <2>1, <4>1, Elsewhere
      <3> QED
        BY <3>1, <3>2
    <2> QED
      BY <2>3, <2>4, <2>5 DEF SignInv
  <1> QED
    BY <1>0, <1>4, <1>5 DEF Ask, Login

LEMMA ForgetInv == ASSUME SignInv, NEW w \in Workers, Forget(w) PROVE SignInv'
  BY Onward DEF Forget, At, Return

LEMMA StutterInv ==
    ASSUME SignInv, UNCHANGED <<browser, results, worker, started, exchanged, saves>>
    PROVE  SignInv'
  BY DEF SignInv, Shapes, InFlow, Once, TakenOnce, OnWay

-----------------------------------------------------------------------------

(* The inductive invariant: a login is in one place at any moment.          *)
THEOREM SignInInvariant == Spec => []SignInv
  <1>1. SignInv /\ [Next]_vars => SignInv'
    <2> SUFFICES ASSUME SignInv, [Next]_vars PROVE SignInv'
      OBVIOUS
    <2>1. ASSUME NEW w \in Workers, BrowserStep(w) PROVE SignInv'
      <3>1. ASSUME NEW l \in Logins, Ensure(w, l) PROVE SignInv'
        BY <3>1, EnsureInv
      <3>2. ASSUME NEW l \in Logins, Callback(w, l) PROVE SignInv'
        BY <3>2, CallbackInv
      <3>3. ASSUME NEW l \in Logins, Finish(w, l) PROVE SignInv'
        BY <3>3, FinishInv
      <3>4. CASE Register(w)
        BY <3>4, RegisterInv
      <3>5. CASE Result(w)
        BY <3>5, ResultInv
      <3>6. CASE StopIfIdle(w)
        BY <3>6, StopIfIdleInv
      <3>7. CASE Shutdown(w)
        BY <3>7, ShutdownInv
      <3>8. ASSUME NEW ok \in BOOLEAN, Exchange(w, ok) PROVE SignInv'
        BY <3>8, ExchangeInv
      <3>9. ASSUME NEW ok \in BOOLEAN, Save(w, ok) PROVE SignInv'
        BY <3>9, SaveInv
      <3> QED
        BY <2>1, <3>1, <3>2, <3>3, <3>4, <3>5, <3>6, <3>7, <3>8, <3>9 DEF BrowserStep
    <2>2. ASSUME NEW w \in Workers, HeadlessStep(w) PROVE SignInv'
      <3>1. ASSUME NEW l \in Logins, StartHeadless(w, l) PROVE SignInv'
        BY <3>1, StartHeadlessInv
      <3>2. ASSUME NEW l \in Logins, PollHeadless(w, l) PROVE SignInv'
        BY <3>2, PollHeadlessInv
      <3>3. ASSUME NEW confirmed \in BOOLEAN, Ask(w, confirmed) PROVE SignInv'
        BY <3>3, AskInv
      <3>4. CASE Forget(w)
        BY <3>4, ForgetInv
      <3> QED
        BY <2>2, <3>1, <3>2, <3>3, <3>4 DEF HeadlessStep
    <2>3. CASE Tick \/ UNCHANGED vars
      BY <2>3, StutterInv DEF Tick, vars
    <2> QED
      BY <2>1, <2>2, <2>3 DEF Next
  <1> QED
    BY <1>1, InitInv, PTL DEF Spec

(* A set of which any two members are equal has one member at most.         *)
LEMMA AtMostOne ==
    ASSUME NEW S, \A x, y \in S : x = y
    PROVE  Cardinality(S) \in {0, 1} /\ (Cardinality(S) = 1 => S # {})
  <1>1. CASE S = {}
    BY <1>1, FS_EmptySet
  <1>2. CASE S # {}
    <2>1. PICK x : x \in S
      BY <1>2
    <2>2. S = {x}
      BY <2>1
    <2> QED
      BY <2>2, FS_Singleton, <1>2
  <1> QED
    BY <1>1, <1>2

(* However callbacks, polls, expiry and failures interleave, the state of a  *)
(* login is used once (docs/security.md, openai_auth.go).                   *)
THEOREM StateUsedOnce == Spec => []SingleUse
  <1>1. SignInv => SavedOnce
    BY DEF SignInv, Shapes, SavedOnce
  <1>2. SignInv => TokensInOnePlace
    <2> SUFFICES ASSUME SignInv, NEW l \in Logins \ Headless
                 PROVE  Cardinality({w \in Workers : \E s \in {"exchange", "result", "save"} : At(w, s) /\ Login(w) = l})
                          + (IF browser[l] = None THEN 0 ELSE 1) + (IF results[l] = None THEN 0 ELSE 1) <= 1
      BY DEF TokensInOnePlace
    <2> DEFINE busy == {w \in Workers : \E s \in {"exchange", "result", "save"} : At(w, s) /\ Login(w) = l}
    <2>1. \A w \in busy : w \in Workers /\ OnWay(w, l)
      BY DEF At, Login, OnWay
    <2>2. \A v, w \in busy : v = w
      BY <2>1 DEF SignInv, Once
    <2>3. busy # {} => browser[l] = None /\ results[l] = None
      BY <2>1 DEF SignInv, Once
    <2>4. browser[l] = None \/ results[l] = None
      BY DEF SignInv, Once
    <2>5. Cardinality(busy) \in {0, 1} /\ (Cardinality(busy) = 1 => busy # {})
      <3> HIDE DEF busy
      <3> QED
        BY <2>2, AtMostOne
    <2> HIDE DEF busy
    <2>6. Cardinality(busy) + (IF browser[l] = None THEN 0 ELSE 1) + (IF results[l] = None THEN 0 ELSE 1) <= 1
      BY <2>3, <2>4, <2>5
    <2> QED
      BY <2>6 DEF busy
  <1> QED
    BY <1>1, <1>2, SignInInvariant, PTL DEF SingleUse
=============================================================================
