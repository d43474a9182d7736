---------------------------- MODULE ChatGPTTokens ----------------------------
(***************************************************************************)
(* The tokens of the ChatGPT connector: internal/llm/chatgpt.go, and the   *)
(* clients the server builds from the settings it has stored.              *)
(*                                                                         *)
(* A client keeps a refresh and an access token under its own mutex, which  *)
(* it holds while it asks OpenAI for the next access token.  OpenAI may      *)
(* replace the refresh token in its answer, and then takes the old one no    *)
(* more.  A client is replaced when the LLM settings are saved, and a review *)
(* by another model gets a client of its own; both start from the settings.  *)
(***************************************************************************)
EXTENDS Integers, FiniteSets

CONSTANTS
    Calls,          \* goroutines in Diagnose or ReviewAction
    Clients,        \* clients that can be built, each once
    Lifetime,       \* of an access token
    Margin,         \* the minute an access token must still have
    MaxTime,        \* bound on the clock
    MaxTokens,      \* bound on the refresh tokens OpenAI hands out
    MaxFailures,    \* bound on refreshes that fail on the way
    None

\* What an instance must respect; the module that makes it assumes this.
TokenAssumption ==
    /\ MaxTime \in Nat /\ MaxTokens \in Nat /\ MaxFailures \in Nat
    /\ Margin \in Nat /\ Lifetime \in Nat /\ Lifetime > Margin + 1
    /\ None \notin Calls /\ None \notin [refresh : Nat, ends : Int]

VARIABLES
    time,
    valid,      \* the refresh tokens OpenAI takes
    issued,     \* how many it has handed out
    stored,     \* the tokens in the settings: refresh, and when access ends
    client,     \* per client, its tokens, or None
    current,    \* the client in deps.LLM
    holder,     \* per client, the call that has its mutex
    call,       \* what each call is doing
    spent,      \* per client, refresh tokens it knows were replaced (history)
    failures

vars == <<time, valid, issued, stored, client, current, holder, call, spent, failures>>

\* NewChatGPTClient on the settings as they are
Built(k) == client' = [client EXCEPT ![k] = stored]

Init ==
    /\ time = 0 /\ valid = {1} /\ issued = 1
    /\ stored = [refresh |-> 1, ends |-> Lifetime]
    /\ \E k \in Clients :
        /\ current = k
        /\ client = [j \in Clients |-> IF j = k THEN stored ELSE None]
    /\ holder = [k \in Clients |-> None]
    /\ call = [c \in Calls |-> None]
    /\ spent = [k \in Clients |-> {}]
    /\ failures = 0

At(c, step) == call[c] # None /\ call[c].at = step
Client(c) == call[c].client
Return(c) == call' = [call EXCEPT ![c] = None]

-----------------------------------------------------------------------------
(* One call.                                                               *)

\* Diagnose looks at the refresh token before it has the mutex.
Waiting(k) == [at |-> "lock", client |-> k, refresh |-> client'[k].refresh]

\* llmRuntimeSnapshot hands out the client in force.
Begin(c) ==
    /\ call[c] = None
    /\ UNCHANGED client
    /\ call' = [call EXCEPT ![c] = Waiting(current)]
    /\ UNCHANGED <<time, valid, issued, stored, current, holder, spent, failures>>

\* actionAutoReviewClient: a review model of its own, a client of its own.
BeginReview(c, k) ==
    /\ call[c] = None /\ client[k] = None
    /\ Built(k)
    /\ call' = [call EXCEPT ![c] = Waiting(k)]
    /\ UNCHANGED <<time, valid, issued, stored, current, holder, spent, failures>>

\* Mutation: without the minute, a token is used that ends before it arrives.
FreshToTheEnd(tokens) == time < tokens.ends

Fresh(tokens) == time + Margin < tokens.ends

\* Mutation: the refresh token as Diagnose saw it before it had the mutex.
PresentedEarly(c) == call[c].refresh

Presented(c) == client[Client(c)].refresh

\* ensureAccessToken, up to the request
Ensure(c) ==
    /\ At(c, "lock") /\ holder[Client(c)] = None
    /\ IF Fresh(client[Client(c)])
       THEN /\ call' = [call EXCEPT ![c] = [at |-> "use", client |-> Client(c),
                                           ends |-> client[Client(c)].ends, since |-> time]]
            /\ UNCHANGED holder
       ELSE /\ holder' = [holder EXCEPT ![Client(c)] = c]
            /\ call' = [call EXCEPT ![c] = [at |-> "refresh", client |-> Client(c),
                                           refresh |-> Presented(c)]]
    /\ UNCHANGED <<time, valid, issued, stored, client, current, spent, failures>>

\* OpenAI replaces a refresh token.
Replace(token) ==
    /\ issued < MaxTokens /\ issued' = issued + 1
    /\ valid' = (valid \ {token}) \cup {issued'}

Unlock(c) == holder' = [holder EXCEPT ![Client(c)] = None]

\* OpenAI takes the token and answers, with a new refresh token or without.
Refreshed(c) ==
    LET k == Client(c) IN
    /\ At(c, "refresh") /\ call[c].refresh \in valid
    /\ \/ /\ client' = [client EXCEPT ![k].ends = time + Lifetime]
          /\ UNCHANGED <<valid, issued, spent>>
       \/ /\ Replace(call[c].refresh)
          /\ client' = [client EXCEPT ![k] = [refresh |-> issued', ends |-> time + Lifetime]]
          /\ spent' = [spent EXCEPT ![k] = @ \cup {call[c].refresh}]
    /\ call' = [call EXCEPT ![c] = [at |-> "use", client |-> k,
                                   ends |-> time + Lifetime, since |-> time]]
    /\ Unlock(c)
    /\ UNCHANGED <<time, stored, current, failures>>

\* OpenAI refuses a token it has replaced; or the answer does not arrive, and
\* whether OpenAI had replaced the token by then is open.  The call fails.
RefreshFails(c) ==
    /\ At(c, "refresh")
    /\ \/ call[c].refresh \notin valid /\ UNCHANGED <<valid, issued, failures>>
       \/ /\ failures < MaxFailures /\ failures' = failures + 1
          /\ \/ UNCHANGED <<valid, issued>>
             \/ call[c].refresh \in valid /\ Replace(call[c].refresh)
    /\ Unlock(c) /\ Return(c)
    /\ UNCHANGED <<time, stored, client, current, spent>>

Use(c) ==
    /\ At(c, "use")
    /\ Return(c)
    /\ UNCHANGED <<time, valid, issued, stored, client, current, holder, spent, failures>>

-----------------------------------------------------------------------------
(* The settings.                                                           *)

\* updateLLMSettings and a restart build the client in force anew; calls on
\* the client before it go on.
Rebuild(k) ==
    /\ client[k] = None
    /\ Built(k) /\ current' = k
    /\ UNCHANGED <<time, valid, issued, stored, holder, call, spent, failures>>

\* saveOpenAIChatGPTTokens: a new sign-in brings tokens of its own.
Connect(k) ==
    /\ client[k] = None /\ issued < MaxTokens
    /\ issued' = issued + 1 /\ valid' = valid \cup {issued'}
    /\ stored' = [refresh |-> issued', ends |-> time + Lifetime]
    /\ client' = [client EXCEPT ![k] = stored'] /\ current' = k
    /\ UNCHANGED <<time, holder, call, spent, failures>>

Tick ==
    /\ time < MaxTime /\ time' = time + 1
    /\ UNCHANGED <<valid, issued, stored, client, current, holder, call, spent, failures>>

Next ==
    \/ \E c \in Calls :
        \/ Begin(c) \/ Ensure(c) \/ Refreshed(c) \/ RefreshFails(c) \/ Use(c)
        \/ \E k \in Clients : BeginReview(c, k)
    \/ \E k \in Clients : Rebuild(k) \/ Connect(k)
    \/ Tick

Spec == Init /\ [][Next]_vars

-----------------------------------------------------------------------------

\* Calls that share a client share its refreshes: none presents a refresh
\* token whose replacement that client has been given.
ReplacedTokenUnused ==
    \A c \in Calls : At(c, "refresh") => call[c].refresh \notin spent[Client(c)]

\* A call that sends its access token within the margin sends one that OpenAI
\* still takes (ensureAccessToken keeps a minute in hand).
SentInTime ==
    \A c \in Calls : At(c, "use") /\ time <= call[c].since + Margin => time < call[c].ends

\* docs/llm-policy.md: the returned refresh and access tokens are stored as
\* settings.  While no refresh is under way, the token in the settings should
\* be one that OpenAI takes; a client keeps a replacement to itself.
ReplacementStored ==
    (\A c \in Calls : ~At(c, "refresh")) /\ failures = 0 => stored.refresh \in valid

=============================================================================
