---------------------------- MODULE DockerControl ----------------------------
(***************************************************************************)
(* Starting, stopping and restarting one container:                        *)
(* internal/adapters/docker, live.go (the Unraid API), ssh.go and the      *)
(* LargestListClient of docker.go that falls back from one to the other.   *)
(*                                                                         *)
(* A request to Unraid can be answered, refused, lost, or time out, which  *)
(* the client reports as a success.  The caller's context can be cancelled *)
(* at any moment, in the middle of a restart that is made of two requests. *)
(***************************************************************************)
EXTENDS Integers

CONSTANTS
    Callers,        \* handlers that control the container
    MaxFailures,    \* bound on answers that are in doubt, refused or unreadable
    MaxCalls,       \* bound on calls
    None

\* What an instance must respect; the module that makes it assumes this.
DockerAssumption == MaxFailures \in Nat /\ MaxCalls \in Nat

VARIABLES
    running,        \* the container runs
    site,           \* what Unraid offers: a restart mutation, and access by SSH
    late,           \* mutations sent in doubt, which may still be carried out
    call,           \* per caller, its call in progress or last returned, or None
    failures,
    calls

vars == <<running, site, late, call, failures, calls>>

Init ==
    /\ running \in BOOLEAN
    /\ site \in [restart : BOOLEAN, ssh : BOOLEAN]
    /\ late = {}
    /\ call = [c \in Callers |-> None]
    /\ failures = 0
    /\ calls = 0

At(c, at) == call[c] # None /\ call[c].at = at
InCall(c) == call[c] # None /\ call[c].at # "returned"

Supported(m) == m = "restart" => site.restart

\* What a mutation leaves behind.
Effect(m) == m # "stop"

-----------------------------------------------------------------------------
(* One request.                                                            *)

\* The answers of graphqlVariables and runContainerMutation.
\*   done        - carried out
\*   timeout     - Client.Timeout exceeded while awaiting headers
\*   lost        - a network error, a cancelled context, a 404 or a 5xx
\*   unsupported - a schema error: there is no such mutation
\*   refused     - any other GraphQL error or status
\*   unreadable  - carried out, and the answer could not be read
Answers(m) ==
    IF Supported(m) THEN {"done", "timeout", "lost", "refused", "unreadable"}
    ELSE {"unsupported", "timeout", "lost", "refused"}

\* Mutation: every failed request may have been accepted.
ErrorIfKnown(answer) == IF answer = "unsupported" THEN "fallbackable" ELSE "none"

\* markFallbackable; graphQLMutationMayHaveBeenAccepted takes a timeout for sent.
ErrorOf(answer) ==
    CASE answer \in {"done", "timeout"} -> "none"
      [] answer \in {"lost", "unsupported"} -> "fallbackable"
      [] OTHER -> "plain"

\* The container was touched on behalf of c: other calls, returned ones too, no
\* longer speak for its state.
Touch(c) ==
    [d \in Callers |-> IF d = c \/ call[d] = None THEN call[d] ELSE [call[d] EXCEPT !.alone = FALSE]]

\* Caller c's call after a request for m was answered so.
Requested(c, m, answer) ==
    [call[c] EXCEPT !.alone = @ /\ answer \notin {"timeout", "lost"},
                    !.stopped = IF m = "stop" THEN answer = "done" ELSE @,
                    !.startSent = m # "stop"]

\* The request itself, in a context that may be cancelled, and what it does to the
\* container; the call goes on as next says.
Request(c, m, cancelled, next(_, _)) ==
    \E answer \in IF cancelled THEN {"lost"} ELSE Answers(m) :
        LET record == Requested(c, m, answer)
        IN  /\ failures' = IF cancelled \/ answer \in {"done", "unsupported"} THEN failures ELSE failures + 1
            /\ failures' <= MaxFailures
            /\ late' = IF answer \in {"timeout", "lost"} /\ Supported(m) THEN late \cup {m} ELSE late
            /\ running' = IF answer \in {"done", "unreadable"} THEN Effect(m) ELSE running
            /\ call' = [Touch(c) EXCEPT ![c] = next(record, answer)]
            /\ UNCHANGED <<site, calls>>

\* Unraid carries out a mutation nobody waits for any more, or never does.
Late(m) ==
    /\ m \in late /\ late' = late \ {m}
    /\ \/ running' = Effect(m) /\ call' = [c \in Callers |-> IF call[c] = None THEN None ELSE [call[c] EXCEPT !.alone = FALSE]]
       \/ UNCHANGED <<running, call>>
    /\ UNCHANGED <<site, failures, calls>>

-----------------------------------------------------------------------------
(* LargestListClient.ControlContainer and UnraidLiveClient.ControlContainer *)

\* A call goes to the API or, for an app listed over SSH, to SSH at once.
Control(c, action, at) ==
    /\ ~InCall(c) /\ calls < MaxCalls
    /\ at = "ssh" => site.ssh
    /\ calls' = calls + 1
    /\ call' = [call EXCEPT ![c] =
            [action |-> action, at |-> at, cancelled |-> FALSE, error |-> "none",
             alone |-> \A d \in Callers : ~InCall(d), stopped |-> FALSE, startSent |-> FALSE]]
    /\ UNCHANGED <<running, site, late, failures>>

Cancel(c) ==
    /\ InCall(c) /\ ~call[c].cancelled
    /\ call' = [call EXCEPT ![c].cancelled = TRUE]
    /\ UNCHANGED <<running, site, late, failures, calls>>

\* The primary returns: an error that allows it is taken to SSH.
Return(record, error) ==
    [record EXCEPT !.at = IF error = "fallbackable" /\ site.ssh THEN "ssh" ELSE "returned", !.error = error]

\* A restart mutation the schema lacks becomes a stop and a start.
AfterMutation(record, answer) ==
    IF record.action = "restart" /\ answer = "unsupported"
    THEN [record EXCEPT !.at = "stop"]
    ELSE Return(record, ErrorOf(answer))

Mutate(c) == At(c, "api") /\ Request(c, call[c].action, call[c].cancelled, AfterMutation)

\* runStopStartRestart.
AfterStop(record, answer) ==
    IF ErrorOf(answer) = "none" THEN [record EXCEPT !.at = "pause"] ELSE Return(record, ErrorOf(answer))

Stop(c) == At(c, "stop") /\ Request(c, "stop", call[c].cancelled, AfterStop)

\* Mutation: a request cancelled in the pause returns at once.
PauseAbandoned(record) ==
    IF record.cancelled THEN Return(record, "plain") ELSE [record EXCEPT !.at = "start"]

\* The pause of a second ends by its timer, or by the context; then the start is
\* sent in a context of its own.
Pause(record) ==
    IF record.cancelled THEN [record EXCEPT !.at = "recover", !.error = "plain"]
    ELSE [record EXCEPT !.at = "start"]

EndPause(c) ==
    /\ At(c, "pause")
    /\ call' = [call EXCEPT ![c] = Pause(call[c])]
    /\ UNCHANGED <<running, site, late, failures, calls>>

AfterStart(record, answer) ==
    IF ErrorOf(answer) = "none" THEN Return(record, "none")
    ELSE [record EXCEPT !.at = "recover", !.error = ErrorOf(answer)]

Start(c) == At(c, "start") /\ Request(c, "start", call[c].cancelled, AfterStart)

\* The recovery start, not cancelled with the request.  Its error is joined to the
\* one there is; a recovery that worked still returns that one.
AfterRecovery(record, answer) ==
    Return(record, IF ErrorOf(answer) = "fallbackable" THEN "fallbackable" ELSE record.error)

Recover(c) == At(c, "recover") /\ Request(c, "start", FALSE, AfterRecovery)

\* SSHClient.ControlContainer: docker start, stop or restart; run dies with the
\* context, or with its own timeout before or after the command did its work.
SSH(c) ==
    /\ At(c, "ssh")
    /\ \E error \in IF call[c].cancelled THEN {"plain"} ELSE {"none", "plain"},
          carriedOut \in IF call[c].cancelled THEN {FALSE} ELSE BOOLEAN :
        /\ error = "none" => carriedOut
        /\ failures' = IF error = "none" \/ call[c].cancelled THEN failures ELSE failures + 1
        /\ failures' <= MaxFailures
        /\ running' = IF carriedOut THEN Effect(call[c].action) ELSE running
        /\ call' = [Touch(c) EXCEPT ![c] = [call[c] EXCEPT
                !.at = "returned", !.error = error, !.startSent = @ \/ call[c].action # "stop"]]
    /\ UNCHANGED <<site, late, calls>>

Next ==
    \/ \E c \in Callers :
        \/ \E action \in {"start", "stop", "restart"}, at \in {"api", "ssh"} : Control(c, action, at)
        \/ Cancel(c) \/ Mutate(c) \/ Stop(c) \/ EndPause(c) \/ Start(c) \/ Recover(c) \/ SSH(c)
    \/ \E m \in late : Late(m)

Spec == Init /\ [][Next]_vars

-----------------------------------------------------------------------------

TypeOK ==
    /\ running \in BOOLEAN
    /\ late \subseteq {"start", "stop", "restart"}
    /\ \A c \in Callers : call[c] = None \/
        /\ call[c].at \in {"api", "stop", "pause", "start", "recover", "ssh", "returned"}
        /\ call[c].error \in {"none", "fallbackable", "plain"}
    /\ failures \in 0..MaxFailures
    /\ calls \in 0..MaxCalls

Records ==
    [action : {"start", "stop", "restart"},
     at : {"api", "stop", "pause", "start", "recover", "ssh", "returned"},
     cancelled : BOOLEAN, error : {"none", "fallbackable", "plain"},
     alone : BOOLEAN, stopped : BOOLEAN, startSent : BOOLEAN]

\* What a call in progress may still make of the properties below.
Owed(r, up) ==
    /\ r.at \in {"stop", "pause", "start", "recover"} => r.action = "restart"
    /\ r.at \in {"api", "stop"} => ~r.stopped
    /\ r.at = "recover" => r.error # "none"
    /\ r.at \in {"ssh", "returned"} /\ r.action = "restart" /\ r.stopped => r.startSent
    /\ r.at = "returned" /\ r.error = "none" /\ r.alone => up = Effect(r.action)

\* The inductive invariant.
ControlInv ==
    /\ running \in BOOLEAN
    /\ call \in [Callers -> Records \cup {None}]
    /\ \A c \in Callers : call[c] # None => Owed(call[c], running)

\* A restart whose stop was confirmed does not return before it has asked for a
\* start, whether the start is refused or lost or the request is cancelled in the
\* middle (runStopStartRestart).  Of a stop that was carried out and whose answer
\* could not be read this is not true: the call returns that error at once.
RestartStartsAgain ==
    \A c \in Callers :
        At(c, "returned") /\ call[c].action = "restart" /\ call[c].stopped => call[c].startSent

\* A control that reports success tells the truth about the container, unless one
\* of its requests timed out or was lost or another call touched the container: no
\* stopped container is reported as restarted (ControlContainer).
SuccessIsTrue ==
    \A c \in Callers :
        At(c, "returned") /\ call[c].error = "none" /\ call[c].alone => running = Effect(call[c].action)
=============================================================================
