------------------------ MODULE DeviceRestart_proofs ------------------------
(***************************************************************************)
(* Restarts of UniFi devices, for every set of devices and admins, every    *)
(* number of attempts and however often the network changes: nothing is     *)
(* sent to a device that was up all the while the request was served.        *)
(***************************************************************************)
EXTENDS DeviceRestart, TLAPS

\* A restart in progress or finished.
Work == [device : Devices, at : {"check", "send", "verify", "done"}, tries : Int,
         outcome : {"unconfirmed", "recovered", "still offline"},
         seenDown : BOOLEAN, sent : States \cup {"never"}, seenUp : BOOLEAN]

Shapes ==
    /\ state \in [Devices -> States]
    /\ work \in [Admins -> Work \cup {None}]

\* What a restart knows at each of its steps: before the check, that a device
\* which is down has been seen down; from the check on, that it was seen down;
\* and nothing has an outcome before it is verified.
Known(w, states) ==
    /\ w.at = "check" /\ states[w.device] # "ONLINE" => w.seenDown
    /\ w.at \in {"check", "send"} => w.sent = "never" /\ w.outcome = "unconfirmed"
    /\ w.at \in {"send", "verify"} => w.seenDown
    /\ w.sent # "never" => w.seenDown
    /\ w.outcome = "recovered" => w.seenUp

RestartInv == Shapes /\ \A a \in Admins : work[a] # None => Known(work[a], state)

-----------------------------------------------------------------------------

(* Whatever the network turns into, Watch keeps what a restart knows true.  *)
LEMMA WatchKnown ==
    ASSUME RestartInv, NEW states \in [Devices -> States],
           NEW a \in Admins, work[a] # None
    PROVE  Watch(states)[a] \in Work /\ Known(Watch(states)[a], states)
  <1>1. work[a] \in Work /\ Known(work[a], state)
    BY DEF RestartInv, Shapes
  <1>2. Watch(states)[a] =
          [work[a] EXCEPT !.seenDown = @ \/ (work[a].at = "check" /\ states[work[a].device] # "ONLINE")]
    BY DEF Watch
  <1> QED
    BY <1>1, <1>2 DEF Work, Known

LEMMA WatchShape ==
    ASSUME RestartInv, NEW states \in [Devices -> States]
    PROVE  Watch(states) \in [Admins -> Work \cup {None}]
  BY WatchKnown DEF Watch

(* One admin's step: its own restart is as it should be, the others and the *)
(* network are left alone.                                                  *)
LEMMA OneStep ==
    ASSUME RestartInv, NEW a \in Admins, NEW w \in Work, Known(w, state),
           work' = [work EXCEPT ![a] = w], UNCHANGED state
    PROVE  RestartInv'
  BY DEF RestartInv, Shapes

-----------------------------------------------------------------------------

LEMMA InitInv == Init => RestartInv
  BY DEF Init, RestartInv, Shapes, States

LEMMA ListInv == ASSUME RestartInv, NEW a \in Admins, List(a) PROVE RestartInv'
  BY DEF RestartInv, Shapes, Known, List

LEMMA AskInv ==
    ASSUME RestartInv, NEW a \in Admins, NEW d \in Devices, Ask(a, d)
    PROVE  RestartInv'
  <1> DEFINE w == [device |-> d, at |-> "check", tries |-> 0, outcome |-> "unconfirmed",
                   seenDown |-> ~Online(d), sent |-> "never", seenUp |-> FALSE]
  <1>1. (~Online(d)) \in BOOLEAN
    BY DEF Online
  <1>2. w \in Work
    BY <1>1 DEF Work
  <1>3. Known(w, state)
    BY DEF Known, Online
  <1>4. work' = [work EXCEPT ![a] = w] /\ UNCHANGED state
    BY DEF Ask
  <1> QED
    BY <1>2, <1>3, <1>4, OneStep

LEMMA CheckInv == ASSUME RestartInv, NEW a \in Admins, Check(a) PROVE RestartInv'
  <1>1. work[a] # None /\ work[a].at = "check" /\ work[a] \in Work /\ Known(work[a], state)
    BY DEF Check, At, RestartInv, Shapes
  <1>2. PICK step \in {"send", "done"} :
          /\ work' = [work EXCEPT ![a] = [work[a] EXCEPT !.at = step]]
          /\ step = "send" => state[work[a].device] # "ONLINE"
    BY DEF Check, Eligible, Restartable, Online
  <1>3. [work[a] EXCEPT !.at = step] \in Work /\ Known([work[a] EXCEPT !.at = step], state)
    BY <1>1, <1>2 DEF Work, Known
  <1>4. UNCHANGED state
    BY DEF Check
  <1> QED
    BY <1>2, <1>3, <1>4, OneStep

LEMMA SendInv == ASSUME RestartInv, NEW a \in Admins, Send(a) PROVE RestartInv'
  <1>1. work[a] # None /\ work[a].at = "send" /\ work[a] \in Work /\ Known(work[a], state)
    BY DEF Send, At, RestartInv, Shapes
  <1>2. CASE answering
    <2>1. state' = [state EXCEPT ![work[a].device] = "OFFLINE"]
      BY <1>2 DEF Send
    <2>2. state' \in [Devices -> States] /\ state[work[a].device] \in States
      BY <1>1, <2>1 DEF RestartInv, Shapes, States, Work
    <2>8. PICK next \in {"verify", "done"} :
              work' = [Watch(state') EXCEPT ![a].at = next, ![a].sent = state[work[a].device]]
      BY <1>2 DEF Send
    <2> DEFINE w == [Watch(state')[a] EXCEPT !.at = next, !.sent = state[work[a].device]]
    <2>3. work' = [Watch(state') EXCEPT ![a] = w]
      BY <2>2, <2>8, WatchShape
    <2>4. Watch(state')[a] = [work[a] EXCEPT !.seenDown = @ \/ FALSE]
      BY <1>1 DEF Watch
    <2>5. w \in Work /\ Known(w, state')
      BY <1>1, <2>2, <2>4 DEF Work, Known
    <2>6. work' \in [Admins -> Work \cup {None}]
      BY <2>2, <2>3, <2>5, WatchShape
    <2>7. ASSUME NEW b \in Admins, work'[b] # None PROVE Known(work'[b], state')
      <3>1. CASE b = a
        BY <2>2, <2>3, <2>5, <3>1, WatchShape
      <3>2. CASE b # a
        <4>1. work'[b] = Watch(state')[b]
          BY <2>2, <2>3, <3>2, WatchShape
        <4>2. work[b] # None
          BY <2>7, <4>1 DEF Watch
        <4> QED
          BY <2>2, <4>1, <4>2, WatchKnown
      <3> QED
        BY <3>1, <3>2
    <2> QED
      BY <2>2, <2>6, <2>7 DEF RestartInv, Shapes
  <1>3. CASE ~answering
    <2>1. work' = [work EXCEPT ![a] = [work[a] EXCEPT !.at = "done"]] /\ UNCHANGED state
      BY <1>3 DEF Send
    <2>2. [work[a] EXCEPT !.at = "done"] \in Work /\ Known([work[a] EXCEPT !.at = "done"], state)
      BY <1>1 DEF Work, Known
    <2> QED
      BY <2>1, <2>2, OneStep
  <1> QED
    BY <1>2, <1>3

LEMMA VerifyInv == ASSUME RestartInv, NEW a \in Admins, Verify(a) PROVE RestartInv'
  <1>1. work[a] # None /\ work[a].at = "verify" /\ work[a] \in Work /\ Known(work[a], state)
    BY DEF Verify, At, RestartInv, Shapes
  <1> DEFINE tries   == work[a].tries + 1
             report  == Reported(work[a].device)
             outcome == CASE report = "online" -> "recovered" [] report = "offline" -> "still offline" [] OTHER -> work[a].outcome
             up      == work[a].seenUp \/ (answering /\ Online(work[a].device))
             step    == IF report = "online" \/ tries = Attempts THEN "done" ELSE "verify"
             w       == [work[a] EXCEPT !.tries = tries, !.outcome = outcome, !.seenUp = up, !.at = step]
  <1>2. work' = [work EXCEPT ![a] = w] /\ UNCHANGED state
    BY DEF Verify
  <1>3. report = "online" => answering /\ Online(work[a].device)
    BY DEF Reported
  <1>4. tries \in Int /\ up \in BOOLEAN
    <2>1. work[a].tries \in Int
      BY <1>1 DEF Work
    <2>2. tries \in Int
      BY <2>1
    <2>3. up \in BOOLEAN
      OBVIOUS
    <2> QED
      BY <2>2, <2>3
  <1>5. outcome \in {"unconfirmed", "recovered", "still offline"} /\ step \in {"verify", "done"}
    BY <1>1 DEF Work
  <1>6. outcome = "recovered" => up
    BY <1>1, <1>3 DEF Known
  <1> HIDE DEF tries, outcome, up, step
  <1>7. w \in Work
    BY <1>1, <1>4, <1>5 DEF Work
  <1>8. Known(w, state)
    BY <1>1, <1>4, <1>5, <1>6 DEF Work, Known
  <1> QED
    BY <1>2, <1>7, <1>8, OneStep

LEMMA CancelInv == ASSUME RestartInv, NEW a \in Admins, Cancel(a) PROVE RestartInv'
  <1>1. work[a] # None /\ work[a].at = "verify" /\ work[a] \in Work /\ Known(work[a], state)
    BY DEF Cancel, At, RestartInv, Shapes
  <1>2. [work[a] EXCEPT !.at = "done"] \in Work /\ Known([work[a] EXCEPT !.at = "done"], state)
    BY <1>1 DEF Work, Known
  <1>3. work' = [work EXCEPT ![a] = [work[a] EXCEPT !.at = "done"]] /\ UNCHANGED state
    BY DEF Cancel
  <1> QED
    BY <1>2, <1>3, OneStep

LEMMA NetworkInv == ASSUME RestartInv, NetworkChanges PROVE RestartInv'
  <1>1. state' \in [Devices -> States]
    BY DEF NetworkChanges, RestartInv, Shapes
  <1>2. work' = Watch(state')
    BY DEF NetworkChanges
  <1>3. work' \in [Admins -> Work \cup {None}]
    BY <1>1, <1>2, WatchShape
  <1>4. ASSUME NEW a \in Admins, work'[a] # None PROVE Known(work'[a], state')
    <2>1. work[a] # None
      BY <1>2, <1>4 DEF Watch
    <2> QED
      BY <1>1, <1>2, <2>1, WatchKnown
  <1> QED
    BY <1>1, <1>3, <1>4 DEF RestartInv, Shapes

-----------------------------------------------------------------------------

(* The inductive invariant of RestartDevice and its verification.           *)
THEOREM RestartInvariant == Spec => []RestartInv
  <1>1. RestartInv /\ [Next]_vars => RestartInv'
    <2> SUFFICES ASSUME RestartInv, [Next]_vars PROVE RestartInv'
      OBVIOUS
    <2>1. ASSUME NEW a \in Admins, List(a) PROVE RestartInv'
      BY <2>1, ListInv
    <2>2. ASSUME NEW a \in Admins, Check(a) PROVE RestartInv'
      BY <2>2, CheckInv
    <2>3. ASSUME NEW a \in Admins, Send(a) PROVE RestartInv'
      BY <2>3, SendInv
    <2>4. ASSUME NEW a \in Admins, Verify(a) PROVE RestartInv'
      BY <2>4, VerifyInv
    <2>5. ASSUME NEW a \in Admins, Cancel(a) PROVE RestartInv'
      BY <2>5, CancelInv
    <2>6. ASSUME NEW a \in Admins, NEW d \in Devices, Ask(a, d) PROVE RestartInv'
      BY <2>6, AskInv
    <2>7. CASE NetworkChanges
      BY <2>7, NetworkInv
    <2>8. CASE UNCHANGED vars
      BY <2>8 DEF vars, RestartInv, Shapes, Known
    <2> QED
      BY <2>1, <2>2, <2>3, <2>4, <2>5, <2>6, <2>7, <2>8 DEF Next
  <1> QED
    BY <1>1, InitInv, PTL DEF Spec

(* However old the list a device was picked from, it is restarted only if   *)
(* it was down while the request was served, and called recovered only when *)
(* UniFi said so after the restart (RestartDevice, verifyUniFiRestartOutcome). *)
THEOREM RestartsAreBacked == Spec => []RestartsBacked
  <1>1. RestartInv => RestartsBacked
    BY DEF RestartInv, Known, RestartsBacked, StaleListHarmless, RecoveryWasSeen
  <1> QED
    BY <1>1, RestartInvariant, PTL
=============================================================================
