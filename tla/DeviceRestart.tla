---------------------------- MODULE DeviceRestart ----------------------------
(***************************************************************************)
(* Restarting a UniFi device: the list an admin is offered, RestartDevice   *)
(* of internal/adapters/unifi/live.go, which asks UniFi again, and the      *)
(* verification afterwards (internal/server/probes.go).  Devices change     *)
(* their state, and UniFi stops answering, at any time in between.          *)
(***************************************************************************)
EXTENDS Integers, FiniteSets

CONSTANTS
    Devices, Gateways, Admins,
    Attempts,       \* agentRepairVerificationAttempts
    MaxChanges,     \* bound on changes of the network
    None

\* What an instance must respect; the module that makes it assumes this.
DeviceAssumption == Gateways \subseteq Devices /\ Attempts \in Nat \ {0} /\ MaxChanges \in Nat

VARIABLES
    state,          \* per device, what UniFi reports of it
    answering,      \* UniFi answers
    offered,        \* the devices an admin was last offered
    work,           \* per admin, a restart in progress or finished, or None
    changes

vars == <<state, answering, offered, work, changes>>

States == {"ONLINE", "OFFLINE", "UPDATING"}

Init ==
    /\ state = [d \in Devices |-> "ONLINE"]
    /\ answering = TRUE
    /\ offered = [a \in Admins |-> {}]
    /\ work = [a \in Admins |-> None]
    /\ changes = 0

\* isUniFiOnline: every state but ONLINE, CONNECTED, READY and none at all counts
\* as offline, an update too.
Online(d) == state[d] = "ONLINE"

\* The safety rule of RestartableDevices.
Restartable == {d \in Devices \ Gateways : ~Online(d)}

At(a, step) == work[a] # None /\ work[a].at = step

\* A device that was online during a restart in progress was not down all along;
\* what the properties need to know of a restart (history).
Watch(states) ==
    [a \in Admins |->
        IF work[a] = None THEN None
        ELSE [work[a] EXCEPT !.seenDown = @ \/ (work[a].at = "check" /\ states[work[a].device] # "ONLINE")]]

-----------------------------------------------------------------------------

\* unifiRestartableDevices
List(a) ==
    /\ answering
    /\ offered' = [offered EXCEPT ![a] = Restartable]
    /\ UNCHANGED <<state, answering, work, changes>>

\* unifiRestartDevice, for any device id.
Ask(a, d) ==
    /\ work[a] = None \/ At(a, "done")
    /\ work' = [work EXCEPT ![a] =
            [device |-> d, at |-> "check", tries |-> 0, outcome |-> "unconfirmed",
             seenDown |-> ~Online(d), sent |-> "never", seenUp |-> FALSE]]
    /\ UNCHANGED <<state, answering, offered, changes>>

\* Mutation: the list the admin saw is trusted.
OfferedStill(a) == offered[a]

\* RestartDevice lists again before it sends anything.
Eligible(a) == Restartable

Check(a) ==
    /\ At(a, "check")
    /\ work' = [work EXCEPT ![a].at =
            IF answering /\ work[a].device \in Eligible(a) THEN "send" ELSE "done"]
    /\ UNCHANGED <<state, answering, offered, changes>>

\* The POST.  Accepted, the device goes down, and may stay down; when the answer
\* is lost the request ends with an error.
Send(a) ==
    /\ At(a, "send")
    /\ IF answering
       THEN /\ state' = [state EXCEPT ![work[a].device] = "OFFLINE"]
            /\ \E next \in {"verify", "done"} :
                  work' = [Watch(state') EXCEPT ![a].at = next, ![a].sent = state[work[a].device]]
       ELSE /\ work' = [work EXCEPT ![a].at = "done"] /\ UNCHANGED state
    /\ UNCHANGED <<answering, offered, changes>>

\* DeviceOnline.
Reported(d) == CASE ~answering -> "error" [] answering /\ Online(d) -> "online" [] OTHER -> "offline"

\* verifyUniFiRestartOutcome, one attempt.
Verify(a) ==
    /\ At(a, "verify")
    /\ LET report == Reported(work[a].device)
           last == work[a].tries + 1 = Attempts
       IN work' = [work EXCEPT ![a].tries = @ + 1,
            ![a].outcome = CASE report = "online" -> "recovered" [] report = "offline" -> "still offline" [] OTHER -> @,
            ![a].seenUp = @ \/ (answering /\ Online(work[a].device)),
            ![a].at = IF report = "online" \/ last THEN "done" ELSE "verify"]
    /\ UNCHANGED <<state, answering, offered, changes>>

\* The request is cancelled between two attempts.
Cancel(a) ==
    /\ At(a, "verify")
    /\ work' = [work EXCEPT ![a].at = "done"]
    /\ UNCHANGED <<state, answering, offered, changes>>

NetworkChanges ==
    /\ changes < MaxChanges /\ changes' = changes + 1
    /\ \/ \E d \in Devices, s \in States : state' = [state EXCEPT ![d] = s] /\ UNCHANGED answering
       \/ answering' = ~answering /\ UNCHANGED state
    /\ work' = Watch(state')
    /\ UNCHANGED offered

Next ==
    \/ \E a \in Admins :
        \/ List(a) \/ Check(a) \/ Send(a) \/ Verify(a) \/ Cancel(a)
        \/ \E d \in Devices : Ask(a, d)
    \/ NetworkChanges

Spec == Init /\ [][Next]_vars

-----------------------------------------------------------------------------

TypeOK ==
    /\ state \in [Devices -> States]
    /\ answering \in BOOLEAN
    /\ offered \in [Admins -> SUBSET Devices]
    /\ \A a \in Admins : work[a] = None \/ (work[a].tries \in 0..Attempts /\ work[a].device \in Devices)
    /\ changes \in 0..MaxChanges

\* However old the list it was picked from, a device is only restarted if UniFi
\* reported it down at some moment after the admin asked; one that had come back
\* by then is left alone (the comment on RestartDevice).
StaleListHarmless ==
    \A a \in Admins : work[a] # None /\ work[a].sent # "never" => work[a].seenDown

\* A restart is reported as recovered only on an answer that says so, given after
\* the restart was accepted: an unreachable UniFi is neither success nor failure
\* (the comment on verifyUniFiRestartOutcome).
RecoveryWasSeen ==
    \A a \in Admins : work[a] # None /\ work[a].outcome = "recovered" => work[a].seenUp

\* internal/adapters/unifi/live.go:641 - a device must be reported OFFLINE to be
\* restarted.
OnlyOfflineRestarted ==
    \A a \in Admins : work[a] # None => work[a].sent \in {"never", "OFFLINE"}

\* A restart is sent, and called a success, only on an answer of UniFi that was
\* given while the admin's request was being served.
RestartsBacked == StaleListHarmless /\ RecoveryWasSeen
=============================================================================
