---------------------------- MODULE StatusHistory ----------------------------
(***************************************************************************)
(* The status history: internal/history/recorder.go, fed by the refreshes  *)
(* of internal/server/server.go (the poller, and users who check again)    *)
(* and by the repairs of agent_repair.go, and written to the FileHistory-  *)
(* Store of internal/db/history.go.                                        *)
(*                                                                         *)
(* A refresh stamps its snapshot when it is complete and records it later, *)
(* after the rules and the notifications, under historyMu; a repair appends*)
(* an event of its own and overwrites the recorder, outside historyMu.     *)
(***************************************************************************)
EXTENDS Integers, FiniteSets

CONSTANTS
    Apps,           \* subjects that a snapshot may lack
    Infra,          \* subjects that every snapshot has
    Statuses,       \* statuses of a subject
    Unknown,        \* models.StatusUnknown
    Refreshers,     \* goroutines of refreshSnapshot(ctx, true)
    Repairs,        \* goroutines that verify a repair
    MaxPerSubject,  \* retention: events kept per subject
    MaxTime,        \* bound on snapshot times
    MaxChanges,     \* bound on status changes in the world
    MaxRepairs,     \* bound on repairs
    MaxOutages,     \* bound on Docker outages
    MaxFailures,    \* bound on failed appends
    MaxPrunes,      \* bound on the hourly age prunes that drop something
    MaxRestarts,    \* bound on restarts of the process
    None

ASSUME HistoryAssumption ==
    /\ Apps \cap Infra = {}
    /\ Unknown \in Statuses /\ None \notin Statuses
    /\ Refreshers \cap Repairs = {}
    /\ MaxPerSubject \in Nat \ {0}
    /\ \A bound \in {MaxTime, MaxChanges, MaxRepairs, MaxOutages, MaxFailures, MaxPrunes, MaxRestarts} :
           bound \in Nat

Subjects == Apps \cup Infra

VARIABLES
    world,      \* the status each subject has
    docker,     \* does the Docker collector answer?
    previous,   \* Recorder.previous: a status, or None for no entry
    events,     \* the store's events, of which At is unique per subject
    job,        \* what each refresh and each repair holds
    used,       \* how much of each bound is used up
    last        \* history: per subject, where the recorder's events left it,
                \* None when something else has moved the recorder since

vars == <<world, docker, previous, events, job, used, last>>

Jobs == Refreshers \cup Repairs

Init ==
    /\ world \in [Subjects -> Statuses \ {Unknown}]
    /\ docker = TRUE
    /\ previous = [s \in Subjects |-> None]
    /\ events = {}
    /\ job = [j \in Jobs |-> None]
    /\ used = [changes |-> 0, repairs |-> 0, outages |-> 0, failures |-> 0,
               prunes |-> 0, restarts |-> 0]
    /\ last = [s \in Subjects |-> None]

-----------------------------------------------------------------------------
(* Snapshots and events.                                                   *)

\* subjectsFromSnapshot of what collectSnapshot finds now: without Docker
\* there are no apps.
View == [s \in Subjects |-> IF s \in Apps /\ ~docker THEN None ELSE world[s]]

\* GeneratedAt: after every time that is still in use.
Times == {e.at : e \in events} \cup {job[j].at : j \in {i \in Jobs : job[i] # None}}
Now == IF Times = {} THEN 1 ELSE 1 + CHOOSE t \in Times : \A u \in Times : u <= t

Event(s, from, to, at) == [subject |-> s, from |-> from, to |-> to, at |-> at]

Newer(log, e) == {d \in log : d.subject = e.subject /\ d.at > e.at}

\* Mutation: one too many.
KeptOneMore(log) == {e \in log : Cardinality(Newer(log, e)) <= MaxPerSubject}

\* keepPerSubject: the newest of each subject.
Kept(log) == {e \in log : Cardinality(Newer(log, e)) < MaxPerSubject}

\* A subject that the snapshot lacks is recorded as unknown.
Seen(view, s) == IF view[s] = None THEN Unknown ELSE view[s]

\* Record: an event for every change of a subject that has a baseline.
Changes(view, at) ==
    {Event(s, previous[s], Seen(view, s), at) :
        s \in {t \in Subjects : previous[t] # None /\ previous[t] # Seen(view, t)}}

\* Mutation: an app that is gone keeps its entry.
AdvanceKeeping(view) == [s \in Subjects |-> IF view[s] = None THEN previous[s] ELSE view[s]]

\* Record: the snapshot becomes the baseline; an app it lacks loses its entry.
Advance(view) == view

-----------------------------------------------------------------------------
(* A refresh that processes its snapshot.                                  *)

Collect(r) ==
    /\ job[r] = None
    /\ Now <= MaxTime
    /\ job' = [job EXCEPT ![r] = [view |-> View, at |-> Now]]
    /\ UNCHANGED <<world, docker, previous, events, used, last>>

\* Append: the store's log, with the new events and without the surplus ones.
\* Once an hour the events older than a cutoff go as well.
Stored(log, prunes) ==
    \/ events' = Kept(log) /\ prunes = 0
    \/ \E cutoff \in Times : events' = {e \in Kept(log) : e.at >= cutoff} /\ prunes = 1

\* recordSnapshotHistory, all of it under historyMu: the recorder moves on, and
\* then the append may fail.
Record(r) ==
    /\ job[r] # None
    /\ LET view    == job[r].view
           changes == Changes(view, job[r].at)
           moved   == {e.subject : e \in changes}
           seeded  == {s \in Subjects : previous[s] = None /\ view[s] # None}
       IN  /\ previous' = Advance(view)
           /\ \/ \E prunes \in {0, 1} :
                     /\ used.prunes + prunes <= MaxPrunes
                     /\ Stored(events \cup changes, prunes)
                     /\ used' = [used EXCEPT !.prunes = @ + prunes]
                     /\ last' = [s \in Subjects |-> IF s \in moved THEN Seen(view, s)
                                                    ELSE IF s \in seeded THEN None ELSE last[s]]
              \/ /\ changes # {}
                 /\ used.failures < MaxFailures
                 /\ used' = [used EXCEPT !.failures = @ + 1]
                 /\ last' = [s \in Subjects |-> IF s \in moved \cup seeded THEN None ELSE last[s]]
                 /\ UNCHANGED events
    /\ job' = [job EXCEPT ![r] = None]
    /\ UNCHANGED <<world, docker>>

-----------------------------------------------------------------------------
(* A repair that verifies its outcome.                                     *)

\* before: the target's status in the snapshot that the repair was decided on.
BeginRepair(j, s) ==
    /\ job[j] = None
    /\ View[s] # None
    /\ used.repairs < MaxRepairs
    /\ used' = [used EXCEPT !.repairs = @ + 1]
    /\ job' = [job EXCEPT ![j] = [step |-> "verify", target |-> s, before |-> View[s],
                                  view |-> View, at |-> Now]]
    /\ UNCHANGED <<world, docker, previous, events, last>>

\* refreshSnapshot(ctx, false): a snapshot that is not recorded.
Verify(j) ==
    /\ job[j] # None /\ job[j].step = "verify"
    /\ job' = [job EXCEPT ![j].step = "append", ![j].view = View, ![j].at = Now]
    /\ UNCHANGED <<world, docker, previous, events, used, last>>

\* appendAgentRepairHistoryEvent and appendArrayActionHistoryEvent: the outcome
\* as an event; when it cannot be stored the recorder is left alone.
AppendOutcome(j) ==
    /\ job[j] # None /\ job[j].step = "append"
    /\ LET s == job[j].target
       IN  \/ /\ events' = Kept(events \cup {Event(s, job[j].before, Seen(job[j].view, s), job[j].at)})
              /\ last' = [last EXCEPT ![s] = None]
              /\ job' = [job EXCEPT ![j].step = "observe"]
              /\ UNCHANGED used
           \/ /\ used.failures < MaxFailures
              /\ used' = [used EXCEPT !.failures = @ + 1]
              /\ job' = [job EXCEPT ![j] = None]
              /\ UNCHANGED <<events, last>>
    /\ UNCHANGED <<world, docker, previous>>

\* Observe: the whole recorder is overwritten with the repair's snapshot.
Observe(j) ==
    /\ job[j] # None /\ job[j].step = "observe"
    /\ previous' = job[j].view
    /\ last' = [s \in Subjects |-> None]
    /\ job' = [job EXCEPT ![j] = None]
    /\ UNCHANGED <<world, docker, events, used>>

-----------------------------------------------------------------------------
(* What happens around it.                                                 *)

WorldChanges(s, status) ==
    /\ used.changes < MaxChanges
    /\ status # world[s]
    /\ world' = [world EXCEPT ![s] = status]
    /\ used' = [used EXCEPT !.changes = @ + 1]
    /\ UNCHANGED <<docker, previous, events, job, last>>

DockerFails ==
    /\ docker
    /\ used.outages < MaxOutages
    /\ docker' = FALSE
    /\ used' = [used EXCEPT !.outages = @ + 1]
    /\ UNCHANGED <<world, previous, events, job, last>>

DockerReturns ==
    /\ ~docker
    /\ docker' = TRUE
    /\ UNCHANGED <<world, previous, events, job, used, last>>

\* NewRecorder starts empty; the store loads what it has.
Restart ==
    /\ used.restarts < MaxRestarts
    /\ used' = [used EXCEPT !.restarts = @ + 1]
    /\ previous' = [s \in Subjects |-> None]
    /\ last' = [s \in Subjects |-> None]
    /\ job' = [j \in Jobs |-> None]
    /\ UNCHANGED <<world, docker, events>>

Refresh(r) == Collect(r) \/ Record(r)

Next ==
    \/ \E r \in Refreshers : Refresh(r)
    \/ \E j \in Repairs, s \in Subjects : BeginRepair(j, s)
    \/ \E j \in Repairs : Verify(j) \/ AppendOutcome(j) \/ Observe(j)
    \/ \E s \in Subjects, status \in Statuses : WorldChanges(s, status)
    \/ DockerFails \/ DockerReturns \/ Restart

Spec == Init /\ [][Next]_vars

-----------------------------------------------------------------------------
(* Properties.                                                             *)

EventsOf(s) == {e \in events : e.subject = s}
IsNewest(e) == Newer(events, e) = {}

Views == [Subjects -> Statuses \cup {None}]

\* What a refresh and a repair hold while they run.
RefreshShape(r) == job[r] = [view |-> job[r].view, at |-> job[r].at] /\ job[r].view \in Views
RepairShape(j) ==
    /\ job[j] = [step |-> job[j].step, target |-> job[j].target, before |-> job[j].before,
                 view |-> job[j].view, at |-> job[j].at]
    /\ job[j].view \in Views
    /\ job[j].target \in Subjects
    /\ job[j].before \in Statuses

\* The shapes of the state.
Shapes ==
    /\ world \in [Subjects -> Statuses]
    /\ previous \in Views
    /\ last \in Views
    /\ DOMAIN job = Jobs
    /\ \A r \in Refreshers : job[r] # None => RefreshShape(r)
    /\ \A j \in Repairs : job[j] # None => RepairShape(j)
    /\ \A e \in events : e.subject \in Subjects /\ e.from \in Statuses /\ e.to \in Statuses

\* The state has its shapes, and the store its events up to the cap.
TypeOK == Shapes /\ \A s \in Subjects : Cardinality(EventsOf(s)) <= MaxPerSubject

\* The recorder stands where its stored events left it, whatever refreshes
\* overlapped: an app that left its last event at unknown has no entry.
RecorderFollowsLog ==
    \A s \in Subjects : last[s] # None => Seen(previous, s) = last[s]

\* The inductive invariant: with the shapes of the state, every step of a refresh
\* or a repair leaves the recorder where its stored events say.
HistoryInv == Shapes /\ RecorderFollowsLog

\* docs/architecture.md, "writes only on change": an event that a refresh records
\* starts where the one recorded before it ended, also when two refreshes record
\* in the other order than they were collected.
ChainUnbroken ==
    [][\A e \in events' \ events :
          (last[e.subject] # None /\ last'[e.subject] # None) =>
              e.from = last[e.subject] /\ e.to = last'[e.subject]]_vars

\* docs/feature-app-detail-history.md: the events are "enough to compute uptime
\* over a window from event durations".  With no refresh or repair under way, the
\* newest event of a subject that is being followed ends in the status it has.
HistoryCurrent ==
    (\A j \in Jobs : job[j] = None) =>
        \A s \in Subjects : previous[s] # None =>
            \A e \in EventsOf(s) : IsNewest(e) => e.to = previous[s]
==============================================================================
