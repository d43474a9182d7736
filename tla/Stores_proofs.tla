---------------------------- MODULE Stores_proofs ----------------------------
(***************************************************************************)
(* What the server writes down, proved for every value of the constants    *)
(* that MCStores assumes: the chain of the status history and its caps     *)
(* (StatusHistory), the files of lines as durable maps (LineStore), the    *)
(* record file as one (RecordStore), the readings of the probes            *)
(* (LatencyTracker), and the notices that refreshes send (Notifications).  *)
(* The parts are the instances of MCStores, so that the theorems are about *)
(* the run's own properties; at the end each part's argument is carried to *)
(* the run, whose other steps leave it alone.                              *)
(***************************************************************************)
EXTENDS MCStores, Sequences, FiniteSetTheorems, NaturalsInduction, WellFoundedInduction, TLAPS

(* What a snapshot sees is a view.                                         *)
LEMMA ViewShape ==
    ASSUME Shapes
    PROVE  View \in Views
  BY DEF Shapes, View, Views

(* Retention only takes events away.                                       *)
LEMMA StoredShrinks ==
    ASSUME NEW log, NEW prunes, Stored(log, prunes)
    PROVE  events' \subseteq log
  BY DEF Stored, Kept

(* An event of Record goes from the baseline to what the snapshot shows.   *)
LEMMA ChangeShape ==
    ASSUME Shapes, NEW view \in Views, NEW at, NEW e \in Changes(view, at)
    PROVE  /\ e.subject \in Subjects
           /\ e.from = previous[e.subject]
           /\ e.to = Seen(view, e.subject)
           /\ e.from \in Statuses
           /\ e.to \in Statuses
  BY HistoryAssumption DEF Shapes, Views, Changes, Event, Seen

(* The log keeps its shape when events of that shape are added.            *)
LEMMA LogShape ==
    ASSUME Shapes, NEW view \in Views, NEW at,
           events' \subseteq events \cup Changes(view, at)
    PROVE  \A e \in events' : /\ e.subject \in Subjects
                              /\ e.from \in Statuses
                              /\ e.to \in Statuses
  BY ChangeShape DEF Shapes

-----------------------------------------------------------------------------
(* Record: the recorder moves to the snapshot, and wherever `last' is not  *)
(* reset the snapshot shows what the last stored event of the subject says.*)

LEMMA RecordShapes ==
    ASSUME Shapes, NEW r \in Refreshers, Record(r)
    PROVE  Shapes'
  <1> DEFINE view    == job[r].view
             changes == Changes(view, job[r].at)
             moved   == {e.subject : e \in changes}
             seeded  == {s \in Subjects : previous[s] = None /\ view[s] # None}
  <1>1. job[r] # None /\ view \in Views
    BY DEF Record, Shapes, RefreshShape
  <1>2. \A s \in Subjects : Seen(view, s) \in Statuses
    BY <1>1, HistoryAssumption DEF Seen, Views
  <1>3. previous' \in Views
    BY <1>1 DEF Record, Advance
  <1>4. last' \in Views
    BY <1>2 DEF Record, Shapes, Views
  <1>5. events' \subseteq events \cup changes
    BY StoredShrinks DEF Record
  <1>6. \A e \in events' : e.subject \in Subjects /\ e.from \in Statuses /\ e.to \in Statuses
    BY <1>1, <1>5, LogShape
  <1>7. /\ DOMAIN job' = Jobs
        /\ \A i \in Refreshers : job'[i] # None => RefreshShape(i)'
        /\ \A j \in Repairs : job'[j] # None => RepairShape(j)'
    BY HistoryAssumption DEF Record, Shapes, RefreshShape, RepairShape, Jobs
  <1> QED
    BY <1>3, <1>4, <1>6, <1>7 DEF Record, Shapes

LEMMA RecordFollows ==
    ASSUME HistoryInv, NEW r \in Refreshers, Record(r)
    PROVE  RecorderFollowsLog'
  <1> DEFINE view    == job[r].view
             changes == Changes(view, job[r].at)
             moved   == {e.subject : e \in changes}
             seeded  == {s \in Subjects : previous[s] = None /\ view[s] # None}
  <1>1. view \in Views /\ previous' = view
    BY DEF Record, Advance, HistoryInv, Shapes, RefreshShape
  <1> SUFFICES ASSUME NEW s \in Subjects, last'[s] # None
               PROVE  Seen(view, s) = last'[s]
    BY <1>1 DEF RecorderFollowsLog, Seen
  <1>2. CASE s \in moved
    <2>1. last'[s] = Seen(view, s)
      BY <1>2 DEF Record
    <2> QED
      BY <2>1
  <1>3. CASE s \notin moved
    <2>1. s \notin seeded /\ last'[s] = last[s]
      BY <1>3 DEF Record
    <2>2. Seen(previous, s) = last[s]
      BY <2>1 DEF HistoryInv, RecorderFollowsLog
    <2>3. previous[s] = None \/ previous[s] = Seen(view, s)
      <3>1. Event(s, previous[s], Seen(view, s), job[r].at).subject = s
        BY DEF Event
      <3> QED
        BY <1>3, <3>1 DEF Changes
    <2>4. Seen(previous, s) = Seen(view, s)
      BY <2>1, <2>3 DEF Seen
    <2> QED
      BY <2>1, <2>2, <2>4
  <1> QED
    BY <1>2, <1>3

-----------------------------------------------------------------------------
(* The other steps.                                                        *)

LEMMA CollectShapes ==
    ASSUME Shapes, NEW r \in Refreshers, Collect(r)
    PROVE  Shapes'
  <1>1. View \in Views
    BY ViewShape
  <1>2. \A i \in Jobs : job'[i] = IF i = r THEN [view |-> View, at |-> Now] ELSE job[i]
    BY DEF Collect, Shapes, Jobs
  <1>3. \A i \in Refreshers : job'[i] # None => RefreshShape(i)'
    BY <1>1, <1>2 DEF Shapes, RefreshShape, Jobs
  <1>4. \A j \in Repairs : job'[j] # None => RepairShape(j)'
    BY <1>2, HistoryAssumption DEF Shapes, RepairShape, Jobs
  <1> QED
    BY <1>3, <1>4 DEF Collect, Shapes

LEMMA RepairShapes ==
    ASSUME Shapes, NEW j \in Repairs,
           \/ \E s \in Subjects : BeginRepair(j, s)
           \/ Verify(j) \/ AppendOutcome(j) \/ Observe(j)
    PROVE  Shapes'
  <1>1. View \in Views
    BY ViewShape
  <1>2. job[j] # None => RepairShape(j)
    BY DEF Shapes
  <1>3. DOMAIN job' = Jobs /\ \A i \in Jobs : i # j => job'[i] = job[i]
    BY DEF Shapes, BeginRepair, Verify, AppendOutcome, Observe
  <1>4. job'[j] # None => RepairShape(j)'
    <2>1. CASE \E s \in Subjects : BeginRepair(j, s)
      BY <1>1, <2>1 DEF BeginRepair, RepairShape, Shapes, Views, Jobs
    <2>2. CASE Verify(j)
      BY <1>1, <1>2, <2>2 DEF Verify, RepairShape, Shapes, Jobs
    <2>3. CASE AppendOutcome(j)
      BY <1>2, <2>3 DEF AppendOutcome, RepairShape, Shapes, Jobs
    <2>4. CASE Observe(j)
      BY <2>4 DEF Observe, Shapes, Jobs
    <2> QED
      BY <2>1, <2>2, <2>3, <2>4
  <1>5. \A i \in Repairs : job'[i] # None => RepairShape(i)'
    BY <1>3, <1>4 DEF Shapes, RepairShape, Jobs
  <1>6. \A i \in Refreshers : job'[i] # None => RefreshShape(i)'
    BY <1>3, HistoryAssumption DEF Shapes, RefreshShape, Jobs
  <1>7. previous' \in Views /\ last' \in Views
    BY <1>2 DEF Shapes, Views, RepairShape, BeginRepair, Verify, AppendOutcome, Observe
  <1>8. \A e \in events' : e.subject \in Subjects /\ e.from \in Statuses /\ e.to \in Statuses
    <2>1. CASE AppendOutcome(j)
      <3> DEFINE e0 == Event(job[j].target, job[j].before,
                             Seen(job[j].view, job[j].target), job[j].at)
      <3>1. events' \subseteq events \cup {e0}
        BY <2>1 DEF AppendOutcome, Kept
      <3>2. /\ e0.subject = job[j].target
            /\ e0.from = job[j].before
            /\ e0.to = Seen(job[j].view, job[j].target)
        BY DEF Event
      <3>3. e0.subject \in Subjects /\ e0.from \in Statuses /\ e0.to \in Statuses
        BY <1>2, <2>1, <3>2, HistoryAssumption DEF AppendOutcome, RepairShape, Seen, Views
      <3> QED
        BY <3>1, <3>3 DEF Shapes
    <2>2. CASE events' = events
      BY <2>2 DEF Shapes
    <2> QED
      BY <2>1, <2>2 DEF BeginRepair, Verify, Observe
  <1> QED
    BY <1>3, <1>5, <1>6, <1>7, <1>8 DEF Shapes, BeginRepair, Verify, AppendOutcome, Observe

LEMMA RepairFollows ==
    ASSUME HistoryInv, NEW j \in Repairs,
           \/ \E s \in Subjects : BeginRepair(j, s)
           \/ Verify(j) \/ AppendOutcome(j) \/ Observe(j)
    PROVE  RecorderFollowsLog'
  <1>1. CASE previous' = previous /\ last' = last
    BY <1>1 DEF HistoryInv, RecorderFollowsLog, Seen
  <1>2. CASE AppendOutcome(j)
    <2>1. previous' = previous
      BY <1>2 DEF AppendOutcome
    <2>2. \A s \in Subjects : last'[s] = last[s] \/ last'[s] = None
      BY <1>2 DEF AppendOutcome, HistoryInv, Shapes, Views
    <2> QED
      BY <2>1, <2>2 DEF HistoryInv, RecorderFollowsLog, Seen
  <1>3. CASE Observe(j)
    BY <1>3 DEF Observe, RecorderFollowsLog
  <1> QED
    BY <1>1, <1>2, <1>3 DEF BeginRepair, Verify

LEMMA InitInductive ==
    ASSUME Init
    PROVE  HistoryInv
  <1>1. Shapes
    BY DEF Init, Shapes, Views, Jobs
  <1>2. RecorderFollowsLog
    BY DEF Init, RecorderFollowsLog
  <1> QED
    BY <1>1, <1>2 DEF HistoryInv

LEMMA NextInductive ==
    ASSUME HistoryInv, [Next]_vars
    PROVE  HistoryInv'
  <1> USE DEF HistoryInv
  <1>1. ASSUME NEW r \in Refreshers, Collect(r)
        PROVE  HistoryInv'
    <2>1. RecorderFollowsLog'
      BY <1>1 DEF Collect, RecorderFollowsLog, Seen
    <2> QED
      BY <1>1, <2>1, CollectShapes
  <1>2. ASSUME NEW r \in Refreshers, Record(r)
        PROVE  HistoryInv'
    BY <1>2, RecordShapes, RecordFollows
  <1>3. ASSUME NEW j \in Repairs,
               \/ \E s \in Subjects : BeginRepair(j, s)
               \/ Verify(j) \/ AppendOutcome(j) \/ Observe(j)
        PROVE  HistoryInv'
    BY <1>3, RepairShapes, RepairFollows
  <1>4. ASSUME NEW s \in Subjects, NEW status \in Statuses, WorldChanges(s, status)
        PROVE  HistoryInv'
    BY <1>4 DEF WorldChanges, Shapes, RefreshShape, RepairShape, RecorderFollowsLog, Seen
  <1>5. CASE DockerFails \/ DockerReturns \/ UNCHANGED vars
    BY <1>5 DEF DockerFails, DockerReturns, vars, Shapes, RefreshShape, RepairShape,
                RecorderFollowsLog, Seen
  <1>6. CASE Restart
    <2>1. Shapes'
      BY <1>6 DEF Restart, Shapes, Views, Jobs
    <2>2. RecorderFollowsLog'
      BY <1>6 DEF Restart, RecorderFollowsLog
    <2> QED
      BY <2>1, <2>2
  <1> QED
    BY <1>1, <1>2, <1>3, <1>4, <1>5, <1>6 DEF Next, Refresh

(* The inductive invariant holds in every execution of the history: shapes *)
(* and recorder stay as they should whatever refreshes, repairs, outages,  *)
(* failed appends and restarts interleave.                                 *)
THEOREM HistoryInvariant == Spec => []HistoryInv
  <1> QED
    BY InitInductive, NextInductive, PTL DEF Spec

(* Recorder.Record and Observe: the recorder stands where its stored events*)
(* left it, for any number of concurrent refreshes and repairs.            *)
THEOREM RecorderFollows == Spec => []RecorderFollowsLog
  <1>1. HistoryInv => RecorderFollowsLog
    BY DEF HistoryInv
  <1> QED
    BY <1>1, HistoryInvariant, PTL

-----------------------------------------------------------------------------
(* Chaining.                                                               *)

LEMMA StepChains ==
    ASSUME HistoryInv, [Next]_vars
    PROVE  \A e \in events' \ events :
               (last[e.subject] # None /\ last'[e.subject] # None) =>
                   e.from = last[e.subject] /\ e.to = last'[e.subject]
  <1> SUFFICES ASSUME NEW e \in events' \ events,
                      last[e.subject] # None, last'[e.subject] # None
               PROVE  e.from = last[e.subject] /\ e.to = last'[e.subject]
    OBVIOUS
  <1> USE DEF HistoryInv
  <1>1. ASSUME NEW r \in Refreshers, Record(r)
        PROVE  e.from = last[e.subject] /\ e.to = last'[e.subject]
    <2> DEFINE view    == job[r].view
               changes == Changes(view, job[r].at)
               moved   == {d.subject : d \in changes}
    <2>1. view \in Views
      BY <1>1 DEF Record, Shapes, RefreshShape
    <2>2. e \in changes /\ e.subject \in moved
      BY <1>1, StoredShrinks DEF Record
    <2>3. /\ e.subject \in Subjects
          /\ e.from = previous[e.subject]
          /\ e.to = Seen(view, e.subject)
          /\ e.from \in Statuses
      BY <2>1, <2>2, ChangeShape
    <2>4. e.to = last'[e.subject]
      BY <1>1, <2>2, <2>3 DEF Record
    <2>5. Seen(previous, e.subject) = last[e.subject]
      BY <2>3 DEF RecorderFollowsLog
    <2>6. Seen(previous, e.subject) = previous[e.subject]
      BY <2>3, HistoryAssumption DEF Seen
    <2> QED
      BY <2>3, <2>4, <2>5, <2>6
  <1>2. ASSUME NEW j \in Repairs, AppendOutcome(j)
        PROVE  FALSE
    <2>1. e.subject = job[j].target /\ e.subject \in Subjects
      <3> DEFINE e0 == Event(job[j].target, job[j].before,
                             Seen(job[j].view, job[j].target), job[j].at)
      <3>1. e = e0
        BY <1>2 DEF AppendOutcome, Kept
      <3>2. e0.subject = job[j].target
        BY DEF Event
      <3>3. job[j].target \in Subjects
        BY <1>2 DEF AppendOutcome, Shapes, RepairShape
      <3> QED
        BY <3>1, <3>2, <3>3
    <2>2. last'[e.subject] = None
      BY <1>2, <2>1 DEF AppendOutcome, Shapes, Views
    <2> QED
      BY <2>2
  <1>3. CASE events' = events
    BY <1>3
  <1> QED
    BY <1>1, <1>2, <1>3
    DEF Next, Refresh, Collect, BeginRepair, Verify, Observe, WorldChanges,
        DockerFails, DockerReturns, Restart, vars

(* Recorder.Record: an event that a refresh records starts where the one   *)
(* recorded before it ended, in whatever order snapshots were collected.   *)
THEOREM HistoryChains == Spec => ChainUnbroken
  <1>1. HistoryInv /\ [Next]_vars =>
            [\A e \in events' \ events :
                (last[e.subject] # None /\ last'[e.subject] # None) =>
                    e.from = last[e.subject] /\ e.to = last'[e.subject]]_vars
    BY StepChains
  <1> QED
    BY <1>1, HistoryInvariant, PTL DEF Spec, ChainUnbroken

LEMMA LeastOf ==
    ASSUME NEW S \in SUBSET Nat, S # {}
    PROVE  \E x \in S : \A y \in S : x <= y
  <1> DEFINE less == {ss \in Nat \X Nat : ss[1] < ss[2]}
  <1>1. IsWellFoundedOn(less, Nat)
    BY NatLessThanWellFounded, Zenon DEF OpToRel
  <1> HIDE DEF less
  <1>2. PICK x \in S : \A y \in S : <<y, x>> \notin less
    BY <1>1, WFMin
  <1>3. ASSUME NEW y \in S PROVE x <= y
    <2>1. ~(<<y, x>> \in less)
      BY <1>2
    <2> QED
      BY <2>1 DEF less
  <1> QED
    BY <1>3

-----------------------------------------------------------------------------
(* The cap on a subject's events.                                          *)

LEMMA GreatestOf ==
    ASSUME NEW S \in SUBSET Nat, S # {}, NEW bound \in Nat, \A m \in S : m <= bound
    PROVE  \E n \in S : \A m \in S : m <= n
  <1> DEFINE back == {bound - m : m \in S}
  <1>1. back \in SUBSET Nat /\ back # {}
    <2>1. \A m \in S : bound - m \in Nat
      OBVIOUS
    <2> QED
      BY <2>1
  <1>2. PICK d \in back : \A e \in back : d <= e
    <2> HIDE DEF back
    <2> QED
      BY <1>1, LeastOf
  <1>3. PICK n \in S : d = bound - n
    BY <1>2
  <1>4. ASSUME NEW m \in S
        PROVE  m <= n
    <2>1. bound - m \in back /\ m \in Nat /\ n \in Nat
      BY <1>3
    <2>2. bound - n <= bound - m
      BY <1>2, <1>3, <2>1
    <2> QED
      BY <2>1, <2>2
  <1> QED
    BY <1>3, <1>4

(* Times are bounded, those of the work under way differ from each other and *)
(* from those of the events, but for a repair whose event is stored; and a   *)
(* subject has one event for each time.                                      *)
OfSubject(log, s) == {e \in log : e.subject = s}
Apart(log) == \A s \in Subjects : \A d, e \in OfSubject(log, s) : d.at = e.at => d = e
FiniteLog(log) == \A s \in Subjects : IsFiniteSet(OfSubject(log, s))
Pending(j) == job[j] # None /\ (j \in Repairs => job[j].step # "observe")

TimesApart ==
    /\ \E n \in Nat : Times \subseteq 0..n
    /\ \A i \in Jobs : \A j \in Jobs :
           i # j /\ job[i] # None /\ job[j] # None => job[i].at # job[j].at
    /\ \A j \in Jobs : Pending(j) => \A e \in events : e.at # job[j].at
    /\ Apart(events) /\ FiniteLog(events)

FewEvents == \A s \in Subjects : Cardinality(EventsOf(s)) <= MaxPerSubject

LEMMA NowIsNew ==
    ASSUME NEW n \in Nat, Times \subseteq 0..n
    PROVE  /\ Now \in Nat /\ Now \notin Times
           /\ \E m \in Nat : 0..n \subseteq 0..m /\ Now \in 0..m
  <1>1. CASE Times = {}
    BY <1>1 DEF Now
  <1>2. CASE Times # {}
    <2> DEFINE latest == CHOOSE t \in Times : \A u \in Times : u <= t
    <2>1. \E t \in Times : \A u \in Times : u <= t
      <3>1. Times \in SUBSET Nat /\ \A t \in Times : t <= n
        OBVIOUS
      <3> QED
        BY <1>2, <3>1, GreatestOf
    <2>2. latest \in Times /\ \A u \in Times : u <= latest
      BY <2>1
    <2> HIDE DEF latest
    <2>3. latest \in Nat /\ Now = 1 + latest
      <3>1. Now = 1 + latest
        BY <1>2 DEF Now, latest
      <3> QED
        BY <2>2, <3>1
    <2>4. Now \notin Times
      BY <2>2, <2>3
    <2> QED
      BY <2>2, <2>3, <2>4
  <1> QED
    BY <1>1, <1>2

(* keepPerSubject: the oldest of more than the cap has the cap or more after *)
(* it.                                                                       *)
LEMMA KeptFew ==
    ASSUME NEW log, NEW s \in Subjects, Apart(log), FiniteLog(log),
           \A e \in log : e.at \in Nat
    PROVE  Cardinality(OfSubject(Kept(log), s)) <= MaxPerSubject
  <1> DEFINE kept == OfSubject(Kept(log), s)
             ats == {e.at : e \in kept}
  <1>1. kept \subseteq OfSubject(log, s)
    BY DEF OfSubject, Kept
  <1>2. IsFiniteSet(OfSubject(log, s)) /\ IsFiniteSet(kept) /\ Cardinality(kept) \in Nat
    BY <1>1, FS_Subset, FS_CardinalityType DEF FiniteLog
  <1>3. CASE kept = {}
    BY <1>3, FS_EmptySet, HistoryAssumption
  <1>4. CASE kept # {}
    <2>1. ats \in SUBSET Nat /\ ats # {}
      BY <1>1, <1>4 DEF OfSubject
    <2>2. PICK t \in ats : \A u \in ats : t <= u
      <3> HIDE DEF ats
      <3> QED
        BY <2>1, LeastOf
    <2>3. PICK e \in kept : e.at = t
      BY <2>2
    <2>4. e \in log /\ e.subject = s /\ Cardinality(Newer(log, e)) < MaxPerSubject
      BY DEF OfSubject, Kept
    <2>5. kept \ {e} \subseteq Newer(log, e)
      <3> SUFFICES ASSUME NEW d \in kept, d # e
                   PROVE  d \in Newer(log, e)
        OBVIOUS
      <3>1. d \in log /\ d.subject = s
        BY DEF OfSubject, Kept
      <3>2. d.at # e.at
        BY <2>4, <3>1 DEF Apart, OfSubject
      <3>3. e.at <= d.at
        BY <2>2, <2>3
      <3> QED
        BY <2>4, <3>1, <3>2, <3>3 DEF Newer
    <2>6. IsFiniteSet(Newer(log, e))
      <3>1. Newer(log, e) \subseteq OfSubject(log, s)
        BY <2>4 DEF Newer, OfSubject
      <3> QED
        BY <1>2, <3>1, FS_Subset
    <2>7. /\ Cardinality(kept \ {e}) <= Cardinality(Newer(log, e))
          /\ Cardinality(Newer(log, e)) \in Nat
      BY <2>5, <2>6, FS_Subset, FS_CardinalityType
    <2>8. Cardinality(kept \ {e}) = Cardinality(kept) - 1
      BY <1>2, <2>3, FS_RemoveElement
    <2> HIDE DEF kept
    <2> QED
      BY <1>2, <2>4, <2>7, <2>8, HistoryAssumption DEF kept
  <1> QED
    BY <1>3, <1>4

(* What is stored of a longer log whose new events are apart.                *)
LEMMA StoredFew ==
    ASSUME NEW log, NEW new, new \subseteq Kept(log), Apart(log), FiniteLog(log),
           \A e \in log : e.at \in Nat
    PROVE  /\ Apart(new) /\ FiniteLog(new)
           /\ \A s \in Subjects : Cardinality(OfSubject(new, s)) <= MaxPerSubject
  <1>1. new \subseteq log
    BY DEF Kept
  <1>2. Apart(new)
    BY <1>1 DEF Apart, OfSubject
  <1>3. ASSUME NEW s \in Subjects
        PROVE  IsFiniteSet(OfSubject(new, s)) /\ Cardinality(OfSubject(new, s)) <= MaxPerSubject
    <2>1. /\ OfSubject(new, s) \subseteq OfSubject(Kept(log), s)
          /\ OfSubject(Kept(log), s) \subseteq OfSubject(log, s)
      BY DEF OfSubject, Kept
    <2>2. IsFiniteSet(OfSubject(Kept(log), s))
      BY <2>1, FS_Subset DEF FiniteLog
    <2>3. /\ IsFiniteSet(OfSubject(new, s))
          /\ Cardinality(OfSubject(new, s)) <= Cardinality(OfSubject(Kept(log), s))
          /\ Cardinality(OfSubject(new, s)) \in Nat
          /\ Cardinality(OfSubject(Kept(log), s)) \in Nat
      BY <2>1, <2>2, FS_Subset, FS_CardinalityType
    <2>4. Cardinality(OfSubject(Kept(log), s)) <= MaxPerSubject
      BY KeptFew
    <2> QED
      BY <2>3, <2>4, HistoryAssumption
  <1> QED
    BY <1>2, <1>3 DEF FiniteLog

(* A log stays apart when each subject gets one event of a new time.         *)
LEMMA GrownApart ==
    ASSUME NEW log, NEW more, NEW at \in Nat, Apart(log), FiniteLog(log),
           \A e \in log : e.at \in Nat /\ e.at # at,
           \A e \in more : e.at = at,
           \A d, e \in more : d.subject = e.subject => d = e
    PROVE  /\ Apart(log \cup more) /\ FiniteLog(log \cup more)
           /\ \A e \in log \cup more : e.at \in Nat
  <1>1. Apart(log \cup more)
    BY DEF Apart, OfSubject
  <1>2. ASSUME NEW s \in Subjects
        PROVE  IsFiniteSet(OfSubject(log \cup more, s))
    <2>1. IsFiniteSet(OfSubject(log, s))
      BY DEF FiniteLog
    <2>2. CASE \E d \in more : d.subject = s
      <3>1. PICK d \in more : d.subject = s
        BY <2>2
      <3>2. OfSubject(log \cup more, s) = OfSubject(log, s) \cup {d}
        BY <3>1 DEF OfSubject
      <3>3. IsFiniteSet(OfSubject(log, s) \cup {d})
        BY <2>1, FS_AddElement, Zenon
      <3> QED
        BY <3>2, <3>3
    <2>3. CASE ~\E d \in more : d.subject = s
      <3>1. OfSubject(log \cup more, s) = OfSubject(log, s)
        BY <2>3 DEF OfSubject
      <3> QED
        BY <2>1, <3>1
    <2> QED
      BY <2>2, <2>3
  <1> QED
    BY <1>1, <1>2 DEF FiniteLog

(* A job takes the time it is.                                               *)
LEMMA JobTimed ==
    ASSUME TimesApart, NEW j \in Jobs, DOMAIN job' = Jobs,
           \A i \in Jobs : i # j => job'[i] = job[i],
           job'[j] # None, job'[j].at = Now, events' = events
    PROVE  TimesApart'
  <1>1. PICK n \in Nat : Times \subseteq 0..n
    BY DEF TimesApart
  <1>2. /\ Now \in Nat /\ Now \notin Times
        /\ \E m \in Nat : 0..n \subseteq 0..m /\ Now \in 0..m
    BY <1>1, NowIsNew
  <1>3. Times' \subseteq Times \cup {Now}
    BY DEF Times
  <1>4. \E m \in Nat : Times' \subseteq 0..m
    BY <1>1, <1>2, <1>3
  <1>5. /\ \A i \in Jobs : job[i] # None => job[i].at # Now
        /\ \A e \in events : e.at # Now
    BY <1>2 DEF Times
  <1>6. \A i \in Jobs : \A k \in Jobs :
            i # k /\ job'[i] # None /\ job'[k] # None => job'[i].at # job'[k].at
    BY <1>5 DEF TimesApart
  <1>7. \A i \in Jobs : Pending(i)' => \A e \in events : e.at # job'[i].at
    BY <1>5 DEF TimesApart, Pending
  <1> QED
    BY <1>4, <1>6, <1>7 DEF TimesApart, Apart, FiniteLog

(* The log gets new events of the time of one job, which is done with it.    *)
LEMMA LogTimed ==
    ASSUME TimesApart, NEW j \in Jobs, Pending(j), ~Pending(j)',
           \A i \in Jobs : i # j => job'[i] = job[i],
           job'[j] # None => job'[j].at = job[j].at,
           NEW more, \A e \in more : e.at = job[j].at,
           \A d, e \in more : d.subject = e.subject => d = e,
           events' \subseteq Kept(events \cup more)
    PROVE  TimesApart' /\ FewEvents'
  <1> DEFINE log == events \cup more
             at == job[j].at
  <1>1. PICK n \in Nat : Times \subseteq 0..n
    BY DEF TimesApart
  <1>2. at \in Times /\ \A e \in events : e.at \in Times
    BY DEF Times, Pending
  <1>3. at \in Nat /\ \A e \in events : e.at \in Nat /\ e.at # at
    <2>1. \A t \in Times : t \in Nat
      BY <1>1
    <2>2. \A e \in events : e.at # at
      BY DEF TimesApart
    <2> QED
      BY <1>2, <2>1, <2>2
  <1>4. Apart(log) /\ FiniteLog(log) /\ \A e \in log : e.at \in Nat
    BY <1>3, GrownApart DEF TimesApart
  <1>5. /\ Apart(events') /\ FiniteLog(events')
        /\ \A s \in Subjects : Cardinality(OfSubject(events', s)) <= MaxPerSubject
    <2> HIDE DEF log
    <2> QED
      BY <1>4, StoredFew DEF log
  <1>6. \A e \in events' : e \in events \/ e.at = at
    BY DEF Kept
  <1>7. Times' \subseteq Times
    BY <1>2, <1>6 DEF Times
  <1>8. \A i \in Jobs : Pending(i)' => \A e \in events' : e.at # job'[i].at
    BY <1>6 DEF TimesApart, Pending
  <1>9. \A i \in Jobs : \A k \in Jobs :
            i # k /\ job'[i] # None /\ job'[k] # None => job'[i].at # job'[k].at
    BY DEF TimesApart, Pending
  <1>10. TimesApart'
    BY <1>1, <1>5, <1>7, <1>8, <1>9 DEF TimesApart, Apart, FiniteLog
  <1>11. FewEvents'
    BY <1>5 DEF FewEvents, EventsOf, OfSubject
  <1> QED
    BY <1>10, <1>11

(* Jobs end, or a repair whose event is stored goes on; the log is as it was.*)
LEMMA JobsEnd ==
    ASSUME TimesApart, FewEvents, events' = events,
           \A i \in Jobs : job'[i] = job[i] \/ job'[i] = None
    PROVE  TimesApart' /\ FewEvents'
  <1>1. Times' \subseteq Times
    BY DEF Times
  <1>2. \A i \in Jobs : Pending(i)' => Pending(i) /\ job'[i] = job[i]
    BY DEF Pending
  <1>3. TimesApart'
    BY <1>1, <1>2 DEF TimesApart, Apart, FiniteLog
  <1> QED
    BY <1>3 DEF FewEvents, EventsOf

LEMMA TimedBegins ==
    ASSUME Init
    PROVE  TimesApart /\ FewEvents
  <1>1. Times = {} /\ \A s : OfSubject(events, s) = {} /\ EventsOf(s) = {}
    BY DEF Init, Times, OfSubject, EventsOf
  <1>2. TimesApart
    BY <1>1, FS_EmptySet DEF Init, TimesApart, Apart, FiniteLog, Pending
  <1>3. FewEvents
    BY <1>1, FS_EmptySet, HistoryAssumption DEF FewEvents
  <1> QED
    BY <1>2, <1>3

LEMMA TimedSteps ==
    ASSUME Shapes, TimesApart, FewEvents, [Next]_vars
    PROVE  TimesApart' /\ FewEvents'
  <1>0. DOMAIN job = Jobs
    BY DEF Shapes
  <1>1. ASSUME NEW r \in Refreshers, Collect(r)
        PROVE  TimesApart' /\ FewEvents'
    <2>1. /\ r \in Jobs /\ DOMAIN job' = Jobs
          /\ \A i \in Jobs : job'[i] = IF i = r THEN [view |-> View, at |-> Now] ELSE job[i]
      BY <1>0, <1>1 DEF Collect, Jobs
    <2>2. events' = events
      BY <1>1 DEF Collect
    <2>3. CASE job'[r] # None
      <3>1. job'[r].at = Now /\ \A i \in Jobs : i # r => job'[i] = job[i]
        BY <2>1
      <3>2. TimesApart'
        BY <2>1, <2>2, <2>3, <3>1, JobTimed
      <3> QED
        BY <2>2, <3>2 DEF FewEvents, EventsOf
    <2>4. CASE job'[r] = None
      BY <2>1, <2>2, <2>4, JobsEnd
    <2> QED
      BY <2>3, <2>4
  <1>2. ASSUME NEW r \in Refreshers, Record(r)
        PROVE  TimesApart' /\ FewEvents'
    <2> DEFINE view == job[r].view
               more == Changes(view, job[r].at)
    <2>1. /\ r \in Jobs /\ Pending(r)
          /\ \A i \in Jobs : job'[i] = IF i = r THEN None ELSE job[i]
      BY <1>0, <1>2, HistoryAssumption DEF Record, Jobs, Pending
    <2>2. \/ events' = events
          \/ \E prunes \in {0, 1} : Stored(events \cup more, prunes)
      BY <1>2 DEF Record
    <2>3. CASE events' = events
      BY <2>1, <2>3, JobsEnd
    <2>4. CASE \E prunes \in {0, 1} : Stored(events \cup more, prunes)
      <3>1. events' \subseteq Kept(events \cup more)
        BY <2>4 DEF Stored
      <3>2. /\ \A e \in more : e.at = job[r].at
            /\ \A d, e \in more : d.subject = e.subject => d = e
        BY DEF Changes, Event
      <3>3. ~Pending(r)' /\ (job'[r] # None => job'[r].at = job[r].at)
        BY <2>1 DEF Pending
      <3> HIDE DEF more
      <3> QED
        BY <2>1, <3>1, <3>2, <3>3, LogTimed
    <2> QED
      BY <2>2, <2>3, <2>4
  <1>3. ASSUME NEW j \in Repairs,
               (\E s \in Subjects : BeginRepair(j, s)) \/ Verify(j)
        PROVE  TimesApart' /\ FewEvents'
    <2>1. j \in Jobs /\ DOMAIN job' = Jobs /\ events' = events
          /\ \A i \in Jobs : i # j => job'[i] = job[i]
      BY <1>0, <1>3 DEF BeginRepair, Verify, Jobs
    <2>2. job'[j].at = Now
      <3>1. CASE \E s \in Subjects : BeginRepair(j, s)
        BY <1>0, <2>1, <3>1 DEF BeginRepair
      <3>2. CASE Verify(j)
        BY <1>0, <2>1, <3>2 DEF Verify, Shapes, RepairShape
      <3> QED
        BY <1>3, <3>1, <3>2
    <2>3. CASE job'[j] # None
      BY <2>1, <2>2, <2>3, JobTimed DEF FewEvents, EventsOf
    <2>4. CASE job'[j] = None
      BY <2>1, <2>4, JobsEnd
    <2> QED
      BY <2>3, <2>4
  <1>4. ASSUME NEW j \in Repairs, AppendOutcome(j)
        PROVE  TimesApart' /\ FewEvents'
    <2> DEFINE s == job[j].target
               more == {Event(s, job[j].before, Seen(job[j].view, s), job[j].at)}
    <2>1. /\ j \in Jobs /\ Pending(j) /\ RepairShape(j)
          /\ \A i \in Jobs : i # j => job'[i] = job[i]
      BY <1>0, <1>4 DEF AppendOutcome, Jobs, Pending, Shapes
    <2>2. CASE events' = Kept(events \cup more) /\ job' = [job EXCEPT ![j].step = "observe"]
      <3>1. job'[j].at = job[j].at /\ job'[j].step = "observe"
        BY <1>0, <2>1, <2>2 DEF RepairShape
      <3>2. ~Pending(j)'
        BY <3>1 DEF Pending
      <3>3. /\ \A e \in more : e.at = job[j].at
            /\ \A d, e \in more : d.subject = e.subject => d = e
        BY DEF Event
      <3> HIDE DEF more
      <3> QED
        BY <2>1, <2>2, <3>1, <3>2, <3>3, LogTimed
    <2>3. CASE events' = events /\ job' = [job EXCEPT ![j] = None]
      BY <1>0, <2>3, JobsEnd
    <2> QED
      BY <1>4, <2>2, <2>3 DEF AppendOutcome
  <1>5. CASE \/ \E j \in Repairs : Observe(j)
             \/ \E s \in Subjects, status \in Statuses : WorldChanges(s, status)
             \/ DockerFails \/ DockerReturns \/ Restart \/ UNCHANGED vars
    <2>1. events' = events /\ \A i \in Jobs : job'[i] = job[i] \/ job'[i] = None
      BY <1>0, <1>5 DEF Observe, WorldChanges, DockerFails, DockerReturns, Restart, vars
    <2> QED
      BY <2>1, JobsEnd
  <1> QED
    BY <1>1, <1>2, <1>3, <1>4, <1>5 DEF Next, Refresh

(* Every state of the history has its type, and no subject more events than  *)
(* the code keeps of it: addEvent prunes before it returns.                  *)
THEOREM HistoryTyped == Spec => []TypeOK
  <1>1. HistoryInv /\ FewEvents => TypeOK
    BY DEF HistoryInv, FewEvents, TypeOK
  <1>2. Init => TimesApart /\ FewEvents
    BY TimedBegins
  <1>3. HistoryInv /\ TimesApart /\ FewEvents /\ [Next]_vars => TimesApart' /\ FewEvents'
    BY TimedSteps DEF HistoryInv
  <1> QED
    BY <1>1, <1>2, <1>3, HistoryInvariant, PTL DEF Spec

LinesAssumed == /\ {"history", "metrics"} \subseteq {"history", "metrics"}
                /\ MaxRecords \in Nat
                /\ Garbage # None /\ Garbage \notin Lines!Records /\ None \notin Lines!Records

LEMMA LineSets == \A S : Lines!Cardinality(S) = Cardinality(S)
  BY DEF Lines!Cardinality, Cardinality

LEMMA LinesAssumption == LinesAssumed
  BY PartsAssumption DEF PartsAssumption, Lines!LineStoreAssumption, LinesAssumed, Lines!Records

(* What a reader may find of a record, without the truth values.             *)
CanHave(r) == TRUE \in may[r]
CanLack(r) == FALSE \in may[r]
Fits(set, r) == IF r \in set THEN CanHave(r) ELSE CanLack(r)

LEMMA Fitting ==
    ASSUME NEW set, NEW r
    PROVE  ((r \in set) \in may[r]) <=> Fits(set, r)
  <1>1. CASE r \in set
    <2>1. (r \in set) = TRUE
      BY <1>1
    <2> QED
      BY <1>1, <2>1, Zenon DEF Fits, CanHave
  <1>2. CASE r \notin set
    <2>1. (r \in set) = FALSE
      BY <1>2
    <2> QED
      BY <1>2, <2>1, Zenon DEF Fits, CanLack
  <1> QED
    BY <1>1, <1>2

LEMMA HasValue ==
    ASSUME NEW set, NEW r \in Lines!Records
    PROVE  (r \in set => Lines!Has(set)[r] = TRUE) /\ (r \notin set => Lines!Has(set)[r] = FALSE)
  <1>1. Lines!Has(set)[r] = (r \in set)
    BY DEF Lines!Has
  <1>2. r \in set => (r \in set) = TRUE
    OBVIOUS
  <1>3. r \notin set => (r \in set) = FALSE
    OBVIOUS
  <1> QED
    BY <1>1, <1>2, <1>3, Zenon

LEMMA Truths == TRUE # FALSE
  OBVIOUS

LEMMA Hoping ==
    ASSUME NEW set, may' = Lines!Hoped(set), NEW r \in Lines!Records
    PROVE  /\ CanHave(r)' <=> CanHave(r) \/ r \in set
           /\ CanLack(r)' <=> CanLack(r) \/ r \notin set
  <1> DEFINE b == Lines!Has(set)[r]
  <1>0. Lines!Hoped(set)[r] = may[r] \cup {b}
    BY DEF Lines!Hoped
  <1>1. may'[r] = may[r] \cup {b}
    BY <1>0
  <1>a. (r \in set => b = TRUE) /\ (r \notin set => b = FALSE)
    BY HasValue
  <1> HIDE DEF b
  <1>2. CASE r \in set
    <2>1. b = TRUE
      BY <1>2, <1>a
    <2>2. may'[r] = may[r] \cup {TRUE}
      BY <1>1, <2>1
    <2> QED
      BY <1>2, <2>2, Truths, Zenon DEF CanHave, CanLack
  <1>3. CASE r \notin set
    <2>1. b = FALSE
      BY <1>3, <1>a
    <2>2. may'[r] = may[r] \cup {FALSE}
      BY <1>1, <2>1
    <2> QED
      BY <1>3, <2>2, Truths, Zenon DEF CanHave, CanLack
  <1> QED
    BY <1>2, <1>3

LEMMA Settling ==
    ASSUME NEW S, NEW set, may' = Lines!Settled(S, set), NEW r \in Lines!Records
    PROVE  /\ r \in S => (CanHave(r)' <=> r \in set) /\ (CanLack(r)' <=> r \notin set)
           /\ r \notin S => (CanHave(r)' <=> CanHave(r)) /\ (CanLack(r)' <=> CanLack(r))
  <1> DEFINE b == Lines!Has(set)[r]
  <1>0. (r \in S => Lines!Settled(S, set)[r] = {b}) /\ (r \notin S => Lines!Settled(S, set)[r] = may[r])
    BY DEF Lines!Settled
  <1>1. (r \in S => may'[r] = {b}) /\ (r \notin S => may'[r] = may[r])
    BY <1>0
  <1>a. (r \in set => b = TRUE) /\ (r \notin set => b = FALSE)
    BY HasValue
  <1> HIDE DEF b
  <1>2. CASE r \in S /\ r \in set
    <2>1. b = TRUE
      BY <1>2, <1>a
    <2>2. may'[r] = {TRUE}
      BY <1>1, <1>2, <2>1
    <2> QED
      BY <1>2, <2>2, Truths, Zenon DEF CanHave, CanLack
  <1>3. CASE r \in S /\ r \notin set
    <2>1. b = FALSE
      BY <1>3, <1>a
    <2>2. may'[r] = {FALSE}
      BY <1>1, <1>3, <2>1
    <2> QED
      BY <1>3, <2>2, Truths, Zenon DEF CanHave, CanLack
  <1>4. CASE r \notin S
    BY <1>1, <1>4, Zenon DEF CanHave, CanLack
  <1> QED
    BY <1>2, <1>3, <1>4

Gone == {r \in Lines!Records : ~Fits(Lines!Lines, r)}
Doomed == IF Lines!Doing("append") THEN (op.set \ op.todo) \ Lines!Lines ELSE {}

(* Shapes; the records of an append are new; a rewrite keeps what it has.    *)
AppendShape ==
    /\ up
    /\ op = [name |-> "append", todo |-> op.todo, set |-> op.set]
    /\ op.set \subseteq 1..appended /\ op.todo \subseteq op.set
    /\ op.set \cap mem = {} /\ op.todo \cap Lines!Lines = {} /\ tail \notin op.set
    /\ \A r \in op.set : CanHave(r) /\ CanLack(r)
    /\ Garbage \notin Lines!Lines => op.set \ op.todo \subseteq Lines!Lines

RewriteShape ==
    /\ up
    /\ op = [name |-> "rewrite", todo |-> {}, set |-> op.set]
    /\ op.set \subseteq mem /\ (store = "metrics" => mem = op.set)
    /\ \A r \in Lines!Records : Fits(op.set, r)

LineShapes ==
    /\ store \in {"history", "metrics"}
    /\ up \in BOOLEAN
    /\ appended \in 0..MaxRecords /\ tears \in Nat
    /\ mem \subseteq 1..appended
    /\ file \in Seq(Lines!Records \cup {Garbage}) /\ Lines!Lines \subseteq (1..appended) \cup {Garbage}
    /\ tail \in (1..appended) \cup {Garbage, None}
    /\ may \in [Lines!Records -> SUBSET BOOLEAN]
    /\ op = None \/ AppendShape \/ RewriteShape
    /\ \A r \in Lines!Records : r > appended => ~CanHave(r) /\ CanLack(r)
    /\ tail \in Lines!Records => CanLack(tail)

(* The history's memory and its file, when that can be read, hold what may   *)
(* be found.                                                                 *)
HistoryFits ==
    store = "history" => /\ \A r \in Lines!Records : Fits(mem, r)
                         /\ Garbage \notin Lines!Lines => \A r \in Lines!Records : Fits(Lines!Lines, r)

(* Each record that is gone, or is about to be, was joined to a torn line.   *)
TearsPay ==
    /\ Cardinality(Lines!Surprises) <= tears
    /\ Cardinality(Gone \cup Doomed) + (IF tail = None THEN 0 ELSE 1) <= tears

LineInv == LineShapes /\ HistoryFits /\ TearsPay

LEMMA FittingAll == \A set, r : ((r \in set) \in may[r]) <=> Fits(set, r)
  BY Fitting

LEMMA SurprisesFit == Lines!Surprises = {r \in Lines!Records : ~Fits(mem, r)}
  BY FittingAll DEF Lines!Surprises

LEMMA SurprisesFitNext == Lines!Surprises' = {r \in Lines!Records : ~Fits(mem, r)'}
  <1>1. (\A set, r : ((r \in set) \in may[r]) <=> Fits(set, r))'
    BY FittingAll, PTL
  <1> QED
    BY <1>1 DEF Lines!Surprises

LEMMA HopesAreTruths ==
    ASSUME may \in [Lines!Records -> SUBSET BOOLEAN], NEW set, NEW S
    PROVE  /\ Lines!Hoped(set) \in [Lines!Records -> SUBSET BOOLEAN]
           /\ Lines!Settled(S, set) \in [Lines!Records -> SUBSET BOOLEAN]
  <1>1. \A r \in Lines!Records : Lines!Has(set)[r] \in BOOLEAN
    <2> SUFFICES ASSUME NEW r \in Lines!Records PROVE Lines!Has(set)[r] \in BOOLEAN
      OBVIOUS
    <2> QED
      BY HasValue, Zenon
  <1> QED
    BY <1>1 DEF Lines!Hoped, Lines!Settled

LEMMA LinesAre ==
    ASSUME LinesAssumed, LineShapes
    PROVE  /\ Lines!Lines \subseteq (1..appended) \cup {Garbage}
           /\ \A r \in Lines!Lines \ {Garbage} : r \in Lines!Records
  BY DEF LineShapes, LinesAssumed, Lines!Records
(* Sets of records are finite.                                               *)
LEMMA RecordSets ==
    ASSUME LinesAssumed
    PROVE  /\ \A S \in SUBSET Lines!Records : IsFiniteSet(S) /\ Cardinality(S) \in Nat
           /\ \A T \in SUBSET Lines!Records : \A S \in SUBSET T : Cardinality(S) <= Cardinality(T)
           /\ \A S \in SUBSET Lines!Records : \A x : Cardinality(S \cup {x}) <= Cardinality(S) + 1
  <1>1. IsFiniteSet(Lines!Records)
    BY FS_Interval DEF LinesAssumed, Lines!Records
  <1>2. \A S \in SUBSET Lines!Records : IsFiniteSet(S) /\ Cardinality(S) \in Nat
    BY <1>1, FS_Subset, FS_CardinalityType
  <1>3. \A T \in SUBSET Lines!Records : \A S \in SUBSET T : Cardinality(S) <= Cardinality(T)
    BY <1>2, FS_Subset
  <1>4. \A S \in SUBSET Lines!Records : \A x : Cardinality(S \cup {x}) <= Cardinality(S) + 1
    <2> SUFFICES ASSUME NEW S \in SUBSET Lines!Records, NEW x
                 PROVE  Cardinality(S \cup {x}) <= Cardinality(S) + 1
      OBVIOUS
    <2>1. Cardinality(S \cup {x}) = IF x \in S THEN Cardinality(S) ELSE Cardinality(S) + 1
      BY <1>2, FS_AddElement
    <2> QED
      BY <1>2, <2>1
  <1> QED
    BY <1>2, <1>3, <1>4

LEMMA DoomedAre ==
    ASSUME LinesAssumed, LineShapes
    PROVE  Doomed \subseteq Lines!Records /\ Gone \subseteq Lines!Records /\
                Lines!Surprises \subseteq Lines!Records
  BY DEF Doomed, Gone, Lines!Surprises, Lines!Doing, LineShapes, AppendShape, RewriteShape,
     LinesAssumed, Lines!Records

(* Less is gone, and the file's end is as torn as before.                    *)
LEMMA PaysOn ==
    ASSUME LinesAssumed, LineShapes, LineShapes', TearsPay,
           Lines!Surprises' \subseteq Lines!Surprises, Gone' \cup Doomed' \subseteq Gone \cup
           Doomed,
           tail = None => tail' = None, tears' = tears
    PROVE  TearsPay'
  <1>1. /\ Gone \cup Doomed \in SUBSET Lines!Records /\ Gone' \cup Doomed' \in SUBSET (Gone \cup Doomed)
        /\ Lines!Surprises \in SUBSET Lines!Records /\ Lines!Surprises' \in SUBSET Lines!Surprises
    BY DoomedAre
  <1>2. /\ Cardinality(Gone' \cup Doomed') <= Cardinality(Gone \cup Doomed)
        /\ Cardinality(Lines!Surprises') <= Cardinality(Lines!Surprises)
        /\ {Cardinality(Gone' \cup Doomed'), Cardinality(Gone \cup Doomed)} \subseteq Nat
        /\ {Cardinality(Lines!Surprises'), Cardinality(Lines!Surprises)} \subseteq Nat
    BY <1>1, RecordSets
  <1> QED
    BY <1>2 DEF TearsPay, LineShapes

-----------------------------------------------------------------------------
(* An append.                                                                *)

LEMMA BeginAppendKeeps ==
    ASSUME LinesAssumed, LineInv, NEW n \in 1..2, Lines!BeginAppend(n)
    PROVE  LineInv'
  <1> DEFINE new == (appended + 1)..(appended + n)
  <1>1. /\ appended \in Nat /\ appended' = appended + n /\ appended' \in 0..MaxRecords
        /\ op' = [name |-> "append", todo |-> new, set |-> new]
        /\ may' = Lines!Hoped(mem \cup new)
        /\ Lines!Lines' = Lines!Lines
    BY DEF Lines!BeginAppend, LineInv, LineShapes, LinesAssumed, Lines!Lines
  <1>2. \A r \in new : r \in Lines!Records /\ r > appended /\ ~CanHave(r) /\ CanLack(r) /\ r \notin mem
    BY <1>1 DEF LineInv, LineShapes, LinesAssumed, Lines!Records
  <1>3. Lines!Lines \cap new = {} /\ tail \notin new
    BY <1>1, <1>2, LinesAre DEF LineInv, LineShapes, LinesAssumed, Lines!Records
  <1>4. \A r \in Lines!Records : /\ CanHave(r)' <=> CanHave(r) \/ r \in mem \cup new
                                 /\ CanLack(r)' <=> CanLack(r) \/ r \notin mem \cup new
    BY <1>1, Hoping
  <1>5. \A r \in new : CanHave(r)' /\ CanLack(r)'
    BY <1>2, <1>4
  <1>6. AppendShape'
    BY <1>1, <1>2, <1>3, <1>5 DEF AppendShape, Lines!BeginAppend, Lines!Idle
  <1>7. may' \in [Lines!Records -> SUBSET BOOLEAN]
    BY <1>1, HopesAreTruths DEF LineInv, LineShapes
  <1>8. \A r \in Lines!Records : r > appended' => ~CanHave(r)' /\ CanLack(r)'
    BY <1>1, <1>4 DEF LineInv, LineShapes, Lines!Records
  <1>9. LineShapes'
    <2>1. /\ store' = store /\ up' = up /\ tears' = tears /\ mem' = mem /\ file' = file /\ tail' = tail
      BY DEF Lines!BeginAppend
    <2>2. (tail \in Lines!Records => CanLack(tail))'
      <3>1. \A r \in Lines!Records : CanLack(r) => CanLack(r)'
        BY <1>4
      <3>2. tail \in Lines!Records => FALSE \in may'[tail]
        BY <3>1 DEF LineInv, LineShapes, CanLack
      <3> QED
        BY <2>1, <3>2 DEF CanLack, Lines!Records
    <2>3. 1..appended \subseteq 1..appended'
      BY <1>1 DEF LineInv, LineShapes, LinesAssumed
    <2>4. /\ mem \subseteq 1..appended'
          /\ Lines!Lines \subseteq (1..appended') \cup {Garbage}
          /\ tail \in (1..appended') \cup {Garbage, None}
      BY <2>3 DEF LineInv, LineShapes
    <2> QED
      BY <1>1, <1>6, <1>7, <1>8, <2>1, <2>2, <2>4 DEF LineInv, LineShapes
  <1>10. HistoryFits'
    BY <1>1, <1>4 DEF LineInv, HistoryFits, Fits, Lines!BeginAppend
  <1>11. Gone' \subseteq Gone
    BY <1>1, <1>4 DEF Gone, Fits
  <1>12. Lines!Surprises' \subseteq Lines!Surprises
    BY <1>4, SurprisesFit, SurprisesFitNext DEF Fits, Lines!BeginAppend
  <1>13. Doomed' = {}
    BY <1>1 DEF Doomed, Lines!Doing
  <1> QED
    BY <1>9, <1>10, <1>11, <1>12, <1>13, PaysOn DEF LineInv, Lines!BeginAppend

LEMMA LineWritten ==
    ASSUME LinesAssumed, LineShapes, NEW x, file' = Append(file, x), tail' = None
    PROVE  Lines!Lines' = {file[i] : i \in DOMAIN file} \cup {x}
  <1>1. /\ DOMAIN file' = 1..(Len(file) + 1) /\ DOMAIN file = 1..Len(file) /\ Len(file) \in Nat
        /\ \A i \in 1..Len(file) : file'[i] = file[i]
        /\ file'[Len(file) + 1] = x
    BY DEF LineShapes
  <1>2. {file'[i] : i \in DOMAIN file'} = {file[i] : i \in DOMAIN file} \cup {x}
    BY <1>1
  <1> QED
    BY <1>2 DEF Lines!Lines

LEMMA WriteLineKeeps ==
    ASSUME LinesAssumed, LineInv, Lines!WriteLine
    PROVE  LineInv'
  <1>0. op # None /\ op.name = "append" /\ AppendShape
    BY DEF Lines!WriteLine, Lines!Doing, LineInv, LineShapes, RewriteShape
  <1>1. PICK r \in op.todo : /\ file' = Append(file, Lines!Joined(r))
                             /\ op' = [op EXCEPT !.todo = @ \ {r}]
    BY DEF Lines!WriteLine
  <1>2. Lines!Lines' = {file[i] : i \in DOMAIN file} \cup {Lines!Joined(r)}
    BY <1>1, LineWritten DEF Lines!WriteLine, LineInv
  <1>3. op' = [name |-> "append", todo |-> op.todo \ {r}, set |-> op.set]
    BY <1>0, <1>1 DEF AppendShape
  <1>4. /\ up' = up /\ appended' = appended /\ mem' = mem /\ may' = may /\ store' = store
        /\ tail' = None /\ tears' = tears
    BY DEF Lines!WriteLine
  <1>5. \A x : CanHave(x)' = CanHave(x) /\ CanLack(x)' = CanLack(x)
    BY <1>4 DEF CanHave, CanLack
  <1>6. r \in op.set /\ r \in 1..appended /\ r \in Lines!Records /\ r # Garbage /\ r # None /\
              r \notin Lines!Lines
    BY <1>0 DEF AppendShape, LineInv, LineShapes, LinesAssumed, Lines!Records
  <1>7. Lines!Joined(r) \in (1..appended) \cup {Garbage}
    BY <1>6 DEF Lines!Joined
  <1>8. file' \in Seq(Lines!Records \cup {Garbage}) /\
              Lines!Lines' \subseteq (1..appended) \cup {Garbage}
    <2>1. Lines!Joined(r) \in Lines!Records \cup {Garbage}
      BY <1>6 DEF Lines!Joined
    <2>2. {file[i] : i \in DOMAIN file} \subseteq (1..appended) \cup {Garbage}
      BY DEF LineInv, LineShapes, Lines!Lines
    <2> QED
      BY <1>1, <1>2, <1>7, <2>1, <2>2 DEF LineInv, LineShapes
  <1>9. CASE tail = None
    <2>1. Lines!Lines' = Lines!Lines \cup {r} /\ (Garbage \in Lines!Lines' <=> Garbage \in Lines!Lines)
      BY <1>2, <1>6, <1>9 DEF Lines!Lines, Lines!Joined
    <2>2. AppendShape'
      BY <1>0, <1>3, <1>4, <1>5, <1>6, <2>1 DEF AppendShape, LineInv, LineShapes, LinesAssumed,
         Lines!Records
    <2>3. LineShapes'
      BY <1>4, <1>5, <1>8, <2>2 DEF LineInv, LineShapes, LinesAssumed, Lines!Records
    <2>4. HistoryFits'
      BY <1>0, <1>4, <1>5, <1>6, <2>1 DEF LineInv, HistoryFits, Fits, AppendShape
    <2>5. Lines!Surprises' \subseteq Lines!Surprises
      BY <1>4, <1>5, SurprisesFit, SurprisesFitNext DEF Fits
    <2>6. Gone' \subseteq Gone
      BY <1>0, <1>5, <1>6, <2>1 DEF Gone, Fits, AppendShape
    <2>7. Doomed' \subseteq Doomed
      BY <1>0, <1>3, <2>1 DEF Doomed, Lines!Doing
    <2> QED
      BY <1>4, <2>3, <2>4, <2>5, <2>6, <2>7, PaysOn DEF LineInv
  <1>10. CASE tail # None
    <2>1. Lines!Lines' = {file[i] : i \in DOMAIN file} \cup {Garbage}
      BY <1>2, <1>10 DEF Lines!Joined
    <2>2. Garbage \in Lines!Lines' /\ Lines!Lines \subseteq Lines!Lines' \cup {tail} /\
                Lines!Lines' \subseteq Lines!Lines \cup {Garbage}
      BY <2>1 DEF Lines!Lines
    <2>3. \A x \in Lines!Lines \ Lines!Lines' : x = tail /\ x \in Lines!Records /\ CanLack(x) /\
                x \notin op.set
      BY <1>0, <2>2, LinesAre DEF LineInv, LineShapes, AppendShape
    <2>4. AppendShape'
      BY <1>0, <1>3, <1>4, <1>5, <1>6, <2>2 DEF AppendShape, LineInv, LineShapes, LinesAssumed,
         Lines!Records
    <2>5. LineShapes'
      BY <1>4, <1>5, <1>8, <2>4 DEF LineInv, LineShapes, LinesAssumed, Lines!Records
    <2>6. HistoryFits'
      BY <1>4, <1>5, <2>2 DEF LineInv, HistoryFits, Fits
    <2>7. Lines!Surprises' \subseteq Lines!Surprises
      BY <1>4, <1>5, SurprisesFit, SurprisesFitNext DEF Fits
    <2>8. Gone' \subseteq Gone
      BY <1>5, <2>2, <2>3 DEF Gone, Fits, LinesAssumed
    <2>9. Doomed' \subseteq Doomed \cup {r}
      BY <1>0, <1>3, <2>2, <2>3 DEF Doomed, Lines!Doing
    <2>10. Cardinality(Gone' \cup Doomed') <= Cardinality(Gone \cup Doomed) + 1
      <3>1. /\ Gone \cup Doomed \in SUBSET Lines!Records
            /\ (Gone \cup Doomed) \cup {r} \in SUBSET Lines!Records
            /\ Gone' \cup Doomed' \in SUBSET ((Gone \cup Doomed) \cup {r})
        BY <1>6, <2>8, <2>9, DoomedAre DEF LineInv
      <3>2. /\ Cardinality(Gone' \cup Doomed') <= Cardinality((Gone \cup Doomed) \cup {r})
            /\ Cardinality((Gone \cup Doomed) \cup {r}) <= Cardinality(Gone \cup Doomed) + 1
            /\ {Cardinality(Gone' \cup Doomed'), Cardinality(Gone \cup Doomed),
                Cardinality((Gone \cup Doomed) \cup {r})} \subseteq Nat
        BY <3>1, RecordSets
      <3> QED
        BY <3>2
    <2>11. Cardinality(Lines!Surprises') <= Cardinality(Lines!Surprises)
      BY <2>7, RecordSets, DoomedAre DEF LineInv
    <2>12. {Cardinality(Gone' \cup Doomed'), Cardinality(Gone \cup Doomed),
            Cardinality(Lines!Surprises'), Cardinality(Lines!Surprises)} \subseteq Nat
      <3>1. /\ Gone \cup Doomed \in SUBSET Lines!Records /\ Gone' \cup Doomed' \in SUBSET Lines!Records
            /\ Lines!Surprises \in SUBSET Lines!Records /\ Lines!Surprises' \in SUBSET Lines!Records
        BY <1>6, <2>7, <2>8, <2>9, DoomedAre DEF LineInv
      <3> QED
        BY <3>1, RecordSets
    <2>13. TearsPay'
      BY <1>4, <1>10, <2>10, <2>11, <2>12 DEF LineInv, TearsPay, LineShapes
    <2> QED
      BY <2>5, <2>6, <2>13 DEF LineInv
  <1> QED
    BY <1>9, <1>10

LEMMA SameHopes ==
    ASSUME may' = may
    PROVE  /\ \A r : (CanHave(r)' <=> CanHave(r)) /\ (CanLack(r)' <=> CanLack(r))
           /\ \A set, r : Fits(set, r)' <=> Fits(set, r)
  BY DEF CanHave, CanLack, Fits

(* An operation ends without the file being touched.                         *)
LEMMA EndKeeps ==
    ASSUME LinesAssumed, LineInv, up' \in BOOLEAN, op' = None,
           UNCHANGED <<store, mem, file, tail, appended, tears, may>>
    PROVE  LineInv'
  <1>1. Lines!Lines' = Lines!Lines /\ Doomed' = {}
    BY DEF Lines!Lines, Doomed, Lines!Doing
  <1>2. \A r \in Lines!Records : /\ Fits(mem, r)' <=> Fits(mem, r)
                                 /\ Fits(Lines!Lines, r)' <=> Fits(Lines!Lines, r)
    BY <1>1, SameHopes DEF Fits
  <1>3. LineShapes'
    BY <1>1, SameHopes DEF LineInv, LineShapes
  <1>4. HistoryFits'
    BY <1>1, <1>2 DEF LineInv, HistoryFits
  <1>5. Gone' \subseteq Gone /\ Lines!Surprises' \subseteq Lines!Surprises
    BY <1>2, SurprisesFit, SurprisesFitNext DEF Gone
  <1> QED
    BY <1>1, <1>3, <1>4, <1>5, PaysOn DEF LineInv

(* A write stops within its line.                                            *)
LEMMA TornKeeps ==
    ASSUME LinesAssumed, LineInv, Lines!Doing("append"), Lines!Torn, up' \in BOOLEAN, op' = None,
           UNCHANGED <<store, mem, file, appended, may>>
    PROVE  LineInv'
  <1>0. AppendShape
    BY DEF Lines!Doing, LineInv, LineShapes, RewriteShape
  <1>1. PICK r \in op.todo : /\ tail' \in IF tail = None THEN {r, Garbage} ELSE {Garbage}
                             /\ tears' = tears + 1
    BY DEF Lines!Torn
  <1>2. r \in 1..appended /\ r \in Lines!Records /\ r # Garbage /\ r # None /\ CanHave(r) /\ CanLack(r)
    BY <1>0 DEF AppendShape, LineInv, LineShapes, LinesAssumed, Lines!Records
  <1>3. Lines!Lines' \subseteq Lines!Lines \cup {tail'} /\ tail' \in Lines!Lines' /\ tail' # None
    BY <1>1, <1>2 DEF Lines!Lines, LinesAssumed
  <1>4. Lines!Lines \subseteq Lines!Lines' \cup {tail}
    BY DEF Lines!Lines
  <1>5. \A x \in Lines!Lines \ Lines!Lines' : x = tail /\ x # None
    BY <1>4 DEF Lines!Lines
  <1>6. \A x \in Lines!Lines' \ Lines!Lines : x = r \/ x = Garbage
    BY <1>1, <1>3
  <1>7. tears \in Nat /\ tears' \in Nat
    BY <1>1 DEF LineInv, LineShapes
  <1>8. LineShapes'
    <2>1. tail' \in (1..appended) \cup {Garbage} /\ Lines!Lines' \subseteq (1..appended) \cup {Garbage}
      BY <1>1, <1>2, <1>3 DEF LineInv, LineShapes
    <2>2. tail' \in Lines!Records => CanLack(tail)'
      BY <1>1, <1>2 DEF CanLack, LinesAssumed
    <2> QED
      BY <1>7, <2>1, <2>2, SameHopes DEF LineInv, LineShapes
  <1>9. \A x \in Lines!Records : Fits(Lines!Lines, x) => Fits(Lines!Lines, x)'
    <2> SUFFICES ASSUME NEW x \in Lines!Records, Fits(Lines!Lines, x)
                 PROVE  Fits(Lines!Lines, x)'
      OBVIOUS
    <2>1. CASE x \in Lines!Lines /\ x \notin Lines!Lines'
      BY <1>5, <2>1, SameHopes DEF Fits, LineInv, LineShapes
    <2>2. CASE x \notin Lines!Lines /\ x \in Lines!Lines'
      BY <1>2, <1>6, <2>2, SameHopes DEF Fits, LinesAssumed
    <2>3. CASE x \in Lines!Lines <=> x \in Lines!Lines'
      BY <2>3, SameHopes DEF Fits
    <2> QED
      BY <2>1, <2>2, <2>3
  <1>10. Gone' \cup Doomed' \subseteq Gone \cup Doomed
    BY <1>9 DEF Gone, Doomed, Lines!Doing
  <1>11. Lines!Surprises' \subseteq Lines!Surprises
    BY SameHopes, SurprisesFit, SurprisesFitNext DEF Fits
  <1>12. HistoryFits'
    <2>1. Garbage \notin Lines!Lines' => Garbage \notin Lines!Lines \/ Garbage = tail
      BY <1>5
    <2>2. Garbage = tail => Garbage \in Lines!Lines'
      BY <1>1, <1>3 DEF LinesAssumed
    <2> QED
      BY <1>9, <2>1, <2>2, SameHopes DEF LineInv, HistoryFits, Fits
  <1>13. TearsPay'
    <2>1. /\ Gone \cup Doomed \in SUBSET Lines!Records /\ Lines!Surprises \in SUBSET Lines!Records
          /\ Gone' \cup Doomed' \in SUBSET Lines!Records /\ Lines!Surprises' \in SUBSET Lines!Records
      BY <1>10, <1>11, DoomedAre DEF LineInv
    <2>2. /\ Cardinality(Gone' \cup Doomed') <= Cardinality(Gone \cup Doomed)
          /\ Cardinality(Lines!Surprises') <= Cardinality(Lines!Surprises)
          /\ {Cardinality(Gone' \cup Doomed'), Cardinality(Gone \cup Doomed)} \subseteq Nat
          /\ {Cardinality(Lines!Surprises'), Cardinality(Lines!Surprises)} \subseteq Nat
      BY <1>10, <1>11, <2>1, RecordSets
    <2> QED
      BY <1>1, <1>3, <1>7, <2>2 DEF LineInv, TearsPay
  <1> QED
    BY <1>8, <1>12, <1>13 DEF LineInv

LEMMA EndAppendKeeps ==
    ASSUME LinesAssumed, LineInv, Lines!EndAppend
    PROVE  LineInv'
  <1>0. AppendShape /\ Lines!Doing("append") /\ op.todo = {}
    BY DEF Lines!EndAppend, Lines!Doing, LineInv, LineShapes, RewriteShape
  <1>1. /\ mem' = mem \cup op.set /\ may' = Lines!Settled(op.set, mem \cup op.set) /\ op' = None
        /\ UNCHANGED <<store, up, file, tail, appended, tears>>
    BY DEF Lines!EndAppend
  <1>2. Lines!Lines' = Lines!Lines /\ Doomed' = {} /\ Doomed = op.set \ Lines!Lines
    BY <1>0, <1>1 DEF Lines!Lines, Doomed, Lines!Doing
  <1>3. op.set \subseteq Lines!Records
    BY <1>0 DEF AppendShape, LineInv, LineShapes, Lines!Records, LinesAssumed
  <1>4. \A r \in Lines!Records :
            /\ r \in op.set => CanHave(r)' /\ ~CanLack(r)'
            /\ r \notin op.set => (CanHave(r)' <=> CanHave(r)) /\ (CanLack(r)' <=> CanLack(r))
    <2> SUFFICES ASSUME NEW r \in Lines!Records
                 PROVE  /\ r \in op.set => CanHave(r)' /\ ~CanLack(r)'
                        /\ r \notin op.set => (CanHave(r)' <=> CanHave(r)) /\
                                    (CanLack(r)' <=> CanLack(r))
      OBVIOUS
    <2> DEFINE S == op.set
               set == mem \cup op.set
    <2>1. may' = Lines!Settled(S, set)
      BY <1>1
    <2>2. r \in S => r \in set
      OBVIOUS
    <2> HIDE DEF S, set
    <2>3. /\ r \in S => (CanHave(r)' <=> r \in set) /\ (CanLack(r)' <=> r \notin set)
          /\ r \notin S => (CanHave(r)' <=> CanHave(r)) /\ (CanLack(r)' <=> CanLack(r))
      BY <2>1, Settling
    <2> QED
      BY <2>2, <2>3 DEF S
  <1>5. Gone' \subseteq Gone \cup Doomed
    BY <1>2, <1>4 DEF Gone, Fits
  <1>6. Lines!Surprises' \subseteq Lines!Surprises
    BY <1>1, <1>4, SurprisesFit, SurprisesFitNext DEF Fits
  <1>7. LineShapes'
    <2>1. may' \in [Lines!Records -> SUBSET BOOLEAN]
      BY <1>1, HopesAreTruths DEF LineInv, LineShapes
    <2>2. \A r \in Lines!Records : r > appended => ~CanHave(r)' /\ CanLack(r)'
      BY <1>0, <1>4 DEF AppendShape, LineInv, LineShapes
    <2>3. tail \in Lines!Records => CanLack(tail)'
      <3>1. \A r \in Lines!Records : r \notin op.set => (CanLack(r) => FALSE \in may'[r])
        BY <1>4 DEF CanLack
      <3> QED
        BY <1>0, <1>1, <3>1 DEF AppendShape, LineInv, LineShapes, CanLack
    <2>4. mem' \subseteq 1..appended
      BY <1>0, <1>1 DEF AppendShape, LineInv, LineShapes
    <2> QED
      BY <1>1, <1>2, <2>1, <2>2, <2>3, <2>4 DEF LineInv, LineShapes
  <1>8. HistoryFits'
    BY <1>0, <1>1, <1>2, <1>4 DEF LineInv, HistoryFits, Fits, AppendShape
  <1> QED
    BY <1>1, <1>2, <1>5, <1>6, <1>7, <1>8, PaysOn DEF LineInv

-----------------------------------------------------------------------------
(* A rewrite, and a start.                                                   *)

LEMMA BeginRewriteKeeps ==
    ASSUME LinesAssumed, LineInv, NEW keep \in SUBSET mem, Lines!BeginRewrite(keep)
    PROVE  LineInv'
  <1>1. /\ up /\ op = None
        /\ op' = [name |-> "rewrite", todo |-> {}, set |-> keep]
        /\ mem' = IF store = "metrics" THEN keep ELSE mem
        /\ may' = Lines!Hoped(keep)
        /\ UNCHANGED <<store, up, file, tail, appended, tears>>
    BY DEF Lines!BeginRewrite, Lines!Idle
  <1>2. Lines!Lines' = Lines!Lines /\ Doomed' = {}
    BY <1>1 DEF Lines!Lines, Doomed, Lines!Doing
  <1>3. \A r \in Lines!Records : /\ CanHave(r)' <=> CanHave(r) \/ r \in keep
                                 /\ CanLack(r)' <=> CanLack(r) \/ r \notin keep
    BY <1>1, Hoping
  <1>4. RewriteShape'
    BY <1>1, <1>3 DEF RewriteShape, Fits, LineInv, LineShapes
  <1>5. Gone' \subseteq Gone
    BY <1>2, <1>3 DEF Gone, Fits
  <1>6. Lines!Surprises' \subseteq Lines!Surprises
    BY <1>1, <1>3, SurprisesFit, SurprisesFitNext DEF Fits
  <1>7. LineShapes'
    <2>1. may' \in [Lines!Records -> SUBSET BOOLEAN]
      BY <1>1, HopesAreTruths DEF LineInv, LineShapes
    <2>2. \A r \in Lines!Records : r > appended => ~CanHave(r)' /\ CanLack(r)'
      <3>1. \A r \in Lines!Records : r > appended => r \notin keep
        BY DEF LineInv, LineShapes, LinesAssumed, Lines!Records
      <3> QED
        BY <1>3, <3>1 DEF LineInv, LineShapes
    <2>3. tail \in Lines!Records => CanLack(tail)'
      <3>1. \A r \in Lines!Records : CanLack(r) => FALSE \in may'[r]
        BY <1>3 DEF CanLack
      <3> QED
        BY <1>1, <3>1 DEF LineInv, LineShapes, CanLack
    <2> QED
      BY <1>1, <1>2, <1>4, <2>1, <2>2, <2>3 DEF LineInv, LineShapes
  <1>8. HistoryFits'
    BY <1>1, <1>2, <1>3 DEF LineInv, LineShapes, HistoryFits, Fits
  <1> QED
    BY <1>1, <1>2, <1>5, <1>6, <1>7, <1>8, PaysOn DEF LineInv

(* A file in order has a line for each record it is made of.                 *)
LEMMA FileOrdered ==
    ASSUME LinesAssumed, NEW set \in SUBSET Lines!Records, NEW s \in Lines!InOrder(set)
    PROVE  s \in Seq(set) /\ {s[i] : i \in DOMAIN s} = set
  <1> DEFINE n == Cardinality(set)
  <1>1. IsFiniteSet(set) /\ n \in Nat
    BY RecordSets
  <1>2. s \in [1..n -> set] /\ \A i, j \in 1..n : i < j => s[i] < s[j]
    <2>1. Lines!Cardinality(set) = n
      BY LineSets
    <2> QED
      BY <2>1 DEF Lines!InOrder
  <1>3. s \in Seq(set)
    BY <1>1, <1>2
  <1>4. \A i, j \in 1..n : s[i] = s[j] => i = j
    <2>1. \A i \in 1..n : s[i] \in Nat
      <3>1. set \subseteq Nat
        BY DEF Lines!Records, LinesAssumed
      <3>2. \A i \in 1..n : s[i] \in set
        BY <1>2
      <3> QED
        BY <3>1, <3>2
    <2>2. \A i, j \in 1..n : i # j => i < j \/ j < i
      BY <1>1
    <2>3. \A i, j \in 1..n : i < j => s[i] # s[j]
      <3> SUFFICES ASSUME NEW i \in 1..n, NEW j \in 1..n, i < j
                   PROVE  s[i] # s[j]
        OBVIOUS
      <3>1. s[i] < s[j] /\ s[i] \in Nat /\ s[j] \in Nat
        BY <1>2, <2>1
      <3> QED
        BY <3>1
    <2> QED
      BY <2>2, <2>3
  <1>5. s \in Injection(1..n, set)
    BY <1>2, <1>4 DEF Injection, IsInjective
  <1>6. Cardinality(1..n) = n
    BY <1>1, FS_Interval
  <1>7. s \in Surjection(1..n, set)
    BY <1>1, <1>5, <1>6, FS_Injection
  <1> QED
    BY <1>2, <1>3, <1>7 DEF Surjection

LEMMA RenameKeeps ==
    ASSUME LinesAssumed, LineInv, Lines!Rename
    PROVE  LineInv'
  <1>0. RewriteShape /\ Lines!Doing("rewrite")
    BY DEF Lines!Rename, Lines!Doing, LineInv, LineShapes, AppendShape
  <1>1. /\ file' \in Lines!InOrder(op.set) /\ tail' = None /\ mem' = op.set /\ op' = None
        /\ may' = Lines!Settled(mem \cup op.set, op.set)
        /\ UNCHANGED <<store, up, appended, tears>>
    BY DEF Lines!Rename
  <1>2. op.set \subseteq mem /\ op.set \subseteq 1..appended /\ op.set \subseteq Lines!Records
        /\ mem \subseteq Lines!Records
    BY <1>0 DEF RewriteShape, LineInv, LineShapes, LinesAssumed, Lines!Records
  <1>3. Lines!Lines' = op.set /\ file' \in Seq(Lines!Records \cup {Garbage})
    <2>1. file' \in Seq(op.set) /\ {file'[i] : i \in DOMAIN file'} = op.set
      BY <1>1, <1>2, FileOrdered
    <2> QED
      BY <1>1, <1>2, <2>1 DEF Lines!Lines
  <1>4. \A r \in Lines!Records :
            /\ r \in mem => (CanHave(r)' <=> r \in op.set) /\ (CanLack(r)' <=> r \notin op.set)
            /\ r \notin mem => (CanHave(r)' <=> CanHave(r)) /\ (CanLack(r)' <=> CanLack(r))
    <2> SUFFICES ASSUME NEW r \in Lines!Records
                 PROVE  /\ r \in mem => (CanHave(r)' <=> r \in op.set) /\
                              (CanLack(r)' <=> r \notin op.set)
                        /\ r \notin mem => (CanHave(r)' <=> CanHave(r)) /\ (CanLack(r)' <=> CanLack(r))
      OBVIOUS
    <2> DEFINE S == mem \cup op.set
               set == op.set
    <2>1. may' = Lines!Settled(S, set)
      BY <1>1
    <2>2. S = mem
      BY <1>2
    <2> HIDE DEF S, set
    <2>3. /\ r \in S => (CanHave(r)' <=> r \in set) /\ (CanLack(r)' <=> r \notin set)
          /\ r \notin S => (CanHave(r)' <=> CanHave(r)) /\ (CanLack(r)' <=> CanLack(r))
      BY <2>1, Settling
    <2> QED
      BY <2>2, <2>3 DEF set
  <1>5. \A r \in Lines!Records : IF r \in op.set THEN CanHave(r)' ELSE CanLack(r)'
    BY <1>0, <1>2, <1>4 DEF RewriteShape, Fits
  <1>6. Gone' = {} /\ Lines!Surprises' = {} /\ Doomed' = {}
    BY <1>1, <1>3, <1>5, SurprisesFitNext DEF Gone, Fits, Doomed, Lines!Doing
  <1>7. LineShapes'
    <2>1. may' \in [Lines!Records -> SUBSET BOOLEAN]
      BY <1>1, HopesAreTruths DEF LineInv, LineShapes
    <2>2. \A r \in Lines!Records : r > appended => ~CanHave(r)' /\ CanLack(r)'
      BY <1>4 DEF LineInv, LineShapes, Lines!Records
    <2>3. None \notin Lines!Records
      BY DEF LinesAssumed
    <2> QED
      BY <1>1, <1>2, <1>3, <2>1, <2>2, <2>3 DEF LineInv, LineShapes
  <1>8. HistoryFits'
    BY <1>1, <1>3, <1>5 DEF HistoryFits, Fits
  <1>9. TearsPay'
    BY <1>1, <1>6, FS_EmptySet DEF LineInv, LineShapes, TearsPay
  <1> QED
    BY <1>7, <1>8, <1>9 DEF LineInv

LEMMA LoadKeeps ==
    ASSUME LinesAssumed, LineInv, Lines!Load
    PROVE  LineInv'
  <1>1. /\ up' = TRUE /\ ~up /\ Lines!Readable /\ mem' = Lines!Lines \ {Garbage}
        /\ UNCHANGED <<store, file, tail, op, appended, tears, may>>
    BY DEF Lines!Load, Lines!Loaded
  <1>2. op = None
    BY <1>1 DEF LineInv, LineShapes, AppendShape, RewriteShape
  <1>3. Lines!Lines' = Lines!Lines /\ Doomed' = Doomed /\ Doomed = {}
    BY <1>1, <1>2 DEF Lines!Lines, Doomed, Lines!Doing
  <1>4. Gone' = Gone /\ Lines!Surprises' = Gone
    BY <1>1, <1>3, SameHopes, SurprisesFitNext DEF Gone, Fits, LinesAssumed
  <1>5. LineShapes'
    BY <1>1, <1>2, <1>3, SameHopes DEF LineInv, LineShapes
  <1>6. HistoryFits'
    BY <1>1, <1>3, SameHopes DEF LineInv, HistoryFits, Lines!Readable, Fits
  <1>7. TearsPay'
    <2>1. Gone \cup Doomed = Gone /\ Cardinality(Gone) \in Nat
      BY <1>3, RecordSets, DoomedAre DEF LineInv
    <2> QED
      BY <1>1, <1>3, <1>4, <2>1 DEF LineInv, LineShapes, TearsPay
  <1> QED
    BY <1>5, <1>6, <1>7 DEF LineInv

LEMMA LineStays ==
    ASSUME LinesAssumed, LineInv, UNCHANGED Lines!vars
    PROVE  LineInv'
  <1>1. Lines!Lines' = Lines!Lines /\ Doomed' = Doomed
    BY DEF Lines!vars, Lines!Lines, Doomed, Lines!Doing
  <1>2. LineShapes'
    BY <1>1, SameHopes DEF LineInv, LineShapes, AppendShape, RewriteShape, Fits, Lines!vars
  <1>3. Gone' = Gone /\ Lines!Surprises' = Lines!Surprises
    BY <1>1, SameHopes, SurprisesFit, SurprisesFitNext DEF Gone, Fits, Lines!vars
  <1> QED
    BY <1>1, <1>2, <1>3, SameHopes DEF LineInv, HistoryFits, Fits, TearsPay, Lines!vars

LEMMA LineBegins ==
    ASSUME LinesAssumed, Lines!Init
    PROVE  LineInv
  <1>1. Lines!Lines = {} /\ Doomed = {}
    BY DEF Lines!Init, Lines!Lines, Doomed, Lines!Doing
  <1>2. \A r \in Lines!Records : CanLack(r) /\ ~CanHave(r)
    BY Truths, Zenon DEF Lines!Init, CanLack, CanHave
  <1>3. Gone = {} /\ Lines!Surprises = {}
    BY <1>1, <1>2, SurprisesFit DEF Gone, Fits, Lines!Init
  <1>4. LineShapes
    BY <1>1, <1>2 DEF Lines!Init, LineShapes, LinesAssumed
  <1>5. HistoryFits
    BY <1>1, <1>2 DEF Lines!Init, HistoryFits, Fits
  <1>6. TearsPay
    BY <1>1, <1>3, FS_EmptySet DEF TearsPay, Lines!Init
  <1> QED
    BY <1>4, <1>5, <1>6 DEF LineInv

LEMMA LineSteps ==
    ASSUME LinesAssumed, LineInv, [Lines!Next]_(Lines!vars)
    PROVE  LineInv'
  <1>1. CASE Lines!AppendFails
    <2>1. Lines!Doing("append") /\ op' = None /\ up' \in BOOLEAN
      BY <1>1 DEF Lines!AppendFails, LineInv, LineShapes
    <2> QED
      BY <1>1, <2>1, TornKeeps, EndKeeps DEF Lines!AppendFails
  <1>2. CASE Lines!RewriteFails
    <2>1. op' = None /\ up' \in BOOLEAN
      BY <1>2 DEF Lines!RewriteFails, LineInv, LineShapes
    <2> QED
      BY <1>2, <2>1, EndKeeps DEF Lines!RewriteFails
  <1>3. CASE Lines!Crash
    <2>1. op' = None /\ up' \in BOOLEAN
      BY <1>3 DEF Lines!Crash
    <2> QED
      BY <1>3, <2>1, TornKeeps, EndKeeps DEF Lines!Crash
  <1> QED
    BY <1>1, <1>2, <1>3, BeginAppendKeeps, WriteLineKeeps, EndAppendKeeps, BeginRewriteKeeps,
       RenameKeeps, LoadKeeps, LineStays DEF Lines!Next

-----------------------------------------------------------------------------
(* The history is a durable map.                                             *)

LEMMA HasFits ==
    ASSUME NEW set, NEW r \in Lines!Records
    PROVE  /\ Lines!Has(set)[r] \in BOOLEAN
           /\ Fits(set, r) => Lines!Has(set)[r] \in may[r]
  <1>1. CASE r \in set
    <2>1. Lines!Has(set)[r] = TRUE
      BY <1>1, HasValue, Zenon
    <2> QED
      BY <1>1, <2>1, Zenon DEF Fits, CanHave
  <1>2. CASE r \notin set
    <2>1. Lines!Has(set)[r] = FALSE
      BY <1>2, HasValue, Zenon
    <2> QED
      BY <1>2, <2>1, Zenon DEF Fits, CanLack
  <1> QED
    BY <1>1, <1>2

LEMMA HasType == \A set : Lines!Has(set) \in [Lines!Records -> BOOLEAN]
  <1> SUFFICES ASSUME NEW set PROVE Lines!Has(set) \in [Lines!Records -> BOOLEAN]
    OBVIOUS
  <1>1. \A r \in Lines!Records : Lines!Has(set)[r] \in BOOLEAN
    BY HasFits
  <1> QED
    BY <1>1 DEF Lines!Has

LEMMA HasSame ==
    ASSUME NEW S, NEW T, NEW r \in Lines!Records, r \in S <=> r \in T
    PROVE  Lines!Has(S)[r] = Lines!Has(T)[r]
  BY HasValue, Zenon

LEMMA HistoryBegins ==
    ASSUME LinesAssumed, Lines!Init
    PROVE  Lines!Durable!Init
  <1> DEFINE kept == IF Lines!History THEN Lines!Has(mem) ELSE Lines!Has({})
             held == IF Lines!History THEN may ELSE [r \in Lines!Records |-> {FALSE}]
  <1>1. kept = Lines!Has({}) /\ held = [r \in Lines!Records |-> {FALSE}]
    BY DEF Lines!Init
  <1>2. \A r \in Lines!Records : Lines!Has({})[r] = FALSE
    <2> SUFFICES ASSUME NEW r \in Lines!Records PROVE Lines!Has({})[r] = FALSE
      OBVIOUS
    <2>1. r \notin {}
      OBVIOUS
    <2> QED
      BY <2>1, HasValue, Zenon
  <1>3. (Lines!History /\ up) \in BOOLEAN
    BY Zenon DEF Lines!History
  <1>4. held = [r \in Lines!Records |-> {kept[r]}]
    BY <1>1, <1>2
  <1>5. kept \in [Lines!Records -> BOOLEAN]
    BY <1>1, HasType
  <1> QED
    BY <1>3, <1>4, <1>5, Zenon DEF Lines!Durable!Init

LEMMA HistorySteps ==
    ASSUME LinesAssumed, LineInv, [Lines!Next]_(Lines!vars)
    PROVE  [Lines!Durable!Next]_(Lines!Durable!vars)
  <1>1. store' = store
    BY DEF Lines!Next, Lines!vars, Lines!BeginAppend, Lines!WriteLine, Lines!AppendFails,
       Lines!EndAppend, Lines!BeginRewrite, Lines!Rename,
           Lines!RewriteFails, Lines!Crash, Lines!Load
  <1>2. CASE ~Lines!History
    BY <1>1, <1>2 DEF Lines!History, Lines!Durable!vars
  <1> SUFFICES ASSUME store = "history"
               PROVE  [Lines!Durable!Next]_(Lines!Durable!vars)
    BY <1>2 DEF Lines!History
  <1>3. Lines!History /\ Lines!History'
    BY <1>1 DEF Lines!History
  <1>4. \A r \in Lines!Records : Fits(mem, r)
    BY DEF LineInv, HistoryFits
  <1>5. CASE UNCHANGED <<up, mem, may>>
    BY <1>1, <1>5 DEF Lines!History, Lines!Durable!vars
  <1>6. ASSUME NEW set, up, up' = up, mem' = mem, may' = Lines!Hoped(set)
        PROVE  Lines!Durable!Attempt
    <2>1. \A r \in Lines!Records : Lines!Has(set)[r] \in BOOLEAN /\
                may'[r] = may[r] \cup {Lines!Has(set)[r]}
      BY <1>6, HasFits DEF Lines!Hoped
    <2>2. may' \in [Lines!Records -> SUBSET BOOLEAN]
      BY <1>6, HopesAreTruths DEF LineInv, LineShapes
    <2> QED
      BY <1>3, <1>6, <2>1, <2>2 DEF Lines!Durable!Attempt
  <1>7. ASSUME NEW S, NEW set, up, up' = up, mem' = set, may' = Lines!Settled(S, set),
               \A r \in Lines!Records : r \in S => Lines!Has(set)[r] \in may[r],
               \A r \in Lines!Records : r \notin S => (r \in set <=> r \in mem)
        PROVE  Lines!Durable!Acknowledge
    <2>1. \A r \in Lines!Records : /\ r \in S => Lines!Has(set)[r] \in may[r] /\
                                         may'[r] = {Lines!Has(set)[r]}
                                   /\ r \notin S => Lines!Has(set)[r] = Lines!Has(mem)[r] /\
                                               may'[r] = may[r]
      BY <1>7, HasSame DEF Lines!Settled
    <2>2. Lines!Has(set) \in [Lines!Records -> BOOLEAN]
      BY HasType
    <2> QED
      BY <1>3, <1>7, <2>1, <2>2 DEF Lines!Durable!Acknowledge
  <1>8. CASE \E n \in 1..2 : Lines!BeginAppend(n)
    BY <1>6, <1>8 DEF Lines!BeginAppend, Lines!Idle, Lines!Durable!Next
  <1>9. CASE \E keep \in SUBSET mem : Lines!BeginRewrite(keep)
    BY <1>6, <1>9 DEF Lines!BeginRewrite, Lines!Idle, Lines!Durable!Next
  <1>10. CASE Lines!EndAppend
    <2>1. AppendShape
      BY <1>10 DEF Lines!EndAppend, Lines!Doing, LineInv, LineShapes, RewriteShape
    <2> DEFINE S == op.set
               set == mem \cup op.set
    <2>2. up /\ up' = up /\ mem' = set /\ may' = Lines!Settled(S, set)
      BY <1>10, <2>1 DEF Lines!EndAppend, AppendShape
    <2>3. \A r \in Lines!Records : /\ r \in S => r \in set /\ Fits(set, r)
                                   /\ r \notin S => (r \in set <=> r \in mem)
      BY <2>1 DEF AppendShape, Fits
    <2> HIDE DEF S, set
    <2> QED
      BY <1>7, <2>2, <2>3, HasFits DEF Lines!Durable!Next
  <1>11. CASE Lines!Rename
    <2>1. RewriteShape
      BY <1>11 DEF Lines!Rename, Lines!Doing, LineInv, LineShapes, AppendShape
    <2> DEFINE S == mem \cup op.set
               set == op.set
    <2>2. up /\ up' = up /\ mem' = set /\ may' = Lines!Settled(S, set)
      BY <1>11, <2>1 DEF Lines!Rename, RewriteShape
    <2>3. \A r \in Lines!Records : /\ Fits(set, r)
                                   /\ r \notin S => (r \in set <=> r \in mem)
      BY <2>1 DEF RewriteShape
    <2> HIDE DEF S, set
    <2> QED
      BY <1>7, <2>2, <2>3, HasFits DEF Lines!Durable!Next
  <1>12. CASE Lines!Crash
    BY <1>3, <1>12 DEF Lines!Crash, Lines!Durable!Next, Lines!Durable!Crash
  <1>13. CASE Lines!Load
    <2>1. ~up /\ up' = TRUE /\ mem' = Lines!Lines \ {Garbage} /\ may' = may /\
                Garbage \notin Lines!Lines
      BY <1>13 DEF Lines!Load, Lines!Loaded, Lines!Readable
    <2>2. \A r \in Lines!Records : Fits(mem', r)
      BY <2>1 DEF LineInv, HistoryFits, Fits
    <2>3. \A r \in Lines!Records : Lines!Has(mem')[r] \in may[r]
      BY <2>2, HasFits
    <2>4. Lines!Has(mem') \in [Lines!Records -> BOOLEAN]
      BY HasType
    <2> QED
      BY <1>3, <2>1, <2>3, <2>4 DEF Lines!Durable!Next, Lines!Durable!Reopen
  <1>14. CASE Lines!WriteLine \/ Lines!AppendFails \/ Lines!RewriteFails \/ UNCHANGED Lines!vars
    BY <1>5, <1>14 DEF Lines!WriteLine, Lines!AppendFails, Lines!RewriteFails, Lines!vars
  <1> QED
    BY <1>8, <1>9, <1>10, <1>11, <1>12, <1>13, <1>14 DEF Lines!Next

RecordsAssumed == NoteCap \in Nat \ {0} /\ MaxWrites \in Nat /\ None \notin Records!Contents

LEMMA RecordsAssumption == RecordsAssumed
  BY PartsAssumption DEF PartsAssumption, Records!RecordStoreAssumption, RecordsAssumed

(* A function can be defined by recursion over the first numbers.            *)
LEMMA DefinedByRecursion ==
    ASSUME NEW X, NEW base \in X, NEW m \in Nat, NEW step \in [1..m -> [X -> X]]
    PROVE  \E f \in [0..m -> X] :
               f[0] = base /\ \A n \in 1..m : f[n] = step[n][f[n - 1]]
  <1> DEFINE Good(f, n) == f[0] = base /\ \A k \in 1..n : f[k] = step[k][f[k - 1]]
             bad == {n \in 0..m : ~\E f \in [0..n -> X] : Good(f, n)}
  <1>1. bad = {}
    <2> SUFFICES ASSUME bad # {}
                 PROVE  FALSE
      OBVIOUS
    <2>1. PICK n \in bad : \A k \in bad : n <= k
      <3>1. bad \in SUBSET Nat
        OBVIOUS
      <3> HIDE DEF bad
      <3> QED
        BY <3>1, LeastOf
    <2>2. n # 0
      <3>1. Good([k \in 0..0 |-> base], 0)
        OBVIOUS
      <3> QED
        BY <2>1, <3>1
    <2>3. n \in 1..m /\ n - 1 \in 0..m /\ n - 1 \notin bad
      <3>1. n \in 0..m
        BY <2>1
      <3> HIDE DEF bad
      <3> QED
        BY <2>1, <2>2, <3>1
    <2>4. PICK f \in [0..(n - 1) -> X] : Good(f, n - 1)
      BY <2>3
    <2> DEFINE g == [k \in 0..n |-> IF k = n THEN step[n][f[n - 1]] ELSE f[k]]
    <2>5. step[n][f[n - 1]] \in X
      <3>1. f[n - 1] \in X /\ step[n] \in [X -> X]
        BY <2>3, <2>4
      <3> QED
        BY <3>1
    <2>6. g \in [0..n -> X]
      BY <2>1, <2>4, <2>5
    <2>7. ASSUME NEW k \in 1..n
          PROVE  g[k] = step[k][g[k - 1]]
      <3>1. g[k - 1] = f[k - 1]
        BY <2>1
      <3>2. CASE k = n
        BY <2>1, <3>1, <3>2
      <3>3. CASE k # n
        BY <2>1, <2>4, <3>1, <3>3
      <3> QED
        BY <3>2, <3>3
    <2>8. g[0] = base
      BY <2>1, <2>2, <2>4
    <2> QED
      BY <2>1, <2>6, <2>7, <2>8
  <1>2. PICK f \in [0..m -> X] : Good(f, m)
    BY <1>1
  <1> QED
    BY <1>2

LEMMA UnendedType ==
    ASSUME NEW R, NEW list \in Seq(R), NEW until
    PROVE  Records!Unended(list, until) \in Seq(R)
  <1> DEFINE m == Len(list)
             step == [n \in 1..m |-> [x \in Seq(R) |->
                         IF list[n].ends >= until THEN Append(x, list[n]) ELSE x]]
             Rec(f) == [n \in 0..m |->
                IF n = 0 THEN <<>>
                ELSE IF list[n].ends >= until THEN Append(f[n - 1], list[n]) ELSE f[n - 1]]
             kept == CHOOSE f : f = Rec(f)
  <1>1. step \in [1..m -> [Seq(R) -> Seq(R)]] /\ m \in Nat /\ <<>> \in Seq(R)
    OBVIOUS
  <1>2. \E f \in [0..m -> Seq(R)] :
            f[0] = <<>> /\ \A n \in 1..m : f[n] = step[n][f[n - 1]]
    <2> DEFINE X == Seq(R)
               base == <<>>
    <2>1. base \in X /\ m \in Nat /\ step \in [1..m -> [X -> X]]
      BY <1>1
    <2> HIDE DEF step, m, X, base
    <2>2. \E f \in [0..m -> X] : f[0] = base /\ \A n \in 1..m : f[n] = step[n][f[n - 1]]
      BY <2>1, DefinedByRecursion
    <2> QED
      BY <2>2 DEF X, base
  <1>3. PICK f \in [0..m -> Seq(R)] :
            f[0] = <<>> /\ \A n \in 1..m : f[n] = step[n][f[n - 1]]
    BY <1>2
  <1>4. f = Rec(f)
    <2>1. \A n \in 1..m : step[n][f[n - 1]] =
              IF list[n].ends >= until THEN Append(f[n - 1], list[n]) ELSE f[n - 1]
      OBVIOUS
    <2>2. \A n \in 0..m : n = 0 \/ n \in 1..m
      BY <1>1
    <2>3. f = [n \in 0..m |-> f[n]]
      BY <1>3
    <2> HIDE DEF step
    <2> QED
      BY <1>3, <2>1, <2>2, <2>3
  <1>5. kept = Rec(kept)
    BY <1>4
  <1>6. \A n \in 0..m : kept[n] \in Seq(R)
    <2> DEFINE bad == {n \in 0..m : kept[n] \notin Seq(R)}
    <2> SUFFICES ASSUME bad # {} PROVE FALSE
      OBVIOUS
    <2> HIDE DEF kept
    <2>1. PICK n \in bad : \A k \in bad : n <= k
      <3>1. bad \in SUBSET Nat
        OBVIOUS
      <3> HIDE DEF bad
      <3> QED
        BY <3>1, LeastOf
    <2>2. CASE n = 0
      BY <1>5, <2>1, <2>2
    <2>3. CASE n # 0
      <3>1. n - 1 \in 0..m /\ n \in 1..m /\ n - 1 \notin bad
        <4>1. n \in 0..m
          BY <2>1
        <4> HIDE DEF bad
        <4> QED
          BY <2>1, <2>3, <4>1
      <3>2. kept[n - 1] \in Seq(R)
        BY <3>1
      <3>3. kept[n] = IF list[n].ends >= until THEN Append(kept[n - 1], list[n]) ELSE kept[n - 1]
        BY <1>5, <2>3, <3>1
      <3>4. list[n] \in R
        BY <3>1
      <3>5. kept[n] \in Seq(R)
        BY <3>2, <3>3, <3>4
      <3> QED
        BY <2>1, <3>5
    <2> QED
      BY <2>2, <2>3
  <1>7. kept[m] \in Seq(R)
    <2>1. m \in 0..m
      BY <1>1
    <2> HIDE DEF kept, m
    <2> QED
      BY <1>6, <2>1
  <1> QED
    BY <1>7 DEF Records!Unended

-----------------------------------------------------------------------------
(* The lists.                                                                *)

SessionRecords == [token : SessionTokens, version : Records!Versions, ends : Nat]
PrefRecords == [user : {1}, app : {1}, version : Records!Versions]
RequestRecords == [id : {1}, version : Records!Versions]

LEMMA ReplacedType ==
    ASSUME NEW R, NEW list \in Seq(R), NEW i, NEW x \in R
    PROVE  /\ [list EXCEPT ![i] = x] \in Seq(R)
           /\ Append(list, x) \in Seq(R)
  <1>1. list \in [1..Len(list) -> R] /\ Len(list) \in Nat
    OBVIOUS
  <1>2. [list EXCEPT ![i] = x] \in [1..Len(list) -> R]
    BY <1>1
  <1>3. [list EXCEPT ![i] = x] \in Seq(R)
    BY <1>1, <1>2
  <1> QED
    BY <1>3

LEMMA UpsertTypes ==
    /\ \A list \in Seq(SessionRecords) : \A x \in SessionRecords :
                Records!UpsertPersistentSession(list, x) \in Seq(SessionRecords)
    /\ \A list \in Seq(PrefRecords) : \A x \in PrefRecords :
                Records!UpsertNotificationPreference(list, x) \in Seq(PrefRecords)
    /\ \A list \in Seq(RequestRecords) : \A x \in RequestRecords :
                Records!UpsertRepairRequest(list, x) \in Seq(RequestRecords)
  <1>1. \A list \in Seq(SessionRecords) : \A x \in SessionRecords :
              Records!UpsertPersistentSession(list, x) \in Seq(SessionRecords)
    BY ReplacedType DEF Records!UpsertPersistentSession, Records!Upsert
  <1>2. \A list \in Seq(PrefRecords) : \A x \in PrefRecords :
              Records!UpsertNotificationPreference(list, x) \in Seq(PrefRecords)
    BY ReplacedType DEF Records!UpsertNotificationPreference, Records!Upsert
  <1>3. \A list \in Seq(RequestRecords) : \A x \in RequestRecords :
              Records!UpsertRepairRequest(list, x) \in Seq(RequestRecords)
    BY ReplacedType DEF Records!UpsertRepairRequest, Records!Upsert
  <1> QED
    BY <1>1, <1>2, <1>3

LEMMA DeleteType ==
    ASSUME NEW list \in Seq(SessionRecords), NEW token
    PROVE  Records!DeletePersistentSession(list, token) \in Seq(SessionRecords)
  <1> DEFINE hits == {i \in DOMAIN list : list[i].token = token}
  <1>1. CASE hits = {}
    BY <1>1 DEF Records!DeletePersistentSession
  <1>2. CASE hits # {}
    <2> DEFINE i == CHOOSE n \in hits : \A j \in hits : n <= j
    <2>1. i \in 1..Len(list)
      <3>1. hits \in SUBSET Nat
        OBVIOUS
      <3>2. \E n \in hits : \A j \in hits : n <= j
        <4> HIDE DEF hits
        <4> QED
          BY <1>2, <3>1, LeastOf
      <3>3. i \in hits
        BY <3>2
      <3> QED
        BY <3>3
    <2>2. Records!DeletePersistentSession(list, token) = Records!RemoveAt(list, i)
      BY <1>2 DEF Records!DeletePersistentSession
    <2> HIDE DEF i, hits
    <2>3. SubSeq(list, 1, i - 1) \in Seq(SessionRecords) /\ SubSeq(list, i + 1,
                Len(list)) \in Seq(SessionRecords)
      <3>1. \A n \in 1..(i - 1) : list[n] \in SessionRecords
        BY <2>1
      <3>2. \A n \in (i + 1)..Len(list) : list[n] \in SessionRecords
        BY <2>1
      <3> QED
        BY <2>1, <3>1, <3>2
    <2> QED
      BY <2>2, <2>3 DEF Records!RemoveAt
  <1> QED
    BY <1>1, <1>2

LEMMA CappedType ==
    ASSUME RecordsAssumed, NEW list \in Seq(Records!Versions), NEW x \in Records!Versions
    PROVE  Records!AppendCapped(list, x, NoteCap) \in Seq(Records!Versions)
  <1> DEFINE longer == Append(list, x)
             from == Len(longer) - NoteCap + 1
  <1>1. longer \in Seq(Records!Versions) /\ Len(longer) \in Nat /\ NoteCap \in Nat
    BY DEF RecordsAssumed
  <1> HIDE DEF longer
  <1>2. CASE Len(longer) > NoteCap
    <2>1. from \in 1..(Len(longer) + 1)
      BY <1>1, <1>2
    <2>2. \A n \in from..Len(longer) : longer[n] \in Records!Versions
      BY <1>1, <2>1
    <2>3. SubSeq(longer, from, Len(longer)) \in Seq(Records!Versions)
      BY <1>1, <2>1, <2>2
    <2> QED
      BY <1>1, <1>2, <2>3 DEF Records!AppendCapped, longer
  <1>3. CASE Len(longer) <= NoteCap
    BY <1>1, <1>3 DEF Records!AppendCapped, longer
  <1> QED
    BY <1>1, <1>2, <1>3

-----------------------------------------------------------------------------
(* What a reader finds.                                                      *)

Versioned == 0..MaxWrites

SessionVersion(list, token) == Records!Version(Records!Find(list, LAMBDA x : x.token = token))

LEMMA FoundSession ==
    ASSUME NEW list \in Seq(SessionRecords), NEW token, RecordsAssumed
    PROVE  SessionVersion(list, token) \in Versioned
  <1> DEFINE hits == {i \in DOMAIN list : list[i].token = token}
  <1>1. CASE hits = {}
    BY <1>1 DEF SessionVersion, Records!Find, Records!Version, Versioned, RecordsAssumed
  <1>2. CASE hits # {}
    <2> DEFINE i == CHOOSE n \in hits : \A j \in hits : n <= j
    <2>1. i \in 1..Len(list)
      <3>1. hits \in SUBSET Nat
        OBVIOUS
      <3>2. \E n \in hits : \A j \in hits : n <= j
        <4> HIDE DEF hits
        <4> QED
          BY <1>2, <3>1, LeastOf
      <3>3. i \in hits
        BY <3>2
      <3> QED
        BY <3>3
    <2>2. SessionVersion(list, token) = Records!Version(<<list[i]>>)
      BY <1>2 DEF SessionVersion, Records!Find
    <2> HIDE DEF i, hits
    <2>3. list[i].version \in Versioned
      <3>1. list[i] \in SessionRecords
        BY <2>1
      <3>2. Records!Versions \subseteq Versioned
        BY DEF Records!Versions, Versioned, RecordsAssumed
      <3> QED
        BY <3>1, <3>2 DEF SessionRecords
    <2> QED
      BY <2>2, <2>3 DEF Records!Version
  <1> QED
    BY <1>1, <1>2

LEMMA KeyKinds ==
    ASSUME NEW k \in Records!Keys
    PROVE  /\ k[1] \in {"session", "pref", "request", "settings", "note"}
           /\ k[1] = "note" => k[2] \in Records!Versions
  BY DEF Records!Keys, Records!Versions

LEMMA ViewValue ==
    ASSUME RecordsAssumed, NEW s \in Records!Contents, NEW k \in Records!Keys
    PROVE  Records!View(s)[k] \in Versioned
  <1>1. /\ s.sessions \in Seq(SessionRecords) /\ s.prefs \in Seq(PrefRecords) /\
              s.requests \in Seq(RequestRecords)
        /\ s.settings \in Versioned
    BY DEF Records!Contents, SessionRecords, PrefRecords, RequestRecords, Versioned,
       Records!Versions, RecordsAssumed
  <1>2. CASE k[1] = "session"
    <2>1. Records!View(s)[k] = SessionVersion(s.sessions, k[2])
      BY <1>2 DEF Records!View, Records!Found, SessionVersion, Records!Find, Records!Version
    <2> QED
      BY <1>1, <2>1, FoundSession
  <1>3. CASE k[1] = "pref"
    <2>1. Records!View(s)[k] = Records!Version(s.prefs)
      BY <1>3 DEF Records!View, Records!Found
    <2>2. s.prefs # <<>> => s.prefs[1] \in PrefRecords
      BY <1>1
    <2> QED
      BY <2>1, <2>2 DEF Records!Version, PrefRecords, Versioned, Records!Versions, RecordsAssumed
  <1>4. CASE k[1] = "request"
    <2>1. Records!View(s)[k] = Records!Version(s.requests)
      BY <1>4 DEF Records!View, Records!Found
    <2>2. s.requests # <<>> => s.requests[1] \in RequestRecords
      BY <1>1
    <2> QED
      BY <2>1, <2>2 DEF Records!Version, RequestRecords, Versioned, Records!Versions, RecordsAssumed
  <1>5. CASE k[1] = "settings"
    BY <1>1, <1>5 DEF Records!View, Records!Found
  <1>6. CASE k[1] = "note"
    BY <1>6, KeyKinds DEF Records!View, Records!Found, Versioned, Records!Versions, RecordsAssumed
  <1> QED
    BY <1>2, <1>3, <1>4, <1>5, <1>6, KeyKinds

LEMMA ViewType ==
    ASSUME RecordsAssumed, NEW s \in Records!Contents
    PROVE  Records!View(s) \in [Records!Keys -> Versioned]
  <1>1. \A k \in Records!Keys : Records!View(s)[k] \in Versioned
    BY ViewValue
  <1> QED
    BY <1>1 DEF Records!View

LEMMA EmptyView ==
    ASSUME RecordsAssumed
    PROVE  /\ Records!Empty \in Records!Contents
           /\ \A k \in Records!Keys : Records!View(Records!Empty)[k] = 0
  <1>1. Records!Empty \in Records!Contents
    BY DEF Records!Empty, Records!Contents
  <1>2. ASSUME NEW k \in Records!Keys
        PROVE  Records!View(Records!Empty)[k] = 0
    <2>1. CASE k[1] = "session"
      BY <2>1 DEF Records!View, Records!Found, Records!Empty, Records!Find, Records!Version
    <2>2. CASE k[1] = "pref"
      BY <2>2 DEF Records!View, Records!Found, Records!Empty, Records!Version
    <2>3. CASE k[1] = "request"
      BY <2>3 DEF Records!View, Records!Found, Records!Empty, Records!Version
    <2>4. CASE k[1] = "settings"
      BY <2>4 DEF Records!View, Records!Found, Records!Empty
    <2>5. CASE k[1] = "note"
      BY <2>5 DEF Records!View, Records!Found, Records!Empty
    <2> QED
      BY <2>1, <2>2, <2>3, <2>4, <2>5, KeyKinds
  <1> QED
    BY <1>1, <1>2

-----------------------------------------------------------------------------
(* The store keeps what may be found.                                        *)

MayBeFound(s) == \A k \in Records!Keys : Records!View(s)[k] \in recordMay[k]

RecordInv ==
    /\ recordsUp \in BOOLEAN /\ busy \in BOOLEAN /\ writes \in 0..MaxWrites
    /\ state \in Records!Contents /\ disk \in Records!Contents \cup {None}
    /\ recordMay \in [Records!Keys -> SUBSET Versioned]
    /\ recordsUp \/ busy => MayBeFound(state)
    /\ disk # None => MayBeFound(disk)
    /\ disk = None => ~recordsUp /\ state = Records!Empty /\ \A k \in Records!Keys : recordMay[k] = {0}
    /\ busy /\ ~recordsUp => disk = None

ChangeNow == \E s \in Records!Contents : Records!Change(s)

LEMMA RecordOperations ==
    ASSUME RecordsAssumed, RecordInv,
           \/ \E x \in SessionTokens : Records!SaveSession(x) \/ Records!DropSession(x)
           \/ \E n \in 0..Records!New : Records!PruneSessions(n)
           \/ Records!SavePreference \/ Records!SaveRequest \/ Records!AppendNote \/
                       Records!SaveRuntimeSettings \/ Records!Flush
    PROVE  ChangeNow
  <1>1. (Records!New \in Records!Versions /\ Records!New \in Nat) \/ writes >= MaxWrites
    BY DEF Records!New, Records!Versions, RecordInv, RecordsAssumed
  <1>2. ASSUME NEW s, Records!Change(s) PROVE Records!New \in Records!Versions /\ Records!New \in Nat
    BY <1>1, <1>2 DEF Records!Change, RecordInv, RecordsAssumed
  <1>3. /\ state.sessions \in Seq(SessionRecords) /\ state.prefs \in Seq(PrefRecords)
        /\ state.requests \in Seq(RequestRecords) /\ state.notes \in Seq(Records!Versions)
    BY DEF RecordInv, Records!Contents, SessionRecords, PrefRecords, RequestRecords
  <1>4. /\ \A list \in Seq(SessionRecords) : [state EXCEPT !.sessions = list] \in Records!Contents
        /\ \A list \in Seq(PrefRecords) : [state EXCEPT !.prefs = list] \in Records!Contents
        /\ \A list \in Seq(RequestRecords) : [state EXCEPT !.requests = list] \in Records!Contents
        /\ \A list \in Seq(Records!Versions) : [state EXCEPT !.notes = list] \in Records!Contents
        /\ \A v \in Records!Versions : [state EXCEPT !.settings = v] \in Records!Contents
    BY DEF RecordInv, Records!Contents, SessionRecords, PrefRecords, RequestRecords
  <1>5. ASSUME NEW x \in SessionTokens, Records!SaveSession(x)
        PROVE  ChangeNow
    <2> DEFINE rec == [token |-> x, version |-> Records!New, ends |-> Records!New]
               list == Records!UpsertPersistentSession(state.sessions, rec)
    <2>1. Records!Change([state EXCEPT !.sessions = list])
      BY <1>5 DEF Records!SaveSession
    <2>2. Records!New \in Records!Versions /\ Records!New \in Nat
      BY <1>2, <2>1
    <2>3. rec \in SessionRecords
      BY <2>2 DEF SessionRecords
    <2>4. list \in Seq(SessionRecords)
      <3> HIDE DEF rec
      <3> QED
        BY <1>3, <2>3, UpsertTypes
    <2>5. [state EXCEPT !.sessions = list] \in Records!Contents
      <3> HIDE DEF list
      <3> QED
        BY <1>4, <2>4
    <2> HIDE DEF list
    <2> QED
      BY <2>1, <2>5 DEF ChangeNow
  <1>6. ASSUME NEW x \in SessionTokens, Records!DropSession(x)
        PROVE  ChangeNow
    <2> DEFINE list == Records!DeletePersistentSession(state.sessions, x)
    <2>1. Records!Change([state EXCEPT !.sessions = list])
      BY <1>6 DEF Records!DropSession
    <2>2. list \in Seq(SessionRecords)
      BY <1>3, DeleteType
    <2> HIDE DEF list
    <2> QED
      BY <1>4, <2>1, <2>2 DEF ChangeNow
  <1>7. ASSUME NEW n, Records!PruneSessions(n)
        PROVE  ChangeNow
    <2> DEFINE list == Records!Unended(state.sessions, n)
    <2>1. Records!Change([state EXCEPT !.sessions = list])
      BY <1>7 DEF Records!PruneSessions
    <2>2. list \in Seq(SessionRecords)
      BY <1>3, UnendedType
    <2> HIDE DEF list
    <2> QED
      BY <1>4, <2>1, <2>2 DEF ChangeNow
  <1>8. CASE Records!SavePreference
    <2> DEFINE rec == [user |-> 1, app |-> 1, version |-> Records!New]
               list == Records!UpsertNotificationPreference(state.prefs, rec)
    <2>1. Records!Change([state EXCEPT !.prefs = list])
      BY <1>8 DEF Records!SavePreference
    <2>2. Records!New \in Records!Versions
      BY <1>2, <2>1
    <2>3. rec \in PrefRecords
      BY <2>2 DEF PrefRecords
    <2>4. list \in Seq(PrefRecords)
      <3> HIDE DEF rec
      <3> QED
        BY <1>3, <2>3, UpsertTypes
    <2> HIDE DEF list
    <2> QED
      BY <1>4, <2>1, <2>4 DEF ChangeNow
  <1>9. CASE Records!SaveRequest
    <2> DEFINE rec == [id |-> 1, version |-> Records!New]
               list == Records!UpsertRepairRequest(state.requests, rec)
    <2>1. Records!Change([state EXCEPT !.requests = list])
      BY <1>9 DEF Records!SaveRequest
    <2>2. Records!New \in Records!Versions
      BY <1>2, <2>1
    <2>3. rec \in RequestRecords
      BY <2>2 DEF RequestRecords
    <2>4. list \in Seq(RequestRecords)
      <3> HIDE DEF rec
      <3> QED
        BY <1>3, <2>3, UpsertTypes
    <2> HIDE DEF list
    <2> QED
      BY <1>4, <2>1, <2>4 DEF ChangeNow
  <1>10. CASE Records!AppendNote
    <2> DEFINE list == Records!AppendCapped(state.notes, Records!New, NoteCap)
    <2>1. Records!Change([state EXCEPT !.notes = list])
      BY <1>10 DEF Records!AppendNote
    <2>2. Records!New \in Records!Versions
      BY <1>2, <2>1
    <2>3. list \in Seq(Records!Versions)
      BY <1>3, <2>2, CappedType
    <2> HIDE DEF list
    <2> QED
      BY <1>4, <2>1, <2>3 DEF ChangeNow
  <1>11. CASE Records!SaveRuntimeSettings
    <2>1. Records!Change([state EXCEPT !.settings = Records!New])
      BY <1>11 DEF Records!SaveRuntimeSettings
    <2>2. Records!New \in Records!Versions
      BY <1>2, <2>1
    <2> QED
      BY <1>4, <2>1, <2>2 DEF ChangeNow
  <1>12. CASE Records!Flush
    BY <1>12 DEF Records!Flush, ChangeNow, RecordInv
  <1> QED
    BY <1>5, <1>6, <1>7, <1>8, <1>9, <1>10, <1>11, <1>12

LEMMA RecordChanges ==
    ASSUME RecordsAssumed, RecordInv, ChangeNow
    PROVE  RecordInv' /\ Records!Durable!Attempt
  <1>1. PICK s \in Records!Contents : Records!Change(s)
    BY DEF ChangeNow
  <1>2. Records!View(s) \in [Records!Keys -> Versioned] /\
              Records!View(state) \in [Records!Keys -> Versioned]
    BY ViewType DEF RecordInv
  <1>3. /\ recordsUp /\ recordsUp' = recordsUp /\ busy' = TRUE /\ state' = s /\ disk' = disk /\
              disk # None
        /\ writes < MaxWrites /\ writes' = writes + 1
        /\ recordMay' = [k \in Records!Keys |-> recordMay[k] \cup {Records!View(s)[k]}]
    BY <1>1 DEF Records!Change, RecordInv
  <1>4. /\ \A k \in Records!Keys : recordMay'[k] = recordMay[k] \cup {Records!View(s)[k]} /\
              Records!View(s)[k] \in Versioned
        /\ recordMay' \in [Records!Keys -> SUBSET Versioned]
    BY <1>2, <1>3 DEF RecordInv
  <1>5. MayBeFound(state)'
    BY <1>3, <1>4 DEF MayBeFound
  <1>6. MayBeFound(disk)'
    BY <1>3, <1>4 DEF MayBeFound, RecordInv
  <1>7. RecordInv'
    BY <1>3, <1>4, <1>5, <1>6 DEF RecordInv, RecordsAssumed
  <1>8. Records!Durable!Attempt
    BY <1>2, <1>3, <1>4 DEF Records!Durable!Attempt, Versioned
  <1> QED
    BY <1>7, <1>8

LEMMA RecordSteps ==
    ASSUME RecordsAssumed, RecordInv, [Records!Next]_(Records!vars)
    PROVE  RecordInv' /\ [Records!Durable!Next]_(Records!Durable!vars)
  <1>1. Records!View(state) \in [Records!Keys -> Versioned]
    BY ViewType DEF RecordInv
  <1>2. CASE ChangeNow
    BY <1>2, RecordChanges DEF Records!Durable!Next
  <1>3. CASE Records!Persist
    <2>1. /\ busy /\ disk' = state /\ busy' = FALSE /\ recordsUp' = TRUE /\ state' = state
          /\ recordMay' = [k \in Records!Keys |-> {Records!View(state)[k]}] /\ writes' = writes
      BY <1>3 DEF Records!Persist, Records!Written
    <2>2. \A k \in Records!Keys : Records!View(state)[k] \in recordMay[k] /\
                recordMay'[k] = {Records!View(state)[k]}
      BY <2>1 DEF RecordInv, MayBeFound
    <2>3. MayBeFound(state)' /\ MayBeFound(disk)'
      BY <2>1, <2>2 DEF MayBeFound
    <2>4. recordMay' \in [Records!Keys -> SUBSET Versioned]
      BY <1>1, <2>1
    <2>5. state # None
      BY DEF RecordInv, RecordsAssumed
    <2>6. RecordInv'
      BY <2>1, <2>3, <2>4, <2>5 DEF RecordInv
    <2>7. CASE recordsUp
      <3>1. Records!View(state') = Records!View(state) /\ recordsUp' = recordsUp
        BY <2>1, <2>7
      <3>2. Records!Durable!Acknowledge
        BY <1>1, <2>2, <2>7, <3>1 DEF Records!Durable!Acknowledge, Versioned
      <3>3. Records!Durable!Next
        BY <3>2 DEF Records!Durable!Next
      <3> QED
        BY <2>6, <3>3
    <2>8. CASE ~recordsUp
      <3>1. \A k \in Records!Keys : recordMay[k] = {0} /\ Records!View(state)[k] = 0
        BY <2>1, <2>8, EmptyView DEF RecordInv
      <3>2. recordMay' = recordMay
        BY <2>1, <2>2, <2>4, <3>1 DEF RecordInv
      <3> QED
        BY <1>1, <2>1, <2>2, <2>6, <2>8, <3>2 DEF Records!Durable!Next, Records!Durable!Reopen,
           Versioned, RecordInv
    <2> QED
      BY <2>6, <2>7, <2>8 DEF RecordInv
  <1>4. CASE Records!PersistFails
    <2>1. RecordInv'
      BY <1>4 DEF Records!PersistFails, RecordInv, MayBeFound
    <2> QED
      BY <1>4, <2>1 DEF Records!PersistFails, Records!Durable!vars
  <1>5. CASE Records!Load
    <2>1. CASE disk = None
      <3>1. state' = state /\ busy' = TRUE /\ UNCHANGED <<recordsUp, disk, writes, recordMay>>
        BY <1>5, <2>1 DEF Records!Load, RecordInv
      <3>2. MayBeFound(state)'
        BY <2>1, <3>1, EmptyView DEF MayBeFound, RecordInv
      <3>3. RecordInv'
        BY <2>1, <3>1, <3>2 DEF RecordInv
      <3> QED
        BY <3>1, <3>3 DEF Records!Durable!vars
    <2>2. CASE disk # None
      <3>1. state' = disk /\ ~recordsUp /\ recordsUp' = TRUE /\ UNCHANGED <<busy, disk, writes,
                  recordMay>>
        BY <1>5, <2>2 DEF Records!Load
      <3>2. MayBeFound(state)'
        BY <2>2, <3>1 DEF MayBeFound, RecordInv
      <3>3. RecordInv'
        BY <2>2, <3>1, <3>2 DEF RecordInv, MayBeFound
      <3>4. Records!View(disk) \in [Records!Keys -> Versioned]
        BY <2>2, ViewType DEF RecordInv
      <3> QED
        BY <2>2, <3>1, <3>3, <3>4 DEF RecordInv, MayBeFound, Records!Durable!Next,
           Records!Durable!Reopen, Versioned
    <2> QED
      BY <2>1, <2>2
  <1>6. CASE Records!Crash
    <2>1. /\ (recordsUp \/ busy)
          /\ recordsUp' = FALSE /\ busy' = FALSE
          /\ (disk' = disk \/ (busy /\ disk' = state))
          /\ UNCHANGED <<state, writes, recordMay>>
      BY <1>6 DEF Records!Crash, Records!Written
    <2>2. disk' # None => MayBeFound(disk)'
      BY <2>1 DEF RecordInv, MayBeFound
    <2>3. RecordInv'
      BY <2>1, <2>2 DEF RecordInv, RecordsAssumed
    <2> QED
      BY <2>1, <2>3 DEF RecordInv, Records!Durable!Next, Records!Durable!Crash, Records!Durable!vars
  <1>7. CASE UNCHANGED Records!vars
    BY <1>7 DEF Records!vars, RecordInv, MayBeFound, Records!Durable!vars
  <1> QED
    BY <1>2, <1>3, <1>4, <1>5, <1>6, <1>7, RecordOperations DEF Records!Next

LEMMA RecordBegins ==
    ASSUME RecordsAssumed, Records!Init
    PROVE  RecordInv /\ Records!Durable!Init
  <1>1. /\ recordsUp = FALSE /\ busy = FALSE /\ writes = 0 /\ state = Records!Empty /\ disk = None
        /\ recordMay = [k \in Records!Keys |-> {0}]
    BY DEF Records!Init
  <1>2. recordMay \in [Records!Keys -> SUBSET Versioned]
    BY <1>1 DEF Versioned, RecordsAssumed
  <1>3. RecordInv
    <2>1. ~recordsUp /\ ~busy /\ recordsUp \in BOOLEAN /\ busy \in BOOLEAN
      BY <1>1
    <2>2. \A k \in Records!Keys : recordMay[k] = {0}
      BY <1>1
    <2>3. state \in Records!Contents /\ writes \in 0..MaxWrites
      BY <1>1, EmptyView DEF RecordsAssumed
    <2> QED
      BY <1>1, <1>2, <2>1, <2>2, <2>3 DEF RecordInv
  <1>4. Records!View(state) \in [Records!Keys -> Versioned] /\ \A k \in Records!Keys :
              Records!View(state)[k] = 0
    BY <1>1, EmptyView, ViewType
  <1> QED
    BY <1>1, <1>3, <1>4 DEF Records!Durable!Init, Versioned

-----------------------------------------------------------------------------
(* The notices.                                                              *)

NoticesAssumed == /\ IsFiniteSet(Subscriptions) /\ Subscriptions = 1..Cardinality(Subscriptions)
                  /\ IsFiniteSet(Refreshes)
                  /\ RateLimitWindow \in Nat
                  /\ None \notin Notices!AppStatuses /\ None \notin Notices!Walks

ToldStatuses == {"online", "offline"}
Notice == [status : ToldStatuses, at : Nat]
PastLast == Cardinality(Subscriptions) + 1

(* Shapes; a refresh that walks has a copy, and one that has sent is at the  *)
(* subscription it sent for.                                                 *)
WalkShape(w) ==
    /\ w \in Notices!Walks /\ w.next \in 0..PastLast
    /\ w.next > 0 => w.copy \in [Subscriptions -> Notices!Preferences]
    /\ w.sent => w.next \in Subscriptions

NoticeShapes ==
    /\ minute \in Nat /\ edits \in Nat /\ noticesLost \in Nat /\ nas \in BOOLEAN
    /\ appStatus \in [Subscriptions -> Notices!AppStatuses]
    /\ prefs \in [Subscriptions -> Notices!Preferences]
    /\ DOMAIN walk = Refreshes
    /\ \A r \in Refreshes : walk[r] # None => WalkShape(walk[r])
    /\ notices \in [Subscriptions -> Seq(Notice)]
    /\ \A p \in Subscriptions : \A i \in DOMAIN notices[p] : notices[p][i].at <= minute

(* Where there is a status of trouble to recover from, trouble was told.     *)
Troubled(p) == \E i \in DOMAIN notices[p] : notices[p][i].status = "offline"
Well == {None, "online"}
TroubleTold ==
    /\ \A p \in Subscriptions : prefs[p].seen \in Well \/ Troubled(p)
    /\ \A r \in Refreshes : \A p \in Subscriptions :
           Notices!Walking(r) => /\ walk[r].copy[p].seen \in Well \/ Troubled(p)
                                 /\ (walk[r].sent /\ walk[r].next = p) =>
                                        (walk[r].seen[p] = "online" \/ Troubled(p))

(* A refresh that has sent for p and not written back, one whose copy is yet *)
(* to be used for p, and a subscription that holds back a status since t.    *)
HeldAt(r, p) == Notices!Walking(r) /\ walk[r].next = p /\ walk[r].sent
Ahead(r, p) == Notices!Walking(r) /\ walk[r].next <= p /\ ~HeldAt(r, p)
Blocks(pref, status, t) == pref.key = status /\ pref.sentAt >= t

(* Calm: it will not write another status over the one sent.  Free: it may   *)
(* send that status once more.                                               *)
IsCalm(r, p, status) == HeldAt(r, p) => walk[r].seen[p] = status
IsFree(r, p, status, t) ==
    /\ ~HeldAt(r, p)
    /\ Blocks(prefs[p], status, t) => Ahead(r, p) /\ ~Blocks(walk[r].copy[p], status, t)
Calm(p, status) == {r \in Refreshes : IsCalm(r, p, status)}
Free(p, status, t) == {r \in Refreshes : IsFree(r, p, status, t)}

Twice(m) == m * (m + 1)

(* The notices since the i-th, sent at t, and those that can still come      *)
(* before another status is written.                                         *)
Running(p, i, status, t) ==
    /\ i \in DOMAIN notices[p] /\ notices[p][i].at = t
    /\ \A k \in i..Len(notices[p]) : notices[p][k].status = status
    /\ minute - t < RateLimitWindow
RunFits(p, i, status, t) ==
    Running(p, i, status, t) =>
        LET n == Len(notices[p]) - i + 1 + Cardinality(Free(p, status, t))
        IN  n + n <= Twice(Cardinality(Calm(p, status)))
RunsFit ==
    \A p \in Subscriptions : \A i \in Nat : \A status \in ToldStatuses : \A t \in Nat :
        RunFits(p, i, status, t)

Undisturbed == edits = 0 /\ noticesLost = 0
NoticeInv ==
    /\ NoticeShapes /\ TroubleTold /\ Notices!RecoveryAfterTrouble
    /\ Undisturbed => RunsFit
    /\ Notices!RepeatsBounded

LEMMA NoticeSets ==
    /\ \A S : Notices!Cardinality(S) = Cardinality(S)
    /\ \A S : Notices!IsFiniteSet(S) <=> IsFiniteSet(S)
  BY DEF Notices!Cardinality, Cardinality, Notices!IsFiniteSet, IsFiniteSet

LEMMA NoticesAssumption == NoticesAssumed
  BY PartsAssumption, NoticeSets DEF PartsAssumption, Notices!NotificationsAssumption,
     NoticesAssumed

-----------------------------------------------------------------------------
(* Arithmetic.                                                               *)

LEMMA TwiceGrows ==
    /\ \A m \in Nat : Twice(m) \in Nat /\ Twice(m + 1) = Twice(m) + (m + 1) + (m + 1)
    /\ \A m \in Nat : m + m <= Twice(m)
  <1>1. ASSUME NEW m \in Nat
        PROVE  Twice(m) \in Nat /\ Twice(m + 1) = Twice(m) + (m + 1) + (m + 1)
    BY DEF Twice
  <1>2. ASSUME NEW m \in Nat
        PROVE  m + m <= Twice(m)
    <2>1. CASE m = 0
      BY <2>1 DEF Twice
    <2>2. CASE m >= 1
      BY <2>2 DEF Twice
    <2> QED
      BY <2>1, <2>2
  <1> QED
    BY <1>1, <1>2

LEMMA TwiceMonotone ==
    ASSUME NEW m \in Nat, NEW n \in Nat, m <= n
    PROVE  Twice(m) <= Twice(n)
  <1>1. m * m <= n * n
    <2>1. m * m <= m * n /\ m * n <= n * n
      OBVIOUS
    <2> QED
      BY <2>1
  <1>2. Twice(m) = m * m + m /\ Twice(n) = n * n + n
    BY DEF Twice
  <1>3. m * m \in Nat /\ n * n \in Nat
    OBVIOUS
  <1> QED
    BY <1>1, <1>2, <1>3

LEMMA RefreshSets ==
    ASSUME NoticesAssumed
    PROVE  /\ \A S \in SUBSET Refreshes : IsFiniteSet(S) /\ Cardinality(S) \in Nat
           /\ \A T \in SUBSET Refreshes : \A S \in SUBSET T : Cardinality(S) <= Cardinality(T)
           /\ \A S \in SUBSET Refreshes : \A r \in Refreshes :
                  r \notin S => Cardinality(S \cup {r}) = Cardinality(S) + 1
  <1>1. \A S \in SUBSET Refreshes : IsFiniteSet(S) /\ Cardinality(S) \in Nat
    BY FS_Subset, FS_CardinalityType DEF NoticesAssumed
  <1>2. \A T \in SUBSET Refreshes : \A S \in SUBSET T : Cardinality(S) <= Cardinality(T)
    BY <1>1, FS_Subset
  <1>3. ASSUME NEW S \in SUBSET Refreshes, NEW r \in Refreshes, r \notin S
        PROVE  Cardinality(S \cup {r}) = Cardinality(S) + 1
    BY <1>1, <1>3, FS_AddElement
  <1> QED
    BY <1>1, <1>2, <1>3

LEMMA CalmFree ==
    ASSUME NEW p, NEW status, NEW t
    PROVE  /\ Calm(p, status) \in SUBSET Refreshes /\ Free(p, status, t) \in SUBSET Calm(p, status)
           /\ Free(p, status, t) \in SUBSET Refreshes
  BY DEF Calm, Free, IsCalm, IsFree

-----------------------------------------------------------------------------
(* The shapes.                                                               *)

LEMMA LastIs ==
    ASSUME NoticesAssumed
    PROVE  /\ PastLast \in Nat \ {0} /\ Subscriptions = 1..(PastLast - 1)
  BY FS_CardinalityType DEF NoticesAssumed, PastLast

LEMMA PutPreference ==
    ASSUME NoticeShapes, NEW p \in Subscriptions, NEW pref \in Notices!Preferences,
           prefs' = [prefs EXCEPT ![p] = pref]
    PROVE  /\ prefs' \in [Subscriptions -> Notices!Preferences]
           /\ prefs'[p] = pref
           /\ \A q \in Subscriptions : q # p => prefs'[q] = prefs[q]
  BY DEF NoticeShapes

(* What each step of a refresh leaves it.                                    *)
MovedOn(w, copy, next) == [w EXCEPT !.copy = copy, !.next = next, !.sent = FALSE]

LEMMA WalksOn ==
    ASSUME NoticesAssumed, NoticeShapes, NEW r \in Refreshes, walk[r] # None,
           NEW copy \in [Subscriptions -> Notices!Preferences], NEW next \in 0..PastLast
    PROVE  LET w == MovedOn(walk[r], copy, next) IN
               /\ WalkShape(w) /\ w # None
               /\ w.seen = walk[r].seen /\ w.copy = copy /\ w.next = next /\ ~w.sent
  <1> DEFINE w == MovedOn(walk[r], copy, next)
  <1>1. walk[r] \in Notices!Walks
    BY DEF NoticeShapes, WalkShape
  <1>2. w = [seen |-> walk[r].seen, nas |-> walk[r].nas, copy |-> copy, next |-> next, sent |-> FALSE]
    <2> DEFINE v == walk[r]
    <2>1. v = [seen |-> v.seen, nas |-> v.nas, copy |-> v.copy, next |-> v.next, sent |-> v.sent]
      <3> HIDE DEF v
      <3> QED
        BY <1>1 DEF Notices!Walks, v
    <2>2. w = [v EXCEPT !.copy = copy, !.next = next, !.sent = FALSE]
      BY DEF MovedOn
    <2> HIDE DEF v, w
    <2>3. w = [seen |-> v.seen, nas |-> v.nas, copy |-> copy, next |-> next, sent |-> FALSE]
      BY <2>1, <2>2
    <2> QED
      BY <2>3 DEF v
  <1>3. walk[r].seen \in [Subscriptions -> Notices!AppStatuses] /\ walk[r].nas \in BOOLEAN
    BY <1>1 DEF Notices!Walks
  <1>4. next \in Nat /\ next \in 0..PastLast
    BY LastIs
  <1> HIDE DEF w
  <1>5. w \in Notices!Walks
    BY <1>2, <1>3, <1>4 DEF Notices!Walks
  <1>6. /\ WalkShape(w) /\ w # None
        /\ w.seen = walk[r].seen /\ w.copy = copy /\ w.next = next /\ ~w.sent
    BY <1>2, <1>4, <1>5 DEF WalkShape, NoticesAssumed
  <1> QED
    BY <1>6 DEF w

SentAt(w, copy, next) == [w EXCEPT !.copy = copy, !.next = next, !.sent = TRUE]

LEMMA HasSent ==
    ASSUME NoticesAssumed, NoticeShapes, NEW r \in Refreshes, walk[r] # None,
           NEW copy \in [Subscriptions -> Notices!Preferences], NEW next \in Subscriptions
    PROVE  LET w == SentAt(walk[r], copy, next) IN
               /\ WalkShape(w) /\ w # None
               /\ w.seen = walk[r].seen /\ w.copy = copy /\ w.next = next /\ w.sent
  <1> DEFINE w == SentAt(walk[r], copy, next)
  <1>1. walk[r] \in Notices!Walks
    BY DEF NoticeShapes, WalkShape
  <1>2. w = [seen |-> walk[r].seen, nas |-> walk[r].nas, copy |-> copy, next |-> next, sent |-> TRUE]
    <2> DEFINE v == walk[r]
    <2>1. v = [seen |-> v.seen, nas |-> v.nas, copy |-> v.copy, next |-> v.next, sent |-> v.sent]
      <3> HIDE DEF v
      <3> QED
        BY <1>1 DEF Notices!Walks, v
    <2>2. w = [v EXCEPT !.copy = copy, !.next = next, !.sent = TRUE]
      BY DEF SentAt
    <2> HIDE DEF v, w
    <2>3. w = [seen |-> v.seen, nas |-> v.nas, copy |-> copy, next |-> next, sent |-> TRUE]
      BY <2>1, <2>2
    <2> QED
      BY <2>3 DEF v
  <1>3. walk[r].seen \in [Subscriptions -> Notices!AppStatuses] /\ walk[r].nas \in BOOLEAN
    BY <1>1 DEF Notices!Walks
  <1>4. next \in Nat /\ next \in 0..PastLast
    BY LastIs
  <1> HIDE DEF w
  <1>5. w \in Notices!Walks
    BY <1>2, <1>3, <1>4 DEF Notices!Walks
  <1>6. /\ WalkShape(w) /\ w # None
        /\ w.seen = walk[r].seen /\ w.copy = copy /\ w.next = next /\ w.sent
    BY <1>2, <1>4, <1>5 DEF WalkShape, NoticesAssumed
  <1> QED
    BY <1>6 DEF w

LEMMA CollectingIs ==
    ASSUME NoticesAssumed, NoticeShapes, NEW r \in Refreshes, Notices!Collect(r)
    PROVE  /\ WalkShape(walk'[r]) /\ walk'[r].next = 0 /\ walk[r] = None
           /\ \A q \in Refreshes : q # r => walk'[q] = walk[q]
           /\ DOMAIN walk' = Refreshes
           /\ UNCHANGED <<minute, appStatus, nas, prefs, notices, edits, noticesLost>>
  <1> DEFINE w == [seen |-> appStatus, nas |-> nas, copy |-> <<>>, next |-> 0, sent |-> FALSE]
  <1>1. walk'[r] = w /\ \A q \in Refreshes : q # r => walk'[q] = walk[q]
    BY DEF Notices!Collect, NoticeShapes
  <1>2. w \in Notices!Walks
    BY DEF Notices!Walks, NoticeShapes
  <1>3. WalkShape(w)
    BY <1>2, LastIs DEF WalkShape
  <1> QED
    BY <1>1, <1>3 DEF Notices!Collect, NoticeShapes

LEMMA BeginIs ==
    ASSUME NoticesAssumed, NoticeShapes, NEW r \in Refreshes, Notices!Begin(r)
    PROVE  /\ walk[r] # None /\ walk[r].next = 0
           /\ \/ walk'[r] = None
              \/ /\ walk'[r] # None /\ WalkShape(walk'[r]) /\ walk'[r].copy = prefs /\ walk'[r].next = 1
                 /\ walk'[r].seen = walk[r].seen /\ ~walk'[r].sent
           /\ \A q \in Refreshes : q # r => walk'[q] = walk[q]
           /\ DOMAIN walk' = Refreshes
           /\ UNCHANGED <<minute, appStatus, nas, prefs, notices, edits, noticesLost>>
  <1>1. CASE walk[r].nas
    <2> DEFINE w == MovedOn(walk[r], prefs, 1)
    <2>1. WalkShape(walk[r]) /\ walk[r] # None /\ walk[r].next = 0
      BY DEF NoticeShapes, Notices!Begin
    <2>2. ~walk[r].sent /\ walk[r] \in Notices!Walks
      BY <2>1, LastIs DEF WalkShape
    <2>3. walk'[r] = [walk[r] EXCEPT !.copy = prefs, !.next = 1]
      BY <1>1 DEF Notices!Begin, NoticeShapes
    <2>4. walk'[r] = w
      BY <2>2, <2>3 DEF Notices!Walks, MovedOn
    <2>5. /\ WalkShape(w) /\ w # None
          /\ w.seen = walk[r].seen /\ w.copy = prefs /\ w.next = 1 /\ ~w.sent
      <3>1. prefs \in [Subscriptions -> Notices!Preferences] /\ 1 \in 0..PastLast
        BY LastIs DEF NoticeShapes
      <3> QED
        BY <2>1, <3>1, WalksOn
    <2> HIDE DEF w
    <2> QED
      BY <1>1, <2>1, <2>4, <2>5 DEF Notices!Begin, NoticeShapes
  <1>2. CASE ~walk[r].nas
    BY <1>2 DEF Notices!Begin, NoticeShapes
  <1> QED
    BY <1>1, <1>2

(* The refresh is at a subscription of its copy.                             *)
LEMMA HereIs ==
    ASSUME NoticesAssumed, NoticeShapes, NEW r \in Refreshes, Notices!Walking(r),
                walk[r].next \in Subscriptions
    PROVE  /\ Notices!Here(r) \in Notices!Preferences /\ Notices!Status(r) \in Notices!AppStatuses
           /\ walk[r].copy \in [Subscriptions -> Notices!Preferences] /\
                       walk[r].next + 1 \in 0..PastLast
           /\ Notices!Here(r) = walk[r].copy[walk[r].next] /\
                       Notices!Status(r) = walk[r].seen[walk[r].next]
  <1>1. WalkShape(walk[r]) /\ walk[r].next > 0
    BY DEF NoticeShapes, Notices!Walking
  <1> QED
    BY <1>1, LastIs DEF WalkShape, Notices!Walks, Notices!Here, Notices!Status

LEMMA SendIs ==
    ASSUME NoticesAssumed, NoticeShapes, NEW r \in Refreshes, Notices!Send(r)
    PROVE  /\ Notices!Walking(r) /\ walk[r].next \in Subscriptions /\ ~walk[r].sent /\
                 Notices!Due(Notices!Here(r), Notices!Status(r))
           /\ walk'[r] # None /\ WalkShape(walk'[r]) /\ walk'[r].sent
           /\ walk'[r].seen = walk[r].seen /\ walk'[r].copy = walk[r].copy
           /\ walk'[r].next = walk[r].next
           /\ \A q \in Refreshes : q # r => walk'[q] = walk[q]
           /\ DOMAIN walk' = Refreshes
           /\ notices' = [notices EXCEPT ![walk[r].next] =
                             Append(@, [status |-> Notices!Status(r), at |-> minute])]
           /\ UNCHANGED <<minute, appStatus, nas, prefs, edits, noticesLost>>
  <1> DEFINE w == SentAt(walk[r], walk[r].copy, walk[r].next)
  <1>1. walk[r] # None /\ walk[r] \in Notices!Walks /\ walk[r].next \in Subscriptions
    BY DEF Notices!Send, Notices!Walking, NoticeShapes, WalkShape
  <1>2. walk'[r] = [walk[r] EXCEPT !.sent = TRUE]
    BY DEF Notices!Send, NoticeShapes
  <1>3. walk'[r] = w
    BY <1>1, <1>2 DEF Notices!Walks, MovedOn, SentAt
  <1>4. /\ WalkShape(w) /\ w # None
        /\ w.seen = walk[r].seen /\ w.copy = walk[r].copy /\ w.next = walk[r].next /\ w.sent
    <2>1. walk[r].copy \in [Subscriptions -> Notices!Preferences] /\ walk[r].next \in 0..PastLast
      BY HereIs, LastIs DEF Notices!Send
    <2> QED
      BY <1>1, <2>1, HasSent
  <1> HIDE DEF w
  <1> QED
    BY <1>3, <1>4 DEF Notices!Send, NoticeShapes

LEMMA MoveIs ==
    ASSUME NoticesAssumed, NoticeShapes, NEW r \in Refreshes, Notices!Walking(r),
                walk[r].next \in Subscriptions,
           walk' = [walk EXCEPT ![r] = [walk[r] EXCEPT !.next = walk[r].next + 1, !.sent = FALSE]]
    PROVE  /\ walk'[r] # None /\ WalkShape(walk'[r]) /\ ~walk'[r].sent
           /\ walk'[r].seen = walk[r].seen /\ walk'[r].copy = walk[r].copy
           /\ walk'[r].next = walk[r].next + 1
           /\ \A q \in Refreshes : q # r => walk'[q] = walk[q]
           /\ DOMAIN walk' = Refreshes
  <1> DEFINE w == MovedOn(walk[r], walk[r].copy, walk[r].next + 1)
  <1>1. walk[r] # None /\ walk[r] \in Notices!Walks
    BY DEF Notices!Walking, NoticeShapes, WalkShape
  <1>2. walk'[r] = [walk[r] EXCEPT !.next = walk[r].next + 1, !.sent = FALSE]
    BY DEF NoticeShapes
  <1>3. walk'[r] = w
    BY <1>1, <1>2 DEF Notices!Walks, MovedOn, SentAt
  <1>4. /\ WalkShape(w) /\ w # None
        /\ w.seen = walk[r].seen /\ w.copy = walk[r].copy /\ w.next = walk[r].next + 1 /\ ~w.sent
    <2>1. walk[r].copy \in [Subscriptions -> Notices!Preferences] /\ walk[r].next + 1 \in 0..PastLast
      BY HereIs
    <2> QED
      BY <1>1, <2>1, WalksOn
  <1> HIDE DEF w
  <1> QED
    BY <1>3, <1>4 DEF NoticeShapes

LEMMA WriteBackIs ==
    ASSUME NoticesAssumed, NoticeShapes, NEW r \in Refreshes, Notices!WriteBack(r)
    PROVE  /\ Notices!Walking(r) /\ walk[r].next \in Subscriptions /\ walk[r].sent
           /\ prefs' = [prefs EXCEPT ![walk[r].next] = Notices!Remembered(Notices!Here(r),
                       Notices!Status(r))]
           /\ Notices!Remembered(Notices!Here(r), Notices!Status(r)) \in Notices!Preferences
           /\ Notices!Remembered(Notices!Here(r), Notices!Status(r)).key = Notices!Status(r)
           /\ Notices!Remembered(Notices!Here(r), Notices!Status(r)).seen = Notices!Status(r)
           /\ Notices!Remembered(Notices!Here(r), Notices!Status(r)).sentAt = minute
           /\ walk' = [walk EXCEPT ![r] = [walk[r] EXCEPT !.next = walk[r].next + 1, !.sent = FALSE]]
           /\ UNCHANGED <<minute, appStatus, nas, notices, edits, noticesLost>>
  <1>1. Notices!Walking(r) /\ walk[r].next \in Subscriptions /\ walk[r].sent
    BY DEF Notices!WriteBack, NoticeShapes, WalkShape, Notices!Walking
  <1>2. Notices!Here(r) \in Notices!Preferences /\ Notices!Status(r) \in Notices!AppStatuses
    BY <1>1, HereIs
  <1>3. /\ Notices!Remembered(Notices!Here(r), Notices!Status(r)) \in Notices!Preferences
        /\ Notices!Remembered(Notices!Here(r), Notices!Status(r)).key = Notices!Status(r)
        /\ Notices!Remembered(Notices!Here(r), Notices!Status(r)).seen = Notices!Status(r)
        /\ Notices!Remembered(Notices!Here(r), Notices!Status(r)).sentAt = minute
    BY <1>2 DEF Notices!Remembered, Notices!Preferences, NoticeShapes
  <1>4. walk' = [walk EXCEPT ![r] = [walk[r] EXCEPT !.next = walk[r].next + 1, !.sent = FALSE]]
    BY DEF Notices!WriteBack
  <1> QED
    BY <1>1, <1>3, <1>4 DEF Notices!WriteBack

LEMMA SkipIs ==
    ASSUME NoticesAssumed, NoticeShapes, NEW r \in Refreshes, Notices!Skip(r)
    PROVE  /\ Notices!Walking(r) /\ walk[r].next \in Subscriptions /\ ~walk[r].sent
           /\ walk' = [walk EXCEPT ![r] = [walk[r] EXCEPT !.next = walk[r].next + 1, !.sent = FALSE]]
           /\ UNCHANGED <<minute, appStatus, nas, prefs, notices, edits, noticesLost>>
  <1>1. walk[r] \in Notices!Walks /\ ~walk[r].sent
    BY DEF Notices!Skip, Notices!Walking, NoticeShapes, WalkShape
  <1>2. [walk[r] EXCEPT !.next = walk[r].next + 1, !.sent = FALSE]
          = [walk[r] EXCEPT !.next = walk[r].next + 1]
    BY <1>1 DEF Notices!Walks
  <1>3. walk' = [walk EXCEPT ![r] = [walk[r] EXCEPT !.next = walk[r].next + 1]]
    BY DEF Notices!Skip
  <1> QED
    BY <1>2, <1>3 DEF Notices!Skip

LEMMA SkippedShapes ==
    ASSUME NoticesAssumed, NoticeShapes, NEW r \in Refreshes, DOMAIN walk' = Refreshes,
           \A q \in Refreshes : q # r => walk'[q] = walk[q],
           walk'[r] # None => WalkShape(walk'[r]),
           minute' = minute, edits' = edits, noticesLost' \in Nat, nas' = nas, appStatus' = appStatus,
           prefs' \in [Subscriptions -> Notices!Preferences],
           notices' \in [Subscriptions -> Seq(Notice)],
           \A p \in Subscriptions : \A i \in DOMAIN notices'[p] : notices'[p][i].at <= minute
    PROVE  NoticeShapes'
  BY DEF NoticeShapes, WalkShape, Notices!Walks

(* A notice is appended to those of its subscription.                        *)
LEMMA NoticeSent ==
    ASSUME NoticeShapes, NEW p \in Subscriptions, NEW n \in Notice, n.at = minute,
           notices' = [notices EXCEPT ![p] = Append(@, n)]
    PROVE  /\ notices' \in [Subscriptions -> Seq(Notice)]
           /\ \A q \in Subscriptions : q # p => notices'[q] = notices[q]
           /\ DOMAIN notices[p] = 1..Len(notices[p]) /\ Len(notices[p]) \in Nat
           /\ DOMAIN notices'[p] = 1..(Len(notices[p]) + 1) /\ Len(notices'[p]) = Len(notices[p]) + 1
           /\ \A i \in 1..Len(notices[p]) : notices'[p][i] = notices[p][i]
           /\ notices'[p][Len(notices[p]) + 1] = n
           /\ \A q \in Subscriptions : \A i \in DOMAIN notices'[q] : notices'[q][i].at <= minute
  <1>1. notices[p] \in Seq(Notice) /\ minute \in Nat
    BY DEF NoticeShapes
  <1>2. notices'[p] = Append(notices[p], n) /\ \A q \in Subscriptions :
              q # p => notices'[q] = notices[q]
    BY DEF NoticeShapes
  <1>3. /\ DOMAIN notices[p] = 1..Len(notices[p]) /\ Len(notices[p]) \in Nat
        /\ DOMAIN notices'[p] = 1..(Len(notices[p]) + 1) /\ Len(notices'[p]) = Len(notices[p]) + 1
        /\ \A i \in 1..Len(notices[p]) : notices'[p][i] = notices[p][i]
        /\ notices'[p][Len(notices[p]) + 1] = n
        /\ notices'[p] \in Seq(Notice)
    BY <1>1, <1>2
  <1>4. notices' \in [Subscriptions -> Seq(Notice)]
    BY <1>3 DEF NoticeShapes
  <1>5. \A i \in DOMAIN notices'[p] : notices'[p][i].at <= minute
    <2> SUFFICES ASSUME NEW i \in 1..(Len(notices[p]) + 1)
                 PROVE  notices'[p][i].at <= minute
      BY <1>3
    <2>1. CASE i \in 1..Len(notices[p])
      BY <1>3, <2>1 DEF NoticeShapes
    <2>2. CASE i = Len(notices[p]) + 1
      BY <1>1, <1>3, <2>2
    <2> QED
      BY <1>3, <2>1, <2>2
  <1>6. \A q \in Subscriptions : \A i \in DOMAIN notices'[q] : notices'[q][i].at <= minute
    BY <1>2, <1>5 DEF NoticeShapes
  <1> QED
    BY <1>2, <1>3, <1>4, <1>6

(* What is due is one of the two statuses that are told.                     *)
LEMMA DueIsTold ==
    ASSUME NoticeShapes, NEW pref, NEW status, Notices!Due(pref, status)
    PROVE  /\ status \in ToldStatuses
           /\ [status |-> status, at |-> minute] \in Notice
           /\ status = "online" => pref.seen \notin {None, "online"}
  BY DEF Notices!Due, Notices!ShouldNotify, ToldStatuses, Notice, NoticeShapes

LEMMA StepShapes ==
    ASSUME NoticesAssumed, NoticeShapes, [Notices!Next]_(Notices!vars)
    PROVE  NoticeShapes'
  <1>0. /\ notices \in [Subscriptions -> Seq(Notice)] /\
              prefs \in [Subscriptions -> Notices!Preferences]
        /\ \A p \in Subscriptions : \A i \in DOMAIN notices[p] : notices[p][i].at <= minute
        /\ noticesLost \in Nat
    BY DEF NoticeShapes
  <1>1. ASSUME NEW r \in Refreshes, Notices!Collect(r) PROVE NoticeShapes'
    BY <1>0, <1>1, CollectingIs, SkippedShapes
  <1>2. ASSUME NEW r \in Refreshes, Notices!Begin(r) PROVE NoticeShapes'
    BY <1>0, <1>2, BeginIs, SkippedShapes
  <1>3. ASSUME NEW r \in Refreshes, Notices!Send(r) PROVE NoticeShapes'
    <2> DEFINE p == walk[r].next
               n == [status |-> Notices!Status(r), at |-> minute]
    <2>1. p \in Subscriptions /\ n \in Notice /\ n.at = minute
      BY <1>3, SendIs, DueIsTold
    <2>2. notices' = [notices EXCEPT ![p] = Append(@, n)]
      BY <1>3, SendIs
    <2> HIDE DEF p, n
    <2>3. /\ notices' \in [Subscriptions -> Seq(Notice)]
          /\ \A q \in Subscriptions : \A i \in DOMAIN notices'[q] : notices'[q][i].at <= minute
      BY <2>1, <2>2, NoticeSent
    <2> QED
      BY <1>0, <1>3, <2>3, SendIs, SkippedShapes
  <1>4. ASSUME NEW r \in Refreshes, Notices!WriteBack(r) PROVE NoticeShapes'
    <2>1. prefs' \in [Subscriptions -> Notices!Preferences]
      BY <1>4, WriteBackIs, PutPreference
    <2> QED
      BY <1>0, <1>4, <2>1, WriteBackIs, MoveIs, SkippedShapes
  <1>5. ASSUME NEW r \in Refreshes, Notices!Skip(r) PROVE NoticeShapes'
    BY <1>0, <1>5, SkipIs, MoveIs, SkippedShapes
  <1>6. ASSUME NEW r \in Refreshes, Notices!SendFails(r) \/ Notices!EndWalk(r) PROVE NoticeShapes'
    <2>1. /\ walk'[r] = None /\ \A q \in Refreshes : q # r => walk'[q] = walk[q]
          /\ DOMAIN walk' = Refreshes /\ noticesLost' \in Nat
          /\ UNCHANGED <<minute, appStatus, nas, prefs, notices, edits>>
      BY <1>0, <1>6 DEF Notices!SendFails, Notices!EndWalk, NoticeShapes
    <2> QED
      BY <1>0, <2>1, SkippedShapes
  <1>7. ASSUME NEW p \in Subscriptions, NEW down \in BOOLEAN, NEW recovery \in BOOLEAN,
               Notices!SavePreference(p, down, recovery)
        PROVE  NoticeShapes'
    <2>1. Notices!Subscription(down, recovery) \in Notices!Preferences
      BY DEF Notices!Subscription, Notices!Preferences
    <2>2. prefs' \in [Subscriptions -> Notices!Preferences]
      BY <1>7, <2>1, PutPreference DEF Notices!SavePreference
    <2> QED
      BY <1>7, <2>2 DEF Notices!SavePreference, NoticeShapes, WalkShape, Notices!Walks
  <1>8. CASE Notices!Crash
    BY <1>8 DEF Notices!Crash, NoticeShapes
  <1>9. CASE Notices!WorldChanges \/ Notices!Tick \/ UNCHANGED Notices!vars
    <2>1. appStatus' \in [Subscriptions -> Notices!AppStatuses] /\ nas' \in BOOLEAN
      BY <1>9 DEF Notices!WorldChanges, Notices!Tick, Notices!vars, NoticeShapes
    <2>2. minute' \in Nat /\ minute <= minute'
      BY <1>9 DEF Notices!WorldChanges, Notices!Tick, Notices!vars, NoticeShapes
    <2>3. UNCHANGED <<prefs, walk, notices, edits, noticesLost>>
      BY <1>9 DEF Notices!WorldChanges, Notices!Tick, Notices!vars
    <2>4. \A p \in Subscriptions : \A i \in DOMAIN notices[p] : notices[p][i].at <= minute'
      <3> SUFFICES ASSUME NEW p \in Subscriptions, NEW i \in DOMAIN notices[p]
                   PROVE  notices[p][i].at <= minute'
        OBVIOUS
      <3>1. notices[p] \in Seq(Notice) /\ notices[p][i].at <= minute
        BY DEF NoticeShapes
      <3>2. notices[p][i] \in Notice
        BY <3>1
      <3>3. notices[p][i].at \in Nat
        BY <3>2 DEF Notice
      <3> QED
        BY <2>2, <3>1, <3>3 DEF NoticeShapes
    <2> QED
      BY <2>1, <2>2, <2>3, <2>4 DEF NoticeShapes, WalkShape, Notices!Walks
  <1> QED
    BY <1>1, <1>2, <1>3, <1>4, <1>5, <1>6, <1>7, <1>8, <1>9 DEF Notices!Next

-----------------------------------------------------------------------------
(* Recovery follows trouble.                                                 *)

LEMMA TroubleStays ==
    ASSUME NoticeShapes, notices' = notices \/ \E r \in Refreshes : Notices!Send(r), NoticesAssumed
    PROVE  \A p \in Subscriptions : Troubled(p) => Troubled(p)'
  <1>1. ASSUME NEW p \in Subscriptions, Troubled(p) PROVE Troubled(p)'
    <2>1. CASE notices' = notices
      BY <1>1, <2>1 DEF Troubled
    <2>2. ASSUME NEW r \in Refreshes, Notices!Send(r) PROVE Troubled(p)'
      <3>1. PICK o \in Subscriptions, n \in Notice :
              o = walk[r].next /\ n = [status |-> Notices!Status(r), at |-> minute]
        BY <2>2, SendIs, DueIsTold
      <3>2. notices' = [notices EXCEPT ![o] = Append(@, n)] /\ n.at = minute
        BY <2>2, <3>1, SendIs
      <3>3. /\ p # o => notices'[p] = notices[p]
            /\ p = o => /\ DOMAIN notices[p] \subseteq DOMAIN notices'[p]
                        /\ \A i \in DOMAIN notices[p] : notices'[p][i] = notices[p][i]
        BY <3>1, <3>2, NoticeSent
      <3> QED
        BY <1>1, <3>3 DEF Troubled
    <2> QED
      BY <2>1, <2>2
  <1> QED
    BY <1>1

LEMMA TroubleSkipped ==
    ASSUME TroubleTold, \A p \in Subscriptions : Troubled(p) => Troubled(p)',
           \A p \in Subscriptions : (prefs'[p].seen \in Well \/ Troubled(p)'),
           NEW r \in Refreshes, \A q \in Refreshes : q # r => walk'[q] = walk[q],
           Notices!Walking(r)' =>
               \A p \in Subscriptions :
                   /\ (walk'[r].copy[p].seen \in Well \/ Troubled(p)')
                   /\ (walk'[r].sent /\ walk'[r].next = p) =>
                          (walk'[r].seen[p] = "online" \/ Troubled(p)')
    PROVE  TroubleTold'
  <1>1. ASSUME NEW q \in Refreshes, NEW p \in Subscriptions, Notices!Walking(q)'
        PROVE  /\ walk'[q].copy[p].seen \in Well \/ Troubled(p)'
               /\ (walk'[q].sent /\ walk'[q].next = p) =>
                      (walk'[q].seen[p] = "online" \/ Troubled(p)')
    <2>1. CASE q = r
      BY <1>1, <2>1
    <2>2. CASE q # r
      <3>1. walk'[q] = walk[q]
        BY <2>2
      <3>2. Notices!Walking(q)
        BY <1>1, <3>1 DEF Notices!Walking
      <3>3. /\ (walk[q].copy[p].seen \in Well \/ Troubled(p))
            /\ (walk[q].sent /\ walk[q].next = p) => (walk[q].seen[p] = "online" \/ Troubled(p))
        BY <3>2 DEF TroubleTold
      <3> QED
        BY <3>1, <3>3
    <2> QED
      BY <2>1, <2>2
  <1>2. ASSUME NEW p \in Subscriptions
        PROVE  prefs'[p].seen \in Well \/ Troubled(p)'
    OBVIOUS
  <1> QED
    BY <1>1, <1>2 DEF TroubleTold

LEMMA StepTroubles ==
    ASSUME NoticesAssumed, NoticeShapes, TroubleTold, [Notices!Next]_(Notices!vars)
    PROVE  TroubleTold'
  <1>1. ASSUME notices' = notices PROVE \A p \in Subscriptions : Troubled(p)' <=> Troubled(p)
    BY <1>1 DEF Troubled
  <1>2. ASSUME notices' = notices, prefs' = prefs
        PROVE  \A p \in Subscriptions : (prefs'[p].seen \in Well \/ Troubled(p)')
    BY <1>1, <1>2 DEF TroubleTold
  <1>3. ASSUME NEW r \in Refreshes, Notices!Collect(r) PROVE TroubleTold'
    <2>1. ~Notices!Walking(r)' /\ notices' = notices /\ prefs' = prefs
          /\ \A q \in Refreshes : q # r => walk'[q] = walk[q]
      BY <1>3, CollectingIs DEF Notices!Walking
    <2> QED
      BY <1>1, <1>2, <2>1, TroubleSkipped
  <1>4. ASSUME NEW r \in Refreshes, Notices!Begin(r) PROVE TroubleTold'
    <2>1. /\ notices' = notices /\ prefs' = prefs
          /\ \A q \in Refreshes : q # r => walk'[q] = walk[q]
          /\ Notices!Walking(r)' => walk'[r].copy = prefs /\ ~walk'[r].sent
      BY <1>4, BeginIs DEF Notices!Walking
    <2>2. \A p \in Subscriptions : (prefs[p].seen \in Well \/ Troubled(p)')
      BY <1>2, <2>1
    <2> QED
      BY <1>1, <1>2, <2>1, <2>2, TroubleSkipped
  <1>5. ASSUME NEW r \in Refreshes, Notices!Send(r) PROVE TroubleTold'
    <2>1. PICK o \in Subscriptions, n \in Notice :
            o = walk[r].next /\ n = [status |-> Notices!Status(r), at |-> minute]
      BY <1>5, SendIs, DueIsTold
    <2>2. notices' = [notices EXCEPT ![o] = Append(@, n)] /\ n.at = minute
      BY <1>5, <2>1, SendIs
    <2>3. \A p \in Subscriptions : Troubled(p) => Troubled(p)'
      BY <1>5, TroubleStays
    <2>4. Notices!Status(r) = "online" \/ Troubled(o)'
      <3>1. n.status = Notices!Status(r) /\ Notices!Status(r) \in ToldStatuses
        BY <1>5, <2>1, SendIs, DueIsTold
      <3>2. /\ Len(notices[o]) + 1 \in DOMAIN notices'[o]
            /\ notices'[o][Len(notices[o]) + 1] = n
        <4>1. /\ Len(notices[o]) \in Nat /\ DOMAIN notices'[o] = 1..(Len(notices[o]) + 1)
              /\ notices'[o][Len(notices[o]) + 1] = n
          BY <2>2, NoticeSent
        <4> QED
          BY <4>1
      <3>3. n.status = "offline" => \E i \in DOMAIN notices'[o] : notices'[o][i].status = "offline"
        BY <3>2
      <3> QED
        BY <3>1, <3>3 DEF Troubled, ToldStatuses
    <2>5. \A p \in Subscriptions : (prefs'[p].seen \in Well \/ Troubled(p)')
      BY <1>5, <2>3, SendIs DEF TroubleTold
    <2>6. \A p \in Subscriptions : (walk'[r].copy[p].seen \in Well \/ Troubled(p)')
      <3>1. walk'[r].copy = walk[r].copy /\ Notices!Walking(r)
        BY <1>5, SendIs
      <3> QED
        BY <2>3, <3>1 DEF TroubleTold
    <2>7. walk'[r].next = o /\ walk'[r].seen[o] = Notices!Status(r)
      BY <1>5, <2>1, SendIs, HereIs
    <2>8. \A q \in Refreshes : q # r => walk'[q] = walk[q]
      BY <1>5, SendIs
    <2>9. \A p \in Subscriptions : walk'[r].next = p => (walk'[r].seen[p] = "online" \/ Troubled(p)')
      BY <2>4, <2>7
    <2> QED
      BY <2>3, <2>5, <2>6, <2>8, <2>9, TroubleSkipped
  <1>6. ASSUME NEW r \in Refreshes, Notices!WriteBack(r) \/ Notices!Skip(r) PROVE TroubleTold'
    <2>1. /\ Notices!Walking(r) /\ walk[r].next \in Subscriptions
          /\ walk' = [walk EXCEPT ![r] = [walk[r] EXCEPT !.next = walk[r].next + 1, !.sent = FALSE]]
          /\ notices' = notices
      BY <1>6, WriteBackIs, SkipIs
    <2>2. /\ ~walk'[r].sent /\ walk'[r].copy = walk[r].copy
          /\ \A q \in Refreshes : q # r => walk'[q] = walk[q]
      BY <2>1, MoveIs
    <2>3. \A p \in Subscriptions : (walk'[r].copy[p].seen \in Well \/ Troubled(p)')
      BY <1>1, <2>1, <2>2 DEF TroubleTold
    <2>4. \A p \in Subscriptions : (prefs'[p].seen \in Well \/ Troubled(p)')
      <3>1. CASE Notices!Skip(r)
        BY <1>2, <2>1, <3>1, SkipIs
      <3>2. CASE Notices!WriteBack(r)
        <4>1. PICK o \in Subscriptions, pref \in Notices!Preferences :
                  /\ o = walk[r].next /\ pref.seen = Notices!Status(r)
                  /\ prefs' = [prefs EXCEPT ![o] = pref]
          <5> DEFINE f == Notices!Remembered(Notices!Here(r), Notices!Status(r))
          <5>1. /\ walk[r].next \in Subscriptions /\ f \in Notices!Preferences /\
                      f.seen = Notices!Status(r)
                /\ prefs' = [prefs EXCEPT ![walk[r].next] = f]
            BY <3>2, WriteBackIs
          <5> HIDE DEF f
          <5> QED
            BY <5>1
        <4>2. Notices!Status(r) = "online" \/ Troubled(o)
          BY <2>1, <3>2, <4>1, WriteBackIs, HereIs DEF TroubleTold
        <4>3. prefs'[o] = pref /\ \A q \in Subscriptions : q # o => prefs'[q] = prefs[q]
          BY <4>1, PutPreference
        <4>4. ASSUME NEW p \in Subscriptions
              PROVE  (prefs'[p].seen \in Well \/ Troubled(p)')
          <5>1. CASE p = o
            BY <1>1, <2>1, <4>1, <4>2, <4>3, <5>1 DEF Well
          <5>2. CASE p # o
            BY <1>1, <2>1, <4>3, <5>2 DEF TroubleTold
          <5> QED
            BY <5>1, <5>2
        <4> QED
          BY <4>4
      <3> QED
        BY <1>6, <3>1, <3>2
    <2> QED
      BY <1>1, <2>1, <2>2, <2>3, <2>4, TroubleSkipped
  <1>7. ASSUME NEW r \in Refreshes, Notices!SendFails(r) \/ Notices!EndWalk(r) PROVE TroubleTold'
    <2>1. /\ ~Notices!Walking(r)' /\ notices' = notices /\ prefs' = prefs
          /\ \A q \in Refreshes : q # r => walk'[q] = walk[q]
      BY <1>7 DEF Notices!SendFails, Notices!EndWalk, NoticeShapes, Notices!Walking
    <2> QED
      BY <1>1, <1>2, <2>1, TroubleSkipped
  <1>8. ASSUME NEW o \in Subscriptions, NEW down \in BOOLEAN, NEW recovery \in BOOLEAN,
               Notices!SavePreference(o, down, recovery)
        PROVE  TroubleTold'
    <2>1. notices' = notices /\ walk' = walk
      BY <1>8 DEF Notices!SavePreference
    <2>2. \A p \in Subscriptions : prefs'[p].seen = None \/ prefs'[p] = prefs[p]
      BY <1>8 DEF Notices!SavePreference, Notices!Subscription, NoticeShapes
    <2>3. \A p \in Subscriptions : Troubled(p)' <=> Troubled(p)
      BY <1>1, <2>1
    <2>4. \A p \in Subscriptions : prefs'[p].seen \in Well \/ Troubled(p)'
      BY <2>2, <2>3 DEF TroubleTold, Well
    <2>5. \A r \in Refreshes : Notices!Walking(r)' <=> Notices!Walking(r)
      BY <2>1 DEF Notices!Walking
    <2> QED
      BY <2>1, <2>3, <2>4, <2>5 DEF TroubleTold
  <1>9. CASE Notices!Crash
    <2>1. \A r \in Refreshes : ~Notices!Walking(r)'
      BY <1>9 DEF Notices!Crash, Notices!Walking
    <2>2. notices' = notices /\ prefs' = prefs
      BY <1>9 DEF Notices!Crash
    <2> QED
      BY <1>1, <2>1, <2>2 DEF TroubleTold
  <1>10. CASE Notices!WorldChanges \/ Notices!Tick \/ UNCHANGED Notices!vars
    <2>1. UNCHANGED <<prefs, walk, notices>>
      BY <1>10 DEF Notices!WorldChanges, Notices!Tick, Notices!vars
    <2> QED
      BY <1>1, <2>1 DEF TroubleTold, Notices!Walking
  <1> QED
    BY <1>3, <1>4, <1>5, <1>6, <1>7, <1>8, <1>9, <1>10 DEF Notices!Next

LEMMA OnlySends ==
    ASSUME [Notices!Next]_(Notices!vars), ~\E r \in Refreshes : Notices!Send(r)
    PROVE  notices' = notices
  BY DEF Notices!Next, Notices!vars, Notices!Collect, Notices!Begin, Notices!SendFails,
     Notices!WriteBack, Notices!Skip, Notices!EndWalk, Notices!SavePreference, Notices!Crash,
         Notices!WorldChanges, Notices!Tick

LEMMA StepRecovers ==
    ASSUME NoticesAssumed, NoticeShapes, TroubleTold, Notices!RecoveryAfterTrouble,
                [Notices!Next]_(Notices!vars)
    PROVE  Notices!RecoveryAfterTrouble'
  <1>1. CASE notices' = notices
    BY <1>1 DEF Notices!RecoveryAfterTrouble
  <1>2. ASSUME NEW r \in Refreshes, Notices!Send(r) PROVE Notices!RecoveryAfterTrouble'
    <2>1. PICK o \in Subscriptions, n \in Notice :
            o = walk[r].next /\ n = [status |-> Notices!Status(r), at |-> minute]
      BY <1>2, SendIs, DueIsTold
    <2>2. notices' = [notices EXCEPT ![o] = Append(@, n)] /\ n.at = minute
      BY <1>2, <2>1, SendIs
    <2>3. n.status = "online" => Troubled(o)
      <3>1. Notices!Here(r).seen \notin {None, "online"} \/ Notices!Status(r) # "online"
        BY <1>2, SendIs, DueIsTold
      <3>2. (walk[r].copy[o].seen \in Well \/ Troubled(o)) /\ Notices!Here(r) = walk[r].copy[o]
        BY <1>2, <2>1, SendIs, HereIs DEF TroubleTold
      <3> QED
        BY <2>1, <3>1, <3>2 DEF Well
    <2>4. /\ \A q \in Subscriptions : q # o => notices'[q] = notices[q]
          /\ DOMAIN notices[o] = 1..Len(notices[o]) /\ Len(notices[o]) \in Nat
          /\ DOMAIN notices'[o] = 1..(Len(notices[o]) + 1)
          /\ \A i \in 1..Len(notices[o]) : notices'[o][i] = notices[o][i]
          /\ notices'[o][Len(notices[o]) + 1] = n
      BY <2>2, NoticeSent
    <2>5. ASSUME NEW i \in DOMAIN notices'[o], notices'[o][i].status = "online"
          PROVE  \E j \in 1..(i - 1) : notices'[o][j].status = "offline"
      <3>1. CASE i = Len(notices[o]) + 1
        <4>1. PICK j \in 1..Len(notices[o]) : notices[o][j].status = "offline"
          BY <2>3, <2>4, <2>5, <3>1 DEF Troubled
        <4> QED
          BY <2>4, <3>1, <4>1
      <3>2. CASE i \in 1..Len(notices[o])
        <4>1. notices[o][i].status = "online" /\ i \in DOMAIN notices[o]
          BY <2>4, <2>5, <3>2
        <4>2. PICK j \in 1..(i - 1) : notices[o][j].status = "offline"
          BY <2>1, <4>1 DEF Notices!RecoveryAfterTrouble
        <4>3. j \in 1..Len(notices[o])
          BY <2>4, <3>2
        <4> QED
          BY <2>4, <4>2, <4>3
      <3> QED
        BY <2>4, <3>1, <3>2
    <2> QED
      <3>1. ASSUME NEW p \in Subscriptions, NEW i \in DOMAIN notices'[p],
                  notices'[p][i].status = "online"
            PROVE  \E j \in 1..(i - 1) : notices'[p][j].status = "offline"
        <4>1. CASE p = o
          BY <2>5, <3>1, <4>1
        <4>2. CASE p # o
          BY <2>4, <3>1, <4>2 DEF Notices!RecoveryAfterTrouble
        <4> QED
          BY <4>1, <4>2
      <3> QED
        BY <3>1 DEF Notices!RecoveryAfterTrouble
  <1> QED
    BY <1>1, <1>2, OnlySends

-----------------------------------------------------------------------------
(* The runs: what a step does to the refreshes that are calm and free.       *)

LEMMA Sooner ==
    ASSUME NEW a \in Nat, NEW b \in Nat, NEW c \in Nat, NEW w \in Nat, a <= b, b - c < w
    PROVE  a - c < w
  OBVIOUS

LEMMA FitsOn ==
    ASSUME NEW a \in Nat, NEW f \in Nat, NEW c \in Nat, NEW n \in Nat, NEW d \in Nat,
           (a + f) + (a + f) <= Twice(c), n <= a + f, c <= d
    PROVE  n + n <= Twice(d)
  <1>1. Twice(c) <= Twice(d) /\ Twice(c) \in Nat /\ Twice(d) \in Nat
    BY TwiceMonotone, TwiceGrows
  <1> QED
    BY <1>1

LEMMA FitsMore ==
    ASSUME NEW a \in Nat, NEW f \in Nat, NEW c \in Nat, NEW g \in Nat, NEW d \in Nat,
           (a + f) + (a + f) <= Twice(c), g <= d, c + 1 <= d
    PROVE  (a + g) + (a + g) <= Twice(d)
  <1> DEFINE b == d - 1
  <1>1. b \in Nat /\ c <= b /\ d = b + 1
    OBVIOUS
  <1> HIDE DEF b
  <1>2. Twice(b + 1) = Twice(b) + (b + 1) + (b + 1) /\ Twice(b) \in Nat /\ Twice(c) \in Nat
    BY <1>1, TwiceGrows
  <1>3. Twice(c) <= Twice(b)
    BY <1>1, TwiceMonotone
  <1>4. Twice(d) = Twice(b) + (b + 1) + (b + 1)
    BY <1>1, <1>2
  <1> QED
    BY <1>1, <1>2, <1>3, <1>4

LEMMA SameAhead ==
    ASSUME NEW q, NEW p, walk'[q] = walk[q]
    PROVE  /\ HeldAt(q, p)' <=> HeldAt(q, p)
           /\ Ahead(q, p)' <=> Ahead(q, p)
           /\ \A status : IsCalm(q, p, status)' <=> IsCalm(q, p, status)
  BY DEF HeldAt, Ahead, Notices!Walking, IsCalm

LEMMA SameFree ==
    ASSUME NEW q, NEW p, NEW status, NEW t, walk'[q] = walk[q], prefs'[p] = prefs[p]
    PROVE  IsFree(q, p, status, t)' <=> IsFree(q, p, status, t)
  BY SameAhead DEF IsFree, Blocks

(* How many notices a run has, and what RunFits says with it.                *)
LEMMA RunsAre ==
    ASSUME NoticeShapes, NEW p \in Subscriptions, NEW i \in Nat, NEW status, NEW t,
           Running(p, i, status, t)
    PROVE  /\ Len(notices[p]) - i + 1 \in Nat /\ Len(notices[p]) \in Nat
           /\ i <= Len(notices[p]) /\ i >= 1 /\ t <= minute
  <1>1. DOMAIN notices[p] = 1..Len(notices[p]) /\ Len(notices[p]) \in Nat
    BY DEF NoticeShapes
  <1>2. i \in 1..Len(notices[p]) /\ notices[p][i].at = t /\ notices[p][i].at <= minute
    BY <1>1 DEF Running, NoticeShapes
  <1> QED
    BY <1>1, <1>2

(* Nothing is sent for p: where all that were calm are, and none is free     *)
(* that was not, the run fits as before.                                     *)
LEMMA QuietRun ==
    ASSUME NoticesAssumed, NoticeShapes, NEW p \in Subscriptions, NEW i \in Nat, NEW status,
                NEW t \in Nat,
           RunFits(p, i, status, t), notices'[p] = notices[p],
           minute' \in Nat, minute <= minute',
           \A q \in Refreshes : IsCalm(q, p, status) => IsCalm(q, p, status)',
           \A q \in Refreshes : IsFree(q, p, status, t)' => IsFree(q, p, status, t)
    PROVE  RunFits(p, i, status, t)'
  <1> SUFFICES ASSUME Running(p, i, status, t)'
               PROVE  LET n == Len(notices'[p]) - i + 1 + Cardinality(Free(p, status, t)')
                      IN  n + n <= Twice(Cardinality(Calm(p, status)'))
    BY DEF RunFits
  <1>1. Running(p, i, status, t)
    <2>1. minute' - t < RateLimitWindow
      BY DEF Running
    <2>2. minute \in Nat /\ RateLimitWindow \in Nat
      BY DEF NoticeShapes, NoticesAssumed
    <2>3. minute - t < RateLimitWindow
      <3> DEFINE now == minute'
      <3>1. now \in Nat /\ minute <= now /\ now - t < RateLimitWindow
        BY <2>1
      <3> HIDE DEF now
      <3> QED
        BY <2>2, <3>1, Sooner
    <2> QED
      BY <2>3 DEF Running
  <1> DEFINE a == Len(notices[p]) - i + 1
             f == Cardinality(Free(p, status, t))
             c == Cardinality(Calm(p, status))
             g == Cardinality(Free(p, status, t)')
             d == Cardinality(Calm(p, status)')
  <1>2. (a + f) + (a + f) <= Twice(c)
    BY <1>1 DEF RunFits
  <1>3. a \in Nat
    BY <1>1, RunsAre
  <1>4. Free(p, status, t)' \subseteq Free(p, status, t) /\ Calm(p, status) \subseteq Calm(p, status)'
    BY DEF Free, Calm
  <1>5. Calm(p, status)' \in SUBSET Refreshes
    BY DEF Calm
  <1>6. f \in Nat /\ c \in Nat /\ g \in Nat /\ d \in Nat /\ g <= f /\ c <= d
    BY <1>4, <1>5, RefreshSets, CalmFree
  <1>7. Len(notices'[p]) - i + 1 = a
    OBVIOUS
  <1> HIDE DEF a, f, c, g, d
  <1>8. a + g \in Nat /\ a + g <= a + f
    BY <1>3, <1>6
  <1>9. (a + g) + (a + g) <= Twice(d)
    BY <1>2, <1>3, <1>6, <1>8, FitsOn
  <1> QED
    BY <1>7, <1>9 DEF g, d

(* A refresh that goes on and holds nothing back.                            *)
LEMMA QuietStep ==
    ASSUME NoticesAssumed, NoticeShapes, NEW p \in Subscriptions, NEW i \in Nat, NEW status,
                NEW t \in Nat,
           RunFits(p, i, status, t), notices'[p] = notices[p], prefs'[p] = prefs[p], minute' = minute,
           NEW r \in Refreshes, \A q \in Refreshes : q # r => walk'[q] = walk[q],
           ~HeldAt(r, p)', IsFree(r, p, status, t)' => IsFree(r, p, status, t)
    PROVE  RunFits(p, i, status, t)'
  <1>1. \A q \in Refreshes : IsCalm(q, p, status) => IsCalm(q, p, status)'
    BY SameAhead DEF IsCalm
  <1>2. \A q \in Refreshes : IsFree(q, p, status, t)' => IsFree(q, p, status, t)
    BY SameFree
  <1>3. minute' \in Nat /\ minute <= minute'
    BY DEF NoticeShapes
  <1> QED
    BY <1>1, <1>2, <1>3, QuietRun

(* One that sends what is due is free, and is not any more.                  *)
LEMMA SendRun ==
    ASSUME NoticesAssumed, NoticeShapes, NEW p \in Subscriptions, NEW i \in Nat, NEW status,
                NEW t \in Nat,
           RunFits(p, i, status, t), NEW r \in Refreshes, Notices!Send(r), walk[r].next = p
    PROVE  RunFits(p, i, status, t)'
  <1> SUFFICES ASSUME Running(p, i, status, t)'
               PROVE  LET n == Len(notices'[p]) - i + 1 + Cardinality(Free(p, status, t)')
                      IN  n + n <= Twice(Cardinality(Calm(p, status)'))
    BY DEF RunFits
  <1> DEFINE L == Len(notices[p])
             f == Cardinality(Free(p, status, t))
             c == Cardinality(Calm(p, status))
             g == Cardinality(Free(p, status, t)')
             d == Cardinality(Calm(p, status)')
  <1>1. PICK n \in Notice : n.status = Notices!Status(r) /\ n.at = minute /\
              notices' = [notices EXCEPT ![p] = Append(@, n)]
    <2> DEFINE m == [status |-> Notices!Status(r), at |-> minute]
    <2>1. m \in Notice /\ m.status = Notices!Status(r) /\ m.at = minute
      BY SendIs, DueIsTold
    <2>2. notices' = [notices EXCEPT ![p] = Append(@, m)]
      BY SendIs
    <2> HIDE DEF m
    <2> QED
      BY <2>1, <2>2
  <1>2. /\ DOMAIN notices[p] = 1..L /\ L \in Nat
        /\ DOMAIN notices'[p] = 1..(L + 1) /\ Len(notices'[p]) = L + 1
        /\ \A k \in 1..L : notices'[p][k] = notices[p][k]
        /\ notices'[p][L + 1] = n
    BY <1>1, NoticeSent
  <1>3. i \in 1..(L + 1) /\ Notices!Status(r) = status /\ minute - t < RateLimitWindow
    <2>1. i \in 1..(L + 1) /\ notices'[p][L + 1].status = status
      BY <1>2 DEF Running
    <2>2. minute' - t < RateLimitWindow /\ minute' = minute
      BY SendIs DEF Running
    <2> QED
      BY <1>1, <1>2, <2>1, <2>2
  <1>4. /\ HeldAt(r, p)' /\ walk'[r].seen[p] = status /\ ~HeldAt(r, p)
        /\ \A q \in Refreshes : q # r => walk'[q] = walk[q]
        /\ prefs'[p] = prefs[p]
    <2>1. Notices!Status(r) = walk[r].seen[p]
      BY SendIs, HereIs
    <2> QED
      BY <1>3, <2>1, SendIs DEF HeldAt, Notices!Walking
  <1>5. Calm(p, status) \subseteq Calm(p, status)' /\ r \in Calm(p, status)' /\ r \notin Free(p,
              status, t)'
    BY <1>4, SameAhead DEF Calm, Free, IsCalm, IsFree
  <1>6. Free(p, status, t)' \subseteq Free(p, status, t) \ {r}
    BY <1>4, <1>5, SameFree DEF Free
  <1>7. Calm(p, status)' \in SUBSET Refreshes /\ Free(p, status, t)' \subseteq Calm(p, status)'
    BY DEF Calm, Free, IsCalm, IsFree
  <1>8. f \in Nat /\ c \in Nat /\ g \in Nat /\ d \in Nat /\ c <= d /\ g + 1 <= d
    <2>1. g + 1 <= d
      <3>1. Free(p, status, t)' \cup {r} \subseteq Calm(p, status)'
        BY <1>5, <1>7
      <3>2. Cardinality(Free(p, status, t)' \cup {r}) = g + 1
        BY <1>5, <1>7, RefreshSets
      <3> QED
        BY <1>7, <3>1, <3>2, RefreshSets
    <2> QED
      BY <1>5, <1>7, <2>1, RefreshSets, CalmFree
  <1>9. CASE i = L + 1
    <2>1. Len(notices'[p]) - i + 1 + g = 1 + g
      BY <1>2, <1>8, <1>9
    <2>2. d + d <= Twice(d) /\ Twice(d) \in Nat
      BY <1>8, TwiceGrows
    <2> HIDE DEF g, d, c, f
    <2>3. (1 + g) + (1 + g) <= Twice(d)
      BY <1>8, <2>2
    <2> QED
      BY <2>1, <2>3 DEF g, d
  <1>10. CASE i \in 1..L
    <2>1. Running(p, i, status, t)
      <3>1. notices[p][i].at = t
        BY <1>2, <1>10 DEF Running
      <3>2. ASSUME NEW k \in i..L PROVE notices[p][k].status = status
        BY <1>2, <1>10, <3>2 DEF Running
      <3> QED
        BY <1>2, <1>3, <1>10, <3>1, <3>2 DEF Running
    <2>2. (L - i + 1 + f) + (L - i + 1 + f) <= Twice(c)
      BY <2>1 DEF RunFits
    <2>3. IsFree(r, p, status, t)
      <3>1. /\ Notices!Walking(r) /\ Notices!Due(Notices!Here(r), Notices!Status(r)) /\
                  Notices!Here(r) = walk[r].copy[p]
            /\ Notices!Here(r) \in Notices!Preferences
        BY SendIs, HereIs
      <3>2. ~Blocks(walk[r].copy[p], status, t)
        <4>1. minute \in Nat /\ Notices!Here(r).sentAt \in Nat /\ RateLimitWindow \in Nat
          BY <3>1 DEF Notices!Preferences, NoticeShapes, NoticesAssumed
        <4>2. ~(Notices!Here(r).key = status /\ minute - Notices!Here(r).sentAt < RateLimitWindow)
          BY <1>3, <3>1 DEF Notices!Due
        <4> QED
          BY <1>3, <3>1, <4>1, <4>2 DEF Blocks
      <3>3. walk[r].next <= p
        BY LastIs
      <3> QED
        BY <1>4, <3>1, <3>2, <3>3 DEF IsFree, Ahead
    <2>4. g + 1 <= f
      <3>1. r \in Free(p, status, t)
        BY <2>3 DEF Free
      <3>2. Free(p, status, t)' \cup {r} \subseteq Free(p, status, t)
        BY <1>6, <3>1
      <3>3. Cardinality(Free(p, status, t)' \cup {r}) = g + 1
        BY <1>5, <1>7, RefreshSets
      <3> QED
        BY <3>2, <3>3, CalmFree, RefreshSets
    <2> DEFINE a == L - i + 1
    <2>5. a \in Nat /\ Len(notices'[p]) - i + 1 + g = a + 1 + g
      <3> DEFINE M == Len(notices'[p])
      <3>1. L \in Nat /\ M = L + 1 /\ i \in 1..L /\ g \in Nat
        BY <1>2, <1>8, <1>10
      <3> HIDE DEF L, M, g
      <3>2. L - i + 1 \in Nat /\ M - i + 1 + g = L - i + 1 + 1 + g
        BY <3>1
      <3> QED
        BY <3>2 DEF M
    <2>6. (a + f) + (a + f) <= Twice(c)
      BY <2>2
    <2> HIDE DEF a, f, c, g, d
    <2>7. a + 1 + g \in Nat /\ a + 1 + g <= a + f
      BY <1>8, <2>4, <2>5
    <2> DEFINE m == a + 1 + g
    <2>8. m \in Nat /\ m <= a + f
      BY <2>7
    <2> HIDE DEF m
    <2>9. m + m <= Twice(d)
      BY <1>8, <2>5, <2>6, <2>8, FitsOn
    <2> QED
      BY <2>5, <2>9 DEF g, d, m
  <1> QED
    BY <1>2, <1>3, <1>9, <1>10

(* One that writes back the status of the run makes the store block it, and  *)
(* one that writes another is calm from then on.                             *)
LEMMA WriteRun ==
    ASSUME NoticesAssumed, NoticeShapes, NEW p \in Subscriptions, NEW i \in Nat, NEW status,
                NEW t \in Nat,
           RunFits(p, i, status, t), NEW r \in Refreshes, Notices!WriteBack(r), walk[r].next = p
    PROVE  RunFits(p, i, status, t)'
  <1>1. /\ Notices!Walking(r) /\ walk[r].sent /\ notices' = notices /\ minute' = minute
        /\ walk' = [walk EXCEPT ![r] = [walk[r] EXCEPT !.next = walk[r].next + 1, !.sent = FALSE]]
        /\ walk[r].next \in Subscriptions
    BY WriteBackIs
  <1>2. /\ ~walk'[r].sent /\ walk'[r].next = p + 1
        /\ \A q \in Refreshes : q # r => walk'[q] = walk[q]
    BY <1>1, MoveIs
  <1>3. HeldAt(r, p) /\ ~HeldAt(r, p)' /\ ~Ahead(r, p)' /\ Notices!Status(r) = walk[r].seen[p]
    <2>1. p \in Nat
      BY LastIs
    <2> QED
      BY <1>1, <1>2, <2>1, HereIs DEF HeldAt, Ahead
  <1>4. prefs'[p].key = Notices!Status(r) /\ prefs'[p].sentAt = minute
    <2> DEFINE pref == Notices!Remembered(Notices!Here(r), Notices!Status(r))
    <2>1. /\ prefs' = [prefs EXCEPT ![p] = pref] /\ pref \in Notices!Preferences
          /\ pref.key = Notices!Status(r) /\ pref.sentAt = minute
      BY WriteBackIs
    <2> HIDE DEF pref
    <2> QED
      BY <2>1, PutPreference
  <1>5. \A q \in Refreshes : IsCalm(q, p, status) => IsCalm(q, p, status)'
    BY <1>2, <1>3, SameAhead DEF IsCalm
  <1>6. minute' \in Nat /\ minute <= minute'
    BY <1>1 DEF NoticeShapes
  <1>7. CASE Notices!Status(r) = status /\ t <= minute
    <2>1. Blocks(prefs[p], status, t)'
      BY <1>4, <1>7 DEF Blocks, NoticeShapes
    <2>2. \A q \in Refreshes : IsFree(q, p, status, t)' => IsFree(q, p, status, t)
      <3>1. ASSUME NEW q \in Refreshes, q # r, IsFree(q, p, status, t)'
            PROVE  IsFree(q, p, status, t)
        <4>1. walk'[q] = walk[q]
          BY <1>2, <3>1
        <4>2. ~HeldAt(q, p)' /\ Ahead(q, p)' /\ ~Blocks(walk[q].copy[p], status, t)'
          BY <2>1, <3>1 DEF IsFree
        <4> QED
          BY <4>1, <4>2, SameAhead DEF IsFree, Blocks
      <3>2. ~IsFree(r, p, status, t)'
        BY <1>3, <2>1 DEF IsFree
      <3> QED
        BY <3>1, <3>2
    <2> QED
      BY <1>1, <1>5, <1>6, <2>2, QuietRun
  <1>8. CASE Notices!Status(r) # status
    <2> SUFFICES ASSUME Running(p, i, status, t)'
                 PROVE  LET n == Len(notices'[p]) - i + 1 + Cardinality(Free(p, status, t)')
                        IN  n + n <= Twice(Cardinality(Calm(p, status)'))
      BY DEF RunFits
    <2> DEFINE a == Len(notices[p]) - i + 1
               f == Cardinality(Free(p, status, t))
               c == Cardinality(Calm(p, status))
               g == Cardinality(Free(p, status, t)')
               d == Cardinality(Calm(p, status)')
    <2>1. Running(p, i, status, t)
      BY <1>1 DEF Running
    <2>2. (a + f) + (a + f) <= Twice(c) /\ a \in Nat
      BY <2>1, RunsAre DEF RunFits
    <2>3. r \notin Calm(p, status) /\ Calm(p, status) \cup {r} \subseteq Calm(p, status)'
      BY <1>3, <1>5, <1>8 DEF Calm, IsCalm
    <2>4. Calm(p, status)' \in SUBSET Refreshes /\ Free(p, status, t)' \subseteq Calm(p, status)'
      BY DEF Calm, Free, IsCalm, IsFree
    <2>5. f \in Nat /\ c \in Nat /\ g \in Nat /\ d \in Nat /\ g <= d
      BY <2>4, CalmFree, RefreshSets
    <2>6. c + 1 <= d
      <3>1. Cardinality(Calm(p, status) \cup {r}) = c + 1
        BY <2>3, CalmFree, RefreshSets
      <3> QED
        BY <2>3, <2>4, <3>1, RefreshSets
    <2>7. Len(notices'[p]) - i + 1 = a
      BY <1>1
    <2> HIDE DEF a, f, c, g, d
    <2>8. (a + g) + (a + g) <= Twice(d)
      BY <2>2, <2>5, <2>6, FitsMore
    <2> QED
      BY <2>7, <2>8 DEF g, d
  <1>9. CASE ~(t <= minute)
    <2>1. ~Running(p, i, status, t)'
      <3> SUFFICES ASSUME Running(p, i, status, t)' PROVE FALSE
        OBVIOUS
      <3>1. Running(p, i, status, t)
        BY <1>1 DEF Running
      <3> QED
        BY <1>9, <3>1, RunsAre
    <2> QED
      BY <2>1 DEF RunFits
  <1> QED
    BY <1>7, <1>8, <1>9

LEMMA StillUndisturbed ==
    ASSUME NoticeShapes, [Notices!Next]_(Notices!vars), Undisturbed'
    PROVE  Undisturbed
  <1>1. edits \in Nat /\ noticesLost \in Nat
    BY DEF NoticeShapes
  <1>2. (edits' = edits \/ edits' = edits + 1) /\ (noticesLost' = noticesLost \/
              noticesLost' = noticesLost + 1)
    <2>1. ASSUME NEW r \in Refreshes, Notices!Collect(r) \/ Notices!Begin(r) \/ Notices!Send(r) \/
                Notices!WriteBack(r) \/ Notices!Skip(r) \/ Notices!EndWalk(r)
          PROVE  edits' = edits /\ noticesLost' = noticesLost
      BY <2>1 DEF Notices!Collect, Notices!Begin, Notices!Send, Notices!WriteBack, Notices!Skip,
         Notices!EndWalk
    <2>2. ASSUME NEW r \in Refreshes, Notices!SendFails(r) PROVE edits' = edits /\
                noticesLost' = noticesLost + 1
      BY <2>2 DEF Notices!SendFails
    <2>3. ASSUME NEW p \in Subscriptions, NEW down \in BOOLEAN, NEW recovery \in BOOLEAN,
                 Notices!SavePreference(p, down, recovery)
          PROVE  edits' = edits + 1 /\ noticesLost' = noticesLost
      BY <2>3 DEF Notices!SavePreference
    <2>4. CASE Notices!Crash \/ Notices!WorldChanges \/ Notices!Tick \/ UNCHANGED Notices!vars
      BY <2>4 DEF Notices!Crash, Notices!WorldChanges, Notices!Tick, Notices!vars
    <2> QED
      BY <2>1, <2>2, <2>3, <2>4 DEF Notices!Next
  <1> QED
    BY <1>1, <1>2 DEF Undisturbed

(* The step as a whole.                                                      *)
LEMMA StepRuns ==
    ASSUME NoticesAssumed, NoticeShapes, Undisturbed => RunsFit, [Notices!Next]_(Notices!vars),
                Undisturbed'
    PROVE  RunsFit'
  <1>0. SUFFICES ASSUME Undisturbed,
                        NEW p \in Subscriptions, NEW i \in Nat, NEW status \in ToldStatuses,
                                    NEW t \in Nat,
                        RunFits(p, i, status, t)
                 PROVE  RunFits(p, i, status, t)'
    <2>1. Undisturbed
      BY StillUndisturbed
    <2> QED
      BY <2>1 DEF RunsFit
  <1>1. ASSUME NEW r \in Refreshes, Notices!Collect(r) PROVE RunFits(p, i, status, t)'
    <2>1. /\ ~HeldAt(r, p)' /\ ~Ahead(r, p)' /\ ~HeldAt(r, p) /\ ~Ahead(r, p)
          /\ prefs' = prefs /\ notices' = notices /\ minute' = minute
          /\ \A q \in Refreshes : q # r => walk'[q] = walk[q]
      BY <1>1, CollectingIs DEF HeldAt, Ahead, Notices!Walking
    <2>2. IsFree(r, p, status, t)' => IsFree(r, p, status, t)
      BY <2>1 DEF IsFree, Blocks
    <2> QED
      BY <1>0, <2>1, <2>2, QuietStep
  <1>2. ASSUME NEW r \in Refreshes, Notices!Begin(r) PROVE RunFits(p, i, status, t)'
    <2>1. /\ ~HeldAt(r, p)' /\ ~HeldAt(r, p) /\ ~Ahead(r, p)
          /\ Ahead(r, p)' => walk'[r].copy = prefs
          /\ prefs' = prefs /\ notices' = notices /\ minute' = minute
          /\ \A q \in Refreshes : q # r => walk'[q] = walk[q]
      BY <1>2, BeginIs DEF HeldAt, Ahead, Notices!Walking
    <2>2. IsFree(r, p, status, t)' => IsFree(r, p, status, t)
      BY <2>1 DEF IsFree, Blocks
    <2> QED
      BY <1>0, <2>1, <2>2, QuietStep
  <1>3. ASSUME NEW r \in Refreshes, Notices!Send(r) PROVE RunFits(p, i, status, t)'
    <2>1. CASE walk[r].next = p
      BY <1>0, <1>3, <2>1, SendRun
    <2>2. CASE walk[r].next # p
      <3>1. /\ ~HeldAt(r, p)' /\ ~HeldAt(r, p)
            /\ Ahead(r, p)' => Ahead(r, p)
            /\ walk'[r].copy = walk[r].copy
            /\ prefs' = prefs /\ minute' = minute
            /\ \A q \in Refreshes : q # r => walk'[q] = walk[q]
        BY <1>3, <2>2, SendIs DEF HeldAt, Ahead, Notices!Walking
      <3>2. notices'[p] = notices[p]
        BY <1>3, <2>2, SendIs DEF NoticeShapes
      <3>3. IsFree(r, p, status, t)' => IsFree(r, p, status, t)
        BY <3>1 DEF IsFree, Blocks
      <3> QED
        BY <1>0, <3>1, <3>2, <3>3, QuietStep
    <2> QED
      BY <2>1, <2>2
  <1>4. ASSUME NEW r \in Refreshes, Notices!WriteBack(r) \/ Notices!Skip(r) PROVE RunFits(p, i,
              status, t)'
    <2>1. CASE Notices!WriteBack(r) /\ walk[r].next = p
      BY <1>0, <2>1, WriteRun
    <2>2. CASE Notices!Skip(r) \/ walk[r].next # p
      <3>1. /\ Notices!Walking(r) /\ walk[r].next \in Subscriptions
            /\ walk' = [walk EXCEPT ![r] = [walk[r] EXCEPT !.next = walk[r].next + 1, !.sent = FALSE]]
            /\ notices' = notices /\ minute' = minute
            /\ Notices!Skip(r) => ~walk[r].sent
        BY <1>4, WriteBackIs, SkipIs
      <3>2. /\ ~walk'[r].sent /\ walk'[r].copy = walk[r].copy /\ walk'[r].next = walk[r].next + 1
            /\ \A q \in Refreshes : q # r => walk'[q] = walk[q]
        BY <3>1, MoveIs
      <3>3. ~HeldAt(r, p)' /\ ~HeldAt(r, p)
        BY <2>2, <3>1, <3>2 DEF HeldAt
      <3>4. Ahead(r, p)' => Ahead(r, p)
        <4>1. walk[r].next \in Nat /\ p \in Nat
          BY <3>1, LastIs
        <4> QED
          BY <3>1, <3>2, <3>3, <4>1 DEF Ahead
      <3>5. prefs'[p] = prefs[p]
        <4>1. CASE Notices!Skip(r)
          BY <4>1, SkipIs
        <4>2. CASE Notices!WriteBack(r)
          BY <2>2, <4>2, WriteBackIs, SkipIs DEF NoticeShapes
        <4> QED
          BY <1>4, <4>1, <4>2
      <3>6. IsFree(r, p, status, t)' => IsFree(r, p, status, t)
        BY <3>2, <3>3, <3>4, <3>5 DEF IsFree, Blocks
      <3> QED
        BY <1>0, <3>1, <3>2, <3>3, <3>5, <3>6, QuietStep
    <2> QED
      BY <1>4, <2>1, <2>2
  <1>5. ASSUME NEW r \in Refreshes, Notices!EndWalk(r) PROVE RunFits(p, i, status, t)'
    <2>1. /\ walk[r].next \notin Subscriptions /\ Notices!Walking(r) /\ ~Notices!Walking(r)'
          /\ prefs' = prefs /\ notices' = notices /\ minute' = minute
          /\ \A q \in Refreshes : q # r => walk'[q] = walk[q]
      BY <1>5 DEF Notices!EndWalk, Notices!Walking, NoticeShapes
    <2>2. walk[r].next \in 0..PastLast /\ walk[r].next > 0
      BY <2>1 DEF NoticeShapes, Notices!Walking, WalkShape
    <2>3. ~(walk[r].next <= p)
      BY <2>1, <2>2, LastIs
    <2>4. ~HeldAt(r, p)' /\ ~HeldAt(r, p) /\ ~Ahead(r, p)' /\ ~Ahead(r, p)
      BY <2>1, <2>3 DEF HeldAt, Ahead
    <2>5. IsFree(r, p, status, t)' => IsFree(r, p, status, t)
      BY <2>1, <2>4 DEF IsFree, Blocks
    <2> QED
      BY <1>0, <2>1, <2>4, <2>5, QuietStep
  <1>6. ASSUME NEW r \in Refreshes, Notices!SendFails(r) PROVE FALSE
    BY <1>6 DEF Notices!SendFails, Undisturbed, NoticeShapes
  <1>7. ASSUME NEW o \in Subscriptions, NEW down \in BOOLEAN, NEW recovery \in BOOLEAN,
               Notices!SavePreference(o, down, recovery)
        PROVE  FALSE
    BY <1>7 DEF Notices!SavePreference, Undisturbed, NoticeShapes
  <1>8. CASE Notices!Crash
    BY <1>8 DEF Notices!Crash, Undisturbed, NoticeShapes
  <1>9. CASE Notices!WorldChanges \/ Notices!Tick \/ UNCHANGED Notices!vars
    <2>1. UNCHANGED <<prefs, walk, notices>>
      BY <1>9 DEF Notices!WorldChanges, Notices!Tick, Notices!vars
    <2>2. minute' \in Nat /\ minute <= minute'
      BY <1>9 DEF Notices!WorldChanges, Notices!Tick, Notices!vars, NoticeShapes
    <2>3. \A q \in Refreshes : IsCalm(q, p, status) => IsCalm(q, p, status)'
      BY <2>1, SameAhead
    <2>4. \A q \in Refreshes : IsFree(q, p, status, t)' => IsFree(q, p, status, t)
      BY <2>1, SameFree
    <2> QED
      BY <1>0, <2>1, <2>2, <2>3, <2>4, QuietRun
  <1> QED
    BY <1>1, <1>2, <1>3, <1>4, <1>5, <1>6, <1>7, <1>8, <1>9 DEF Notices!Next

-----------------------------------------------------------------------------
(* What is sent makes no run too long.                                       *)

LEMMA StepRepeats ==
    ASSUME NoticesAssumed, NoticeShapes, Notices!RepeatsBounded, [Notices!Next]_(Notices!vars),
                Undisturbed' => RunsFit'
    PROVE  Notices!RepeatsBounded'
  <1>1. CASE ~\E r \in Refreshes : Notices!Send(r)
    <2>1. notices' = notices
      BY <1>1, OnlySends
    <2>2. Undisturbed' => Undisturbed
      BY StillUndisturbed
    <2> QED
      BY <2>1, <2>2 DEF Notices!RepeatsBounded, Notices!Repeated, Undisturbed
  <1>2. ASSUME NEW r \in Refreshes, Notices!Send(r) PROVE Notices!RepeatsBounded'
    <2>1. PICK o \in Subscriptions, n \in Notice :
              o = walk[r].next /\ n = [status |-> Notices!Status(r), at |-> minute]
      BY <1>2, SendIs, DueIsTold
    <2>2. /\ notices' = [notices EXCEPT ![o] = Append(@, n)] /\ n.at = minute
          /\ minute' = minute /\ (Undisturbed' <=> Undisturbed)
      BY <1>2, <2>1, SendIs DEF Undisturbed
    <2>3. /\ \A q \in Subscriptions : q # o => notices'[q] = notices[q]
          /\ DOMAIN notices[o] = 1..Len(notices[o]) /\ Len(notices[o]) \in Nat
          /\ DOMAIN notices'[o] = 1..(Len(notices[o]) + 1) /\ Len(notices'[o]) = Len(notices[o]) + 1
          /\ \A i \in 1..Len(notices[o]) : notices'[o][i] = notices[o][i]
          /\ notices'[o][Len(notices[o]) + 1] = n
          /\ notices' \in [Subscriptions -> Seq(Notice)]
      BY <2>2, NoticeSent
    <2> DEFINE L == Len(notices[o])
               N == Cardinality(Refreshes)
    <2>4. ASSUME Undisturbed, NEW p \in Subscriptions,
                 NEW i \in DOMAIN notices'[p], NEW j \in DOMAIN notices'[p],
                 i <= j, Notices!Repeated(p, i, j)'
          PROVE  2 * (j - i + 1) <= N * (N + 1)
      <3>1. CASE p # o
        <4>1. Notices!Repeated(p, i, j) /\ i \in DOMAIN notices[p] /\ j \in DOMAIN notices[p]
          BY <2>3, <2>4, <3>1 DEF Notices!Repeated
        <4> QED
          BY <2>4, <4>1, NoticeSets DEF Notices!RepeatsBounded, Undisturbed
      <3>2. CASE p = o /\ j \in 1..L
        <4>1. i \in 1..L /\ notices'[p][i] = notices[p][i] /\ notices'[p][j] = notices[p][j]
          BY <2>3, <2>4, <3>2
        <4>2. \A k \in i..j : notices'[p][k] = notices[p][k]
          BY <2>3, <3>2, <4>1
        <4>3. Notices!Repeated(p, i, j)
          BY <2>4, <4>1, <4>2 DEF Notices!Repeated
        <4> QED
          BY <2>3, <2>4, <3>2, <4>1, <4>3, NoticeSets DEF Notices!RepeatsBounded, Undisturbed
      <3>3. CASE p = o /\ j = L + 1
        <4> DEFINE S == notices'[p][i].status
                   t == notices'[p][i].at
        <4>1. i \in 1..(L + 1) /\ notices'[p][i] \in Notice
          BY <2>3, <3>3
        <4>2. S \in ToldStatuses /\ t \in Nat /\ i \in Nat
          BY <4>1 DEF Notice
        <4>3. /\ \A k \in i..Len(notices'[p]) : notices'[p][k].status = S
              /\ minute' - t < RateLimitWindow
          BY <2>2, <2>3, <2>4, <3>3 DEF Notices!Repeated
        <4>4. notices'[p][i].status = S /\ notices'[p][i].at = t
          OBVIOUS
        <4> HIDE DEF S, t
        <4>5. PICK u \in Nat, s \in ToldStatuses : u = t /\ s = S
          BY <4>2
        <4>6. Running(p, i, s, u)'
          BY <2>4, <4>3, <4>4, <4>5 DEF Running
        <4>7. RunFits(p, i, s, u)'
          BY <2>2, <2>4, <4>2, <4>5 DEF RunsFit
        <4> DEFINE f == Cardinality(Free(p, s, u)')
                   c == Cardinality(Calm(p, s)')
        <4>8. (Len(notices'[p]) - i + 1 + f) + (Len(notices'[p]) - i + 1 + f) <= Twice(c)
          BY <4>6, <4>7 DEF RunFits
        <4>9. f \in Nat /\ c \in Nat /\ N \in Nat /\ c <= N
          <5>1. Free(p, s, u)' \in SUBSET Refreshes /\ Calm(p, s)' \in SUBSET Refreshes
            BY DEF Free, Calm
          <5> QED
            BY <5>1, RefreshSets
        <4>10. Twice(c) <= Twice(N) /\ Twice(c) \in Nat /\ Twice(N) \in Nat
          BY <4>9, TwiceMonotone, TwiceGrows
        <4>11. Twice(N) = N * (N + 1)
          BY DEF Twice
        <4>12. Len(notices'[p]) = j /\ j \in Nat
          BY <2>3, <3>3
        <4> HIDE DEF f, c, N, L
        <4>13. 2 * (j - i + 1) <= Twice(N)
          BY <4>2, <4>8, <4>9, <4>10, <4>12
        <4> QED
          BY <4>11, <4>13
      <3>4. p = o => j \in 1..L \/ j = L + 1
        BY <2>3, <2>4
      <3> QED
        BY <3>1, <3>2, <3>3, <3>4
    <2> QED
      BY <2>2, <2>4, NoticeSets DEF Notices!RepeatsBounded, Undisturbed
  <1> QED
    BY <1>1, <1>2

LEMMA NoticesBegin ==
    ASSUME NoticesAssumed, Notices!Init
    PROVE  NoticeInv
  <1>1. Notices!Subscription(TRUE, TRUE) \in Notices!Preferences
    BY DEF Notices!Subscription, Notices!Preferences
  <1>2. \A p \in Subscriptions : DOMAIN notices[p] = {} /\ prefs[p].seen = None
    BY DEF Notices!Init, Notices!Subscription
  <1>3. NoticeShapes
    <2>1. appStatus \in [Subscriptions -> Notices!AppStatuses] /\
                prefs \in [Subscriptions -> Notices!Preferences]
      BY <1>1 DEF Notices!AppStatuses, Notices!Init
    <2>2. notices \in [Subscriptions -> Seq(Notice)]
      <3>1. <<>> \in Seq(Notice)
        OBVIOUS
      <3> QED
        BY <3>1 DEF Notices!Init
    <2>3. DOMAIN walk = Refreshes /\ \A r \in Refreshes : walk[r] = None
      BY DEF Notices!Init
    <2>4. minute \in Nat /\ edits \in Nat /\ noticesLost \in Nat /\ nas \in BOOLEAN
      BY DEF Notices!Init
    <2> QED
      BY <1>2, <2>1, <2>2, <2>3, <2>4 DEF NoticeShapes
  <1>4. TroubleTold
    BY <1>2 DEF TroubleTold, Well, Notices!Init, Notices!Walking
  <1>5. Notices!RecoveryAfterTrouble /\ Notices!RepeatsBounded /\ RunsFit
    BY <1>2 DEF Notices!RecoveryAfterTrouble, Notices!RepeatsBounded, RunsFit, RunFits, Running
  <1> QED
    BY <1>3, <1>4, <1>5 DEF NoticeInv

LEMMA NoticesKeep ==
    ASSUME NoticesAssumed, NoticeInv, [Notices!Next]_(Notices!vars)
    PROVE  NoticeInv'
  <1>1. /\ NoticeShapes /\ TroubleTold /\ Notices!RecoveryAfterTrouble /\ (Undisturbed => RunsFit)
        /\ Notices!RepeatsBounded
    BY DEF NoticeInv
  <1>2. NoticeShapes' /\ TroubleTold' /\ Notices!RecoveryAfterTrouble'
    BY <1>1, StepShapes, StepTroubles, StepRecovers
  <1>3. Undisturbed' => RunsFit'
    BY <1>1, StepRuns
  <1>4. Notices!RepeatsBounded'
    BY <1>1, <1>3, StepRepeats
  <1> QED
    BY <1>2, <1>3, <1>4 DEF NoticeInv

-----------------------------------------------------------------------------
(* The readings.                                                             *)

TrackerAssumed == /\ BucketWindow \in Nat \ {0} /\ WindowSamples \in Nat \ {0}
                  /\ IsFiniteSet(Polls)
                  /\ None \notin Nat /\ None \notin Tracker!Readings

LEMMA TrackerAssumption == TrackerAssumed
  <1>1. Tracker!IsFiniteSet(Polls) <=> IsFiniteSet(Polls)
    BY DEF Tracker!IsFiniteSet, IsFiniteSet
  <1> QED
    BY <1>1, PartsAssumption DEF PartsAssumption, Tracker!TrackerAssumption, TrackerAssumed

(* A sum is that of its last number and of those before it.                  *)
Sums(f, s) == /\ f \in [0..Len(s) -> Nat] /\ f[0] = 0
              /\ \A n \in 1..Len(s) : f[n] = f[n - 1] + s[n]

LEMMA SumsExist ==
    ASSUME NEW s \in Seq(Nat)
    PROVE  \E f : Sums(f, s)
  <1>1. PICK m \in Nat : m = Len(s)
    OBVIOUS
  <1> DEFINE Good(f, n) == f[0] = 0 /\ \A k \in 1..n : f[k] = f[k - 1] + s[k]
             bad == {n \in 0..m : ~\E f \in [0..n -> Nat] : Good(f, n)}
  <1>2. bad = {}
    <2> SUFFICES ASSUME bad # {} PROVE FALSE
      OBVIOUS
    <2>1. PICK n \in bad : \A k \in bad : n <= k
      <3>1. bad \in SUBSET Nat
        OBVIOUS
      <3> HIDE DEF bad
      <3> QED
        BY <3>1, LeastOf
    <2>2. n \in 0..m /\ ~\E f \in [0..n -> Nat] : Good(f, n)
      BY <2>1
    <2>3. n # 0
      <3>1. Good([k \in 0..0 |-> 0], 0)
        OBVIOUS
      <3> QED
        BY <2>2, <3>1
    <2>4. n \in 1..m /\ n - 1 \in 0..m /\ n - 1 \notin bad
      <3> HIDE DEF bad
      <3> QED
        BY <2>1, <2>2, <2>3
    <2>5. PICK f \in [0..(n - 1) -> Nat] : Good(f, n - 1)
      BY <2>4
    <2> DEFINE g == [k \in 0..n |-> IF k = n THEN f[n - 1] + s[n] ELSE f[k]]
    <2>6. n - 1 \in 0..(n - 1) /\ s[n] \in Nat
      BY <1>1, <2>4
    <2>7. f[n - 1] + s[n] \in Nat
      BY <2>6
    <2>8. g \in [0..n -> Nat]
      BY <2>2, <2>7
    <2>9. ASSUME NEW k \in 1..n
          PROVE  g[k] = g[k - 1] + s[k]
      <3>1. k \in 0..n /\ k - 1 \in 0..n /\ k - 1 # n
        BY <2>2
      <3>2. g[k - 1] = f[k - 1]
        BY <3>1
      <3>3. CASE k = n
        BY <3>1, <3>2, <3>3
      <3>4. CASE k # n
        <4>1. k \in 1..(n - 1)
          BY <2>2, <3>4
        <4>2. g[k] = f[k]
          BY <3>1, <3>4
        <4> QED
          BY <2>5, <3>2, <4>1, <4>2
      <3> QED
        BY <3>3, <3>4
    <2>10. g[0] = 0
      BY <2>2, <2>3, <2>5
    <2> QED
      BY <2>2, <2>8, <2>9, <2>10
  <1>3. PICK f \in [0..m -> Nat] : Good(f, m)
    <2>1. m \in 0..m
      OBVIOUS
    <2>2. m \notin bad
      BY <1>2, Zenon
    <2> QED
      BY <2>1, <2>2
  <1>4. Sums(f, s)
    BY <1>1, <1>3 DEF Sums
  <1> QED
    BY <1>4

LEMMA SumsAgree ==
    ASSUME NEW s \in Seq(Nat), NEW f, Sums(f, s), NEW t \in Seq(Nat), NEW g, Sums(g, t),
           NEW m \in Nat, m <= Len(s), m <= Len(t), \A n \in 1..m : s[n] = t[n]
    PROVE  f[m] = g[m]
  <1> DEFINE bad == {n \in 0..m : f[n] # g[n]}
  <1> SUFFICES ASSUME bad # {} PROVE FALSE
    OBVIOUS
  <1>1. PICK n \in bad : \A k \in bad : n <= k
    <2>1. bad \in SUBSET Nat
      OBVIOUS
    <2> HIDE DEF bad
    <2> QED
      BY <2>1, LeastOf
  <1>2. n \in 0..m /\ f[n] # g[n]
    BY <1>1
  <1>3. n # 0
    BY <1>2 DEF Sums
  <1>4. n \in 1..Len(s) /\ n \in 1..Len(t) /\ n - 1 \in 0..m
    BY <1>2, <1>3
  <1>5. f[n - 1] = g[n - 1]
    <2>1. n - 1 \notin bad
      <3> HIDE DEF bad
      <3> QED
        BY <1>1, <1>2
    <2> QED
      BY <1>4, <2>1
  <1> QED
    BY <1>2, <1>3, <1>4, <1>5 DEF Sums

LEMMA TotalIs ==
    ASSUME NEW s \in Seq(Nat)
    PROVE  \E f : Sums(f, s) /\ Tracker!Total(s) = f[Len(s)]
  <1> DEFINE m == Len(s)
             Rec(f) == [n \in 0..m |-> IF n = 0 THEN 0 ELSE f[n - 1] + s[n]]
             total == CHOOSE f : f = Rec(f)
  <1>1. PICK f : Sums(f, s)
    BY SumsExist
  <1>2. f = Rec(f)
    <2>1. \A n \in 0..m : n = 0 \/ n \in 1..m
      OBVIOUS
    <2>2. f = [n \in 0..m |-> f[n]]
      BY <1>1 DEF Sums
    <2> QED
      BY <1>1, <2>1, <2>2 DEF Sums
  <1>3. total = Rec(total)
    BY <1>2
  <1>4. Tracker!Total(s) = total[m]
    BY DEF Tracker!Total
  <1>5. \A n \in 0..m : total[n] = f[n]
    <2> DEFINE bad == {n \in 0..m : total[n] # f[n]}
    <2> SUFFICES ASSUME bad # {} PROVE FALSE
      OBVIOUS
    <2> HIDE DEF total
    <2>1. PICK n \in bad : \A k \in bad : n <= k
      <3>1. bad \in SUBSET Nat
        OBVIOUS
      <3> HIDE DEF bad
      <3> QED
        BY <3>1, LeastOf
    <2>2. n \in 0..m /\ total[n] # f[n]
      BY <2>1
    <2>3. n # 0
      BY <1>1, <1>3, <2>2 DEF Sums
    <2>4. n - 1 \in 0..m /\ n \in 1..m
      BY <2>2, <2>3
    <2>5. total[n - 1] = f[n - 1]
      <3>1. n - 1 \notin bad
        <4> HIDE DEF bad
        <4> QED
          BY <2>1, <2>2
      <3> QED
        BY <2>4, <3>1
    <2>6. total[n] = total[n - 1] + s[n]
      BY <1>3, <2>2, <2>3
    <2> QED
      BY <1>1, <2>2, <2>4, <2>5, <2>6 DEF Sums
  <1>6. m \in 0..m
    OBVIOUS
  <1> HIDE DEF total
  <1> QED
    BY <1>1, <1>4, <1>5, <1>6

LEMMA TotalNat ==
    ASSUME NEW s \in Seq(Nat)
    PROVE  Tracker!Total(s) \in Nat /\ (s = <<>> => Tracker!Total(s) = 0)
  <1>1. PICK f : Sums(f, s) /\ Tracker!Total(s) = f[Len(s)]
    BY TotalIs
  <1> QED
    BY <1>1 DEF Sums

LEMMA TotalAppend ==
    ASSUME NEW s \in Seq(Nat), NEW x \in Nat
    PROVE  Tracker!Total(Append(s, x)) = Tracker!Total(s) + x
  <1> DEFINE t == Append(s, x)
  <1>1. t \in Seq(Nat) /\ Len(t) = Len(s) + 1 /\ t[Len(t)] = x /\ \A n \in 1..Len(s) : s[n] = t[n]
    OBVIOUS
  <1> HIDE DEF t
  <1>2. PICK f : Sums(f, s) /\ Tracker!Total(s) = f[Len(s)]
    BY TotalIs
  <1>3. PICK g : Sums(g, t) /\ Tracker!Total(t) = g[Len(t)]
    BY <1>1, TotalIs
  <1> DEFINE m == Len(s)
  <1>m. m \in Nat /\ m <= Len(s) /\ m <= Len(t) /\ \A n \in 1..m : s[n] = t[n]
    BY <1>1
  <1> HIDE DEF m
  <1>4. f[m] = g[m]
    BY <1>1, <1>2, <1>3, <1>m, SumsAgree
  <1>5. g[Len(t)] = g[Len(t) - 1] + t[Len(t)]
    <2>1. Len(t) \in 1..Len(t)
      BY <1>1
    <2> QED
      BY <1>3, <2>1 DEF Sums
  <1> QED
    BY <1>1, <1>2, <1>3, <1>4, <1>5 DEF t, m

LEMMA Shifted ==
    ASSUME NEW a \in Nat, NEW b \in Nat, NEW c \in Nat, NEW d \in Nat, NEW e \in Nat, a + c = b + d
    PROVE  (a + e) + c = (b + e) + d
  OBVIOUS

(* Where one number changes, the sum changes by as much.                     *)
LEMMA TotalChanges ==
    ASSUME NEW s \in Seq(Nat), NEW t \in Seq(Nat), Len(t) = Len(s), NEW k \in 1..Len(s),
           \A n \in 1..Len(s) : n # k => s[n] = t[n]
    PROVE  Tracker!Total(t) + s[k] = Tracker!Total(s) + t[k]
  <1> DEFINE m == Len(s)
  <1>1. PICK f : Sums(f, s) /\ Tracker!Total(s) = f[Len(s)]
    BY TotalIs
  <1>2. PICK g : Sums(g, t) /\ Tracker!Total(t) = g[Len(t)]
    BY TotalIs
  <1>3. f[k - 1] = g[k - 1]
    <2> DEFINE i == k - 1
    <2>1. i \in Nat /\ i <= Len(s) /\ i <= Len(t) /\ \A n \in 1..i : s[n] = t[n]
      OBVIOUS
    <2> HIDE DEF i
    <2>2. f[i] = g[i]
      BY <1>1, <1>2, <2>1, SumsAgree
    <2> QED
      BY <2>2 DEF i
  <1>4. f[k] = f[k - 1] + s[k] /\ g[k] = g[k - 1] + t[k]
    BY <1>1, <1>2 DEF Sums
  <1>5. f \in [0..m -> Nat] /\ g \in [0..m -> Nat] /\ s[k] \in Nat /\ t[k] \in Nat
    BY <1>1, <1>2 DEF Sums
  <1>8. s[k] \in Nat /\ t[k] \in Nat
    BY <1>5
  <1>6. \A n \in k..m : g[n] + s[k] = f[n] + t[k]
    <2> DEFINE bad == {n \in k..m : g[n] + s[k] # f[n] + t[k]}
    <2> SUFFICES ASSUME bad # {} PROVE FALSE
      OBVIOUS
    <2>1. PICK n \in bad : \A i \in bad : n <= i
      <3>1. bad \in SUBSET Nat
        OBVIOUS
      <3> HIDE DEF bad
      <3> QED
        BY <3>1, LeastOf
    <2>2. n \in k..m /\ g[n] + s[k] # f[n] + t[k]
      BY <2>1
    <2>3. n # k
      <3>1. k - 1 \in 0..m
        OBVIOUS
      <3>2. f[k - 1] \in Nat
        BY <1>5, <3>1
      <3>3. s[k] \in Nat /\ t[k] \in Nat
        BY <1>5
      <3>4. g[k] + s[k] = f[k] + t[k]
        <4> HIDE DEF bad, m
        <4> QED
          BY <1>3, <1>4, <3>2, <3>3
      <3> QED
        BY <2>2, <3>4
    <2>4. n - 1 \in k..m /\ n \in 1..m /\ n - 1 \in 0..m /\ n \in 0..m
      BY <2>2, <2>3
    <2>5. g[n - 1] + s[k] = f[n - 1] + t[k]
      <3>1. n - 1 \notin bad
        <4> HIDE DEF bad
        <4> QED
          BY <2>1, <2>2
      <3> QED
        BY <2>4, <3>1
    <2>6. f[n] = f[n - 1] + s[n] /\ g[n] = g[n - 1] + s[n] /\ s[n] \in Nat
      <3>1. n \in 1..Len(s) /\ n \in 1..Len(t) /\ s[n] = t[n] /\ s[n] \in Nat
        <4>1. n \in 1..Len(s)
          BY <2>4
        <4> HIDE DEF bad
        <4> QED
          BY <2>3, <4>1
      <3> QED
        BY <1>1, <1>2, <3>1 DEF Sums
    <2>7. f[n - 1] \in Nat /\ g[n - 1] \in Nat
      BY <1>5, <2>4
    <2>8. g[n] + s[k] = f[n] + t[k]
      <3>1. (g[n - 1] + s[n]) + s[k] = (f[n - 1] + s[n]) + t[k]
        <4>1. PICK a \in Nat, b \in Nat, c \in Nat, d \in Nat, e \in Nat :
                  a = g[n - 1] /\ b = f[n - 1] /\ c = s[k] /\ d = t[k] /\ e = s[n]
          BY <1>8, <2>6, <2>7, Zenon
        <4>2. a + c = b + d
          BY <2>5, <4>1
        <4>3. (a + e) + c = (b + e) + d
          BY <4>2, Shifted
        <4> QED
          BY <4>1, <4>3
      <3>2. g[n] = g[n - 1] + s[n] /\ f[n] = f[n - 1] + s[n]
        BY <2>6
      <3> QED
        BY <3>1, <3>2, Zenon
    <2> QED
      BY <2>2, <2>8
  <1>7. m \in k..m
    OBVIOUS
  <1> QED
    BY <1>1, <1>2, <1>6, <1>7

LEMMA TotalNone ==
    ASSUME NEW s \in Seq(Nat), \A n \in 1..Len(s) : s[n] = 0
    PROVE  Tracker!Total(s) = 0
  <1>1. PICK f : Sums(f, s) /\ Tracker!Total(s) = f[Len(s)]
    BY TotalIs
  <1> DEFINE bad == {n \in 0..Len(s) : f[n] # 0}
  <1>2. bad = {}
    <2> SUFFICES ASSUME bad # {} PROVE FALSE
      OBVIOUS
    <2>1. PICK n \in bad : \A i \in bad : n <= i
      <3>1. bad \in SUBSET Nat
        OBVIOUS
      <3> HIDE DEF bad
      <3> QED
        BY <3>1, LeastOf
    <2>2. n \in 0..Len(s) /\ f[n] # 0
      BY <2>1
    <2>3. n \in 1..Len(s) /\ n - 1 \in 0..Len(s)
      BY <1>1, <2>2 DEF Sums
    <2>4. f[n - 1] = 0
      <3>1. n - 1 \notin bad
        <4> HIDE DEF bad
        <4> QED
          BY <2>1, <2>2
      <3> QED
        BY <2>3, <3>1
    <2> HIDE DEF bad
    <2> QED
      BY <1>1, <2>2, <2>3, <2>4 DEF Sums
  <1> QED
    BY <1>1, <1>2

(* The polls in the order in which they are summed.                          *)
LEMMA PollsOrdered ==
    ASSUME TrackerAssumed
    PROVE  /\ Tracker!Cardinality(Polls) \in Nat
           /\ Tracker!Ordered \in [1..Tracker!Cardinality(Polls) -> Polls]
           /\ \A i, j \in 1..Tracker!Cardinality(Polls) : Tracker!Ordered[i] = Tracker!Ordered[j] => i = j
           /\ \A p \in Polls : \E i \in 1..Tracker!Cardinality(Polls) : Tracker!Ordered[i] = p
  <1> DEFINE n == Cardinality(Polls)
  <1>1. Tracker!Cardinality(Polls) = n
    BY DEF Tracker!Cardinality, Cardinality
  <1>2. n \in Nat /\ ExistsBijection(1..n, Polls)
    BY FS_CardinalityType DEF TrackerAssumed
  <1>3. PICK f \in [1..n -> Polls] : \A a, b \in 1..n : f[a] = f[b] => a = b
    BY <1>2 DEF ExistsBijection, Bijection, Injection, IsInjective
  <1> DEFINE g == Tracker!Ordered
  <1> HIDE DEF n
  <1>4. g \in [1..n -> Polls] /\ Tracker!IsInjective(g)
    <2>1. Tracker!IsInjective(f)
      BY <1>3 DEF Tracker!IsInjective
    <2> QED
      BY <1>1, <2>1 DEF Tracker!Ordered, Tracker!SetToSeq
  <1>5. \A a, b \in 1..n : g[a] = g[b] => a = b
    BY <1>4 DEF Tracker!IsInjective
  <1>6. g \in Surjection(1..n, Polls)
    <2>1. IsFiniteSet(1..n) /\ Cardinality(1..n) = n
      BY <1>2, FS_Interval
    <2>2. g \in Injection(1..n, Polls)
      BY <1>4, <1>5 DEF Injection, IsInjective
    <2> QED
      BY <2>1, <2>2, FS_Injection DEF TrackerAssumed, n
  <1> QED
    BY <1>1, <1>2, <1>4, <1>5, <1>6 DEF Surjection
-----------------------------------------------------------------------------
(* The state of the readings; a bucket that was not begun is empty.          *)

TrackerShapes ==
    /\ time \in Nat /\ readings \in Nat /\ lost \in Nat
    /\ window \in Seq(BOOLEAN) /\ recent \in Seq(BOOLEAN)
    /\ bucket \in Tracker!Buckets
    /\ bucket.at = None => Tracker!Count(bucket) = 0
    /\ rows \in Seq(Tracker!Buckets)
    /\ poll \in [Polls -> Tracker!Readings \cup {None}]

TrackerInv == TrackerShapes /\ Tracker!ReadingsCountedOnce /\ Tracker!WindowIsNewest

LEMMA CountNat == \A b \in Tracker!Buckets : Tracker!Count(b) \in Nat
  BY DEF Tracker!Buckets, Tracker!Count

(* What a poll that is at r holds.                                           *)
Amount(r) ==
    IF r = None THEN 0 ELSE IF r.at = "append" THEN Tracker!Count(r.completed) ELSE 1

LEMMA AmountNat == \A r \in Tracker!Readings \cup {None} : Amount(r) \in Nat
  <1> TAKE r \in Tracker!Readings \cup {None}
  <1>1. r # None => r.completed \in Tracker!Buckets
    BY DEF Tracker!Readings
  <1> QED
    BY <1>1, CountNat DEF Amount

LEMMA HeldIs ==
    ASSUME NEW p
    PROVE  Tracker!Held(p) = Amount(poll[p]) /\ Tracker!Held(p)' = Amount(poll'[p])
  BY DEF Tracker!Held, Tracker!At, Amount

LEMMA FlightIs ==
    ASSUME TrackerAssumed, NEW state1 \in [Polls -> Tracker!Readings \cup {None}]
    PROVE  LET s == [i \in 1..Tracker!Cardinality(Polls) |-> Amount(state1[Tracker!Ordered[i]])]
           IN  s \in Seq(Nat) /\ Len(s) = Tracker!Cardinality(Polls)
  <1>1. PICK n \in Nat : n = Tracker!Cardinality(Polls)
    BY PollsOrdered
  <1>2. PICK order \in [1..n -> Polls] : order = Tracker!Ordered
    BY <1>1, PollsOrdered
  <1>3. \A i \in 1..n : Amount(state1[order[i]]) \in Nat
    BY AmountNat
  <1>4. [i \in 1..n |-> Amount(state1[order[i]])] \in Seq(Nat)
    BY <1>3
  <1> QED
    BY <1>1, <1>2, <1>4

LEMMA FlightNat ==
    ASSUME TrackerAssumed, poll \in [Polls -> Tracker!Readings \cup {None}]
    PROVE  Tracker!InFlight \in Nat
  <1>1. PICK s \in Seq(Nat) :
            s = [i \in 1..Tracker!Cardinality(Polls) |-> Amount(poll[Tracker!Ordered[i]])]
    BY FlightIs
  <1>2. s = [i \in 1..Tracker!Cardinality(Polls) |-> Tracker!Held(Tracker!Ordered[i])]
    BY <1>1, HeldIs
  <1> QED
    BY <1>2, TotalNat DEF Tracker!InFlight

(* What one poll gives up, the sum loses.                                    *)
LEMMA FlightMoves ==
    ASSUME TrackerAssumed, TrackerShapes, NEW p \in Polls,
           poll' \in [Polls -> Tracker!Readings \cup {None}],
           \A q \in Polls : q # p => poll'[q] = poll[q]
    PROVE  /\ Tracker!InFlight \in Nat /\ Tracker!InFlight' \in Nat
           /\ Amount(poll[p]) \in Nat /\ Amount(poll'[p]) \in Nat
           /\ Tracker!InFlight' + Amount(poll[p]) = Tracker!InFlight + Amount(poll'[p])
  <1>1. PICK n \in Nat : n = Tracker!Cardinality(Polls)
    BY PollsOrdered
  <1>2. PICK order \in [1..n -> Polls] :
            order = Tracker!Ordered /\ \A i, j \in 1..n : order[i] = order[j] => i = j
    BY <1>1, PollsOrdered
  <1>3. PICK k \in 1..n : order[k] = p
    BY <1>1, <1>2, PollsOrdered
  <1>4. PICK s \in Seq(Nat) : s = [i \in 1..n |-> Amount(poll[order[i]])] /\ Len(s) = n
    BY <1>1, <1>2, FlightIs DEF TrackerShapes
  <1>5. PICK t \in Seq(Nat) : t = [i \in 1..n |-> Amount(poll'[order[i]])] /\ Len(t) = n
    BY <1>1, <1>2, FlightIs
  <1>6. Tracker!InFlight = Tracker!Total(s) /\ Tracker!InFlight' = Tracker!Total(t)
    <2>1. /\ [i \in 1..n |-> Tracker!Held(order[i])] = s
          /\ [i \in 1..n |-> Tracker!Held(order[i])'] = t
      BY <1>4, <1>5, HeldIs
    <2>2. Tracker!InFlight = Tracker!Total([i \in 1..n |-> Tracker!Held(order[i])])
      BY <1>1, <1>2 DEF Tracker!InFlight
    <2>3. Tracker!InFlight' = Tracker!Total([i \in 1..n |-> Tracker!Held(order[i])'])
      BY <1>1, <1>2 DEF Tracker!InFlight
    <2> QED
      BY <2>1, <2>2, <2>3
  <1>7. \A i \in 1..Len(s) : i # k => s[i] = t[i]
    <2> TAKE i \in 1..Len(s)
    <2> HAVE i # k
    <2>1. i \in 1..n /\ order[i] \in Polls /\ order[i] # p
      BY <1>2, <1>3, <1>4
    <2>2. poll'[order[i]] = poll[order[i]]
      BY <2>1
    <2> QED
      BY <1>4, <1>5, <2>1, <2>2
  <1>8. k \in 1..Len(s) /\ Len(t) = Len(s)
    BY <1>4, <1>5
  <1>9. Tracker!Total(t) + s[k] = Tracker!Total(s) + t[k]
    BY <1>7, <1>8, TotalChanges
  <1>10. s[k] = Amount(poll[p]) /\ t[k] = Amount(poll'[p])
    BY <1>3, <1>4, <1>5
  <1>11. s[k] \in Nat /\ t[k] \in Nat
    BY <1>8
  <1>12. Tracker!Total(s) \in Nat /\ Tracker!Total(t) \in Nat
    BY TotalNat
  <1> QED
    BY <1>6, <1>9, <1>10, <1>11, <1>12

(* Without a poll under way there is nothing to lose.                        *)
LEMMA FlightEnds ==
    ASSUME TrackerAssumed, poll' = [p \in Polls |-> None]
    PROVE  Tracker!InFlight' = 0
  <1>1. PICK n \in Nat : n = Tracker!Cardinality(Polls)
    BY PollsOrdered
  <1>2. PICK order \in [1..n -> Polls] : order = Tracker!Ordered
    BY <1>1, PollsOrdered
  <1>3. \A i \in 1..n : Tracker!Held(order[i])' = 0
    BY HeldIs DEF Amount
  <1>4. PICK s : s = [i \in 1..n |-> Tracker!Held(order[i])']
    OBVIOUS
  <1>5. s \in Seq(Nat) /\ \A i \in 1..Len(s) : s[i] = 0
    <2>1. s = [i \in 1..n |-> 0]
      BY <1>3, <1>4
    <2> QED
      BY <2>1
  <1>6. Tracker!InFlight' = Tracker!Total(s)
    BY <1>1, <1>2, <1>4 DEF Tracker!InFlight
  <1> QED
    BY <1>5, <1>6, TotalNone

LEMMA FlightBegins ==
    ASSUME TrackerAssumed, poll = [p \in Polls |-> None]
    PROVE  Tracker!InFlight = 0
  <1>1. PICK n \in Nat : n = Tracker!Cardinality(Polls)
    BY PollsOrdered
  <1>2. PICK order \in [1..n -> Polls] : order = Tracker!Ordered
    BY <1>1, PollsOrdered
  <1>3. \A i \in 1..n : Tracker!Held(order[i]) = 0
    BY HeldIs DEF Amount
  <1>4. PICK s : s = [i \in 1..n |-> Tracker!Held(order[i])]
    OBVIOUS
  <1>5. s \in Seq(Nat) /\ \A i \in 1..Len(s) : s[i] = 0
    <2>1. s = [i \in 1..n |-> 0]
      BY <1>3, <1>4
    <2> QED
      BY <2>1
  <1>6. Tracker!InFlight = Tracker!Total(s)
    BY <1>1, <1>2, <1>4 DEF Tracker!InFlight
  <1> QED
    BY <1>5, <1>6, TotalNone
-----------------------------------------------------------------------------
(* The window.                                                               *)

LEMMA TrimmedIs ==
    ASSUME TrackerAssumed, NEW S, NEW s \in Seq(S), NEW c, c = Tracker!Trimmed(s)
    PROVE  /\ c \in Seq(S) /\ Len(c) <= WindowSamples /\ Len(c) <= Len(s)
           /\ \A i \in 1..Len(c) : c[i] = s[Len(s) - Len(c) + i]
  <1>1. WindowSamples \in Nat \ {0} /\ Len(s) \in Nat
    BY DEF TrackerAssumed
  <1>2. CASE Len(s) > WindowSamples
    <2>1. PICK m \in 1..Len(s) : m = Len(s) - WindowSamples + 1
      BY <1>1, <1>2
    <2>2. c = SubSeq(s, m, Len(s))
      BY <1>2, <2>1 DEF Tracker!Trimmed
    <2>3. c \in Seq(S) /\ Len(c) = Len(s) - m + 1
      BY <2>1, <2>2
    <2>4. \A i \in 1..(Len(s) - m + 1) : c[i] = s[m + i - 1]
      BY <2>1, <2>2
    <2>5. Len(s) - m + 1 = WindowSamples
      BY <1>1, <2>1
    <2>6. ASSUME NEW i \in 1..Len(c) PROVE c[i] = s[Len(s) - Len(c) + i]
      <3>1. m + i - 1 = Len(s) - Len(c) + i
        BY <1>1, <2>1, <2>3
      <3> QED
        BY <2>3, <2>4, <3>1
    <2> QED
      BY <1>1, <1>2, <2>3, <2>5, <2>6
  <1>3. CASE ~(Len(s) > WindowSamples)
    <2>1. c = SubSeq(s, 1, Len(s))
      BY <1>3 DEF Tracker!Trimmed
    <2>2. SubSeq(s, 1, Len(s)) = s
      OBVIOUS
    <2>3. c = s
      BY <2>1, <2>2
    <2>4. c \in Seq(S) /\ Len(c) = Len(s) /\ Len(c) <= WindowSamples
      BY <1>1, <1>3, <2>3
    <2>5. ASSUME NEW i \in 1..Len(c) PROVE c[i] = s[Len(s) - Len(c) + i]
      <3>1. Len(s) - Len(c) + i = i
        BY <1>1, <2>4
      <3> QED
        BY <2>3, <3>1
    <2> QED
      BY <1>1, <2>4, <2>5
  <1> QED
    BY <1>2, <1>3

LEMMA SuffixIs ==
    ASSUME NEW S, NEW s \in Seq(S), NEW t \in Seq(S)
    PROVE  Tracker!IsSuffix(s, t) <=>
               /\ Len(s) <= Len(t)
               /\ \A i \in 1..Len(s) : s[i] = t[Len(t) - Len(s) + i]
  <1> DEFINE m == Len(s)
             k == Len(t)
             r == [i \in 1..m |-> s[(m - i) + 1]]
             q == [i \in 1..k |-> t[(k - i) + 1]]
  <1>1. m \in Nat /\ k \in Nat
    OBVIOUS
  <1>2. Tracker!Reverse(s) = r /\ Tracker!Reverse(t) = q
    BY DEF Tracker!Reverse
  <1>3. r \in Seq(S) /\ q \in Seq(S) /\ Len(r) = m /\ Len(q) = k
    OBVIOUS
  <1>4. Tracker!IsSuffix(s, t) <=> m <= k /\ SubSeq(r, 1, m) = SubSeq(q, 1, m)
    BY <1>2, <1>3 DEF Tracker!IsSuffix, Tracker!IsPrefix
  <1>5. ASSUME m <= k
        PROVE  SubSeq(r, 1, m) = SubSeq(q, 1, m) <=> \A i \in 1..m : r[i] = q[i]
    <2>1. /\ SubSeq(r, 1, m) = [i \in 1..m |-> r[i]]
          /\ SubSeq(q, 1, m) = [i \in 1..m |-> q[i]]
      BY <1>1, <1>3, <1>5
    <2> QED
      BY <2>1
  <1>6. ASSUME m <= k
        PROVE  (\A i \in 1..m : r[i] = q[i]) <=> \A i \in 1..m : s[i] = t[k - m + i]
    <2>1. ASSUME NEW i \in 1..m
          PROVE  /\ m - i + 1 \in 1..m
                 /\ r[i] = s[m - i + 1] /\ q[i] = t[k - m + (m - i + 1)]
                 /\ r[m - i + 1] = s[i] /\ q[m - i + 1] = t[k - m + i]
      <3>1. m - i + 1 \in 1..m /\ i \in 1..k /\ m - i + 1 \in 1..k
        BY <1>1, <1>6
      <3>2. (m - (m - i + 1)) + 1 = i /\ (k - (m - i + 1)) + 1 = k - m + i /\ (k - i) + 1 = k - m + (m - i + 1)
        BY <1>1
      <3> QED
        BY <3>1, <3>2
    <2> HIDE DEF m, k, r, q
    <2> QED
      BY <2>1
  <1> QED
    BY <1>4, <1>5, <1>6

LEMMA WindowTakes ==
    ASSUME TrackerAssumed, NEW S, NEW w \in Seq(S), NEW t \in Seq(S), NEW x \in S,
           Tracker!IsSuffix(w, t)
    PROVE  Tracker!IsSuffix(Tracker!Trimmed(Append(w, x)), Append(t, x))
  <1>a. PICK a : a = Append(w, x)
    OBVIOUS
  <1>b. PICK b : b = Append(t, x)
    OBVIOUS
  <1>1. a \in Seq(S) /\ Len(a) = Len(w) + 1 /\ a[Len(w) + 1] = x /\ \A i \in 1..Len(w) : a[i] = w[i]
    BY <1>a
  <1>2. b \in Seq(S) /\ Len(b) = Len(t) + 1 /\ b[Len(t) + 1] = x /\ \A i \in 1..Len(t) : b[i] = t[i]
    BY <1>b
  <1>3. Len(w) <= Len(t) /\ \A i \in 1..Len(w) : w[i] = t[Len(t) - Len(w) + i]
    BY SuffixIs
  <1>4. ASSUME NEW i \in 1..Len(a) PROVE a[i] = b[Len(b) - Len(a) + i]
    <2>1. CASE i = Len(w) + 1
      <3>1. Len(b) - Len(a) + i = Len(t) + 1
        BY <1>1, <1>2, <2>1
      <3> QED
        BY <1>1, <1>2, <2>1, <3>1
    <2>2. CASE i # Len(w) + 1
      <3>1. i \in 1..Len(w)
        BY <1>1, <2>2
      <3>2. Len(b) - Len(a) + i = Len(t) - Len(w) + i /\ Len(t) - Len(w) + i \in 1..Len(t)
        BY <1>1, <1>2, <1>3, <3>1
      <3> QED
        BY <1>1, <1>2, <1>3, <3>1, <3>2
    <2> QED
      BY <2>1, <2>2
  <1>5. PICK c \in Seq(S) : /\ c = Tracker!Trimmed(a) /\ Len(c) <= Len(a)
                            /\ \A i \in 1..Len(c) : c[i] = a[Len(a) - Len(c) + i]
    <2>1. PICK c : c = Tracker!Trimmed(a)
      OBVIOUS
    <2>2. a \in Seq(S)
      BY <1>1
    <2>3. /\ c \in Seq(S) /\ Len(c) <= Len(a)
          /\ \A i \in 1..Len(c) : c[i] = a[Len(a) - Len(c) + i]
      BY <2>1, <2>2, TrimmedIs
    <2> QED
      BY <2>1, <2>3, Zenon
  <1>6. ASSUME NEW i \in 1..Len(c) PROVE c[i] = b[Len(b) - Len(c) + i]
    <2>1. PICK j \in 1..Len(a) : j = Len(a) - Len(c) + i
      BY <1>5
    <2>2. c[i] = a[j] /\ a[j] = b[Len(b) - Len(a) + j]
      BY <1>4, <1>5, <2>1
    <2>3. Len(b) - Len(a) + j = Len(b) - Len(c) + i
      BY <2>1
    <2> QED
      BY <2>2, <2>3
  <1>7. Len(c) <= Len(b)
    BY <1>1, <1>2, <1>3, <1>5
  <1>8. Tracker!IsSuffix(c, b)
    BY <1>2, <1>5, <1>6, <1>7, SuffixIs
  <1> QED
    BY <1>a, <1>b, <1>5, <1>8, Zenon

LEMMA SuffixSame ==
    ASSUME NEW S, NEW s \in Seq(S)
    PROVE  Tracker!IsSuffix(s, s)
  <1>1. \A i \in 1..Len(s) : s[i] = s[Len(s) - Len(s) + i]
    OBVIOUS
  <1> QED
    BY <1>1, SuffixIs

LEMMA SeedType == \A row : Tracker!SeedOf(row) \in Seq(BOOLEAN)
  <1> TAKE row
  <1>1. ASSUME NEW S, NEW a \in S PROVE <<a>> \in Seq(S) /\ <<>> \in Seq(S)
    OBVIOUS
  <1>2. <<TRUE>> \in Seq(BOOLEAN) /\ <<FALSE>> \in Seq(BOOLEAN) /\ <<>> \in Seq(BOOLEAN)
    BY <1>1, Zenon
  <1>3. PICK a \in Seq(BOOLEAN) : a = IF row.ok > 0 THEN <<TRUE>> ELSE <<>>
    BY <1>2, Zenon
  <1>4. PICK b \in Seq(BOOLEAN) : b = IF row.failed > 0 THEN <<FALSE>> ELSE <<>>
    BY <1>2, Zenon
  <1>5. ASSUME NEW S, NEW x \in Seq(S), NEW y \in Seq(S) PROVE x \o y \in Seq(S)
    OBVIOUS
  <1>6. a \o b \in Seq(BOOLEAN)
    BY <1>5, Zenon
  <1> QED
    BY <1>3, <1>4, <1>6, Zenon DEF Tracker!SeedOf

(* The same, with the definition as one predicate.                           *)
Follows(f, X, base, m, step) ==
    f \in [0..m -> X] /\ f[0] = base /\ \A n \in 1..m : f[n] = step[n][f[n - 1]]

LEMMA SomeFollows ==
    ASSUME NEW X, NEW base, base \in X, NEW m, m \in Nat, NEW step, step \in [1..m -> [X -> X]]
    PROVE  \E f : Follows(f, X, base, m, step)
  <1>1. \E f \in [0..m -> X] : f[0] = base /\ \A n \in 1..m : f[n] = step[n][f[n - 1]]
    BY DefinedByRecursion
  <1> QED
    BY <1>1 DEF Follows

(* What the rows stand for is a window.                                      *)
LEMMA SeedIs ==
    ASSUME TrackerAssumed, rows \in Seq(Tracker!Buckets)
    PROVE  Tracker!SeedWindow \in Seq(BOOLEAN) /\ Len(Tracker!SeedWindow) <= WindowSamples
  <1> DEFINE m == Len(rows)
             W == {w \in Seq(BOOLEAN) : Len(w) <= WindowSamples}
             X == Seq(BOOLEAN)
             step == [n \in 1..m |-> [x \in X |-> Tracker!Trimmed(x \o Tracker!SeedOf(rows[n]))]]
             Rec(f) == [n \in 0..m |->
                IF n = 0 THEN <<>> ELSE Tracker!Trimmed(f[n - 1] \o Tracker!SeedOf(rows[n]))]
             seeded == CHOOSE f : f = Rec(f)
  <1>1. m \in Nat /\ <<>> \in W
    BY DEF TrackerAssumed
  <1>2. \A x \in X : \A n \in 1..m : Tracker!Trimmed(x \o Tracker!SeedOf(rows[n])) \in W
    <2> TAKE x \in X
    <2> TAKE n \in 1..m
    <2>1. Tracker!SeedOf(rows[n]) \in Seq(BOOLEAN)
      BY SeedType
    <2>2. x \o Tracker!SeedOf(rows[n]) \in Seq(BOOLEAN)
      BY <2>1
    <2> QED
      BY <2>2, TrimmedIs
  <1>3. step \in [1..m -> [X -> X]]
    BY <1>2
  <1>4. \E f \in [0..m -> X] : f[0] = <<>> /\ \A n \in 1..m : f[n] = step[n][f[n - 1]]
    <2>1. <<>> \in X
      OBVIOUS
    <2> HIDE DEF step, m, X
    <2>2. \E f : Follows(f, X, <<>>, m, step)
      BY <1>1, <1>3, <2>1, SomeFollows, Zenon
    <2> QED
      BY <2>2 DEF Follows
  <1>5. PICK f \in [0..m -> X] : f[0] = <<>> /\ \A n \in 1..m : f[n] = step[n][f[n - 1]]
    BY <1>4
  <1>6. f = Rec(f)
    <2>1. \A n \in 1..m : step[n][f[n - 1]] = Tracker!Trimmed(f[n - 1] \o Tracker!SeedOf(rows[n]))
      <3> TAKE n \in 1..m
      <3>1. n - 1 \in 0..m
        OBVIOUS
      <3>2. f[n - 1] \in X
        BY <3>1
      <3>3. step[n] = [x \in X |-> Tracker!Trimmed(x \o Tracker!SeedOf(rows[n]))]
        OBVIOUS
      <3> HIDE DEF X, step
      <3> QED
        BY <3>2, <3>3
    <2>2. \A n \in 0..m : n = 0 \/ n \in 1..m
      BY <1>1
    <2>3. f = [n \in 0..m |-> f[n]]
      BY <1>5
    <2> HIDE DEF step
    <2> QED
      BY <1>5, <2>1, <2>2, <2>3
  <1>7. seeded = Rec(seeded)
    BY <1>6
  <1>8. \A n \in 0..m : seeded[n] \in W
    <2> DEFINE bad == {n \in 0..m : seeded[n] \notin W}
    <2> SUFFICES ASSUME bad # {} PROVE FALSE
      OBVIOUS
    <2> HIDE DEF seeded, W
    <2>1. PICK n \in bad : \A k \in bad : n <= k
      <3>1. bad \in SUBSET Nat
        OBVIOUS
      <3> HIDE DEF bad
      <3> QED
        BY <3>1, LeastOf
    <2>2. CASE n = 0
      BY <1>1, <1>7, <2>1, <2>2
    <2>3. CASE n # 0
      <3>1. n - 1 \in 0..m /\ n \in 1..m /\ n - 1 \notin bad
        <4>1. n \in 0..m
          BY <2>1
        <4> HIDE DEF bad
        <4> QED
          BY <2>1, <2>3, <4>1
      <3>2. seeded[n - 1] \in W
        BY <3>1
      <3>3. seeded[n] = Tracker!Trimmed(seeded[n - 1] \o Tracker!SeedOf(rows[n]))
        BY <1>7, <2>3, <3>1
      <3>4. seeded[n - 1] \in X
        BY <3>2 DEF W
      <3> QED
        BY <1>2, <2>1, <3>1, <3>3, <3>4
    <2> QED
      BY <2>2, <2>3
  <1>9. seeded[m] \in W
    <2>1. m \in 0..m
      BY <1>1
    <2> HIDE DEF seeded, m, W
    <2> QED
      BY <1>8, <2>1
  <1>10. Tracker!SeedWindow = seeded[m]
    BY DEF Tracker!SeedWindow
  <1> HIDE DEF seeded
  <1> QED
    BY <1>9, <1>10
-----------------------------------------------------------------------------
(* The rows, and each step of a reading's way.                               *)

LEMMA WrittenNat ==
    ASSUME rows \in Seq(Tracker!Buckets)
    PROVE  Tracker!Written \in Nat
  <1>1. \A n \in DOMAIN rows : Tracker!Count(rows[n]) \in Nat
    BY CountNat
  <1>2. [n \in DOMAIN rows |-> Tracker!Count(rows[n])] \in Seq(Nat)
    <2>1. DOMAIN rows = 1..Len(rows) /\ Len(rows) \in Nat
      OBVIOUS
    <2> QED
      BY <1>1, <2>1
  <1> QED
    BY <1>2, TotalNat DEF Tracker!Written

LEMMA WrittenAppends ==
    ASSUME rows \in Seq(Tracker!Buckets), NEW b \in Tracker!Buckets, rows' = Append(rows, b)
    PROVE  Tracker!Written' = Tracker!Written + Tracker!Count(b)
  <1>1. PICK m \in Nat : m = Len(rows) /\ DOMAIN rows = 1..m
    OBVIOUS
  <1>2. Len(rows') = m + 1 /\ DOMAIN rows' = 1..(m + 1)
    BY <1>1
  <1>3. rows'[m + 1] = b /\ \A n \in 1..m : rows'[n] = rows[n]
    BY <1>1
  <1>4. PICK x \in Nat : x = Tracker!Count(b)
    BY CountNat
  <1>5. \A n \in 1..m : Tracker!Count(rows[n]) \in Nat
    BY <1>1, CountNat
  <1>6. PICK s \in Seq(Nat) : s = [n \in 1..m |-> Tracker!Count(rows[n])] /\ Len(s) = m
    <2>1. PICK s : s = [n \in 1..m |-> Tracker!Count(rows[n])]
      OBVIOUS
    <2>2. s \in [1..m -> Nat]
      BY <1>5, <2>1
    <2>3. s \in Seq(Nat) /\ Len(s) = m
      BY <2>2
    <2> QED
      BY <2>1, <2>3
  <1>7. PICK t : t = [n \in 1..(m + 1) |-> Tracker!Count(rows'[n])]
    OBVIOUS
  <1>8. t = Append(s, x)
    <2>1. Append(s, x) = [n \in 1..(m + 1) |-> IF n = m + 1 THEN x ELSE s[n]]
      BY <1>6
    <2>2. \A n \in 1..(m + 1) : Tracker!Count(rows'[n]) = IF n = m + 1 THEN x ELSE s[n]
      <3> TAKE n \in 1..(m + 1)
      <3>1. CASE n = m + 1
        BY <1>3, <1>4, <3>1
      <3>2. CASE n # m + 1
        <4>1. n \in 1..m
          BY <3>2
        <4>2. rows'[n] = rows[n]
          BY <1>3, <4>1
        <4> QED
          BY <1>6, <3>2, <4>1, <4>2
      <3> QED
        BY <3>1, <3>2
    <2> QED
      BY <1>7, <2>1, <2>2
  <1>9. Tracker!Written = Tracker!Total(s) /\ Tracker!Written' = Tracker!Total(t)
    BY <1>1, <1>2, <1>6, <1>7 DEF Tracker!Written
  <1> QED
    BY <1>4, <1>8, <1>9, TotalAppend

LEMMA StartNat ==
    ASSUME TrackerAssumed, NEW now \in Nat
    PROVE  Tracker!BucketStart(now) \in Nat
  <1>1. PICK w \in Nat \ {0} : w = BucketWindow
    BY DEF TrackerAssumed
  <1>2. PICK q \in Nat : q = now \div w
    BY <1>1
  <1>3. q * w \in Nat
    OBVIOUS
  <1> QED
    BY <1>1, <1>2, <1>3 DEF Tracker!BucketStart

LEMMA EmptyBucket ==
    ASSUME NEW at \in Nat \cup {None}
    PROVE  Tracker!Empty(at) \in Tracker!Buckets /\ Tracker!Count(Tracker!Empty(at)) = 0
  BY DEF Tracker!Empty, Tracker!Buckets, Tracker!Count

(* The sum, of which each step moves a part.                                 *)
CountedOnce == /\ Tracker!Written \in Nat /\ Tracker!Count(bucket) \in Nat
               /\ Tracker!InFlight \in Nat /\ lost \in Nat
               /\ Tracker!Written + Tracker!Count(bucket) + Tracker!InFlight + lost = readings

LEMMA CountedIs ==
    ASSUME TrackerAssumed, TrackerInv
    PROVE  CountedOnce
  <1>1. Tracker!Written \in Nat /\ Tracker!Count(bucket) \in Nat /\ lost \in Nat
    BY WrittenNat, CountNat DEF TrackerInv, TrackerShapes
  <1>2. Tracker!InFlight \in Nat
    BY FlightNat DEF TrackerInv, TrackerShapes
  <1> QED
    BY <1>1, <1>2 DEF TrackerInv, Tracker!ReadingsCountedOnce, CountedOnce

LEMMA TrackerBegins ==
    ASSUME TrackerAssumed, Tracker!Init
    PROVE  TrackerInv
  <1> USE DEF Tracker!Init
  <1>1. Tracker!Written = 0
    <2>1. rows = <<>> /\ DOMAIN rows = {}
      OBVIOUS
    <2>2. PICK s : s = [n \in DOMAIN rows |-> Tracker!Count(rows[n])]
      OBVIOUS
    <2>3. s \in Seq(Nat) /\ s = <<>>
      BY <2>1, <2>2
    <2> QED
      BY <2>2, <2>3, TotalNat DEF Tracker!Written
  <1>2. Tracker!InFlight = 0
    BY FlightBegins
  <1>3. bucket \in Tracker!Buckets /\ Tracker!Count(bucket) = 0
    BY EmptyBucket
  <1>4. Tracker!WindowIsNewest
    <2>1. <<>> \in Seq(BOOLEAN) /\ Len(<<>>) = 0
      OBVIOUS
    <2>2. Tracker!IsSuffix(<<>>, <<>>)
      BY <2>1, SuffixSame
    <2>3. 0 <= WindowSamples
      BY DEF TrackerAssumed
    <2> QED
      BY <2>1, <2>2, <2>3 DEF Tracker!WindowIsNewest
  <1>5. TrackerShapes
    BY <1>3 DEF TrackerShapes
  <1> QED
    BY <1>1, <1>2, <1>3, <1>4, <1>5 DEF TrackerInv, Tracker!ReadingsCountedOnce

(* A step leaves the window alone, or takes a reading into it.               *)
LEMMA WindowStays ==
    ASSUME TrackerInv, window' = window, recent' = recent
    PROVE  Tracker!WindowIsNewest' /\ window' \in Seq(BOOLEAN) /\ recent' \in Seq(BOOLEAN)
  BY DEF TrackerInv, TrackerShapes, Tracker!WindowIsNewest

LEMMA AnnotateKeeps ==
    ASSUME TrackerAssumed, TrackerInv, NEW p \in Polls, NEW ok \in BOOLEAN,
           Tracker!Annotate(p, ok)
    PROVE  TrackerInv'
  <1> USE DEF Tracker!Annotate
  <1>1. CountedOnce
    BY CountedIs
  <1>2. PICK r \in Tracker!Readings :
            r = [at |-> "record", ok |-> ok, now |-> 0, completed |-> Tracker!Empty(None)]
    BY EmptyBucket DEF Tracker!Readings
  <1>3. poll' = [poll EXCEPT ![p] = r] /\ r # None /\ r.at = "record"
    BY <1>2 DEF TrackerAssumed
  <1>4. /\ poll' \in [Polls -> Tracker!Readings \cup {None}]
        /\ poll'[p] = r /\ poll[p] = None /\ \A q \in Polls : q # p => poll'[q] = poll[q]
    BY <1>3 DEF TrackerInv, TrackerShapes
  <1>5. Amount(poll[p]) = 0 /\ Amount(poll'[p]) = 1
    BY <1>3, <1>4 DEF Amount
  <1>6. Tracker!InFlight' \in Nat /\ Tracker!InFlight' = Tracker!InFlight + 1
    BY <1>1, <1>4, <1>5, FlightMoves DEF TrackerInv, CountedOnce
  <1>7. Tracker!Written' = Tracker!Written /\ Tracker!Count(bucket)' = Tracker!Count(bucket)
    BY DEF Tracker!Written, Tracker!Count
  <1>8. Tracker!ReadingsCountedOnce' /\ readings' \in Nat
    BY <1>1, <1>6, <1>7 DEF CountedOnce, Tracker!ReadingsCountedOnce, TrackerInv, TrackerShapes
  <1>9. PICK taken : taken = Append(window, ok)
    OBVIOUS
  <1>10. taken \in Seq(BOOLEAN) /\ Append(recent, ok) \in Seq(BOOLEAN)
    <2>1. ASSUME NEW S, NEW s \in Seq(S), NEW x \in S PROVE Append(s, x) \in Seq(S)
      OBVIOUS
    <2> QED
      BY <1>9, <2>1, Zenon DEF TrackerInv, TrackerShapes
  <1>11. window' \in Seq(BOOLEAN) /\ Len(window') <= WindowSamples
    BY <1>9, <1>10, TrimmedIs
  <1>12. Tracker!IsSuffix(window', recent')
    BY WindowTakes, Zenon DEF TrackerInv, TrackerShapes, Tracker!WindowIsNewest
  <1>13. Tracker!WindowIsNewest'
    BY <1>11, <1>12 DEF Tracker!WindowIsNewest
  <1>14. TrackerShapes'
    BY <1>4, <1>7, <1>8, <1>10, <1>11 DEF TrackerInv, TrackerShapes
  <1> QED
    BY <1>8, <1>13, <1>14 DEF TrackerInv

LEMMA ReadClockKeeps ==
    ASSUME TrackerAssumed, TrackerInv, NEW p \in Polls, Tracker!ReadClock(p)
    PROVE  TrackerInv'
  <1> USE DEF Tracker!ReadClock, Tracker!At
  <1>1. CountedOnce
    BY CountedIs
  <1>2. PICK old \in Tracker!Readings : old = poll[p] /\ old.at = "record" /\ old # None
    BY DEF TrackerInv, TrackerShapes
  <1>3. PICK r : r = [old EXCEPT !.at = "lock", !.now = time]
    OBVIOUS
  <1>4. r \in Tracker!Readings /\ r.at = "lock" /\ r # None
    <2>1. r \in Tracker!Readings
      BY <1>2, <1>3 DEF TrackerInv, TrackerShapes, Tracker!Readings
    <2> QED
      BY <1>2, <1>3, <2>1 DEF Tracker!Readings, TrackerAssumed
  <1>5. poll' = [poll EXCEPT ![p] = r]
    BY <1>2, <1>3 DEF TrackerInv, TrackerShapes
  <1>6. /\ poll' \in [Polls -> Tracker!Readings \cup {None}]
        /\ poll'[p] = r /\ \A q \in Polls : q # p => poll'[q] = poll[q]
    BY <1>4, <1>5 DEF TrackerInv, TrackerShapes
  <1>7. Amount(poll[p]) = 1 /\ Amount(poll'[p]) = 1
    BY <1>2, <1>4, <1>6 DEF Amount
  <1>8. Tracker!InFlight' = Tracker!InFlight
    BY <1>1, <1>6, <1>7, FlightMoves DEF TrackerInv, CountedOnce
  <1>9. Tracker!Written' = Tracker!Written /\ Tracker!Count(bucket)' = Tracker!Count(bucket)
    BY DEF Tracker!Written, Tracker!Count
  <1>10. Tracker!ReadingsCountedOnce'
    BY <1>8, <1>9 DEF Tracker!ReadingsCountedOnce, TrackerInv
  <1>11. TrackerShapes'
    BY <1>6, <1>9 DEF TrackerInv, TrackerShapes
  <1> QED
    BY <1>10, <1>11, WindowStays DEF TrackerInv

(* A bucket with one reading more.                                           *)
LEMMA OneMore ==
    ASSUME NEW b \in Tracker!Buckets, NEW ok \in BOOLEAN,
           NEW c, c = IF ok THEN [b EXCEPT !.ok = @ + 1] ELSE [b EXCEPT !.failed = @ + 1]
    PROVE  c \in Tracker!Buckets /\ c.at = b.at /\ Tracker!Count(c) = Tracker!Count(b) + 1
  <1>1. CASE ok
    BY <1>1 DEF Tracker!Buckets, Tracker!Count
  <1>2. CASE ~ok
    BY <1>2 DEF Tracker!Buckets, Tracker!Count
  <1> QED
    BY <1>1, <1>2

LEMMA FillKeeps ==
    ASSUME TrackerAssumed, TrackerInv, NEW p \in Polls, Tracker!Fill(p)
    PROVE  TrackerInv'
  <1> USE DEF Tracker!At
  <1>1. CountedOnce
    BY CountedIs
  <1>2. PICK old \in Tracker!Readings : old = poll[p] /\ old.at = "lock" /\ old # None
    BY DEF TrackerInv, TrackerShapes, Tracker!Fill
  <1>3. PICK at \in Nat : at = Tracker!BucketStart(old.now)
    <2>1. old.now \in Nat
      BY <1>2 DEF Tracker!Readings
    <2> QED
      BY <2>1, StartNat
  <1>4. PICK over \in BOOLEAN : over = (bucket.at # None /\ bucket.at # at)
    OBVIOUS
  <1>5. PICK current : current = IF over \/ bucket.at = None THEN Tracker!Empty(at) ELSE bucket
    OBVIOUS
  <1>6. PICK done : done = IF over THEN bucket ELSE Tracker!Empty(None)
    OBVIOUS
  <1>7. PICK r : r = [old EXCEPT !.at = "append", !.completed = done]
    OBVIOUS
  <1>8. /\ bucket' = IF old.ok THEN [current EXCEPT !.ok = @ + 1] ELSE [current EXCEPT !.failed = @ + 1]
        /\ poll' = [poll EXCEPT ![p] = r]
        /\ UNCHANGED <<time, window, rows, readings, recent, lost, faults>>
    BY <1>2, <1>3, <1>4, <1>5, <1>6, <1>7
    DEF Tracker!Fill, Tracker!Fresh, TrackerInv, TrackerShapes
  <1>9. bucket \in Tracker!Buckets /\ (bucket.at = None => Tracker!Count(bucket) = 0)
    BY DEF TrackerInv, TrackerShapes
  <1>10. /\ current \in Tracker!Buckets /\ current.at # None
         /\ done \in Tracker!Buckets
         /\ Tracker!Count(current) + Tracker!Count(done) = Tracker!Count(bucket)
    <2>1. /\ Tracker!Empty(at) \in Tracker!Buckets /\ Tracker!Count(Tracker!Empty(at)) = 0
          /\ Tracker!Empty(None) \in Tracker!Buckets /\ Tracker!Count(Tracker!Empty(None)) = 0
      BY EmptyBucket
    <2>2. Tracker!Empty(at).at # None
      BY DEF Tracker!Empty, TrackerAssumed
    <2>3. Tracker!Count(bucket) \in Nat
      BY <1>1 DEF CountedOnce
    <2>4. CASE over
      BY <1>4, <1>5, <1>6, <1>9, <2>1, <2>2, <2>3, <2>4
    <2>5. CASE ~over /\ bucket.at = None
      BY <1>4, <1>5, <1>6, <1>9, <2>1, <2>2, <2>3, <2>5
    <2>6. CASE ~over /\ bucket.at # None
      BY <1>4, <1>5, <1>6, <1>9, <2>1, <2>2, <2>3, <2>6
    <2> QED
      BY <2>4, <2>5, <2>6
  <1>11. /\ bucket' \in Tracker!Buckets /\ bucket'.at # None
         /\ Tracker!Count(bucket') = Tracker!Count(current) + 1
    <2>1. old.ok \in BOOLEAN
      BY <1>2 DEF Tracker!Readings
    <2>2. PICK b : b = bucket'
      OBVIOUS
    <2>3. b \in Tracker!Buckets /\ b.at = current.at /\ Tracker!Count(b) = Tracker!Count(current) + 1
      BY <1>8, <1>10, <2>1, <2>2, OneMore
    <2> QED
      BY <1>10, <2>2, <2>3
  <1>12. r \in Tracker!Readings /\ r.at = "append" /\ r # None /\ r.completed = done
    <2>1. r \in Tracker!Readings
      BY <1>2, <1>7, <1>10 DEF Tracker!Readings
    <2> QED
      BY <1>2, <1>7, <2>1 DEF Tracker!Readings, TrackerAssumed
  <1>13. /\ poll' \in [Polls -> Tracker!Readings \cup {None}]
         /\ poll'[p] = r /\ \A q \in Polls : q # p => poll'[q] = poll[q]
    BY <1>8, <1>12 DEF TrackerInv, TrackerShapes
  <1>14. Amount(poll[p]) = 1 /\ Amount(poll'[p]) = Tracker!Count(done)
    BY <1>2, <1>12, <1>13 DEF Amount
  <1>15. Tracker!Count(done) \in Nat /\ Tracker!Count(current) \in Nat
    BY <1>10, CountNat
  <1>16. /\ Tracker!InFlight' \in Nat
         /\ Tracker!InFlight' + 1 = Tracker!InFlight + Tracker!Count(done)
    BY <1>1, <1>13, <1>14, FlightMoves DEF TrackerInv
  <1>17. Tracker!Written' = Tracker!Written
    BY <1>8 DEF Tracker!Written
  <1>18. Tracker!ReadingsCountedOnce'
    <2>1. lost' = lost /\ readings' = readings
      BY <1>8
    <2>2. PICK w, b, i, l, i1, d, c \in Nat :
              /\ w = Tracker!Written /\ b = Tracker!Count(bucket) /\ i = Tracker!InFlight
              /\ l = lost /\ i1 = Tracker!InFlight' /\ d = Tracker!Count(done)
              /\ c = Tracker!Count(current)
      BY <1>1, <1>15, <1>16, Zenon DEF CountedOnce
    <2>3. w + b + i + l = readings /\ c + d = b /\ i1 + 1 = i + d
      BY <1>1, <1>10, <1>16, <2>2 DEF CountedOnce
    <2>4. w + (c + 1) + i1 + l = readings
      BY <2>3
    <2>5. Tracker!Count(bucket)' = c + 1
      BY <1>11, <2>2 DEF Tracker!Count
    <2> QED
      BY <1>17, <2>1, <2>2, <2>4, <2>5 DEF Tracker!ReadingsCountedOnce
  <1>19. TrackerShapes'
    BY <1>8, <1>11, <1>13 DEF TrackerInv, TrackerShapes
  <1>20. window' = window /\ recent' = recent
    BY <1>8
  <1> QED
    BY <1>18, <1>19, <1>20, WindowStays DEF TrackerInv

LEMMA FlushKeeps ==
    ASSUME TrackerAssumed, TrackerInv, NEW p \in Polls, Tracker!Flush(p)
    PROVE  TrackerInv'
  <1> USE DEF Tracker!At
  <1>1. CountedOnce
    BY CountedIs
  <1>2. PICK old \in Tracker!Readings : old = poll[p] /\ old.at = "append" /\ old # None
    BY DEF TrackerInv, TrackerShapes, Tracker!Flush
  <1>3. PICK done \in Tracker!Buckets : done = old.completed
    BY <1>2 DEF Tracker!Readings
  <1>4. PICK d \in Nat : d = Tracker!Count(done)
    BY CountNat
  <1>5. /\ poll' = [poll EXCEPT ![p] = None]
        /\ UNCHANGED <<time, window, bucket, readings, recent>>
    BY DEF Tracker!Flush
  <1>6. /\ poll' \in [Polls -> Tracker!Readings \cup {None}]
        /\ poll'[p] = None /\ \A q \in Polls : q # p => poll'[q] = poll[q]
    BY <1>5 DEF TrackerInv, TrackerShapes
  <1>7. Amount(poll[p]) = d /\ Amount(poll'[p]) = 0
    BY <1>2, <1>3, <1>4, <1>6 DEF Amount
  <1>8. Tracker!InFlight' \in Nat /\ Tracker!InFlight' + d = Tracker!InFlight
    BY <1>1, <1>6, <1>7, FlightMoves DEF TrackerInv, CountedOnce
  <1>9. \/ rows' = rows /\ lost' = lost + d
        \/ rows' = Append(rows, done) /\ lost' = lost
    <2>1. \/ rows' = (IF d = 0 THEN rows ELSE Append(rows, done)) /\ lost' = lost
          \/ rows' = rows /\ lost' = lost + d
      BY <1>2, <1>3, <1>4 DEF Tracker!Flush
    <2>2. d = 0 => lost = lost + d
      BY <1>1 DEF CountedOnce
    <2> QED
      BY <2>1, <2>2
  <1>10. /\ Tracker!Written' \in Nat /\ lost' \in Nat /\ rows' \in Seq(Tracker!Buckets)
         /\ Tracker!Written' + lost' = Tracker!Written + lost + d
    <2>1. rows \in Seq(Tracker!Buckets)
      BY DEF TrackerInv, TrackerShapes
    <2>2. CASE rows' = rows /\ lost' = lost + d
      <3>1. Tracker!Written' = Tracker!Written
        BY <2>2 DEF Tracker!Written
      <3> QED
        BY <1>1, <2>1, <2>2, <3>1 DEF CountedOnce
    <2>3. CASE rows' = Append(rows, done) /\ lost' = lost
      <3>1. Tracker!Written' = Tracker!Written + d
        BY <1>4, <2>1, <2>3, WrittenAppends
      <3>2. rows' \in Seq(Tracker!Buckets)
        BY <2>1, <2>3
      <3> QED
        BY <1>1, <2>3, <3>1, <3>2 DEF CountedOnce
    <2> QED
      BY <1>9, <2>2, <2>3
  <1>11. Tracker!Count(bucket)' = Tracker!Count(bucket)
    BY <1>5 DEF Tracker!Count
  <1>12. Tracker!ReadingsCountedOnce'
    <2>1. PICK w, b, i, l, w1, i1, l1 \in Nat :
              /\ w = Tracker!Written /\ b = Tracker!Count(bucket) /\ i = Tracker!InFlight
              /\ l = lost /\ w1 = Tracker!Written' /\ i1 = Tracker!InFlight' /\ l1 = lost'
      BY <1>1, <1>8, <1>10, Zenon DEF CountedOnce
    <2>2. w + b + i + l = readings /\ i1 + d = i /\ w1 + l1 = w + l + d
      BY <1>1, <1>8, <1>10, <2>1 DEF CountedOnce
    <2>3. w1 + b + i1 + l1 = readings
      BY <2>2
    <2> QED
      BY <1>5, <1>11, <2>1, <2>3 DEF Tracker!ReadingsCountedOnce
  <1>13. TrackerShapes'
    BY <1>5, <1>6, <1>10, <1>11 DEF TrackerInv, TrackerShapes
  <1>14. window' = window /\ recent' = recent
    BY <1>5
  <1> QED
    BY <1>12, <1>13, <1>14, WindowStays DEF TrackerInv

(* A restart loses what was not written, and seeds the window from the rows. *)
LEMMA RestartKeeps ==
    ASSUME TrackerAssumed, TrackerInv, Tracker!Restart
    PROVE  TrackerInv'
  <1> USE DEF Tracker!Restart
  <1>1. CountedOnce
    BY CountedIs
  <1>2. Tracker!InFlight' = 0
    BY FlightEnds
  <1>3. /\ bucket' \in Tracker!Buckets /\ Tracker!Count(bucket)' = 0
    BY EmptyBucket DEF Tracker!Count
  <1>4. Tracker!Written' = Tracker!Written
    BY DEF Tracker!Written
  <1>5. Tracker!ReadingsCountedOnce' /\ lost' \in Nat
    BY <1>1, <1>2, <1>3, <1>4 DEF CountedOnce, Tracker!ReadingsCountedOnce
  <1>6. PICK w : w = Tracker!SeedWindow
    OBVIOUS
  <1>7. w \in Seq(BOOLEAN) /\ Len(w) <= WindowSamples
    BY <1>6, SeedIs DEF TrackerInv, TrackerShapes
  <1>8. Tracker!IsSuffix(w, w)
    BY <1>7, SuffixSame
  <1>9. window' = w /\ recent' = w
    BY <1>6
  <1>10. Tracker!WindowIsNewest'
    BY <1>7, <1>8, <1>9 DEF Tracker!WindowIsNewest
  <1>11. TrackerShapes'
    BY <1>3, <1>5, <1>7, <1>9 DEF TrackerInv, TrackerShapes
  <1> QED
    BY <1>5, <1>10, <1>11 DEF TrackerInv

LEMMA TrackerRests ==
    ASSUME TrackerInv, time' \in Nat,
           UNCHANGED <<window, bucket, rows, poll, readings, recent, lost>>
    PROVE  TrackerInv'
  <1>1. /\ Tracker!Written' = Tracker!Written /\ Tracker!Count(bucket)' = Tracker!Count(bucket)
        /\ Tracker!InFlight' = Tracker!InFlight
    BY DEF Tracker!Written, Tracker!Count, Tracker!InFlight, Tracker!Held, Tracker!At
  <1>2. Tracker!ReadingsCountedOnce'
    BY <1>1 DEF TrackerInv, Tracker!ReadingsCountedOnce
  <1>3. TrackerShapes'
    BY <1>1 DEF TrackerInv, TrackerShapes
  <1> QED
    BY <1>2, <1>3, WindowStays DEF TrackerInv

LEMMA TrackerKeeps ==
    ASSUME TrackerAssumed, TrackerInv, [Tracker!Next]_(Tracker!vars)
    PROVE  TrackerInv'
  <1>1. ASSUME NEW p \in Polls, NEW ok \in BOOLEAN, Tracker!Annotate(p, ok)
        PROVE  TrackerInv'
    BY <1>1, AnnotateKeeps
  <1>2. ASSUME NEW p \in Polls, Tracker!ReadClock(p)
        PROVE  TrackerInv'
    BY <1>2, ReadClockKeeps
  <1>3. ASSUME NEW p \in Polls, Tracker!Fill(p)
        PROVE  TrackerInv'
    BY <1>3, FillKeeps
  <1>4. ASSUME NEW p \in Polls, Tracker!Flush(p)
        PROVE  TrackerInv'
    BY <1>4, FlushKeeps
  <1>5. CASE Tracker!Tick
    <2>1. time' \in Nat /\ UNCHANGED <<window, bucket, rows, poll, readings, recent, lost>>
      BY <1>5 DEF Tracker!Tick, TrackerInv, TrackerShapes
    <2> QED
      BY <2>1, TrackerRests
  <1>6. CASE Tracker!Restart
    BY <1>6, RestartKeeps
  <1>7. CASE UNCHANGED Tracker!vars
    <2>1. time' \in Nat /\ UNCHANGED <<window, bucket, rows, poll, readings, recent, lost>>
      BY <1>7 DEF Tracker!vars, TrackerInv, TrackerShapes
    <2> QED
      BY <2>1, TrackerRests
  <1> QED
    BY <1>1, <1>2, <1>3, <1>4, <1>5, <1>6, <1>7 DEF Tracker!Next

-----------------------------------------------------------------------------
(* The run: a step of one part leaves the others alone.                      *)

LEMMA LinesSpec == MCSpec => Lines!Init /\ [][Lines!Next]_(Lines!vars)
  <1>1. MCInit => Lines!Init
    BY DEF MCInit
  <1>2. [MCNext]_MCVars => [Lines!Next]_(Lines!vars)
    BY DEF MCNext, MCVars, HistoryStep, LinesStep, RecordsStep, TrackerStep, NoticesStep,
           lineVars, Lines!vars
  <1> QED
    BY <1>1, <1>2, PTL DEF MCSpec

LEMMA RecordsSpec == MCSpec => Records!Init /\ [][Records!Next]_(Records!vars)
  <1>1. MCInit => Records!Init
    BY DEF MCInit
  <1>2. [MCNext]_MCVars => [Records!Next]_(Records!vars)
    BY DEF MCNext, MCVars, HistoryStep, LinesStep, RecordsStep, TrackerStep, NoticesStep,
           recordVars, Records!vars
  <1> QED
    BY <1>1, <1>2, PTL DEF MCSpec

(* The inductive invariant of the two files of lines.                        *)
THEOREM LinesInvariant == MCSpec => []LineInv
  <1> QED
    BY LinesAssumption, LineBegins, LineSteps, LinesSpec, PTL

(* FileMetricStore and FileHistoryStore: a line torn by a crash or a failed  *)
(* write costs one record more at most, however many appends, rewrites,      *)
(* crashes and loads there are.                                              *)
THEOREM TornLinesCostOne == MCSpec => []OneLostPerTear
  <1>1. LineInv => OneLostPerTear
    <2> SUFFICES ASSUME LineInv
                 PROVE  Cardinality(Lines!Surprises) <= tears
      BY LineSets DEF OneLostPerTear, Lines!OneLostPerTear
    <2> QED
      BY DEF LineInv, TearsPay
  <1> QED
    BY <1>1, LinesInvariant, PTL

(* FileHistoryStore implements DurableMap: after every crash it shows what   *)
(* was acknowledged, and of what was under way it shows the old or the new.  *)
THEOREM HistoryIsDurable == MCSpec => HistoryDurable
  <1>1. MCInit => Lines!Durable!Init
    BY LinesAssumption, HistoryBegins DEF MCInit
  <1>2. LineInv /\ [Lines!Next]_(Lines!vars) => [Lines!Durable!Next]_(Lines!Durable!vars)
    BY LinesAssumption, HistorySteps
  <1> QED
    BY <1>1, <1>2, LinesInvariant, LinesSpec, PTL
    DEF MCSpec, HistoryDurable, Lines!HistoryDurable, Lines!Durable!Spec

(* FileStore implements DurableMap: whatever fails and wherever the process  *)
(* ends, a reader finds what was acknowledged or a later attempt.            *)
THEOREM StoreIsDurable == MCSpec => StoreDurable
  <1>1. MCInit => RecordInv /\ Records!Durable!Init
    BY RecordsAssumption, RecordBegins DEF MCInit
  <1>2. RecordInv /\ [Records!Next]_(Records!vars) =>
            RecordInv' /\ [Records!Durable!Next]_(Records!Durable!vars)
    BY RecordsAssumption, RecordSteps
  <1> QED
    BY <1>1, <1>2, RecordsSpec, PTL
    DEF MCSpec, StoreDurable, Records!StoreDurable, Records!Durable!Spec

LEMMA NoticesSpec == MCSpec => Notices!Init /\ [][Notices!Next]_(Notices!vars)
  <1>1. MCInit => Notices!Init
    BY DEF MCInit
  <1>2. [MCNext]_MCVars => [Notices!Next]_(Notices!vars)
    BY DEF MCNext, MCVars, HistoryStep, LinesStep, RecordsStep, TrackerStep, NoticesStep,
           noticeVars, Notices!vars
  <1> QED
    BY <1>1, <1>2, PTL DEF MCSpec

(* ProcessSnapshot: however many refreshes overlap, a notice is repeated     *)
(* within its window at most N + (N - 1) + ... + 1 times where no edit and   *)
(* no crash makes the store forget more, and nobody is told that an app is   *)
(* back who was not told that it was gone.                                   *)
THEOREM NoticesLimited == MCSpec => []NoticesHold
  <1>1. NoticeInv => NoticesHold
    BY DEF NoticeInv, NoticesHold, Notices!NoticesHold
  <1>2. Notices!Init => NoticeInv
    BY NoticesAssumption, NoticesBegin
  <1>3. NoticeInv /\ [Notices!Next]_(Notices!vars) => NoticeInv'
    BY NoticesAssumption, NoticesKeep
  <1> QED
    BY <1>1, <1>2, <1>3, NoticesSpec, PTL

LEMMA TrackerSpec == MCSpec => Tracker!Init /\ [][Tracker!Next]_(Tracker!vars)
  <1>1. MCInit => Tracker!Init
    BY DEF MCInit
  <1>2. [MCNext]_MCVars => [Tracker!Next]_(Tracker!vars)
    BY DEF MCNext, MCVars, HistoryStep, LinesStep, RecordsStep, TrackerStep, NoticesStep,
           trackerVars, Tracker!vars
  <1> QED
    BY <1>1, <1>2, PTL DEF MCSpec

(* probeTracker: however polls overlap and wherever the process ends, each   *)
(* reading is counted once, in a row, in the bucket being filled or in a     *)
(* poll under way, or it was lost by a crash or a failed append; and the     *)
(* window holds the newest samples.                                          *)
THEOREM EachReadingOnce == MCSpec => []ReadingsKept
  <1>1. TrackerInv => ReadingsKept
    BY DEF TrackerInv, ReadingsKept, Tracker!ReadingsKept
  <1>2. Tracker!Init => TrackerInv
    BY TrackerAssumption, TrackerBegins
  <1>3. TrackerInv /\ [Tracker!Next]_(Tracker!vars) => TrackerInv'
    BY TrackerAssumption, TrackerKeeps
  <1> QED
    BY <1>1, <1>2, <1>3, TrackerSpec, PTL
=============================================================================
