--------------------------- MODULE LatencyTracker ---------------------------
(***************************************************************************)
(* The probe timings the server keeps: probeTracker in                      *)
(* internal/server/probes.go, with the rows of the metric store it writes.  *)
(*                                                                         *)
(* A poll adds its reading to the rolling window, and then, under a second  *)
(* taking of the lock, to the bucket of the current time; a bucket that is  *)
(* over is written out after the lock is released.  Polls may overlap: the *)
(* poller's and those of the "check again" route.                          *)
(* The readings of the probe collector do not reach it today, see           *)
(* SlowLinkReported in Snapshot; the model's are those its tests hand it.   *)
(***************************************************************************)
EXTENDS Integers, Sequences, FiniteSets, SequencesExt

CONSTANTS
    Polls,          \* polls that may overlap
    BucketWindow,   \* db.LatencyBucketWindow
    WindowSamples,  \* probeWindowSamples
    MaxTime,        \* bound on the clock
    MaxReadings,    \* bound on readings
    MaxFaults,      \* bound on crashes and appends that fail
    None

\* The counts of a bucket, and a reading on its way into one.
Buckets == [at : Nat \cup {None}, ok : Nat, failed : Nat]
Readings == [at : {"record", "lock", "append"}, ok : BOOLEAN, now : Nat, completed : Buckets]

\* What an instance must respect; the module that makes it assumes this.
TrackerAssumption ==
    /\ {BucketWindow, WindowSamples} \subseteq Nat \ {0}
    /\ {MaxTime, MaxReadings, MaxFaults} \subseteq Nat
    /\ IsFiniteSet(Polls)
    /\ None \notin Nat /\ None \notin Readings

VARIABLES
    time,
    window,         \* samples of the one subject; TRUE is a reading that was ok
    bucket,         \* the bucket being filled: its start and its counts
    rows,           \* rows written, in the order of writing
    poll,           \* per poll, where it is
    readings,       \* readings taken since the beginning (history)
    recent,         \* what the window was seeded with and fed since (history)
    lost,           \* readings a crash or a failed append lost (history)
    faults

vars == <<time, window, bucket, rows, poll, readings, recent, lost, faults>>

Empty(at) == [at |-> at, ok |-> 0, failed |-> 0]
Count(b) == b.ok + b.failed

Init ==
    /\ time = 0
    /\ window = <<>>
    /\ bucket = Empty(None)
    /\ rows = <<>>
    /\ poll = [p \in Polls |-> None]
    /\ readings = 0
    /\ recent = <<>>
    /\ lost = 0
    /\ faults = 0

At(p, step) == poll[p] # None /\ poll[p].at = step

\* db.BucketStart
BucketStart(now) == (now \div BucketWindow) * BucketWindow

-----------------------------------------------------------------------------

\* window[len(window)-probeWindowSamples:]
Trimmed(samples) ==
    SubSeq(samples, IF Len(samples) > WindowSamples THEN Len(samples) - WindowSamples + 1 ELSE 1, Len(samples))

\* annotateProbeBaselines.
Annotate(p, ok) ==
    /\ poll[p] = None /\ readings < MaxReadings
    /\ window' = Trimmed(Append(window, ok))
    /\ recent' = Append(recent, ok)
    /\ readings' = readings + 1
    /\ poll' = [poll EXCEPT ![p] = [at |-> "record", ok |-> ok, now |-> 0, completed |-> Empty(None)]]
    /\ UNCHANGED <<time, bucket, rows, lost, faults>>

\* recordLatencyBucket reads the clock before it takes the lock.
ReadClock(p) ==
    /\ At(p, "record")
    /\ poll' = [poll EXCEPT ![p].at = "lock", ![p].now = time]
    /\ UNCHANGED <<time, window, bucket, rows, readings, recent, lost, faults>>

\* Mutation: the failures are not reset with the latencies.
FailuresKept(at) == [Empty(at) EXCEPT !.failed = bucket.failed]

\* The maps of a new bucket.
Fresh(at) == Empty(at)

Fill(p) ==
    /\ At(p, "lock")
    /\ LET at == BucketStart(poll[p].now)
           over == bucket.at # None /\ bucket.at # at
           current == IF over \/ bucket.at = None THEN Fresh(at) ELSE bucket
       IN  /\ bucket' = IF poll[p].ok THEN [current EXCEPT !.ok = @ + 1] ELSE [current EXCEPT !.failed = @ + 1]
           /\ poll' = [poll EXCEPT ![p].at = "append", ![p].completed = IF over THEN bucket ELSE Empty(None)]
    /\ UNCHANGED <<time, window, rows, readings, recent, lost, faults>>

\* AppendLatency; its error is dropped.
Flush(p) ==
    /\ At(p, "append")
    /\ \/ /\ rows' = IF Count(poll[p].completed) = 0 THEN rows ELSE Append(rows, poll[p].completed)
          /\ UNCHANGED <<lost, faults>>
       \/ /\ faults < MaxFaults /\ Count(poll[p].completed) > 0
          /\ faults' = faults + 1
          /\ lost' = lost + Count(poll[p].completed)
          /\ UNCHANGED rows
    /\ poll' = [poll EXCEPT ![p] = None]
    /\ UNCHANGED <<time, window, bucket, readings, recent>>

Tick ==
    /\ time < MaxTime /\ time' = time + 1
    /\ UNCHANGED <<window, bucket, rows, poll, readings, recent, lost, faults>>

\* seedProbeWindowFromMetrics: a row stands in for its samples with one that was
\* ok and one that failed, as far as it has any.
SeedOf(row) == (IF row.ok > 0 THEN <<TRUE>> ELSE <<>>) \o (IF row.failed > 0 THEN <<FALSE>> ELSE <<>>)
SeedWindow ==
    LET seeded[n \in 0..Len(rows)] ==
            IF n = 0 THEN <<>> ELSE Trimmed(seeded[n - 1] \o SeedOf(rows[n]))
    IN  seeded[Len(rows)]

Total(counts) ==
    LET total[n \in 0..Len(counts)] == IF n = 0 THEN 0 ELSE total[n - 1] + counts[n]
    IN  total[Len(counts)]

\* What a poll that has taken its reading and not put it into the bucket holds.
Held(p) ==
    CASE poll[p] = None -> 0
      [] At(p, "append") -> Count(poll[p].completed)
      [] OTHER -> 1

Ordered == SetToSeq(Polls)
InFlight == Total([n \in 1..Cardinality(Polls) |-> Held(Ordered[n])])

Restart ==
    /\ faults < MaxFaults /\ faults' = faults + 1
    /\ lost' = lost + InFlight + Count(bucket)
    /\ window' = SeedWindow /\ recent' = SeedWindow
    /\ bucket' = Empty(None)
    /\ poll' = [p \in Polls |-> None]
    /\ UNCHANGED <<time, rows, readings>>

Next ==
    \/ \E p \in Polls :
        \/ \E ok \in BOOLEAN : Annotate(p, ok)
        \/ ReadClock(p) \/ Fill(p) \/ Flush(p)
    \/ Tick \/ Restart

Spec == Init /\ [][Next]_vars

-----------------------------------------------------------------------------

Written == Total([n \in DOMAIN rows |-> Count(rows[n])])

TypeOK ==
    /\ time \in 0..MaxTime /\ readings \in 0..MaxReadings /\ faults \in 0..MaxFaults
    /\ window \in Seq(BOOLEAN)
    /\ {bucket.ok, bucket.failed} \subseteq 0..MaxReadings

\* However polls overlap, each reading is counted once: in a written row, in the
\* bucket being filled or in a poll under way, or it was lost by a crash or a
\* failed append (recordLatencyBucket).
ReadingsCountedOnce == Written + Count(bucket) + InFlight + lost = readings

\* The window holds the newest samples, those of before a restart as the rows
\* stand for them, and never more than its size (annotateProbeBaselines,
\* seedProbeWindowFromMetrics).
WindowIsNewest == Len(window) <= WindowSamples /\ IsSuffix(window, recent)

\* A row stands for one bucket.  Polls that read the clock on two sides of a
\* boundary break this: the later one to get the lock turns the bucket back.
OneRowPerBucket == \A m, n \in DOMAIN rows : rows[m].at = rows[n].at => m = n

\* What is kept of the readings, for the chart and for the rules, is right.
ReadingsKept == ReadingsCountedOnce /\ WindowIsNewest
=============================================================================
