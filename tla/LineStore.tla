------------------------------ MODULE LineStore ------------------------------
(***************************************************************************)
(* The two stores that append lines to a file: status events               *)
(* (FileHistoryStore) and latency buckets (FileMetricStore).  Each keeps   *)
(* its records in memory, appends new ones as lines, and rewrites the file *)
(* through a temporary one when records are dropped.                       *)
(*                                                                         *)
(* One lock covers an operation, so nothing interleaves with it but the    *)
(* end of the process.  A write may stop in the middle of a line; what the *)
(* next one appends then continues that line.  A record is a number, in    *)
(* the order in which records are first appended, which is that of time.   *)
(***************************************************************************)
EXTENDS Integers, Sequences, FiniteSets

CONSTANTS
    Stores,         \* the stores an instance looks at: "history", "metrics"
    MaxRecords,     \* bound on records
    MaxFails,       \* bound on operations that fail
    MaxCrashes,     \* bound on crashes
    Garbage, None

\* What an instance must respect; the module that makes it assumes this.
LineStoreAssumption ==
    /\ Stores \subseteq {"history", "metrics"}
    /\ MaxRecords \in Nat /\ MaxFails \in Nat /\ MaxCrashes \in Nat
    /\ Garbage # None /\ {Garbage, None} \cap (1..MaxRecords) = {}

VARIABLES
    store,      \* which of the two it is
    up,         \* a process has it open
    mem,        \* its records (s.events, s.buckets)
    file,       \* the complete lines of the file
    tail,       \* what follows the last newline: None, a whole record, Garbage
    op,         \* the operation under way
    used,       \* records appended so far
    fails, crashes,
    tears,      \* writes that stopped within a line (history)
    may         \* what a reader may find of each record (history)

vars == <<store, up, mem, file, tail, op, used, fails, crashes, tears, may>>

Records == 1..MaxRecords
Has(set) == [r \in Records |-> r \in set]

\* What a reader may find, once an operation towards the set has begun, and once
\* one on the records S was acknowledged.
Hoped(set) == [r \in Records |-> may[r] \cup {Has(set)[r]}]
Settled(S, set) == [r \in Records |-> IF r \in S THEN {Has(set)[r]} ELSE may[r]]

Init ==
    /\ store \in Stores
    /\ up = TRUE
    /\ mem = {} /\ file = <<>> /\ tail = None
    /\ op = None
    /\ used = 0 /\ fails = 0 /\ crashes = 0 /\ tears = 0
    /\ may = [r \in Records |-> {FALSE}]

Idle == up /\ op = None
Doing(name) == op # None /\ op.name = name

-----------------------------------------------------------------------------
(* Append, AppendLatency                                                   *)

BeginAppend(n) ==
    /\ Idle
    /\ used + n <= MaxRecords
    /\ op' = [name |-> "append", todo |-> (used + 1)..(used + n), set |-> (used + 1)..(used + n)]
    /\ used' = used + n
    /\ may' = Hoped(mem \cup op'.set)
    /\ UNCHANGED <<store, up, mem, file, tail, fails, crashes, tears>>

\* A line continues what a torn write has left.
Joined(r) == IF tail = None THEN r ELSE Garbage

WriteLine ==
    /\ Doing("append")
    /\ \E r \in op.todo :
           /\ \A s \in op.todo : r <= s
           /\ file' = Append(file, Joined(r))
           /\ op' = [op EXCEPT !.todo = @ \ {r}]
    /\ tail' = None
    /\ UNCHANGED <<store, up, mem, used, fails, crashes, tears, may>>

\* How a write that stops within a line leaves the end of the file: a part of
\* the line, or all of it but the newline.
Torn ==
    \E r \in op.todo :
        /\ \A s \in op.todo : r <= s
        /\ tail' \in IF tail = None THEN {r, Garbage} ELSE {Garbage}
        /\ tears' = tears + 1

\* An error of the open, of a write or of the close: memory is left alone.
AppendFails ==
    /\ Doing("append")
    /\ fails < MaxFails
    /\ fails' = fails + 1
    /\ op' = None
    /\ Torn \/ UNCHANGED <<tail, tears>>
    /\ UNCHANGED <<store, up, mem, file, used, crashes, may>>

\* The file is closed before memory changes; an error of the close is one of
\* AppendFails.
EndAppend ==
    /\ Doing("append") /\ op.todo = {}
    /\ mem' = mem \cup op.set
    /\ may' = Settled(op.set, mem')
    /\ op' = None
    /\ UNCHANGED <<store, up, file, tail, used, fails, crashes, tears>>

-----------------------------------------------------------------------------
(* Clear, ClearLatency, Prune, PruneLatency: the records to keep are        *)
(* written to a temporary file, which replaces the file.                    *)

\* The metric store forgets before it writes, and neither writes when nothing
\* goes, except for the history's Prune.
BeginRewrite(keep) ==
    /\ Idle
    /\ keep \subseteq mem
    /\ keep # mem \/ store = "history"
    /\ op' = [name |-> "rewrite", todo |-> {}, set |-> keep]
    /\ mem' = IF store = "metrics" THEN keep ELSE mem
    /\ may' = Hoped(keep)
    /\ UNCHANGED <<store, up, file, tail, used, fails, crashes, tears>>

InOrder(set) == {s \in [1..Cardinality(set) -> set] :
                    \A i, j \in DOMAIN s : i < j => s[i] < s[j]}

Rename ==
    /\ Doing("rewrite")
    /\ file' \in InOrder(op.set) /\ tail' = None
    /\ may' = Settled(mem \cup op.set, op.set)
    /\ mem' = op.set
    /\ op' = None
    /\ UNCHANGED <<store, up, used, fails, crashes, tears>>

RewriteFails ==
    /\ Doing("rewrite")
    /\ fails < MaxFails
    /\ fails' = fails + 1
    /\ op' = None
    /\ UNCHANGED <<store, up, mem, file, tail, used, crashes, tears, may>>

-----------------------------------------------------------------------------
(* The end of a process and the start of the next.                         *)

Crash ==
    /\ up /\ up' = FALSE
    /\ crashes < MaxCrashes
    /\ crashes' = crashes + 1
    /\ op' = None
    /\ \/ Doing("append") /\ Torn
       \/ UNCHANGED <<tail, tears>>
    /\ UNCHANGED <<store, mem, file, used, fails, may>>

Lines == {file[i] : i \in DOMAIN file} \cup ({tail} \ {None})

\* Mutation: the history skips what it cannot read, as the metric store does.
ReadableAlways == TRUE

\* A line that does not parse ends the load of the history with an error, and
\* with it the start of the server; the metric store passes over it.
Readable == store = "history" => Garbage \notin Lines

\* Mutation: the load ends at the first line it cannot read.
LoadedUpToGarbage ==
    {r \in Records : \E i \in DOMAIN file : file[i] = r /\ \A j \in 1..i : file[j] # Garbage}

Loaded == Lines \ {Garbage}

Load ==
    /\ ~up
    /\ Readable
    /\ up' = TRUE
    /\ mem' = Loaded
    /\ UNCHANGED <<store, file, tail, op, used, fails, crashes, tears, may>>

Next ==
    \/ \E n \in 1..2 : BeginAppend(n)
    \/ WriteLine \/ AppendFails \/ EndAppend
    \/ \E keep \in SUBSET mem : BeginRewrite(keep)
    \/ Rename \/ RewriteFails \/ Crash \/ Load

Spec == Init /\ [][Next]_vars

-----------------------------------------------------------------------------
(* Properties.                                                             *)

Surprises == {r \in Records : (r \in mem) \notin may[r]}

\* metrics.go: "A truncated final line after an unclean shutdown must not stop
\* the rest of the series loading."  A bucket that was acknowledged can be
\* missing, because its line was joined to a torn one; but each torn write costs
\* at most one such bucket, and none is gone while nothing was torn.
OneLostPerTear == up => Cardinality(Surprises) <= tears

History == store = "history"

\* The history is a DurableMap: while it is open it shows what was acknowledged,
\* before and after every crash.  (It may fail to open.)
Durable == INSTANCE DurableMap WITH
    Keys <- Records,
    Values <- BOOLEAN,
    open <- History /\ up,
    kept <- IF History THEN Has(mem) ELSE Has({}),
    may <- IF History THEN may ELSE [r \in Records |-> {FALSE}]

HistoryDurable == Durable!Spec

=============================================================================
