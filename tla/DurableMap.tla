----------------------------- MODULE DurableMap -----------------------------
(***************************************************************************)
(* What the stores of internal/db promise, whatever they keep and however  *)
(* they write it: a map that is read while the process runs and found      *)
(* again after a crash.                                                    *)
(*                                                                         *)
(* may[k] holds the values a reader of k may find.  An operation that has  *)
(* begun adds the value it writes; one that was acknowledged leaves only   *)
(* that value; one that failed, or was cut off by a crash, leaves both.    *)
(***************************************************************************)
CONSTANTS Keys, Values

VARIABLES
    open,   \* a process has the store open
    kept,   \* what it would read
    may

vars == <<open, kept, may>>

Init ==
    /\ open \in BOOLEAN
    /\ kept \in [Keys -> Values]
    /\ may = [k \in Keys |-> {kept[k]}]

\* An operation begins, which would leave some value under each key; a reader may
\* see its result before it is acknowledged.
Attempt ==
    /\ open
    /\ may' \in [Keys -> SUBSET Values]
    /\ \A k \in Keys : \E v \in Values : may'[k] = may[k] \cup {v}
    /\ \/ kept' = kept
       \/ /\ kept' \in [Keys -> Values]
          /\ \A k \in Keys : may'[k] = may[k] \cup {kept'[k]}
    /\ UNCHANGED open

\* An operation is acknowledged: the keys it settles have one value left.
Acknowledge ==
    /\ open
    /\ kept' \in [Keys -> Values]
    /\ \A k \in Keys :
           \/ kept'[k] \in may[k] /\ may'[k] = {kept'[k]}
           \/ kept'[k] = kept[k] /\ may'[k] = may[k]
    /\ UNCHANGED open

Crash == open /\ open' = FALSE /\ UNCHANGED <<kept, may>>

Reopen ==
    /\ ~open /\ open' = TRUE
    /\ kept' \in [Keys -> Values]
    /\ \A k \in Keys : kept'[k] \in may[k]
    /\ UNCHANGED may

Next == Attempt \/ Acknowledge \/ Crash \/ Reopen

Spec == Init /\ [][Next]_vars

=============================================================================
