---------------------------- MODULE MCRepairFlow ----------------------------
(* RepairFlow for TLC: goroutines, tokens and request ids are interchangeable. *)
EXTENDS RepairFlow, TLC

Symmetry == Permutations(Threads) \cup Permutations(Tokens) \cup Permutations(Requests)
=============================================================================
