------------------------- MODULE MCRuntimeSettings -------------------------
(* RuntimeSettings for TLC: writers and readers are interchangeable.        *)
EXTENDS RuntimeSettings, TLC

Symmetry == Permutations(Writers) \cup Permutations(Readers)
=============================================================================
