----------------------------- MODULE MCSessions -----------------------------
(* Sessions for TLC: tokens, requests and admins are interchangeable.        *)
EXTENDS Sessions, TLC

Symmetry == Permutations(Tokens) \cup Permutations(Requests) \cup Permutations(Admins)
=============================================================================
