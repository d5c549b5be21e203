----------------------------- MODULE MCSessions -----------------------------
(* Sessions for TLC. *)
EXTENDS Sessions, TLC

Symmetry == Permutations(Callers) \cup Permutations(Emails) \cup Permutations(Names)

=============================================================================
