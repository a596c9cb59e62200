----------------------------- MODULE MCWebAuth -----------------------------
(* Model checking WebAuth: the symmetry of its constants. *)
EXTENDS WebAuth, TLC

Symmetry == Permutations(Tabs) \cup Permutations(Persons)
=============================================================================
