----------------------- MODULE MCAuthServiceHistory -----------------------
(* Model checking AuthServiceHistory: the symmetry of its constants. *)
EXTENDS AuthServiceHistory, TLC

Symmetry == Permutations(Calls) \cup Permutations(Subs) \cup Permutations(Ids)
              \cup Permutations(Names)
=============================================================================
