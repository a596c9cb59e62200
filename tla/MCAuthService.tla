--------------------------- MODULE MCAuthService ---------------------------
(* Model checking AuthService: the symmetry of its constants. *)
EXTENDS AuthService, TLC

Symmetry == Permutations(Calls) \cup Permutations(Subs) \cup Permutations(Ids)
              \cup Permutations(Names)
=============================================================================
