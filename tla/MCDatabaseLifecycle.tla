------------------------- MODULE MCDatabaseLifecycle -------------------------
(* Instances of DatabaseLifecycle for TLC. *)
EXTENDS DatabaseLifecycle, TLC

Symmetry == Permutations(User) \cup Permutations(Id) \cup Permutations(Request)
=============================================================================
