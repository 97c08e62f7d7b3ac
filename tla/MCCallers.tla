------------------------------- MODULE MCCallers -------------------------------
(* Instances of Callers for TLC. *)
EXTENDS Callers, TLC

Symmetry ==
    Permutations(Email) \cup Permutations(Link) \cup Permutations(UserId)
    \cup Permutations(SessionId) \cup Permutations(Request) \cup Permutations(Call)
=============================================================================
