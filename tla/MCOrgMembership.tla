-------------------------- MODULE MCOrgMembership --------------------------
(* Instances of OrgMembership for TLC. *)
EXTENDS OrgMembership, TLC

CONSTANT Admin

Covers(invite, assign, remove, transfer) ==
    [invite |-> invite, assignRole |-> assign, removeMember |-> remove,
     transferOwnership |-> transfer]

\* owners manage every role, the other role manages only itself
MCManagement ==
    [role \in Role |->
        IF role = Owner THEN Covers(Role, Role, Role, TRUE)
                        ELSE Covers({Admin}, {Admin}, {Admin}, FALSE)]

Symmetry == Permutations(User) \cup Permutations(Request)
=============================================================================
