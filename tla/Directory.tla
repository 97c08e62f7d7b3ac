------------------------------- MODULE Directory -------------------------------
(***************************************************************************)
(* What clients may rely on when they create and delete databases: a       *)
(* database is there with everything that belongs to it, or is not there   *)
(* at all, and stays as it is until somebody asks for its deletion.        *)
(*                                                                         *)
(* An abstract specification: DatabaseLifecycle implements it with rows in *)
(* the primary database, databases at Turso, and no transaction over both. *)
(***************************************************************************)
CONSTANTS User, Id, None

VARIABLES
    kind,      \* per id: absent, the type of the definition, doomed once its
               \* deletion has begun
    account    \* whose database it is: the user's, the owner's, None

Kind == {"global", "user", "organization"}

Held(k, u) == {d \in Id : kind[d] = k /\ account[d] = u}

Init ==
    /\ kind = [d \in Id |-> "absent"]
    /\ account = [d \in Id |-> None]

\* a database is created, whole: with the link of its user, or its owner
Appear(d, k, u) ==
    /\ kind[d] = "absent"
    /\ k = "global" <=> u = None
    /\ k = "user" => Held("user", u) = {}
    /\ kind' = [kind EXCEPT ![d] = k]
    /\ account' = [account EXCEPT ![d] = u]

\* a deletion is asked for: nothing is promised of the id from here on
Doom(d) ==
    /\ kind[d] \in Kind
    /\ kind' = [kind EXCEPT ![d] = "doomed"]
    /\ account' = [account EXCEPT ![d] = None]

Next ==
    \E d \in Id :
        /\ kind'[d] # kind[d]
        /\ \/ \E k \in Kind, u \in User \cup {None} : Appear(d, k, u)
           \/ Doom(d)

Spec == Init /\ [][Next]_<<kind, account>>
=============================================================================
