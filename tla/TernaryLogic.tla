----------------------------- MODULE TernaryLogic -----------------------------
(***************************************************************************)
(* The three-valued logic of SQL: a comparison with NULL is neither true   *)
(* nor false, and a WHERE keeps the rows for which its condition is true.  *)
(***************************************************************************)

Truth(b) == IF b THEN "true" ELSE "false"
Opposite(v) == IF v = "null" THEN v ELSE Truth(v = "false")
AllOf(values) ==
    IF "false" \in values THEN "false" ELSE IF "null" \in values THEN "null" ELSE "true"
AnyOf(values) ==
    IF "true" \in values THEN "true" ELSE IF "null" \in values THEN "null" ELSE "false"
=============================================================================
