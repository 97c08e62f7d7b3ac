--------------------------- MODULE MCLazyMigration ---------------------------
(* Instances of LazyMigration for TLC.  Databases are numbers, which are not *)
(* interchangeable: their order is the order of creation.                    *)
EXTENDS LazyMigration, TLC

Symmetry == Permutations(Table) \cup Permutations(Push) \cup Permutations(Request)
=============================================================================
