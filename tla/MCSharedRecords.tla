--------------------------- MODULE MCSharedRecords ---------------------------
(* An instance of SharedRecords for TLC: two users, a supplier and a note. *)
EXTENDS SharedRecords, TLC

CONSTANTS supplier, note

MCMaxVersion == supplier :> 3 @@ note :> 2

\* Users may be exchanged; values may not, SomeValue picks one.
Symmetry == Permutations(Users)
=============================================================================
