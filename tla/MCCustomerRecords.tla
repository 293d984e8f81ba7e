------------------------- MODULE MCCustomerRecords -------------------------
(* Two users, a customer and a note on it, two tags; the default settings. *)
EXTENDS CustomerRecords, TLC

CONSTANTS customer, note, owner

MCMaxVersion == customer :> 3 @@ note :> 2

MCOwners == {owner, None}

MCValues == MCOwners \X Labels

MCSymmetry == Permutations(Users) \cup Permutations(Tags)

=============================================================================
