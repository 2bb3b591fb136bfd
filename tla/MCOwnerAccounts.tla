---------------------------- MODULE MCOwnerAccounts ----------------------------
(***************************************************************************)
(* Small instances of OwnerAccounts, from an empty database.               *)
(***************************************************************************)
EXTENDS OwnerAccounts, TLC

Alike == Permutations(Task) \union Permutations(User) \union Permutations(Email)
           \union Permutations(Invitation)
=============================================================================
