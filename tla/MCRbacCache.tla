------------------------------ MODULE MCRbacCache ------------------------------
(***************************************************************************)
(* Small instances of RbacCache: one system role with a permission by      *)
(* default, which the users start with, and one custom role.               *)
(***************************************************************************)
EXTENDS RbacCache, TLC

CONSTANTS u1, u2, p1, system, custom

OneDefault == system :> {p1}
AllSystem == [u \in User |-> system]

Actors == Permutations(Admin) \union Permutations(User)
=============================================================================
