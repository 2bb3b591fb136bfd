-------------------------- MODULE MCDomainLifecycle --------------------------
(***************************************************************************)
(* Small instances of DomainLifecycle.                                     *)
(***************************************************************************)
EXTENDS DomainLifecycle, TLC

CONSTANTS u1, u2, n1, d1, d2, r1, r2

\* One user creating the same name twice.
OneOwner == (d1 :> u1) @@ (d2 :> u1)

SingleOwner == d1 :> u1

SameName == (d1 :> n1) @@ (d2 :> n1)

SingleName == d1 :> n1

Handlers == Permutations(Request)
=============================================================================
