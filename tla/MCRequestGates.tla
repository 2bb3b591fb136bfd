---------------------------- MODULE MCRequestGates ----------------------------
(***************************************************************************)
(* What a request passes before its handler: the limiter and the effective *)
(* permissions.  They share no state, so each is explored with the other   *)
(* at rest.  An instance gives the actors of both the same names, so that  *)
(* one group of permutations serves both.                                  *)
(***************************************************************************)
EXTENDS MCRbacCache, RateLimit

VARIABLE component

\* The custom role has been created: a state of RbacSpec, with all changes to come.
CustomCreated ==
  /\ \E perms \in SUBSET Permission :
       roles = [r \in Role |-> [state |-> "live",
                               perms |-> IF r \in SystemRole THEN Defaults[r] ELSE perms]]
  /\ userRoles = [u \in User |-> {RoleAtStart[u]}]
  /\ overrides = [u \in User |-> {}]
  /\ cache = [u \in User |-> NoEntry]
  /\ reader = [q \in Reader |-> IdleReader]
  /\ admin = [a \in Admin |-> IdleAdmin]
  /\ changes = 0

GatesInit ==
  /\ RateInit
  /\ \/ RbacInit /\ component \in {"rbac", "limiter"}
     \/ CustomCreated /\ component = "rbac"

GatesNext ==
  /\ UNCHANGED component
  /\ \/ component = "rbac" /\ RbacNext /\ UNCHANGED rateVars
     \/ component = "limiter" /\ RateNext /\ UNCHANGED rbacVars

GatesSpec == GatesInit /\ [][GatesNext]_<<rbacVars, rateVars, component>>
=============================================================================
