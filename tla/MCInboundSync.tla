----------------------------- MODULE MCInboundSync -----------------------------
(***************************************************************************)
(* Small instances of InboundSync: the mailboxes of one domain.            *)
(***************************************************************************)
EXTENDS InboundSync

CONSTANTS m1, m2, d1

SingleDomain == m1 :> d1
SameDomain == (m1 :> d1) @@ (m2 :> d1)

Runs == Permutations(Run)
=============================================================================
