------------------------------ MODULE MCMailSend ------------------------------
(***************************************************************************)
(* Small instances of MailSend.                                            *)
(***************************************************************************)
EXTENDS MailSend, TLC

CONSTANTS u1, u2, n1, d1, d2, k1, i1

\* One user, one domain, one key.
OneOwner == d1 :> u1
OneName == d1 :> n1
OneKey == k1 :> u1
OneInbound == i1 :> d1
NoInboundMail == [i \in {} |-> d1]

\* Handlers, and message rows, are interchangeable.
Twins == Permutations(Send) \union Permutations(EmailId)

\* Two users who registered the same name; key and inbound mail are the first's.
TwoOwners == (d1 :> u1) @@ (d2 :> u2)
SharedName == (d1 :> n1) @@ (d2 :> n1)
=============================================================================
