---------------------------- MODULE BrowserProofs -----------------------------
(***************************************************************************)
(* Machine-checked proofs about what a browser keeps of the server: the    *)
(* answers to a screen's queries, and the session in the tabs.             *)
(***************************************************************************)
EXTENDS QueryCache, WebSession, TLAPS

-------------------------------------------------------------------------------
(***************************************************************************)
(* QueryCache, for any number of acts and lost answers on each screen:     *)
(* one's own change is displayed once everything is at rest.               *)
(***************************************************************************)

\* The families that the mutations invalidate.
Families ==
  {"mail-domains", "mail-domain", "mail-mailboxes", "mail-inbox", "mail-api-keys",
   "admin-mail-domains", "admin-mail-mailboxes", "admin-mail-overview", "admin-feedback",
   "admin-users", "admin-invitations", "admin-roles"}

\* What is wanted of a screen's table: its queries read tables, and each mutation, once
\* done, has invalidated every query of the screen that reads what it changes.
Covers(m, q) ==
  (\E t \in q.reads : t \in m.changes)
    => \E i \in 1..Len(m.invalidates) : q.family \in m.invalidates[i]

ScreenFits(s) ==
  /\ \A q \in s.queries : q.reads \subseteq Tables
  /\ \A m \in s.mutations : /\ m.changes \subseteq Tables
                            /\ m.invalidates \in Seq(SUBSET Families)
                            /\ \A q \in s.queries : Covers(m, q)

Versions == (UNION {[R -> Nat] : R \in SUBSET Tables}) \union {Nothing}
FetchState == [on : BOOLEAN, read : BOOLEAN, got : Versions]
UnderWay == screen.mutations \union {NoMutation.of}
MutationState == [pc : {"idle", "sent", "landed", "invalidating", "awaiting"}, of : UnderWay,
                  at : Versions, left : Seq(SUBSET Families)]

QueryTypeOK ==
  /\ screen \in Screens
  /\ rowsOf \in [Tables -> Nat] /\ own \in [Tables -> Nat]
  /\ filters \in [screen.queries -> Filter]
  /\ data \in [Keys -> Versions] /\ fetching \in [Keys -> FetchState]
  /\ mutation \in MutationState

\* What a query holds or is being sent are versions of the tables it reads.
KeyFits(k) ==
  /\ data[k] # Nothing => data[k] \in [k[1].reads -> Nat]
  /\ fetching[k].read => fetching[k].on /\ fetching[k].got \in [k[1].reads -> Nat]

\* The steps of a mutation, and no version ahead of the rows.
MutationFits ==
  /\ mutation.pc # "idle" => mutation.of \in screen.mutations
  /\ mutation.pc \in {"sent", "landed"} => mutation.left = mutation.of.invalidates
  /\ mutation.pc = "awaiting" => mutation.left # <<>>
  /\ mutation.pc = "landed" =>
       /\ mutation.at \in [mutation.of.changes -> Nat]
       /\ \A t \in mutation.of.changes : mutation.at[t] <= rowsOf[t]
  /\ \A t \in Tables : own[t] <= rowsOf[t]

\* The mutation is still to invalidate the family.
Pending(family) ==
  /\ mutation.pc \in {"invalidating", "awaiting"}
  /\ \E i \in 1..Len(mutation.left) :
       (mutation.pc = "awaiting" => i > 1) /\ family \in mutation.left[i]

Owed(k, t) == t \in mutation.of.changes /\ Pending(k[1].family)

\* What the query has, or has been sent, is as new as the user's own changes.
AsNew(k, t) ==
  /\ fetching[k].read => fetching[k].got[t] >= own[t]
  /\ ~fetching[k].on /\ data[k] # Nothing => data[k][t] >= own[t]

MountedAreNew ==
  \A k \in Mounted : k \notin failed \union early =>
    \A t \in k[1].reads : Owed(k, t) \/ AsNew(k, t)

QueryIInv == QueryTypeOK /\ (\A k \in Keys : KeyFits(k)) /\ MutationFits /\ MountedAreNew

-----------------------------------------------------------------------------
\* A mutation that invalidates its families in one step.
LEMMA InvalidatesOne ==
  ASSUME NEW c \in SUBSET Tables, NEW F \in SUBSET Families, NEW m,
         m \in {Mutation(c, <<F>>), Unawaited(c, F)}
  PROVE  /\ m.changes \subseteq Tables
         /\ m.invalidates \in Seq(SUBSET Families)
         /\ \A q : (q.reads \intersect c # {} => q.family \in F) => Covers(m, q)
<1>1. m.changes = c /\ m.invalidates = <<F>>
  BY DEF Mutation, Unawaited
<1>2. <<F>> \in Seq(SUBSET Families) /\ Len(<<F>>) = 1 /\ <<F>>[1] = F
  OBVIOUS
<1>3. ASSUME NEW q, q.reads \intersect c # {} => q.family \in F
      PROVE  Covers(m, q)
  BY <1>1, <1>2, <1>3 DEF Covers
<1> QED
  BY <1>1, <1>2, <1>3

LEMMA ScreensFit == \A s \in Screens : ScreenFits(s)
<1> USE DEF ScreenFits
<1>1. ScreenFits(DomainsScreen)
  <2>q. \A q \in DomainsScreen.queries : q.reads \subseteq Tables
    BY DEF DomainsScreen, Query, Tables, ListDomains
  <2>1. /\ CreateDomain.changes \subseteq Tables /\ CreateDomain.invalidates \in Seq(SUBSET Families)
        /\ \A q \in DomainsScreen.queries : Covers(CreateDomain, q)
    <3>1. /\ {"domain"} \in SUBSET Tables /\ {"mail-domains"} \in SUBSET Families
      BY DEF Tables, Families
    <3>2. \A q \in DomainsScreen.queries : q.reads \intersect {"domain"} # {} => q.family \in {"mail-domains"}
      BY DEF DomainsScreen, Query, ListDomains
    <3> QED
      BY <3>1, <3>2, InvalidatesOne DEF CreateDomain
  <2>2. /\ VerifyDomain.changes \subseteq Tables /\ VerifyDomain.invalidates \in Seq(SUBSET Families)
        /\ \A q \in DomainsScreen.queries : Covers(VerifyDomain, q)
    <3>1. /\ {"domain"} \in SUBSET Tables /\ {"mail-domains"} \in SUBSET Families
      BY DEF Tables, Families
    <3>2. \A q \in DomainsScreen.queries : q.reads \intersect {"domain"} # {} => q.family \in {"mail-domains"}
      BY DEF DomainsScreen, Query, ListDomains
    <3> QED
      BY <3>1, <3>2, InvalidatesOne DEF VerifyDomain
  <2> QED
    BY <2>q, <2>1, <2>2 DEF DomainsScreen
<1>2. ScreenFits(DomainScreen)
  <2>q. \A q \in DomainScreen.queries : q.reads \subseteq Tables
    BY DEF DomainScreen, Query, Tables, GetDomain
  <2>1. /\ VerifyOne.changes \subseteq Tables /\ VerifyOne.invalidates \in Seq(SUBSET Families)
        /\ \A q \in DomainScreen.queries : Covers(VerifyOne, q)
    <3>1. /\ {"domain"} \in SUBSET Tables /\ {"mail-domain"} \in SUBSET Families
      BY DEF Tables, Families
    <3>2. \A q \in DomainScreen.queries : q.reads \intersect {"domain"} # {} => q.family \in {"mail-domain"}
      BY DEF DomainScreen, Query, GetDomain
    <3> QED
      BY <3>1, <3>2, InvalidatesOne DEF VerifyOne
  <2> QED
    BY <2>q, <2>1 DEF DomainScreen
<1>3. ScreenFits(MailboxesScreen)
  <2>q. \A q \in MailboxesScreen.queries : q.reads \subseteq Tables
    BY DEF MailboxesScreen, Query, Tables, ListDomains, ListMailboxes
  <2>1. /\ CreateMailbox.changes \subseteq Tables /\ CreateMailbox.invalidates \in Seq(SUBSET Families)
        /\ \A q \in MailboxesScreen.queries : Covers(CreateMailbox, q)
    <3>1. /\ {"mailbox"} \in SUBSET Tables /\ {"mail-mailboxes"} \in SUBSET Families
      BY DEF Tables, Families
    <3>2. \A q \in MailboxesScreen.queries : q.reads \intersect {"mailbox"} # {} => q.family \in {"mail-mailboxes"}
      BY DEF MailboxesScreen, Query, ListDomains, ListMailboxes
    <3> QED
      BY <3>1, <3>2, InvalidatesOne DEF CreateMailbox
  <2>2. /\ SyncMailbox.changes \subseteq Tables /\ SyncMailbox.invalidates \in Seq(SUBSET Families)
        /\ \A q \in MailboxesScreen.queries : Covers(SyncMailbox, q)
    <3>1. /\ {"mailbox", "inbound"} \in SUBSET Tables /\ {"mail-mailboxes"} \in SUBSET Families /\ {"mail-inbox"} \in SUBSET Families
      BY DEF Tables, Families
    <3>2. \A q \in MailboxesScreen.queries : q.reads \intersect {"mailbox", "inbound"} # {} => q.family \in {"mail-mailboxes"} \union {"mail-inbox"}
      BY DEF MailboxesScreen, Query, ListDomains, ListMailboxes
    <3>3. SyncMailbox.changes = {"mailbox", "inbound"} /\ SyncMailbox.invalidates = <<{"mail-mailboxes"}, {"mail-inbox"}>>
      BY DEF SyncMailbox, Mutation
    <3>4. /\ SyncMailbox.invalidates \in Seq(SUBSET Families) /\ Len(SyncMailbox.invalidates) = 2
          /\ SyncMailbox.invalidates[1] = {"mail-mailboxes"}
          /\ SyncMailbox.invalidates[2] = {"mail-inbox"}
      BY <3>1, <3>3
    <3> QED
      BY <3>1, <3>2, <3>3, <3>4 DEF Covers
  <2> QED
    BY <2>q, <2>1, <2>2 DEF MailboxesScreen
<1>4. ScreenFits(ApiKeysScreen)
  <2>q. \A q \in ApiKeysScreen.queries : q.reads \subseteq Tables
    BY DEF ApiKeysScreen, Query, Tables, ListApiKeys
  <2>1. /\ CreateKey.changes \subseteq Tables /\ CreateKey.invalidates \in Seq(SUBSET Families)
        /\ \A q \in ApiKeysScreen.queries : Covers(CreateKey, q)
    <3>1. /\ {"key"} \in SUBSET Tables /\ {"mail-api-keys"} \in SUBSET Families
      BY DEF Tables, Families
    <3>2. \A q \in ApiKeysScreen.queries : q.reads \intersect {"key"} # {} => q.family \in {"mail-api-keys"}
      BY DEF ApiKeysScreen, Query, ListApiKeys
    <3> QED
      BY <3>1, <3>2, InvalidatesOne DEF CreateKey
  <2>2. /\ RevokeKey.changes \subseteq Tables /\ RevokeKey.invalidates \in Seq(SUBSET Families)
        /\ \A q \in ApiKeysScreen.queries : Covers(RevokeKey, q)
    <3>1. /\ {"key"} \in SUBSET Tables /\ {"mail-api-keys"} \in SUBSET Families
      BY DEF Tables, Families
    <3>2. \A q \in ApiKeysScreen.queries : q.reads \intersect {"key"} # {} => q.family \in {"mail-api-keys"}
      BY DEF ApiKeysScreen, Query, ListApiKeys
    <3> QED
      BY <3>1, <3>2, InvalidatesOne DEF RevokeKey
  <2> QED
    BY <2>q, <2>1, <2>2 DEF ApiKeysScreen
<1>5. ScreenFits(InboxScreen)
  <2>q. \A q \in InboxScreen.queries : q.reads \subseteq Tables
    BY DEF InboxScreen, Query, Tables, ListInboundEmails
  <2>1. /\ FileMessage.changes \subseteq Tables /\ FileMessage.invalidates \in Seq(SUBSET Families)
        /\ \A q \in InboxScreen.queries : Covers(FileMessage, q)
    <3>1. /\ {"inbound"} \in SUBSET Tables /\ {"mail-inbox"} \in SUBSET Families
      BY DEF Tables, Families
    <3>2. \A q \in InboxScreen.queries : q.reads \intersect {"inbound"} # {} => q.family \in {"mail-inbox"}
      BY DEF InboxScreen, Query, ListInboundEmails
    <3> QED
      BY <3>1, <3>2, InvalidatesOne DEF FileMessage
  <2> QED
    BY <2>q, <2>1 DEF InboxScreen
<1>6. ScreenFits(MessageScreen)
  <2>q. \A q \in MessageScreen.queries : q.reads \subseteq Tables
    BY DEF MessageScreen, Query, Tables, GetInboundEmail
  <2>1. /\ ReplyToMessage.changes = {"email"} /\ ReplyToMessage.invalidates = <<>>
        /\ <<>> \in Seq(SUBSET Families)
    BY DEF ReplyToMessage, Mutation
  <2>2. \A q \in MessageScreen.queries : q.reads = {"inbound"}
    BY DEF MessageScreen, Query, GetInboundEmail
  <2>3. {"email"} \subseteq Tables /\ \A q \in MessageScreen.queries : Covers(ReplyToMessage, q)
    BY <2>1, <2>2 DEF Covers, Tables
  <2>4. MessageScreen.mutations = {ReplyToMessage}
    BY DEF MessageScreen
  <2> QED
    BY <2>q, <2>1, <2>3, <2>4
<1>7. ScreenFits(AdminDomainsScreen)
  <2>q. \A q \in AdminDomainsScreen.queries : q.reads \subseteq Tables
    BY DEF AdminDomainsScreen, Query, Tables, ListAdminDomains
  <2>1. /\ ManageDomain.changes \subseteq Tables /\ ManageDomain.invalidates \in Seq(SUBSET Families)
        /\ \A q \in AdminDomainsScreen.queries : Covers(ManageDomain, q)
    <3>1. /\ {"domain"} \in SUBSET Tables /\ {"admin-mail-domains"} \in SUBSET Families /\ {"admin-mail-overview"} \in SUBSET Families
      BY DEF Tables, Families
    <3>2. \A q \in AdminDomainsScreen.queries : q.reads \intersect {"domain"} # {} => q.family \in {"admin-mail-domains"} \union {"admin-mail-overview"}
      BY DEF AdminDomainsScreen, Query, ListAdminDomains
    <3>3. ManageDomain.changes = {"domain"} /\ ManageDomain.invalidates = <<{"admin-mail-domains"}, {"admin-mail-overview"}>>
      BY DEF ManageDomain, Mutation
    <3>4. /\ ManageDomain.invalidates \in Seq(SUBSET Families) /\ Len(ManageDomain.invalidates) = 2
          /\ ManageDomain.invalidates[1] = {"admin-mail-domains"}
          /\ ManageDomain.invalidates[2] = {"admin-mail-overview"}
      BY <3>1, <3>3
    <3> QED
      BY <3>1, <3>2, <3>3, <3>4 DEF Covers
  <2> QED
    BY <2>q, <2>1 DEF AdminDomainsScreen
<1>8. ScreenFits(AdminMailboxesScreen)
  <2>q. \A q \in AdminMailboxesScreen.queries : q.reads \subseteq Tables
    BY DEF AdminMailboxesScreen, Query, Tables, ListAdminMailboxes
  <2>1. /\ ManageMailbox.changes \subseteq Tables /\ ManageMailbox.invalidates \in Seq(SUBSET Families)
        /\ \A q \in AdminMailboxesScreen.queries : Covers(ManageMailbox, q)
    <3>1. /\ {"mailbox", "inbound"} \in SUBSET Tables /\ {"admin-mail-mailboxes"} \in SUBSET Families /\ {"admin-mail-overview"} \in SUBSET Families
      BY DEF Tables, Families
    <3>2. \A q \in AdminMailboxesScreen.queries : q.reads \intersect {"mailbox", "inbound"} # {} => q.family \in {"admin-mail-mailboxes"} \union {"admin-mail-overview"}
      BY DEF AdminMailboxesScreen, Query, ListAdminMailboxes
    <3>3. ManageMailbox.changes = {"mailbox", "inbound"} /\ ManageMailbox.invalidates = <<{"admin-mail-mailboxes"}, {"admin-mail-overview"}>>
      BY DEF ManageMailbox, Mutation
    <3>4. /\ ManageMailbox.invalidates \in Seq(SUBSET Families) /\ Len(ManageMailbox.invalidates) = 2
          /\ ManageMailbox.invalidates[1] = {"admin-mail-mailboxes"}
          /\ ManageMailbox.invalidates[2] = {"admin-mail-overview"}
      BY <3>1, <3>3
    <3> QED
      BY <3>1, <3>2, <3>3, <3>4 DEF Covers
  <2> QED
    BY <2>q, <2>1 DEF AdminMailboxesScreen
<1>9. ScreenFits(FeedbackScreen)
  <2>q. \A q \in FeedbackScreen.queries : q.reads \subseteq Tables
    BY DEF FeedbackScreen, Query, Tables, GetAllFeedback
  <2>1. /\ SetFeedbackStatus.changes \subseteq Tables /\ SetFeedbackStatus.invalidates \in Seq(SUBSET Families)
        /\ \A q \in FeedbackScreen.queries : Covers(SetFeedbackStatus, q)
    <3>1. /\ {"feedback"} \in SUBSET Tables /\ {"admin-feedback"} \in SUBSET Families
      BY DEF Tables, Families
    <3>2. \A q \in FeedbackScreen.queries : q.reads \intersect {"feedback"} # {} => q.family \in {"admin-feedback"}
      BY DEF FeedbackScreen, Query, GetAllFeedback
    <3> QED
      BY <3>1, <3>2, InvalidatesOne DEF SetFeedbackStatus
  <2> QED
    BY <2>q, <2>1 DEF FeedbackScreen
<1>10. ScreenFits(UsersScreen)
  <2>q. \A q \in UsersScreen.queries : q.reads \subseteq Tables
    BY DEF UsersScreen, Query, Tables, ListUsers, ListInvitations
  <2>1. /\ InviteUser.changes \subseteq Tables /\ InviteUser.invalidates \in Seq(SUBSET Families)
        /\ \A q \in UsersScreen.queries : Covers(InviteUser, q)
    <3>1. /\ {"invitation"} \in SUBSET Tables /\ {"admin-users", "admin-invitations"} \in SUBSET Families
      BY DEF Tables, Families
    <3>2. \A q \in UsersScreen.queries : q.reads \intersect {"invitation"} # {} => q.family \in {"admin-users", "admin-invitations"}
      BY DEF UsersScreen, Query, ListUsers, ListInvitations
    <3> QED
      BY <3>1, <3>2, InvalidatesOne DEF InviteUser
  <2>2. /\ GiveRole.changes \subseteq Tables /\ GiveRole.invalidates \in Seq(SUBSET Families)
        /\ \A q \in UsersScreen.queries : Covers(GiveRole, q)
    <3>1. /\ {"assignment"} \in SUBSET Tables /\ {"admin-users"} \in SUBSET Families
      BY DEF Tables, Families
    <3>2. \A q \in UsersScreen.queries : q.reads \intersect {"assignment"} # {} => q.family \in {"admin-users"}
      BY DEF UsersScreen, Query, ListUsers, ListInvitations
    <3> QED
      BY <3>1, <3>2, InvalidatesOne DEF GiveRole
  <2> QED
    BY <2>q, <2>1, <2>2 DEF UsersScreen
<1>11. ScreenFits(RolesScreen)
  <2>q. \A q \in RolesScreen.queries : q.reads \subseteq Tables
    BY DEF RolesScreen, Query, Tables, ListRoles
  <2>1. /\ AddRole.changes \subseteq Tables /\ AddRole.invalidates \in Seq(SUBSET Families)
        /\ \A q \in RolesScreen.queries : Covers(AddRole, q)
    <3>1. /\ {"role"} \in SUBSET Tables /\ {"admin-roles"} \in SUBSET Families
      BY DEF Tables, Families
    <3>2. \A q \in RolesScreen.queries : q.reads \intersect {"role"} # {} => q.family \in {"admin-roles"}
      BY DEF RolesScreen, Query, ListRoles
    <3> QED
      BY <3>1, <3>2, InvalidatesOne DEF AddRole
  <2>2. /\ DeleteRole.changes \subseteq Tables /\ DeleteRole.invalidates \in Seq(SUBSET Families)
        /\ \A q \in RolesScreen.queries : Covers(DeleteRole, q)
    <3>1. /\ {"role", "assignment"} \in SUBSET Tables /\ {"admin-roles"} \in SUBSET Families
      BY DEF Tables, Families
    <3>2. \A q \in RolesScreen.queries : q.reads \intersect {"role", "assignment"} # {} => q.family \in {"admin-roles"}
      BY DEF RolesScreen, Query, ListRoles
    <3> QED
      BY <3>1, <3>2, InvalidatesOne DEF DeleteRole
  <2> QED
    BY <2>q, <2>1, <2>2 DEF RolesScreen
<1> QED
  BY <1>1, <1>2, <1>3, <1>4, <1>5, <1>6, <1>7, <1>8, <1>9, <1>10, <1>11 DEF Screens

-----------------------------------------------------------------------------
\* A query of the screen with a filter.
LEMMA KeyIsPair ==
  ASSUME NEW k \in Keys
  PROVE  k = <<k[1], k[2]>> /\ k[1] \in screen.queries /\ k[2] \in Filter
BY DEF Keys

LEMMA ReadsAreTables ==
  ASSUME screen \in Screens, NEW q \in screen.queries
  PROVE  q.reads \in SUBSET Tables /\ [q.reads -> Nat] \subseteq Versions
<1>1. q.reads \in SUBSET Tables
  BY ScreensFit DEF ScreenFits
<1> QED
  BY <1>1 DEF Versions

LEMMA NothingUnderWay ==
  /\ NotFetching \in FetchState /\ ~NotFetching.on /\ ~NotFetching.read
  /\ [NotFetching EXCEPT !.on = TRUE] \in FetchState
  /\ [NotFetching EXCEPT !.on = TRUE].on /\ ~[NotFetching EXCEPT !.on = TRUE].read
  /\ NoMutation \in MutationState /\ NoMutation.pc = "idle"
<1>1. Nothing \in Versions
  BY DEF Versions
<1>2. NotFetching \in FetchState /\ ~NotFetching.on /\ ~NotFetching.read
  BY <1>1 DEF NotFetching, FetchState, Nothing
<1>3. /\ [NotFetching EXCEPT !.on = TRUE] \in FetchState
      /\ [NotFetching EXCEPT !.on = TRUE].on /\ ~[NotFetching EXCEPT !.on = TRUE].read
  BY <1>1 DEF NotFetching, FetchState, Nothing
<1>4. NoMutation \in MutationState /\ NoMutation.pc = "idle"
  BY <1>1 DEF NoMutation, MutationState, UnderWay, Nothing
<1> QED
  BY <1>2, <1>3, <1>4

LEMMA QueryInitInv == QueryInit => QueryIInv
<1> SUFFICES ASSUME QueryInit PROVE QueryIInv
  OBVIOUS
<1>1. QueryTypeOK
  <2>1. rowsOf \in [Tables -> Nat] /\ own \in [Tables -> Nat]
    BY DEF QueryInit
  <2>2. filters \in [screen.queries -> Filter]
    BY DEF QueryInit, Filter
  <2>3. data \in [Keys -> Versions]
    BY DEF QueryInit, Versions
  <2>4. \A k \in Keys : [NotFetching EXCEPT !.on = (k[2] = 1)] \in FetchState
    BY NothingUnderWay DEF FetchState
  <2>5. fetching \in [Keys -> FetchState]
    BY <2>4 DEF QueryInit
  <2> QED
    BY <2>1, <2>2, <2>3, <2>5, NothingUnderWay DEF QueryInit, QueryTypeOK
<1>2. ASSUME NEW k \in Keys PROVE KeyFits(k) /\ ~fetching[k].read /\ data[k] = Nothing
  BY DEF QueryInit, KeyFits, NotFetching
<1>3. MutationFits
  BY DEF QueryInit, MutationFits, NoMutation
<1>4. MountedAreNew
  BY <1>2 DEF MountedAreNew, AsNew, Mounted
<1> QED
  BY <1>1, <1>2, <1>3, <1>4 DEF QueryIInv

-----------------------------------------------------------------------------
(***************************************************************************)
(* Fetches.                                                                *)
(***************************************************************************)
\* Some queries are fetched: they fit, and are owed nothing.
LEMMA BegunFits ==
  ASSUME QueryIInv, NEW keys, fetching' = Begun(keys), UNCHANGED <<screen, data>>
  PROVE  /\ fetching' \in [Keys -> FetchState]
         /\ \A k \in Keys : KeyFits(k)'
         /\ \A k \in Keys : k \notin keys => fetching'[k] = fetching[k]
         /\ \A k \in Keys : k \in keys => fetching'[k].on /\ ~fetching'[k].read
<1>1. \A k \in Keys : fetching[k] \in FetchState /\ KeyFits(k)
  BY DEF QueryIInv, QueryTypeOK
<1>2. /\ \A k \in Keys : k \notin keys => fetching'[k] = fetching[k]
      /\ \A k \in Keys : k \in keys => fetching'[k].on /\ ~fetching'[k].read
  BY NothingUnderWay DEF Begun
<1>3. fetching' \in [Keys -> FetchState]
  BY <1>1, NothingUnderWay DEF Begun
<1>4. ASSUME NEW k \in Keys PROVE KeyFits(k)'
  <2>1. CASE k \in keys
    BY <1>1, <1>2, <2>1 DEF KeyFits
  <2>2. CASE k \notin keys
    BY <1>1, <1>2, <2>2 DEF KeyFits
  <2> QED
    BY <2>1, <2>2
<1> QED
  BY <1>2, <1>3, <1>4

LEMMA FocusStep == ASSUME QueryIInv, Focus PROVE QueryIInv'
<1> DEFINE idle == {k \in Mounted : ~fetching[k].on}
<1>0. /\ fetching' = Begun(idle) /\ failed' = failed \ idle /\ early' = early \ idle
      /\ UNCHANGED <<screen, rowsOf, filters, data, mutation, own>>
  BY DEF Focus
<1>k. Keys' = Keys /\ Mounted' = Mounted
  BY <1>0 DEF Keys, Mounted
<1>b. /\ fetching' \in [Keys -> FetchState]
      /\ \A k \in Keys : KeyFits(k)'
      /\ \A k \in Keys : k \notin idle => fetching'[k] = fetching[k]
      /\ \A k \in Keys : k \in idle => fetching'[k].on /\ ~fetching'[k].read
  BY <1>0, BegunFits
<1>1. QueryTypeOK'
  BY <1>0, <1>k, <1>b DEF QueryIInv, QueryTypeOK, MutationState, UnderWay
<1>2. MutationFits'
  BY <1>0 DEF QueryIInv, MutationFits
<1>3. ASSUME NEW k \in Mounted, k \notin (failed \union early)', NEW t \in k[1].reads
      PROVE  Owed(k, t)' \/ AsNew(k, t)'
  <2>k. k \in Keys
    BY DEF Mounted
  <2>1. CASE k \in idle
    BY <1>b, <2>k, <2>1 DEF AsNew
  <2>2. CASE k \notin idle
    <3>1. Owed(k, t) \/ AsNew(k, t)
      BY <1>0, <1>3, <2>2 DEF QueryIInv, MountedAreNew
    <3> QED
      BY <1>0, <1>b, <2>k, <2>2, <3>1 DEF AsNew, Owed, Pending
  <2> QED
    BY <2>1, <2>2
<1> QED
  BY <1>k, <1>b, <1>1, <1>2, <1>3 DEF QueryIInv, MountedAreNew

LEMMA SetFilterStep ==
  ASSUME QueryIInv, NEW q \in screen.queries, NEW f \in Filter, SetFilter(q, f)
  PROVE  QueryIInv'
<1> DEFINE k0 == <<q, f>>
<1>0. /\ q.filtered /\ filters' = [filters EXCEPT ![q] = f]
      /\ UNCHANGED <<screen, rowsOf, data, mutation, own>>
      /\ \/ /\ fetching[k0].on
            /\ fetching' = fetching /\ early' = early \union {k0} /\ failed' = failed
         \/ fetching' = Begun({k0}) /\ early' = early \ {k0} /\ failed' = failed \ {k0}
  BY DEF SetFilter
<1>k. Keys' = Keys
  BY <1>0 DEF Keys
<1>f. /\ filters' \in [screen.queries -> Filter]
      /\ \A k \in Mounted' : k # k0 => k \in Mounted
  <2>1. filters \in [screen.queries -> Filter]
    BY DEF QueryIInv, QueryTypeOK
  <2>2. filters' \in [screen.queries -> Filter]
    BY <1>0, <2>1
  <2>3. ASSUME NEW k \in Mounted', k # k0 PROVE k \in Mounted
    <3>1. k \in Keys /\ filters'[k[1]] = k[2]
      BY <1>k, <2>3 DEF Mounted
    <3>2. k[1] # q
      BY <1>0, <2>1, <2>3, <3>1, KeyIsPair
    <3> QED
      BY <1>0, <2>1, <3>1, <3>2, KeyIsPair DEF Mounted
  <2> QED
    BY <2>2, <2>3
<1>b. /\ fetching' \in [Keys -> FetchState]
      /\ \A k \in Keys : KeyFits(k)'
      /\ \A k \in Keys : k # k0 => fetching'[k] = fetching[k]
      /\ \A k \in Keys : k = k0 => k \in early' \/ (fetching'[k].on /\ ~fetching'[k].read)
  <2>1. CASE fetching' = fetching /\ early' = early \union {k0}
    BY <1>0, <2>1 DEF QueryIInv, QueryTypeOK, KeyFits
  <2>2. CASE fetching' = Begun({k0})
    BY <1>0, <2>2, BegunFits
  <2> QED
    BY <1>0, <2>1, <2>2
<1>1. QueryTypeOK'
  BY <1>0, <1>k, <1>b, <1>f DEF QueryIInv, QueryTypeOK, MutationState, UnderWay
<1>2. MutationFits'
  BY <1>0 DEF QueryIInv, MutationFits
<1>3. ASSUME NEW k \in Mounted', k \notin (failed \union early)', NEW t \in k[1].reads
      PROVE  Owed(k, t)' \/ AsNew(k, t)'
  <2>k. k \in Keys
    BY <1>k DEF Mounted
  <2>1. CASE k = k0
    BY <1>3, <1>b, <2>k, <2>1 DEF AsNew
  <2>2. CASE k # k0
    <3>1. k \notin failed \union early
      BY <1>0, <1>3, <2>2
    <3>2. Owed(k, t) \/ AsNew(k, t)
      BY <1>f, <1>3, <2>2, <3>1 DEF QueryIInv, MountedAreNew
    <3> QED
      BY <1>0, <1>b, <2>k, <2>2, <3>2 DEF AsNew, Owed, Pending
  <2> QED
    BY <2>1, <2>2
<1> QED
  BY <1>k, <1>b, <1>1, <1>2, <1>3 DEF QueryIInv, MountedAreNew

\* The fetch of one query goes on or ends.
LEMMA OneFetch ==
  ASSUME QueryIInv, NEW k0 \in Keys, NEW h \in FetchState, NEW d \in Versions,
         fetching' = [fetching EXCEPT ![k0] = h], data' = [data EXCEPT ![k0] = d],
         failed \subseteq failed', UNCHANGED <<screen, rowsOf, filters, mutation, own, early>>,
         d # Nothing => d \in [k0[1].reads -> Nat],
         h.read => h.on /\ h.got \in [k0[1].reads -> Nat],
         k0 \in failed' \/ \A t \in k0[1].reads :
                             AsNew(k0, t) => /\ h.read => h.got[t] >= own[t]
                                             /\ ~h.on /\ d # Nothing => d[t] >= own[t]
  PROVE  QueryIInv'
<1>k. Keys' = Keys /\ Mounted' = Mounted
  BY DEF Keys, Mounted
<1>t. fetching \in [Keys -> FetchState] /\ data \in [Keys -> Versions]
  BY DEF QueryIInv, QueryTypeOK
<1>0. /\ fetching' \in [Keys -> FetchState] /\ data' \in [Keys -> Versions]
      /\ fetching'[k0] = h /\ data'[k0] = d
      /\ \A k \in Keys : k # k0 => fetching'[k] = fetching[k] /\ data'[k] = data[k]
  BY <1>t
<1>1. QueryTypeOK'
  BY <1>0, <1>k DEF QueryIInv, QueryTypeOK, MutationState, UnderWay
<1>2. MutationFits'
  BY DEF QueryIInv, MutationFits
<1>3. ASSUME NEW k \in Keys PROVE KeyFits(k)'
  <2>1. CASE k = k0
    BY <1>0, <2>1 DEF KeyFits
  <2>2. CASE k # k0
    BY <1>0, <2>2 DEF KeyFits, QueryIInv
  <2> QED
    BY <2>1, <2>2
<1>4. ASSUME NEW k \in Mounted, k \notin (failed \union early)', NEW t \in k[1].reads
      PROVE  Owed(k, t)' \/ AsNew(k, t)'
  <2>k. k \in Keys
    BY DEF Mounted
  <2>1. Owed(k, t) \/ AsNew(k, t)
    BY <1>4 DEF QueryIInv, MountedAreNew
  <2>2. Owed(k, t)' = Owed(k, t)
    BY DEF Owed, Pending
  <2>3. CASE AsNew(k, t)
    <3>1. CASE k = k0
      BY <1>0, <1>4, <2>3, <3>1 DEF AsNew
    <3>2. CASE k # k0
      BY <1>0, <2>k, <2>3, <3>2 DEF AsNew
    <3> QED
      BY <3>1, <3>2
  <2> QED
    BY <2>1, <2>2, <2>3
<1> QED
  BY <1>k, <1>1, <1>2, <1>3, <1>4 DEF QueryIInv, MountedAreNew

LEMMA FetchStep ==
  ASSUME QueryIInv, NEW k0 \in Keys, ReadTables(k0) \/ Fetched(k0) \/ FetchLost(k0)
  PROVE  QueryIInv'
<1>t. /\ fetching \in [Keys -> FetchState] /\ data \in [Keys -> Versions]
      /\ fetching[k0] \in FetchState /\ data[k0] \in Versions /\ KeyFits(k0)
      /\ rowsOf \in [Tables -> Nat] /\ own \in [Tables -> Nat]
      /\ \A t \in Tables : own[t] <= rowsOf[t]
  BY DEF QueryIInv, QueryTypeOK, MutationFits
<1>r. k0[1].reads \in SUBSET Tables /\ [k0[1].reads -> Nat] \subseteq Versions
  BY KeyIsPair, ReadsAreTables DEF QueryIInv, QueryTypeOK
<1>s. data' = data => data' = [data EXCEPT ![k0] = data[k0]]
  BY <1>t
<1>1. CASE ReadTables(k0)
  <2>1. PICK g : g = [t \in k0[1].reads |-> rowsOf[t]]
    OBVIOUS
  <2>2. g \in [k0[1].reads -> Nat] /\ g \in Versions /\ \A t \in k0[1].reads : g[t] >= own[t]
    BY <1>r, <1>t, <2>1
  <2>3. PICK h : h = [fetching[k0] EXCEPT !.read = TRUE, !.got = g]
    OBVIOUS
  <2>4. h \in FetchState /\ h.read /\ h.got = g /\ h.on
    BY <1>1, <1>t, <2>2, <2>3 DEF FetchState, ReadTables
  <2>5. fetching' = [fetching EXCEPT ![k0] = h]
    BY <1>1, <2>1, <2>3 DEF ReadTables
  <2>6. /\ data' = [data EXCEPT ![k0] = data[k0]] /\ failed \subseteq failed'
        /\ UNCHANGED <<screen, rowsOf, filters, mutation, own, early>>
    BY <1>1, <1>s DEF ReadTables
  <2>7. /\ data[k0] # Nothing => data[k0] \in [k0[1].reads -> Nat]
        /\ \A t \in k0[1].reads : h.got[t] >= own[t]
    BY <1>t, <2>2, <2>4 DEF KeyFits
  <2>8. h.got \in [k0[1].reads -> Nat]
    BY <2>2, <2>4
  <2> QED
    BY <1>t, <2>4, <2>5, <2>6, <2>7, <2>8, OneFetch
<1>2. CASE Fetched(k0)
  <2>1. PICK d : d = fetching[k0].got
    OBVIOUS
  <2>2. d \in [k0[1].reads -> Nat] /\ d \in Versions
    BY <1>2, <1>r, <1>t, <2>1 DEF KeyFits, Fetched
  <2>3. \A t \in k0[1].reads : AsNew(k0, t) => d[t] >= own[t]
    BY <1>2, <2>1 DEF AsNew, Fetched
  <2>4. fetching' = [fetching EXCEPT ![k0] = NotFetching] /\ data' = [data EXCEPT ![k0] = d]
    BY <1>2, <2>1 DEF Fetched
  <2>5. failed \subseteq failed' /\ UNCHANGED <<screen, rowsOf, filters, mutation, own, early>>
    BY <1>2 DEF Fetched
  <2> QED
    BY <2>2, <2>3, <2>4, <2>5, NothingUnderWay, OneFetch
<1>3. CASE FetchLost(k0)
  BY <1>3, <1>s, <1>t, NothingUnderWay, OneFetch DEF FetchLost, KeyFits
<1> QED
  BY <1>1, <1>2, <1>3

LEMMA OthersWriteStep == ASSUME QueryIInv, NEW t0 \in Tables, OthersWrite(t0) PROVE QueryIInv'
<1>k. Keys' = Keys /\ Mounted' = Mounted
  BY DEF OthersWrite, Keys, Mounted
<1>0. rowsOf' \in [Tables -> Nat] /\ \A t \in Tables : rowsOf[t] <= rowsOf'[t]
  BY DEF OthersWrite, QueryIInv, QueryTypeOK
<1>1. QueryTypeOK'
  BY <1>0, <1>k DEF OthersWrite, QueryIInv, QueryTypeOK, MutationState, UnderWay
<1>2. MutationFits'
  <2>1. \A t \in Tables : own[t] \in Nat /\ rowsOf[t] \in Nat /\ rowsOf'[t] \in Nat
    BY <1>0 DEF QueryIInv, QueryTypeOK
  <2>2. mutation.pc = "landed" => mutation.of.changes \subseteq Tables
    BY ScreensFit DEF ScreenFits, QueryIInv, QueryTypeOK, MutationFits
  <2>3. ASSUME mutation.pc = "landed", NEW t \in mutation.of.changes PROVE mutation.at[t] <= rowsOf'[t]
    BY <1>0, <2>1, <2>2, <2>3 DEF QueryIInv, MutationFits
  <2>4. ASSUME NEW t \in Tables PROVE own[t] <= rowsOf'[t]
    BY <1>0, <2>1 DEF QueryIInv, MutationFits
  <2> QED
    BY <2>3, <2>4 DEF OthersWrite, QueryIInv, MutationFits
<1>3. \A k \in Keys : KeyFits(k)'
  BY DEF OthersWrite, QueryIInv, KeyFits
<1>4. MountedAreNew'
  BY <1>k DEF OthersWrite, QueryIInv, MountedAreNew, AsNew, Owed, Pending
<1> QED
  BY <1>k, <1>1, <1>2, <1>3, <1>4 DEF QueryIInv

-----------------------------------------------------------------------------
(***************************************************************************)
(* Mutations.                                                              *)
(***************************************************************************)
\* The mutation goes on while queries stay as they are: what was owed still is, or was
\* brought up to date.
LEMMA MutationMoves ==
  ASSUME QueryIInv, NEW h \in MutationState, mutation' = h,
         UNCHANGED <<screen, filters, data, fetching, early, failed>>,
         rowsOf' \in [Tables -> Nat], own' \in [Tables -> Nat], MutationFits',
         \A k \in Mounted : \A t \in k[1].reads :
           Owed(k, t) \/ AsNew(k, t) => Owed(k, t)' \/ AsNew(k, t)'
  PROVE  QueryIInv'
<1>k. Keys' = Keys /\ Mounted' = Mounted
  BY DEF Keys, Mounted
<1>1. QueryTypeOK'
  <2>1. MutationState' = MutationState
    BY DEF MutationState, UnderWay
  <2> QED
    BY <1>k, <2>1 DEF QueryIInv, QueryTypeOK
<1>2. \A k \in Keys : KeyFits(k)'
  BY DEF QueryIInv, KeyFits
<1>3. MountedAreNew'
  BY <1>k DEF QueryIInv, MountedAreNew
<1> QED
  BY <1>k, <1>1, <1>2, <1>3 DEF QueryIInv

LEMMA MutateStep == ASSUME QueryIInv, NEW m \in screen.mutations, Mutate(m) PROVE QueryIInv'
<1>1. mutation' = [pc |-> "sent", of |-> m, at |-> Nothing, left |-> m.invalidates]
  BY DEF Mutate
<1>2. m.invalidates \in Seq(SUBSET Families) /\ m.changes \subseteq Tables
  BY ScreensFit DEF ScreenFits, QueryIInv, QueryTypeOK
<1>3. mutation' \in MutationState
  BY <1>1, <1>2 DEF MutationState, UnderWay, Versions
<1>4. MutationFits'
  BY <1>1 DEF Mutate, MutationFits, QueryIInv
<1>5. ASSUME NEW k \in Mounted, NEW t \in k[1].reads, Owed(k, t) \/ AsNew(k, t)
      PROVE  AsNew(k, t)'
  BY <1>5 DEF Mutate, Owed, Pending, AsNew
<1> QED
  BY <1>1, <1>3, <1>4, <1>5, MutationMoves DEF Mutate, QueryIInv, QueryTypeOK

LEMMA MutationType ==
  ASSUME QueryIInv
  PROVE  /\ mutation \in MutationState /\ MutationFits
         /\ rowsOf \in [Tables -> Nat] /\ own \in [Tables -> Nat]
         /\ mutation.pc # "idle" =>
              /\ mutation.of \in screen.mutations /\ mutation.of.changes \subseteq Tables
              /\ \A q \in screen.queries : Covers(mutation.of, q)
BY ScreensFit DEF ScreenFits, QueryIInv, QueryTypeOK, MutationFits

LEMMA LandStep == ASSUME QueryIInv, Land PROVE QueryIInv'
<1>1. rowsOf' \in [Tables -> Nat] /\ \A t \in Tables : rowsOf'[t] >= rowsOf[t]
  BY MutationType DEF Land
<1>2. PICK a : a = [t \in mutation.of.changes |-> rowsOf'[t]]
  OBVIOUS
<1>3. a \in [mutation.of.changes -> Nat] /\ a \in Versions
  BY <1>1, <1>2, MutationType DEF Land, Versions
<1>4. PICK h : h = [mutation EXCEPT !.pc = "landed", !.at = a]
  OBVIOUS
<1>5. /\ h \in MutationState /\ h.pc = "landed" /\ h.at = a /\ h.of = mutation.of
      /\ h.left = mutation.left
  BY <1>3, <1>4, MutationType DEF MutationState
<1>6. mutation' = h
  BY <1>2, <1>4 DEF Land
<1>7. MutationFits'
  <2>1. ASSUME NEW t \in Tables PROVE own[t] <= rowsOf'[t]
    BY <1>1, MutationType DEF MutationFits
  <2>2. ASSUME NEW t \in mutation.of.changes PROVE a[t] <= rowsOf'[t]
    BY <1>1, <1>2, MutationType DEF Land
  <2> QED
    BY <1>3, <1>5, <1>6, <2>1, <2>2, MutationType DEF Land, MutationFits
<1>8. ASSUME NEW k \in Mounted, NEW t \in k[1].reads, Owed(k, t) \/ AsNew(k, t)
      PROVE  AsNew(k, t)'
  BY <1>8 DEF Land, Owed, Pending, AsNew
<1> QED
  BY <1>1, <1>5, <1>6, <1>7, <1>8, MutationType, MutationMoves DEF Land

LEMMA MutationLostStep == ASSUME QueryIInv, MutationLost PROVE QueryIInv'
<1>1. MutationFits'
  BY MutationType DEF MutationLost, MutationFits, NoMutation
<1>2. ASSUME NEW k \in Mounted, NEW t \in k[1].reads, Owed(k, t) \/ AsNew(k, t)
      PROVE  AsNew(k, t)'
  BY <1>2 DEF MutationLost, Owed, Pending, AsNew
<1> QED
  BY <1>1, <1>2, NothingUnderWay, MutationType, MutationMoves DEF MutationLost

\* The change becomes one's own: what reads it is owed a fetch.
LEMMA AnsweredStep == ASSUME QueryIInv, Answered PROVE QueryIInv'
<1>1. own' \in [Tables -> Nat] /\ \A t \in Tables : own'[t] <= rowsOf[t]
  BY MutationType DEF Answered, MutationFits
<1>2. PICK h : h = [mutation EXCEPT !.pc = "invalidating"]
  OBVIOUS
<1>3. /\ h \in MutationState /\ h.pc = "invalidating" /\ h.of = mutation.of
      /\ h.left = mutation.left
  BY <1>2, MutationType DEF MutationState
<1>4. mutation' = h
  BY <1>2 DEF Answered
<1>5. MutationFits'
  BY <1>1, <1>3, <1>4, MutationType DEF Answered, MutationFits
<1>6. ASSUME NEW k \in Mounted, NEW t \in k[1].reads, Owed(k, t) \/ AsNew(k, t)
      PROVE  Owed(k, t)' \/ AsNew(k, t)'
  <2>1. k[1] \in screen.queries /\ t \in Tables
    BY KeyIsPair, ReadsAreTables DEF Mounted, QueryIInv, QueryTypeOK
  <2>2. CASE t \in mutation.of.changes
    <3>1. \E i \in 1..Len(mutation.of.invalidates) : k[1].family \in mutation.of.invalidates[i]
      BY <2>1, <2>2, MutationType DEF Answered, Covers
    <3>2. Pending(k[1].family)'
      BY <1>3, <1>4, <3>1, MutationType DEF Answered, MutationFits, Pending
    <3> QED
      BY <1>3, <1>4, <2>2, <3>2 DEF Owed
  <2>3. CASE t \notin mutation.of.changes
    BY <1>6, <2>1, <2>3 DEF Answered, Owed, AsNew
  <2> QED
    BY <2>2, <2>3
<1> QED
  BY <1>1, <1>3, <1>4, <1>5, <1>6, MutationType, MutationMoves DEF Answered

\* The rest of a sequence, element by element.
LEMMA TailShifts ==
  ASSUME NEW S, NEW s \in Seq(S), s # <<>>
  PROVE  /\ Tail(s) \in Seq(S) /\ Head(s) = s[1] /\ Len(s) \in Nat /\ Len(s) >= 1
         /\ Len(Tail(s)) = Len(s) - 1
         /\ \A i \in 1..Len(s) : i > 1 => i - 1 \in 1..Len(Tail(s)) /\ Tail(s)[i - 1] = s[i]
OBVIOUS

\* The families of this step are those whose queries have been begun.
LEMMA AwaitedStep == ASSUME QueryIInv, Awaited PROVE QueryIInv'
<1>0. mutation.pc = "awaiting" /\ mutation.left \in Seq(SUBSET Families) /\ mutation.left # <<>>
  BY MutationType DEF Awaited, MutationFits, MutationState
<1>1. PICK h : h = [mutation EXCEPT !.pc = "invalidating", !.left = Tail(@)]
  OBVIOUS
<1>2. /\ h \in MutationState /\ h.pc = "invalidating" /\ h.of = mutation.of
      /\ h.left = Tail(mutation.left)
  BY <1>0, <1>1, MutationType, TailShifts DEF MutationState
<1>3. mutation' = h
  BY <1>1 DEF Awaited
<1>4. MutationFits'
  BY <1>2, <1>3, <1>0, MutationType DEF Awaited, MutationFits
<1>5. ASSUME NEW family, Pending(family) PROVE Pending(family)'
  <2>1. PICK i \in 1..Len(mutation.left) : i > 1 /\ family \in mutation.left[i]
    BY <1>0, <1>5 DEF Pending
  <2>2. i - 1 \in 1..Len(Tail(mutation.left)) /\ Tail(mutation.left)[i - 1] = mutation.left[i]
    BY <1>0, <2>1, TailShifts
  <2> QED
    BY <1>2, <1>3, <2>1, <2>2 DEF Pending
<1>6. ASSUME NEW k \in Mounted, NEW t \in k[1].reads, Owed(k, t) \/ AsNew(k, t)
      PROVE  Owed(k, t)' \/ AsNew(k, t)'
  <2>1. CASE Owed(k, t)
    BY <1>2, <1>3, <1>5, <2>1 DEF Owed, Awaited
  <2>2. CASE AsNew(k, t)
    BY <2>2 DEF AsNew, Awaited
  <2> QED
    BY <1>6, <2>1, <2>2
<1> QED
  BY <1>2, <1>3, <1>4, <1>6, MutationType, MutationMoves DEF Awaited

LEMMA FinishedStep == ASSUME QueryIInv, Finished PROVE QueryIInv'
<1>1. MutationFits'
  BY MutationType DEF Finished, MutationFits, NoMutation
<1>2. ASSUME NEW family PROVE ~Pending(family)
  BY DEF Finished, Pending
<1>3. ASSUME NEW k \in Mounted, NEW t \in k[1].reads, Owed(k, t) \/ AsNew(k, t)
      PROVE  AsNew(k, t)'
  BY <1>2, <1>3 DEF Finished, Owed, AsNew
<1> QED
  BY <1>1, <1>3, NothingUnderWay, MutationType, MutationMoves DEF Finished

\* Every mounted query of the step's families is fetched again, or joined an older fetch.
LEMMA InvalidateStep == ASSUME QueryIInv, Invalidate PROVE QueryIInv'
<1> DEFINE keys == {k \in Mounted : k[1].family \in Head(mutation.left)}
           joined == {k \in keys : fetching[k].on /\ data[k] = Nothing}
<1>0. /\ mutation.pc = "invalidating" /\ mutation.left # <<>>
      /\ mutation' = [mutation EXCEPT !.pc = "awaiting"]
      /\ fetching' = Begun(keys \ joined)
      /\ early' = (early \ keys) \union joined
      /\ failed' = failed \ (keys \ joined)
      /\ UNCHANGED <<screen, rowsOf, filters, data, own>>
  BY DEF Invalidate
<1>k. Keys' = Keys /\ Mounted' = Mounted
  BY <1>0 DEF Keys, Mounted
<1>b. /\ fetching' \in [Keys -> FetchState]
      /\ \A k \in Keys : KeyFits(k)'
      /\ \A k \in Keys : k \notin keys \ joined => fetching'[k] = fetching[k]
      /\ \A k \in Keys : k \in keys \ joined => fetching'[k].on /\ ~fetching'[k].read
  BY <1>0, BegunFits
<1>m. /\ mutation' \in MutationState /\ mutation'.pc = "awaiting" /\ mutation'.of = mutation.of
      /\ mutation'.left = mutation.left /\ mutation.left \in Seq(SUBSET Families)
  BY <1>0, MutationType DEF MutationState
<1>1. QueryTypeOK'
  <2>1. MutationState' = MutationState
    BY <1>0 DEF MutationState, UnderWay
  <2> QED
    BY <1>0, <1>k, <1>b, <1>m, <2>1 DEF QueryIInv, QueryTypeOK
<1>2. MutationFits'
  BY <1>0, <1>m, MutationType DEF MutationFits
<1>3. ASSUME NEW k \in Mounted, k \notin (failed \union early)', NEW t \in k[1].reads
      PROVE  Owed(k, t)' \/ AsNew(k, t)'
  <2>k. k \in Keys
    BY DEF Mounted
  <2>1. CASE k \in keys
    <3>1. k \in keys \ joined
      BY <1>0, <1>3, <2>1
    <3> QED
      BY <1>b, <2>k, <3>1 DEF AsNew
  <2>2. CASE k \notin keys
    <3>1. Owed(k, t) \/ AsNew(k, t)
      BY <1>0, <1>3, <2>2 DEF QueryIInv, MountedAreNew
    <3>2. Pending(k[1].family) => Pending(k[1].family)'
      BY <1>0, <1>m, <2>2, TailShifts DEF Pending
    <3>3. fetching'[k] = fetching[k]
      BY <1>b, <2>k, <2>2
    <3> QED
      BY <1>0, <1>m, <3>1, <3>2, <3>3 DEF AsNew, Owed
  <2> QED
    BY <2>1, <2>2
<1> QED
  BY <1>k, <1>b, <1>1, <1>2, <1>3 DEF QueryIInv, MountedAreNew

\* The inductive invariant of QueryCache.
THEOREM QueryInductive == QuerySpec => []QueryIInv
<1>1. QueryIInv /\ [QueryNext]_queryVars => QueryIInv'
  <2> SUFFICES ASSUME QueryIInv, [QueryNext]_queryVars PROVE QueryIInv'
    OBVIOUS
  <2>1. CASE FetchNext
    BY <2>1, FocusStep, SetFilterStep, FetchStep, OthersWriteStep DEF FetchNext
  <2>2. CASE MutationNext
    BY <2>2, MutateStep, LandStep, MutationLostStep, AnsweredStep, InvalidateStep, AwaitedStep,
       FinishedStep DEF MutationNext
  <2>3. CASE UNCHANGED queryVars
    BY <2>3 DEF queryVars, QueryIInv, QueryTypeOK, MutationState, UnderWay, Keys, Mounted, KeyFits,
                MutationFits, MountedAreNew, Owed, Pending, AsNew
  <2> QED
    BY <2>1, <2>2, <2>3 DEF QueryNext
<1> QED
  BY QueryInitInv, <1>1, PTL DEF QuerySpec

\* When nothing is under way, the queries of every screen display what the user did with
\* its mutations, unless their last fetch failed or began before the change.
THEOREM QueryOwnChangeShown == QuerySpec => []OwnChangeShown
<1>1. QueryIInv => OwnChangeShown
  BY DEF QueryIInv, MountedAreNew, Owed, Pending, AsNew, OwnChangeShown
<1> QED
  BY QueryInductive, <1>1, PTL

-------------------------------------------------------------------------------
(***************************************************************************)
(* WebSession, for every set of tabs, people and pages opened by address:  *)
(* a header displays the session of the cookie, unless another tab changed *)
(* it or a request failed.                                                 *)
(***************************************************************************)

TabState == [page : Page \union {None, "error"}, goal : Page \union {None},
             document : BOOLEAN, root : Person \union {Nobody, Stale},
             invalid : BOOLEAN, asking : BOOLEAN,
             then : {None, "invalidate", "dashboard", "refresh", "reload"},
             outrun : BOOLEAN, failed : BOOLEAN]

LinkState == [who : Person, to : {"/", "/accept-invitation"}]

\* WebTypeOK, and the types of what it leaves out.
WebShape ==
  /\ onboarded \subseteq account /\ account \subseteq Person
  /\ cookie \in account \union {Nobody}
  /\ links \subseteq LinkState
  /\ snapshot \in BOOLEAN
  /\ tab \in [Tab -> TabState]

\* A tab asks for the payment on its way to a page.  One without a page has loaded
\* no session; one with a page has loaded the session of the cookie, unless it is to
\* load it again, or another tab has changed the cookie since, or a request failed.
LoadedIsOwn(t) ==
  /\ tab[t].asking => Going(t)
  /\ tab[t].page = None => tab[t].root = Stale
  /\ (tab[t].root # Stale /\ ~tab[t].invalid /\ tab[t].then # "invalidate"
        /\ ~tab[t].outrun /\ ~tab[t].failed) => tab[t].root = cookie

WebIInv == WebShape /\ \A t \in Tab : LoadedIsOwn(t)

\* The pages that the steps name.
LEMMA NamedPages ==
  /\ {"/", "/login", "/signup", "/dashboard", "/onboarding", "/admin/overview", "/account",
      "/emails", "/emails/$emailId", "/accept-invitation"} \subseteq Page
  /\ None \notin Page /\ "error" \notin Page
BY DEF Page, ProtectedPages, AdminPages, OpenPages, Details, DetailParent, None

\* The guards send a tab to a page.
LEMMA GuardedIsPage ==
  ASSUME NEW t \in Tab, tab[t].goal \in Page, NEW session
  PROVE  Guarded(t, session) \in Page
<1> DEFINE goal == tab[t].goal
<1>1. \/ goal \in {"/login", "/signup"} \/ Under("_protected", goal) \/ Under("/admin", goal)
      \/ goal = "/admin" \/ goal = "/onboarding" \/ goal = "/payment/success"
      \/ goal = "/setup" \/ goal \in {"/", "/accept-invitation"}
  <2>1. CASE goal \in ProtectedPages
    BY <2>1 DEF Under, ParentOf, Details, DetailParent, ProtectedPages
  <2>2. CASE goal \in AdminPages
    BY <2>2 DEF Under, ParentOf, Details, DetailParent, ProtectedPages, AdminPages
  <2>3. CASE goal \in Details
    BY <2>3 DEF Under, ParentOf, Details, DetailParent, ProtectedPages, AdminPages
  <2>4. CASE goal \in OpenPages \union {"/admin"}
    BY <2>4 DEF OpenPages
  <2> QED
    BY <2>1, <2>2, <2>3, <2>4 DEF Page
<1>2. /\ ProtectedGuard(t, session) \in Page
      /\ AdminGuard(t, session) \in Page
      /\ OnboardingGuard(session) \in Page
  BY NamedPages DEF ProtectedGuard, AdminGuard, OnboardingGuard
<1> QED
  BY <1>1, <1>2, NamedPages DEF Guarded

LEMMA WebInitInv == WebInit => WebIInv
<1> SUFFICES ASSUME WebInit PROVE WebIInv
  OBVIOUS
<1>1. Blank \in TabState /\ Blank.page = None /\ Blank.root = Stale /\ ~Blank.asking
  BY DEF Blank, TabState
<1> QED
  BY <1>1, WebAssumption DEF WebInit, WebIInv, WebShape, LoadedIsOwn, Going

\* A document is a tab that has loaded nothing.
LEMMA DocumentIsTab ==
  ASSUME NEW t, NEW page \in Page
  PROVE  /\ Document(t, page) \in TabState
         /\ Document(t, page).page = None /\ Document(t, page).root = Stale
         /\ ~Document(t, page).asking
BY DEF Document, Blank, TabState

\* One tab goes from one state to another, the cookie stays.
LEMMA TabMoves ==
  ASSUME WebIInv, NEW t \in Tab, NEW h \in TabState,
         tab' = [tab EXCEPT ![t] = h], cookie' = cookie,
         h.asking => h.goal # None,
         h.page = None => h.root = Stale,
         (h.root # Stale /\ ~h.invalid /\ h.then # "invalidate" /\ ~h.outrun /\ ~h.failed)
           => h.root = cookie
  PROVE  tab' \in [Tab -> TabState] /\ \A u \in Tab : LoadedIsOwn(u)'
<1>1. tab' \in [Tab -> TabState]
  BY DEF WebIInv, WebShape
<1>2. ASSUME NEW u \in Tab PROVE LoadedIsOwn(u)'
  <2>1. CASE u = t
    BY <2>1 DEF LoadedIsOwn, Going, WebIInv, WebShape
  <2>2. CASE u # t
    BY <2>2 DEF LoadedIsOwn, Going, WebIInv, WebShape
  <2> QED
    BY <2>1, <2>2
<1> QED
  BY <1>1, <1>2

\* Only the page a tab is at or goes to, and how, changes: what it has loaded is as
\* much its own as before.
LEMMA TabTravels ==
  ASSUME WebIInv, NEW t \in Tab, NEW h \in TabState,
         tab' = [tab EXCEPT ![t] = h], cookie' = cookie,
         h.asking => h.goal # None,
         h.page # None \/ h.page = tab[t].page,
         h.root = tab[t].root, h.outrun = tab[t].outrun, h.failed = tab[t].failed,
         h.invalid \/ h.invalid = tab[t].invalid,
         h.invalid \/ tab[t].then \in {h.then, "dashboard"}
  PROVE  tab' \in [Tab -> TabState] /\ \A u \in Tab : LoadedIsOwn(u)'
<1>1. LoadedIsOwn(t)
  BY DEF WebIInv
<1>2. h.page = None => h.root = Stale
  BY <1>1 DEF LoadedIsOwn, Going
<1>3. (h.root # Stale /\ ~h.invalid /\ h.then # "invalidate" /\ ~h.outrun /\ ~h.failed)
           => h.root = cookie
  BY <1>1 DEF LoadedIsOwn, Going
<1> QED
  BY <1>2, <1>3, TabMoves

\* The cookie changes in a tab t: its own session is loaded again, and the others have
\* been outrun.
LEMMA CookieChanges ==
  ASSUME WebIInv, NEW t \in Tab, NEW h \in TabState,
         tab' = Outrun(t, [tab EXCEPT ![t] = h]),
         h.asking => h.goal # None,
         h.page = None => h.root = Stale,
         h.root = Stale \/ h.then = "invalidate"
  PROVE  tab' \in [Tab -> TabState] /\ \A u \in Tab : LoadedIsOwn(u)'
<1> DEFINE tabs == [tab EXCEPT ![t] = h]
<1>1. /\ tabs \in [Tab -> TabState] /\ tabs[t] = h
      /\ \A u \in Tab : u # t => tabs[u] = tab[u]
  BY DEF WebIInv, WebShape
<1>2. \A u \in Tab : tab'[u] = [tabs[u] EXCEPT !.outrun = @ \/ (u # t /\ tabs[u].page # None)]
  BY DEF Outrun
<1> HIDE DEF tabs
<1>3. tab' \in [Tab -> TabState]
  <2>1. \A g \in TabState : \A b \in BOOLEAN : [g EXCEPT !.outrun = b] \in TabState
    BY DEF TabState
  <2>2. ASSUME NEW u \in Tab
        PROVE  [tabs[u] EXCEPT !.outrun = @ \/ (u # t /\ tabs[u].page # None)] \in TabState
    <3>1. PICK b \in BOOLEAN : b = (tabs[u].outrun \/ (u # t /\ tabs[u].page # None))
      OBVIOUS
    <3>2. [tabs[u] EXCEPT !.outrun = b] \in TabState
      BY <1>1, <2>1
    <3> QED
      BY <3>1, <3>2
  <2> QED
    BY <2>2 DEF Outrun, tabs
<1>4. ASSUME NEW u \in Tab PROVE LoadedIsOwn(u)'
  <2>0. tabs[u] \in TabState
    BY <1>1
  <2>1. /\ tab'[u].page = tabs[u].page /\ tab'[u].root = tabs[u].root
        /\ tab'[u].then = tabs[u].then /\ tab'[u].goal = tabs[u].goal
        /\ tab'[u].asking = tabs[u].asking
        /\ u # t /\ tabs[u].page # None => tab'[u].outrun
    BY <2>0, <1>2 DEF TabState
  <2>2. CASE u = t
    BY <1>1, <2>1, <2>2 DEF LoadedIsOwn, Going
  <2>3. CASE u # t
    BY <1>1, <2>1, <2>3 DEF LoadedIsOwn, Going, WebIInv
  <2> QED
    BY <2>2, <2>3
<1> QED
  BY <1>3, <1>4

\* What a request for the session answers.
LEMMA AnswersAreOwn ==
  ASSUME WebIInv, NEW session \in Answers
  PROVE  /\ session.who \in Person \union {Nobody} /\ session.failed \in BOOLEAN
         /\ ~session.failed => session.who = cookie
<1>1. cookie \in Person \union {Nobody}
  BY DEF WebIInv, WebShape
<1>2. CASE session = [who |-> cookie, complete |-> snapshot, failed |-> FALSE]
  BY <1>1, <1>2
<1>3. CASE session = [who |-> Nobody, complete |-> FALSE, failed |-> TRUE]
  BY <1>3
<1> QED
  BY <1>2, <1>3 DEF Answers

LEMMA VisitStep ==
  ASSUME WebIInv, NEW t \in Tab, Visit(t)
  PROVE  WebIInv'
<1> USE DEF WebShape
<1>t. tab[t] \in TabState /\ LoadedIsOwn(t) /\ WebShape
  BY DEF WebIInv
<1>k. ASSUME UNCHANGED <<account, onboarded, links, cookie, snapshot>>,
             tab' \in [Tab -> TabState] /\ \A u \in Tab : LoadedIsOwn(u)'
      PROVE  WebIInv'
  BY <1>k DEF WebIInv
<1>d. ASSUME NEW page \in Page, tab' = [tab EXCEPT ![t] = Document(t, page)], cookie' = cookie
      PROVE  tab' \in [Tab -> TabState] /\ \A u \in Tab : LoadedIsOwn(u)'
  BY <1>d, DocumentIsTab, TabMoves
<1>1. ASSUME NEW page \in Typed, Open(t, page) PROVE WebIInv'
  BY <1>1, <1>d, <1>k, TypedAssumption DEF Open
<1>2. ASSUME NEW page \in LinksOf(t), Follow(t, page) PROVE WebIInv'
  <2>1. page \in Page
    BY <1>2, NamedPages DEF LinksOf
  <2> DEFINE h == [tab[t] EXCEPT !.goal = page, !.document = FALSE]
  <2>2. h \in TabState /\ h.goal # None
    BY <1>t, <2>1, NamedPages DEF TabState
  <2>3. /\ h.page = tab[t].page /\ h.root = tab[t].root /\ h.outrun = tab[t].outrun
        /\ h.failed = tab[t].failed /\ h.invalid = tab[t].invalid /\ h.then = tab[t].then
    BY <1>t DEF TabState
  <2>4. tab' = [tab EXCEPT ![t] = h] /\ cookie' = cookie
    BY <1>2 DEF Follow
  <2> HIDE DEF h
  <2>5. tab' \in [Tab -> TabState] /\ \A u \in Tab : LoadedIsOwn(u)'
    BY <2>2, <2>3, <2>4, TabTravels
  <2> QED
    BY <1>2, <1>k, <2>5 DEF Follow
<1>3. ASSUME NEW p \in Person, SendLink(t, p) PROVE WebIInv'
  <2>1. links' \subseteq LinkState
    BY <1>3, <1>t DEF SendLink, LinkState
  <2> QED
    BY <1>3, <2>1 DEF SendLink, WebIInv, LoadedIsOwn, Going
<1>4. ASSUME NEW l \in links, UseLink(t, l) PROVE WebIInv'
  <2>1. l.who \in Person /\ l.to \in Page
    BY <1>t, NamedPages DEF LinkState
  <2>2. tab' \in [Tab -> TabState] /\ \A u \in Tab : LoadedIsOwn(u)'
    BY <1>4, <2>1, DocumentIsTab, CookieChanges DEF UseLink
  <2>3. /\ onboarded' \subseteq account' /\ account' \subseteq Person
        /\ cookie' \in account' \union {Nobody}
        /\ links' \subseteq LinkState /\ snapshot' \in BOOLEAN
    BY <1>4, <1>t, <2>1 DEF UseLink
  <2> QED
    BY <2>2, <2>3 DEF WebIInv
<1>5. CASE SignOut(t)
  <2> DEFINE h == [tab[t] EXCEPT !.goal = "/", !.document = FALSE, !.then = "invalidate"]
  <2>1. h \in TabState /\ h.goal # None
    BY <1>t, NamedPages DEF TabState
  <2>2. h.page = tab[t].page /\ h.then = "invalidate" /\ h.page # None
    BY <1>5, <1>t DEF TabState, SignOut, AtRest
  <2>3. tab' = Outrun(t, [tab EXCEPT ![t] = h])
    BY <1>5 DEF SignOut
  <2> HIDE DEF h
  <2>4. tab' \in [Tab -> TabState] /\ \A u \in Tab : LoadedIsOwn(u)'
    BY <2>1, <2>2, <2>3, CookieChanges
  <2> QED
    BY <1>5, <1>t, <2>4 DEF SignOut, WebIInv
<1>6. CASE SignOutFails(t)
  BY <1>6, <1>d, <1>k, NamedPages DEF SignOutFails
<1>7. CASE CompleteOnboarding(t)
  <2> DEFINE h == [tab[t] EXCEPT !.goal = "/onboarding", !.document = FALSE, !.invalid = TRUE,
                                 !.then = "dashboard"]
  <2>1. h \in TabState /\ h.goal # None
    BY <1>t, NamedPages DEF TabState
  <2>2. /\ h.page = tab[t].page /\ h.root = tab[t].root /\ h.outrun = tab[t].outrun
        /\ h.failed = tab[t].failed /\ h.invalid
    BY <1>t DEF TabState
  <2>3. tab' = [tab EXCEPT ![t] = h] /\ cookie' = cookie
    BY <1>7 DEF CompleteOnboarding
  <2> HIDE DEF h
  <2>4. tab' \in [Tab -> TabState] /\ \A u \in Tab : LoadedIsOwn(u)'
    BY <2>1, <2>2, <2>3, TabTravels
  <2>5. onboarded' \subseteq account /\ snapshot' \in BOOLEAN
    BY <1>7, <1>t DEF CompleteOnboarding
  <2> QED
    BY <1>7, <1>t, <2>4, <2>5 DEF CompleteOnboarding, WebIInv
<1>8. CASE Accept(t)
  BY <1>8, <1>d, <1>k, NamedPages DEF Accept
<1> QED
  BY <1>1, <1>2, <1>3, <1>4, <1>5, <1>6, <1>7, <1>8 DEF Visit

LEMMA RouteStep ==
  ASSUME WebIInv, NEW t \in Tab, Route(t)
  PROVE  WebIInv'
<1>t. tab[t] \in TabState /\ LoadedIsOwn(t) /\ WebShape
  BY DEF WebIInv, WebShape
<1> SUFFICES tab' \in [Tab -> TabState] /\ \A u \in Tab : LoadedIsOwn(u)'
  BY DEF WebIInv, WebShape, Route, Guard, GetPayment, LoadRoot, GoOn
<1>c. cookie' = cookie
  BY DEF Route, Guard, GetPayment, LoadRoot, GoOn
<1>m. ASSUME NEW h \in TabState, tab' = [tab EXCEPT ![t] = h],
             h.asking => h.goal # None,
             h.page # None \/ h.page = tab[t].page,
             h.root = tab[t].root, h.outrun = tab[t].outrun, h.failed = tab[t].failed,
             h.invalid = tab[t].invalid, h.then = tab[t].then
      PROVE  tab' \in [Tab -> TabState] /\ \A u \in Tab : LoadedIsOwn(u)'
  BY <1>c, <1>m, TabTravels
<1>a. ASSUME NEW page \in Page \union {"error"}, tab' = Arrive(t, page)
      PROVE  tab' \in [Tab -> TabState] /\ \A u \in Tab : LoadedIsOwn(u)'
  <2> DEFINE h == [tab[t] EXCEPT !.goal = None, !.page = page, !.asking = FALSE]
  <2>1. h \in TabState /\ h.page # None /\ ~h.asking
    BY <1>t, NamedPages DEF TabState, None
  <2>2. /\ h.root = tab[t].root /\ h.outrun = tab[t].outrun
        /\ h.failed = tab[t].failed /\ h.invalid = tab[t].invalid /\ h.then = tab[t].then
    BY <1>t DEF TabState
  <2>3. tab' = [tab EXCEPT ![t] = h]
    BY <1>a DEF Arrive
  <2> HIDE DEF h
  <2> QED
    BY <2>1, <2>2, <2>3, <1>m
<1>1. CASE Guard(t)
  <2>g. tab[t].goal \in Page
    BY <1>1, <1>t DEF Guard, Going, TabState
  <2>1. PICK session \in Answers :
          LET to == Guarded(t, session)
          IN  tab' = CASE to # tab[t].goal -> [tab EXCEPT ![t].goal = to]
                       [] to = tab[t].goal /\ Enters(t) -> [tab EXCEPT ![t].asking = TRUE]
                       [] to = tab[t].goal /\ ~Enters(t) -> Arrive(t, to)
    BY <1>1 DEF Guard
  <2> DEFINE to == Guarded(t, session)
  <2>2. to \in Page
    BY <2>g, GuardedIsPage
  <2>3. CASE to # tab[t].goal
    <3> DEFINE h == [tab[t] EXCEPT !.goal = to]
    <3>1. h \in TabState /\ h.goal # None
      BY <1>t, <2>2, NamedPages DEF TabState
    <3>2. /\ h.page = tab[t].page /\ h.root = tab[t].root /\ h.outrun = tab[t].outrun
          /\ h.failed = tab[t].failed /\ h.invalid = tab[t].invalid /\ h.then = tab[t].then
      BY <1>t DEF TabState
    <3>3. tab' = [tab EXCEPT ![t] = h]
      BY <2>1, <2>3
    <3> HIDE DEF h
    <3> QED
      BY <3>1, <3>2, <3>3, <1>m
  <2>4. CASE to = tab[t].goal /\ Enters(t)
    <3> DEFINE h == [tab[t] EXCEPT !.asking = TRUE]
    <3>1. h \in TabState /\ h.goal # None
      BY <1>1, <1>t DEF TabState, Guard, Going
    <3>2. /\ h.page = tab[t].page /\ h.root = tab[t].root /\ h.outrun = tab[t].outrun
          /\ h.failed = tab[t].failed /\ h.invalid = tab[t].invalid /\ h.then = tab[t].then
      BY <1>t DEF TabState
    <3>3. tab' = [tab EXCEPT ![t] = h]
      BY <2>1, <2>4
    <3> HIDE DEF h
    <3> QED
      BY <3>1, <3>2, <3>3, <1>m
  <2>5. CASE to = tab[t].goal /\ ~Enters(t)
    <3>1. tab' = Arrive(t, to)
      BY <2>1, <2>5
    <3> QED
      BY <3>1, <2>2, <1>a
  <2> QED
    BY <2>3, <2>4, <2>5
<1>2. CASE GetPayment(t)
  <2>1. PICK page : page \in {"error", tab[t].goal} /\ tab' = Arrive(t, page)
    BY <1>2 DEF GetPayment
  <2>2. page \in Page \union {"error"}
    BY <1>2, <1>t, <2>1 DEF GetPayment, LoadedIsOwn, Going, TabState
  <2> QED
    BY <1>a, <2>1, <2>2
<1>3. CASE LoadRoot(t)
  <2>1. PICK session \in Answers :
          tab' = [tab EXCEPT ![t].root = session.who, ![t].invalid = FALSE,
                             ![t].outrun = FALSE, ![t].failed = session.failed]
    BY <1>3 DEF LoadRoot
  <2>2. PICK h : h = [tab[t] EXCEPT !.root = session.who, !.invalid = FALSE,
                             !.outrun = FALSE, !.failed = session.failed]
    OBVIOUS
  <2>3. h \in TabState /\ h.page = tab[t].page /\ h.root = session.who /\ h.failed = session.failed
        /\ (h.asking => h.goal # None)
    BY <1>t, <2>2, AnswersAreOwn DEF TabState, LoadedIsOwn, Going
  <2>4. tab' = [tab EXCEPT ![t] = h]
    BY <2>1, <2>2
  <2>5. h.page # None /\ (~h.failed => h.root = cookie)
    BY <1>3, <2>3, AnswersAreOwn DEF LoadRoot, Loading
  <2> QED
    BY <1>c, <2>3, <2>4, <2>5, TabMoves
<1>4. CASE GoOn(t)
  <2>1. CASE tab[t].then = "invalidate"
    <3>1. PICK h : h = [tab[t] EXCEPT !.invalid = TRUE, !.then = None]
      OBVIOUS
    <3>2. /\ h \in TabState /\ h.page = tab[t].page /\ h.root = tab[t].root
          /\ h.outrun = tab[t].outrun /\ h.failed = tab[t].failed /\ h.invalid
          /\ (h.asking => h.goal # None)
      BY <1>t, <3>1 DEF TabState, LoadedIsOwn, Going
    <3>3. tab' = [tab EXCEPT ![t] = h]
      BY <1>4, <2>1, <3>1 DEF GoOn
    <3> QED
      BY <1>c, <3>2, <3>3, TabTravels
  <2>2. CASE tab[t].then = "dashboard"
    <3>1. PICK h : h = [tab[t] EXCEPT !.goal = "/dashboard", !.document = FALSE, !.then = "refresh"]
      OBVIOUS
    <3>2. /\ h \in TabState /\ h.page = tab[t].page /\ h.root = tab[t].root
          /\ h.outrun = tab[t].outrun /\ h.failed = tab[t].failed /\ h.invalid = tab[t].invalid
          /\ h.goal # None
      BY <1>t, <3>1, NamedPages DEF TabState
    <3>3. tab' = [tab EXCEPT ![t] = h]
      BY <1>4, <2>2, <3>1 DEF GoOn
    <3> QED
      BY <1>c, <2>2, <3>2, <3>3, TabTravels
  <2>3. CASE tab[t].then = "reload"
    <3>1. tab' = [tab EXCEPT ![t] = Document(t, "/dashboard")]
      BY <1>4, <2>3 DEF GoOn
    <3> QED
      BY <1>c, <3>1, NamedPages, DocumentIsTab, TabMoves
  <2>4. CASE tab[t].then = "refresh"
    <3>1. PICK goal : goal = IF tab[t].page = "error" THEN "/dashboard" ELSE tab[t].page
      OBVIOUS
    <3>2. PICK h : h = [tab[t] EXCEPT !.goal = goal, !.document = FALSE, !.invalid = TRUE,
                                      !.then = "reload"]
      OBVIOUS
    <3>3. goal \in Page \union {None}
      BY <1>t, <3>1, NamedPages DEF TabState
    <3>4. /\ h \in TabState /\ h.page = tab[t].page /\ h.root = tab[t].root
          /\ h.outrun = tab[t].outrun /\ h.failed = tab[t].failed /\ h.invalid
          /\ h.asking = tab[t].asking /\ h.goal = goal
      BY <1>t, <3>2, <3>3 DEF TabState
    <3>5. ~h.asking
      BY <1>4, <1>t, <3>4 DEF GoOn, LoadedIsOwn, Going
    <3>6. tab' = [tab EXCEPT ![t] = h]
      BY <1>4, <2>4, <3>1, <3>2 DEF GoOn
    <3> QED
      BY <1>c, <3>4, <3>5, <3>6, TabTravels
  <2> QED
    BY <1>4, <1>t, <2>1, <2>2, <2>3, <2>4 DEF GoOn, TabState
<1> QED
  BY <1>1, <1>2, <1>3, <1>4 DEF Route

\* The inductive invariant of WebSession.
THEOREM WebInductive == WebSpec => []WebIInv
<1>1. WebIInv /\ [WebNext]_webVars => WebIInv'
  <2> SUFFICES ASSUME WebIInv, [WebNext]_webVars PROVE WebIInv'
    OBVIOUS
  <2>1. CASE WebNext
    BY <2>1, VisitStep, RouteStep DEF WebNext
  <2>2. CASE UNCHANGED webVars
    BY <2>2 DEF webVars, WebIInv, WebShape, LoadedIsOwn, Going
  <2> QED
    BY <2>1, <2>2
<1> QED
  BY WebInitInv, <1>1, PTL DEF WebSpec

\* Accounts, the cookie, and the page and session of each tab keep their types, whatever
\* the guards of the routes are answered.
THEOREM WebTypeCorrect == WebSpec => []WebTypeOK
<1>1. WebIInv => WebTypeOK
  BY DEF WebIInv, WebShape, WebTypeOK, TabState
<1> QED
  BY WebInductive, <1>1, PTL

\* A tab at rest displays the account that its requests are made for, unless another tab
\* has changed the cookie since its root was loaded or a session request failed.
THEOREM WebHeaderIsOwn == WebSpec => []HeaderIsOwn
<1>1. WebIInv => HeaderIsOwn
  BY DEF WebIInv, LoadedIsOwn, HeaderIsOwn, AtRest, Loading, None
<1> QED
  BY WebInductive, <1>1, PTL
===============================================================================
