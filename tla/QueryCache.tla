------------------------------ MODULE QueryCache ------------------------------
(***************************************************************************)
(* The screens of the dashboard as queries and mutations: a screen mounts  *)
(* queries, which its filters may change; a mutation writes rows, and then *)
(* invalidates the families of queries that its screen names - some one    *)
(* after the other, waiting for each to be fetched again, others at once.  *)
(*                                                                         *)
(* External: TanStack Query, with the defaults of the QueryClient the      *)
(* dashboard makes.  A query is fetched when it is mounted and when the    *)
(* window is looked at, and by being invalidated; an invalidation replaces *)
(* a fetch under way, but joins the first one of a query; the data of a    *)
(* query stays when it is no longer mounted and when a fetch fails.        *)
(***************************************************************************)
EXTENDS Integers, Sequences, FiniteSets

CONSTANTS
  MaxActs,       \* bound: mutations, changes of others, filters set and looks at the window
  MaxLost        \* bound: requests that fail

ASSUME QueryAssumption == {MaxActs, MaxLost} \subseteq Nat

VARIABLES
  screen,      \* which screen is displayed
  rowsOf,      \* version of the rows of each table
  filters,     \* the filter that each family of the screen is asked with
  data,        \* what queries hold: versions of the tables they read
  fetching,    \* fetches under way, with what they have read
  mutation,    \* the mutation under way, and the families to invalidate yet
  own,         \* history: version of each table as of the last mutation that succeeded
  early,       \* history: queries whose invalidation joined a fetch
  failed,      \* history: queries whose last fetch failed
  acts, lost   \* bounds

queryVars == <<screen, rowsOf, filters, data, fetching, mutation, own, early, failed, acts,
               lost>>

-----------------------------------------------------------------------------
(***************************************************************************)
(* The tables that the endpoints read.                                     *)
(***************************************************************************)
ListDomains == {"domain"}
GetDomain == {"domain"}
ListApiKeys == {"key"}
ListMailboxes == {"mailbox", "domain"}
ListInboundEmails == {"inbound"}
GetInboundEmail == {"inbound"}
ListAdminDomains == {"domain"}
ListAdminMailboxes == {"mailbox"}
GetAllFeedback == {"feedback"}
ListUsers == {"assignment"}
ListInvitations == {"invitation"}
\* Roles are listed with the number of their users, whom a deletion reassigns.
ListRoles == {"role", "assignment"}

(***************************************************************************)
(* The screens.  A query: its family, the tables its endpoint reads, and   *)
(* whether it has filters.  A mutation: the tables it writes, and the      *)
(* families it invalidates, in steps, each awaited if it awaits.           *)
(***************************************************************************)
Query(family, reads, filtered) == [family |-> family, reads |-> reads, filtered |-> filtered]
Mutation(changes, invalidates) ==
  [changes |-> changes, invalidates |-> invalidates, awaits |-> TRUE]
Unawaited(changes, families) ==
  [changes |-> changes, invalidates |-> <<families>>, awaits |-> FALSE]

CreateDomain == Mutation({"domain"}, <<{"mail-domains"}>>)
VerifyDomain == Mutation({"domain"}, <<{"mail-domains"}>>)
DomainsScreen ==
  [queries |-> {Query("mail-domains", ListDomains, FALSE)},
   mutations |-> {CreateDomain, VerifyDomain}]

VerifyOne == Mutation({"domain"}, <<{"mail-domain"}>>)
DomainScreen ==
  [queries |-> {Query("mail-domain", GetDomain, FALSE)}, mutations |-> {VerifyOne}]

CreateMailbox == Mutation({"mailbox"}, <<{"mail-mailboxes"}>>)
SyncMailbox == Mutation({"mailbox", "inbound"}, <<{"mail-mailboxes"}, {"mail-inbox"}>>)
MailboxesScreen ==
  [queries |-> {Query("mail-domains", ListDomains, FALSE),
                Query("mail-mailboxes", ListMailboxes, FALSE)},
   mutations |-> {CreateMailbox, SyncMailbox}]

CreateKey == Mutation({"key"}, <<{"mail-api-keys"}>>)
RevokeKey == Mutation({"key"}, <<{"mail-api-keys"}>>)
ApiKeysScreen ==
  [queries |-> {Query("mail-api-keys", ListApiKeys, FALSE)}, mutations |-> {CreateKey, RevokeKey}]

\* Mutant: the list of another screen is invalidated.
FileMessageElsewhere == Mutation({"inbound"}, <<{"mail-emails"}>>)

FileMessage == Mutation({"inbound"}, <<{"mail-inbox"}>>)
InboxScreen ==
  [queries |-> {Query("mail-inbox", ListInboundEmails, TRUE)}, mutations |-> {FileMessage}]

\* A reply is stored among the emails, which its screen does not read.
ReplyToMessage == Mutation({"email"}, <<>>)
MessageScreen ==
  [queries |-> {Query("mail-inbound-email", GetInboundEmail, FALSE)},
   mutations |-> {ReplyToMessage}]

ManageDomain == Mutation({"domain"}, <<{"admin-mail-domains"}, {"admin-mail-overview"}>>)
AdminDomainsScreen ==
  [queries |-> {Query("admin-mail-domains", ListAdminDomains, TRUE)}, mutations |-> {ManageDomain}]

ManageMailbox ==
  Mutation({"mailbox", "inbound"}, <<{"admin-mail-mailboxes"}, {"admin-mail-overview"}>>)
AdminMailboxesScreen ==
  [queries |-> {Query("admin-mail-mailboxes", ListAdminMailboxes, TRUE)},
   mutations |-> {ManageMailbox}]

\* The page that is displayed when the answer arrives is the one invalidated.
SetFeedbackStatus == Unawaited({"feedback"}, {"admin-feedback"})
FeedbackScreen ==
  [queries |-> {Query("admin-feedback", GetAllFeedback, TRUE)},
   mutations |-> {SetFeedbackStatus}]

InviteUser == Unawaited({"invitation"}, {"admin-users", "admin-invitations"})
GiveRole == Unawaited({"assignment"}, {"admin-users"})
UsersScreen ==
  [queries |-> {Query("admin-users", ListUsers, TRUE),
                Query("admin-invitations", ListInvitations, TRUE)},
   mutations |-> {InviteUser, GiveRole}]

AddRole == Unawaited({"role"}, {"admin-roles"})
DeleteRole == Unawaited({"role", "assignment"}, {"admin-roles"})
RolesScreen ==
  [queries |-> {Query("admin-roles", ListRoles, FALSE)},
   mutations |-> {AddRole, DeleteRole}]

Screens ==
  {DomainsScreen, DomainScreen, MailboxesScreen, ApiKeysScreen, InboxScreen, MessageScreen,
   AdminDomainsScreen, AdminMailboxesScreen, FeedbackScreen, UsersScreen, RolesScreen}

-----------------------------------------------------------------------------
Tables == {"domain", "mailbox", "key", "inbound", "email", "feedback", "invitation",
           "assignment", "role"}
Filter == {1, 2}
Keys == {k \in screen.queries \X Filter : k[1].filtered \/ k[2] = 1}
Mounted == {k \in Keys : filters[k[1]] = k[2]}

NotFetching == [on |-> FALSE, read |-> FALSE, got |-> <<>>]
NoMutation == [pc |-> "idle", of |-> Mutation({}, <<>>), at |-> <<>>, left |-> <<>>]
Nothing == <<>>

QueryInit ==
  /\ screen \in Screens
  /\ rowsOf = [t \in Tables |-> 0]
  /\ filters = [q \in screen.queries |-> 1]
  /\ data = [k \in Keys |-> Nothing]
  /\ fetching = [k \in Keys |-> [NotFetching EXCEPT !.on = (k[2] = 1)]]
  /\ mutation = NoMutation
  /\ own = rowsOf
  /\ early = {} /\ failed = {}
  /\ acts = 0 /\ lost = 0

-----------------------------------------------------------------------------
(***************************************************************************)
(* Fetches.                                                                *)
(***************************************************************************)
Begun(keys) ==
  [k \in Keys |-> IF k \in keys THEN [NotFetching EXCEPT !.on = TRUE] ELSE fetching[k]]

\* The window is looked at.
Focus ==
  /\ acts < MaxActs
  /\ acts' = acts + 1
  /\ LET idle == {k \in Mounted : ~fetching[k].on}
     IN  /\ idle # {}
         /\ fetching' = Begun(idle)
         /\ failed' = failed \ idle /\ early' = early \ idle
  /\ UNCHANGED <<screen, rowsOf, filters, data, mutation, own, lost>>

\* A filter is set, or a page turned: another query of the family is mounted.
SetFilter(q, f) ==
  /\ q.filtered /\ filters[q] # f /\ acts < MaxActs
  /\ acts' = acts + 1
  /\ filters' = [filters EXCEPT ![q] = f]
  /\ LET k == <<q, f>>
     IN  IF fetching[k].on
         THEN fetching' = fetching /\ early' = early \union {k} /\ failed' = failed
         ELSE fetching' = Begun({k}) /\ early' = early \ {k} /\ failed' = failed \ {k}
  /\ UNCHANGED <<screen, rowsOf, data, mutation, own, lost>>

ReadTables(k) ==
  /\ fetching[k].on /\ ~fetching[k].read
  /\ fetching' = [fetching EXCEPT ![k].read = TRUE,
                                  ![k].got = [t \in k[1].reads |-> rowsOf[t]]]
  /\ UNCHANGED <<screen, rowsOf, filters, data, mutation, own, early, failed, acts, lost>>

Fetched(k) ==
  /\ fetching[k].read
  /\ data' = [data EXCEPT ![k] = fetching[k].got]
  /\ fetching' = [fetching EXCEPT ![k] = NotFetching]
  /\ UNCHANGED <<screen, rowsOf, filters, mutation, own, early, failed, acts, lost>>

\* After its retries.
FetchLost(k) ==
  /\ fetching[k].on /\ lost < MaxLost
  /\ lost' = lost + 1
  /\ fetching' = [fetching EXCEPT ![k] = NotFetching]
  /\ failed' = failed \union {k}
  /\ UNCHANGED <<screen, rowsOf, filters, data, mutation, own, early, acts>>

-----------------------------------------------------------------------------
(***************************************************************************)
(* Mutations.                                                              *)
(***************************************************************************)
Mutate(m) ==
  /\ mutation.pc = "idle" /\ acts < MaxActs
  /\ acts' = acts + 1
  /\ mutation' = [pc |-> "sent", of |-> m, at |-> Nothing, left |-> m.invalidates]
  /\ UNCHANGED <<screen, rowsOf, filters, data, fetching, own, early, failed, lost>>

Land ==
  /\ mutation.pc = "sent"
  /\ rowsOf' = [t \in Tables |-> rowsOf[t] + (IF t \in mutation.of.changes THEN 1 ELSE 0)]
  /\ mutation' = [mutation EXCEPT !.pc = "landed",
                    !.at = [t \in mutation.of.changes |-> rowsOf'[t]]]
  /\ UNCHANGED <<screen, filters, data, fetching, own, early, failed, acts, lost>>

\* onError: a message, whether the change was made or not.
MutationLost ==
  /\ mutation.pc \in {"sent", "landed"} /\ lost < MaxLost
  /\ lost' = lost + 1
  /\ mutation' = NoMutation
  /\ UNCHANGED <<screen, rowsOf, filters, data, fetching, own, early, failed, acts>>

Answered ==
  /\ mutation.pc = "landed"
  /\ own' = [t \in Tables |-> IF t \in mutation.of.changes THEN mutation.at[t] ELSE own[t]]
  /\ mutation' = [mutation EXCEPT !.pc = "invalidating"]
  /\ UNCHANGED <<screen, rowsOf, filters, data, fetching, early, failed, acts, lost>>

\* onSuccess, one step: those mounted are fetched again.
Invalidate ==
  /\ mutation.pc = "invalidating" /\ mutation.left # <<>>
  /\ LET keys == {k \in Mounted : k[1].family \in Head(mutation.left)}
         joined == {k \in keys : fetching[k].on /\ data[k] = Nothing}
     IN  /\ fetching' = Begun(keys \ joined)
         /\ early' = (early \ keys) \union joined
         /\ failed' = failed \ (keys \ joined)
  /\ mutation' = [mutation EXCEPT !.pc = "awaiting"]
  /\ UNCHANGED <<screen, rowsOf, filters, data, own, acts, lost>>

\* The next step, when the queries of this one have been fetched.
Awaited ==
  /\ mutation.pc = "awaiting"
  /\ mutation.of.awaits =>
       \A k \in Mounted : k[1].family \in Head(mutation.left) => ~fetching[k].on
  /\ mutation' = [mutation EXCEPT !.pc = "invalidating", !.left = Tail(@)]
  /\ UNCHANGED <<screen, rowsOf, filters, data, fetching, own, early, failed, acts, lost>>

Finished ==
  /\ mutation.pc = "invalidating" /\ mutation.left = <<>>
  /\ mutation' = NoMutation
  /\ UNCHANGED <<screen, rowsOf, filters, data, fetching, own, early, failed, acts, lost>>

OthersWrite(t) ==
  /\ acts < MaxActs
  /\ \E q \in screen.queries : t \in q.reads
  /\ acts' = acts + 1
  /\ rowsOf' = [rowsOf EXCEPT ![t] = @ + 1]
  /\ UNCHANGED <<screen, filters, data, fetching, mutation, own, early, failed, lost>>

-----------------------------------------------------------------------------
FetchNext ==
  \/ Focus
  \/ \E q \in screen.queries, f \in Filter : SetFilter(q, f)
  \/ \E k \in Keys : ReadTables(k) \/ Fetched(k) \/ FetchLost(k)
  \/ \E t \in Tables : OthersWrite(t)

MutationNext ==
  \/ \E m \in screen.mutations : Mutate(m)
  \/ Land \/ MutationLost \/ Answered \/ Invalidate \/ Awaited \/ Finished

QueryNext == FetchNext \/ MutationNext

QuerySpec == QueryInit /\ [][QueryNext]_queryVars

-----------------------------------------------------------------------------
(***************************************************************************)
(* Properties.                                                             *)
(***************************************************************************)

\* When nothing is under way, the screen displays what the user did: each query
\* that is mounted and reads a table that a mutation of the screen has changed is
\* as new as that change, although filters were set, fetches overlapped and the
\* window was looked at in between - unless the query's last fetch failed, or
\* was one from before that the invalidation or the filter joined.
OwnChangeShown ==
  mutation.pc = "idle" =>
    \A k \in Mounted :
      (~fetching[k].on /\ data[k] # Nothing /\ k \notin failed \union early)
        => \A t \in k[1].reads : data[k][t] >= own[t]
=============================================================================
