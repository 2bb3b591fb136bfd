# Mail Kit: specifications, model checks and proofs

TLA+ modules that model the stateful parts of Mail Kit (`apps/server`,
`apps/web`, `packages/db`), TLC configurations that check them on small
instances, and TLAPS proofs that hold for every instance.  Paths below are
relative to the repository root; `mail.service.ts` stands for
`apps/server/src/modules/mail/mail.service.ts`.

Run `tlc -config DomainRaces.cfg MCDomainLifecycle.tla` (and so on, see the
table of runs) to check, `tlapm DomainLifecycleProofs.tla` (and the other
`...Proofs` modules, see section 5) to prove.

## 1. Inventory

The system is one Bun/Elysia server process (several may run), PostgreSQL
through Prisma, Redis, and four external parties: the public DNS, the mail
engine (Mailu's admin API), an SMTP server and an IMAP server.  Handlers are
`async` functions: inside one process they interleave at every `await`, between
processes anywhere.  Apart from explicit `$transaction`s every database
statement is on its own.

| Component | State | Operations | Correct when |
|---|---|---|---|
| **Domain lifecycle** (`mail.service.ts`, `mail-engine.service.ts`) | `domain` rows (status, verificationStatus, sendingEnabled, suspendedAt, engineStatus), `dns_record` rows | createDomain, verifyDomain (user, admin), suspendDomain, unsuspendDomain, provisionDomainForAdmin, deleteDomain | the sending gate never contradicts itself, opens only for names whose DNS was published; deleted rows stay deleted; one row per user and name |
| **Outbound mail and API keys** (`mail.service.ts`, `packages/email`) | `api_key`, `email_message`, `email_log` rows, Redis counters `mail:send:<key>:<minute>` | createApiKey, revokeApiKey, sendWithApiKey, replyToInboundEmail (session, API key), the send limiter | nothing is sent through a closed gate, a foreign domain or a revoked key; a message is handed over once; the row tells what happened; the limit holds under concurrency |
| **Inbound mail** (`mail.service.ts`) | `mailbox_address`, `inbound_email` rows, the IMAP inboxes | createMailbox, disableMailbox, enableMailbox, syncMailbox, the sync worker, updateInboundEmail | no message lost behind `lastUid`, none filed again, disabled mailboxes quiet, every mailbox eventually synced |
| **RBAC sessions and cache** (`packages/db/src/rbac`) | role assignments, overrides, role permissions, Redis caches of effective permissions | getUserSessionRbac, assignRole, overrides, syncRolePermissions, the invalidations | a revoked permission is not served from a cache filled by a slow reader; a user has one role |
| **Role administration** (`admin/roles`) | roles, their permissions | updateRolePermissions, resetRole, deleteRole with reassignment | no user ends without a role; cache and table agree |
| **Users, owner bootstrap, invitations** | users, invitations, ownership | setup of the first owner, ban/delete/demote, invite, accept | at most one owner is bootstrapped; the last owner is never removed; an invitation gives its role once |
| **Polar webhooks** (`modules/polar`) | `webhook_event` rows | claim, handle, complete, fail, stale takeover | an event has its effect once, and its final status is that of the claim that is current |
| **Visitor buffer** (`modules/visitors`) | Redis buffers, dirty set, `visitor` rows | bufferVisit, flush worker | every buffered visit is flushed once |
| **HTTP rate limits** (`modules/rate-limit`) | settings row, settings cache, windows | consume, update settings | updates take effect; the first requests of a fresh system pass |
| **Redis client** (`packages/redis`) | the connection | connectRedis | a lost connection is replaced |
| **Visitor reports** (`admin/visitors`) | none: reads `visitor_session`, `visitor_identity` | cards, chart and list of the overview | the three, computed apart, count the same visitors |
| **Lists** (mail, users, invitations, activity, webhooks, feedback, visitors) | none: each page is two reads | count, cut, clamp, read; the pagers of the dashboard | walking through a list misses no row that stayed; nobody is stranded behind its end |
| **Feedback and notifications** (`modules/feedback`, `modules/notifications`) | `feedback`, `notification` rows, one web socket per page | submitFeedback, the messages of the socket | every administrator hears of feedback; what was marked read is shown read |
| **Sessions of the browser** (`apps/web` routes, middleware, `packages/auth`) | the session cookie, the session each tab has loaded | magic links, guards, sign-out, onboarding, invitations | a header shows whose requests the tab makes; no redirect loop; a page that is navigated to is displayed |
| **Screens** (`apps/web` features) | TanStack Query's cache, forms | fetch, mutate, invalidate; the role dialog, the role page, the limits page | the user's own change is displayed; a save changes what was ticked and nothing else |
| Secrets, DTOs, headers, client IP | none | pure functions | - |
| Landing pages, `components/ui`, charts | none | layout | - |

How they interact:

- Outbound mail reads the `domain` row (its gate, owner and name) that the
  domain lifecycle writes; deleting a domain detaches its messages
  (`SetNull`).  `MailSend` therefore composes with `DomainLifecycle`.
- Inbound mail hangs on domains only through the cascade of `deleteDomain`;
  `InboundSync` carries the set of existing domains instead of the gate, which
  no sync operation reads.  A reply reads the `inbound_email` row and the gate:
  it is in `MailSend`.
- User administration and accepting an invitation assign roles through
  `assignUserRole`, which the RBAC modules also have: `RbacCache` models what it
  does to the cache, `OwnerAccounts` the owner rules around it and the rows.
- Every guarded handler gets the permissions of its actor from the RBAC cache;
  the modules of the handlers take them as they are when the handler begins.
- The API shares Redis between the send limiter, the RBAC caches, the visitor
  buffer and the HTTP limiter; they use disjoint keys, so these components do not
  meet and are modelled apart.
- The dashboard meets the server only through the HTTP API and the notification
  socket.  Its modules have the server's tables as variables that others change
  at any time, and the reads and writes of the endpoints as steps; what the
  endpoints do to the tables in detail is in the server's modules.

What is hard to test: handlers that write a row from values read before an
`await` (`unsuspendDomain`, `syncMailbox`); overlapping verifications and
syncs; rows that disappear under a handler; answers of SMTP and of the engine
that are lost after the other side has acted; a crash between a call and the
write that records it; several processes running the sync worker on one
mailbox; a worker batch smaller than the number of mailboxes; caches (of
permissions, of limiter settings) filled by a reader that was overtaken by the
change and its invalidation; checks of "is there an owner", "is the target an
owner", "is the role unused" that are statements apart from the write they guard;
a webhook handler that is taken over and then finishes after all; a buffer that
is read, merged and written back while a flush renames it; pages of a list read by
two queries while rows come, go and move; fetches of the dashboard that are
overtaken by a change, joined, replaced or lost; a form that is filled again
while it is edited; two tabs with one cookie.  `PROJECT.json` lists
each with its line under `hazards`.

## 2. Modules

| Module | Models |
|---|---|
| `DomainLifecycle` | domain rows, DNS records, the domain handlers; DNS and Mailu external |
| `MailSend` | extends `DomainLifecycle` with keys, the limiter, sends and replies, message rows; SMTP external |
| `InboundSync` | mailbox rows, inbound rows, syncs from requests and from the worker; IMAP external |
| `RbacCache` | roles, assignments, overrides and the cached effective permissions; getUserSessionRbac against everything that changes what it computes |
| `OwnerAccounts` | accounts, platform roles, owner setup, user administration, invitations |
| `PolarWebhook` | claims, takeovers and outcomes of webhook events; Polar external |
| `VisitorBuffer` | the Redis buffers of visits, the dirty set, the flush worker, identities and counts |
| `RateLimit` | HTTP limiter windows, the settings row and its cache in each process |
| `VisitorReports` | visits over days: buffers persisted in any order, sessions, the cleanup, and what the admin overview computes of them |
| `PagedLists` | the thirteen paged lists and their pagers, against tables that change |
| `WebSession` | the tabs of a browser: route tree, guards, navigation, sign-in and sign-out |
| `QueryCache` | eleven screens as queries and mutations with what they invalidate |
| `RoleEditor` | the three forms that save a whole set which others may change too |
| `Notifications` | feedback, the loop over the administrators, the notification socket and the bell |
| `Outbox` | abstract: what sending promises of each message; `MailSend` implements it |
| `EventLog` | abstract: what the table of webhook events promises; `PolarWebhook` implements it |
| `MailArchive` | abstract: what receiving mail promises; `InboundSync` implements it |
| `DomainLifecycleProofs`, `MailSendProofs`, `OwnerAccountsProofs` | inductive invariants and theorems of the module of that name |
| `IncomingProofs` | those of `InboundSync` and `PolarWebhook` |
| `RequestGatesProofs` | those of `RateLimit` and `RbacCache` |
| `VisitorAnalyticsProofs` | those of `VisitorBuffer` and `VisitorReports` |
| `DashboardProofs` | those of `RoleEditor`, `Notifications` and `PagedLists` |
| `BrowserProofs` | those of `QueryCache` and `WebSession` |
| `MC...` | small instances for TLC |
| `MCRequestGates`, `MCVisitorAnalytics`, `MCDashboard`, `MCEventually` | several components in one instance |

The last four put components that share no variable into one instance: a constant
variable `component` says which of them moves, the others stay in one initial
state.  This is no interleaving of the components, which would show nothing, as
no action of one reads a variable of another: it is several explorations in one
run.  Where the components have actors of the same kind (`MCRequestGates`,
`MCVisitorAnalytics`), they are instantiated with sets that one group of
permutations serves.

### How the modules follow the code

Each HTTP handler is a *request* with a program counter and the local variables
that live across its awaits; one action is the code between two awaits,
together with the statement it awaits (a database statement is atomic).  Early
returns that change nothing (404, 403, 429 before a write) either disable the
start of the handler or end it.  Operators called "Mutant" sit beside the
definition they vary; no action uses them.  They are the plausible slips that
each property is shown to notice.

**DomainLifecycle.**  `domain[d]` is the row with key `d` and its `dns_record`
rows; keys are used once (`unused`, `live`, `deleted`).  `request[r]` is a
handler: `verifyDomain` is `BeginVerify`, `ResolveDns` (the three lookups),
`ProvisionEngine`, `WriteRecord` once per record in any order (the
`Promise.all`), `RecordsWritten`, `FinishVerify`; a record whose update throws
ends the handler (`RecordThrows`), while the updates of the others go on by themselves
(`stray`); `createDomain` is
`BeginCreate`, `ProvisionEngine`, `FinishCreate` (engine first, row second, as
in the code); `unsuspendDomain` is `BeginUnsuspend` (the read, whose
`verificationStatus` is kept in `seen`) and `FinishUnsuspend`;
`suspendDomain` and `deleteDomain` are one statement.  `AbortRequest` is a
thrown database error or the death of the process, at any await.
`published[n]` is a history of the DNS: the required records the owner of `n`
has ever put up.  A lookup may find any subset of them, so records that
disappear or do not resolve are covered, and the properties say *were
published*.  `mailu` is the set of names the engine knows; the answer of a call
that reached it may be lost.  Left out: the dkim record (always `pending`),
timestamps beyond "is it set", error texts, engine ids.

**MailSend.**  `sendWithApiKey` is `BeginSend` (authenticate), `PassRateLimit`
(the atomic `INCR`), `LookUpSender` (the checks of lines 833-849 in their
order), `CreateEmail`, `HandToSmtp`, `MarkSent`/`MarkFailed`; a reply is
`BeginReply`/`BeginReplyWithApiKey`, `LookUpInbound` and then the same steps.
`MarkSent` may throw with or without having committed, into the same `catch` as
the SMTP call, as in the code.  `email[e].log` holds the kinds of the
`email_log` rows in order.  `NextMinute` starts a new limiter bucket; `admitted`
is a history variable that counts what the limiter let through in it.  The domain
handlers run beside the sends (`DomainSide`).  Left out: recipients and bodies,
the `lastUsedAt` stamp, listings and dashboards that only read, the answer the
caller gets.
`Contract` instantiates `Outbox`: a message is in hand of the send that inserted
it, until that send records an outcome.  `OutboxKept` is its specification;
where no fault is possible (`Careful`), in the strict form in which every message
gets its outcome from its handler.

**InboundSync.**  `synced` and `fresh` are the order `ORDER BY lastSyncAt ASC`
gives: rows with a time, the oldest first, then, as PostgreSQL sorts null
last, the rows without one.  A handler is a request or a worker run; a run's
`queue` is the batch it read once.  `syncMailbox` is `StartMailbox` (the second
read and its refusals), `Fetch`, `ImportNext` once per message, `CloseImap`,
`FinishSync` or `FailSync`.  `Listed` has the IMAP rule that `n:*` names the last
message when `n` is beyond it.  UIDs are assumed ascending and FETCH answers
in their order.  Left out: message contents, ties of `lastSyncAt`, the engine
status of a mailbox (nothing reads it), the uniqueness of addresses beyond "the
insert may be refused", a change of UIDVALIDITY (the code does not know it).
`Archive` instantiates `MailArchive`: of a handler it sees the mailbox and the
cursor while it reads a mailbox, of a mailbox its state and its stored cursor; worker
batches, refusals and the order of mailboxes are stutters.  `ArchiveKept` is its
specification: messages get their rows in order, without a gap and once each, a row
changes afterwards only by `File`, nothing is written for a mailbox that does not
exist.  That a stored cursor may go back, when of two syncs the older reports last,
is part of what is promised: it is what the code does.

**RbacCache.**  A reader is `BeginRead` (the cache hit ends at once),
`LoadSnapshot`, `Store`.  A `prisma.$transaction` runs at READ COMMITTED and is
two steps: `...Delete` remembers in `seen` the rows its `deleteMany` saw,
`...Commit` deletes those and inserts; another transaction that commits in
between has deleted them first.  `updateRolePermissions` and `resetRole` (whose
delete and create run outside a transaction) then take the list of holders
(`TakeUsers`) and invalidate them in turn.  `deleteRole` moves the users of a list
read before, one by one, and deletes the row, which cascades.  `Entry.late` is a
history flag on a cached payload: the invalidation that should have removed it
came before it was stored, or was lost.  Left out: the cached permissions of a
single role and the catalog version, which no path to a session reads; the
rules about owners, which are in `OwnerAccounts`.

**OwnerAccounts.**  `user[u]` is the row with its role rows.  A task is a handler,
the sign-up hook or the `make-owner` script.  Owner setup is `BeginSetup` (the
controller's check), `CheckVacancy`, `CheckEmail`, `CreateOwner` and the
assignment; `banUser`, `archiveUser` and `deleteUserPermanent` are `BeginDisable`
(the policy on the role that was read) and `Disable`; accepting an invitation is
`BeginAccept`, `Accept` (the transaction) and the assignment.  `sole` remembers
whether the role read was "owner" alone, `grants` counts the roles an
invitation gave, `cut` holds the invitations whose acceptance died.  Left out:
mails, sessions and the activity log.

**PolarWebhook.**  A delivery is `Post` (up to the insert that claims the
event), `Find` and `Reclaim` where the row exists, `HandlerThrows` or
`HandlerReturns`, and the outcome.  The handler itself only logs in the code, so
it is a call that returns or throws.  `lapsed` holds the events that have failed
or been overdue, `disturbed` those whose deliveries overlapped, died or could
not write their outcome.  Polar (external) sends again until it is answered with
a 2xx status.  A duplicate that arrives while the first delivery is processing is
answered with success: if the first then dies, nothing retries the event; this
is why `FailedIsRetried` excepts the disturbed ones.
`Log` instantiates `EventLog` with the calls, outcomes and lapses of the
deliveries; `EventLogKept` is its specification.

**VisitorBuffer.**  A visit is `Track`, `GetBuffer`, `SetBuffer`, `ListKey`; a
flush is `BeginFlush` (the batch), and for each key `Rename`, `FindOfUser` and
`FindOfCookie` (the two lookups of an identity, each a step), `WriteIdentity`, `CountSession`, `Delete`, `Unlist`, `CheckExists`, `Relist`, with
`Requeue` where it fails.  A buffered visit is the set of visits merged into it,
so that losing, keeping and counting are told apart.  The histories name how a
visit can go wrong: `gone` (overwritten or expired), `revived` (written back),
`unsure` (counted by a flush that then failed), `stranded` (a key that is not
listed), `raced` (a user looked up by two flushes, or written back as the first
user of an identity that another had taken over since it was read).  A key expires only when
nobody lists or works on it: the TTL is far longer than any handler.  Left out:
the limiter of the track endpoint, parsing; sessions as rows, times and retention
are in `VisitorReports`.

**RateLimit.**  A request is `BeginRequest` (a cached or a read row),
`CreateSettings` where there is none, `StoreSettings`, `ReadClock` (the number of the
window), `Increment`, `SetExpire`, and `Refuse` and `Answer` where it is over the limit;
`Unavailable` is the 503 of a failing call.  The number of the window is older than the
`INCR`: a request may count in a window that is over, and if the counter has expired
it starts one that nobody else finds; `passed` therefore has the requests let through
while their window lasted.  `Tick` is the clock's unit, of which a second has
`TicksPerSecond` (a thousand in the code).  `RetryAfter` is Redis' `TTL`, which rounds
to the nearest second: it may be half a second short, so that a client that waits for
it comes back within the last half second of the window and is refused once more, and
it is zero, and the code answers the length of the window, where less than half a
second is left.  `updateConfig` is `Upsert` and `InvalidateCache` on one server; the
others keep theirs up to `CacheTtl`.  `late` is again a history flag
of a cached value.  The model has the counters of one group and subject.  That
windows of different lengths never share a number while the instance lasts is
assumed of the clock (the last conjunct of `RateAssumption`: the epoch is long past,
windows are short).  Left out: the blocked statistics.

**VisitorReports.**  A buffer is persisted in one step here (`FlushEntry`), and the
clock moves.  `Written`, `Active` and `Resolved` are the identity, the session
that is still active and the one that results; `FlushFails` leaves the buffer
under a key of its own, from which it is persisted later, after visits that came
later.  `Cards`, `Series` and `Listed` are the queries of the overview, each
written out from its SQL: CTEs are operators on the set of rows.  A range is
`DateRange`, with its defaults, its swap and its clip.  `overtaken` is the history
of identities that were given an old visit late.  Left out: the number active
now, breakdowns by path and referrer, the search.

**PagedLists.**  A list is a record of how its endpoint cuts (`Lists`): whether the
page is clamped to the last, with which count, and in which order the rows are
read; a pager is what its page does with the answer: which page it takes for
the current one, which buttons it has.  `Shaken` notes that a row left or moved or
came between two reads.  `UpToDate` says that another request would be answered with
what is displayed already: `NobodyIsStranded` is about a client for whom loading the
list again changes nothing.  Pages without buttons (`NoPager`) exist: see section 4.

**WebSession.**  The route tree is that of `routeTree.gen.ts`; `Outlets` are the
components that render one.  A navigation is `Open` or `Follow`, then `Guard` as
often as it is redirected, `GetPayment` where the protected layout is entered, and
`LoadRoot` where the document is new or the router invalidated.  `then` is the
rest of a handler that awaits the navigation (`GoOn`): the sign-out's, and that of the
onboarding, which invalidates a second time and then loads a document.  A request for the session
may fail and is then answered null, as `getRootSession` does.  `outrun` and
`failed` are histories of a tab.  TanStack Router and Better Auth are external.
Left out: banned and archived users, expiry of sessions, most links of the pages
(one of each kind is there).

**QueryCache.**  `Screens` has a record per screen: the queries it mounts with the
tables that the endpoint of each reads, and its mutations with the tables each
writes and what `onSuccess` invalidates, in its order, awaited or not.  Rows are
version numbers of tables; `own` is the version of the user's last change that
was answered.  `early` and `failed` are histories of a query whose invalidation
joined a fetch from before, or whose fetch failed.  TanStack Query is external,
with the defaults of the client the dashboard makes.  One mutation of a screen is under
way at a time.  Some buttons stay enabled meanwhile (`inbox.tsx:118-124`,
`admin/mail.tsx:197-211`, `api-keys.tsx:134`), but of two that overlap each invalidates, once it is
answered, what its own write changed, and takes no rows from the other: what is owed to
one does not depend on the other, and a second mutation is to the first a change of
others with more refetches.

**RoleEditor.**  `Forms` has the permissions dialog, the role page and the limits
page: by which effect each is filled (`Fill`, `Take`, `Emptied`), whether it
unmounts, what it asks again after a save.  `ticked`, `reopened` and `overlapped`
are histories: the ticks since the form was filled, whether it was emptied and has
not been filled, whether somebody else's change or a save overlaps the ticks; `put`
keeps what a save was made from.  `Editable` says when there is something to tick: in
the dialog also without data, once the fetch of the role has failed, since it asks only
whether one is under way and for the catalog.  What is ticked there cannot be saved and
is lost with the first data.  The role page is modelled as its component is written,
although its route never displays it (finding 3).  Its reset button is not modelled.

**Notifications.**  A submission is `Store`, `FindAdmins`, `Notify` once per
administrator, `AnswerFeedback`.  A socket message is `Receive`, `Mark`,
`ReadNotes`, `Send`: handlers of one socket overlap, since `message` is async
and nobody awaits it.  The bell keeps what was sent last.  `Leave` is another page,
with a socket of its own; a click marks and leaves.  One page and socket is there at a
time.  A second tab has a socket and a list of its own; a list is sent only in answer
to a message of the same socket, so that what is marked in another tab stays unread in
this one until this one sends a message or leaves its page.  `MarkedIsShownRead` and
`PendingIsOwed` are about the messages and handlers of one tab.

## 3. Runs

Each run takes at most three minutes with two workers.

| Run | Checks | Shows |
|---|---|---|
| `domain_races` | GateConsistent, SendingNeedsPublishedDns, RecordsTruthful, EngineTruth, DeletedStaysDeleted | two handlers of any kind, suspensions, deletions, a second row for the same name, aborted handlers |
| `stale_unsuspend` | SendingMatchesVerification (violated) | finding 1 |
| `send_races` | MailOnlyFromPublishedNames, WindowLimit, ClosingTakesHold, OutboxKept | two sends or replies against a domain handler and revocation |
| `send_faults` | SenderOwnsDomain, OutboxKept | two users who registered one name, one with a key; crashes, lost SMTP answers, failing updates; replies are left to `send_races` |
| `sync_races` | NothingBehindCursor, ArchiveKept, DisabledStaysQuiet | a request and two worker runs on one mailbox, with all faults |
| `sync_starves` | NewMailboxGetsSynced (violated) | finding 2 |
| `owner_races` | InvitationGrantsOnce, OwnersFallToOvertakenOnly, AcceptedGetsRole | any two tasks of every kind from an empty database, crashes |
| `request_races` | StaleIsOwedOrLate, AssignmentsNeverStrip; PassedWithinLimit, RetryAfterSuffices, OwnUpdateSticks | two mutating handlers and a reader of the permission cache, every operation, with or without the custom role at first, crashes; limiters of two servers, an update, two window lengths, failing calls |
| `visit_races` | TwiceOnlyIfRevived, NothingVanishes, OneIdentityPerUser; SessionsRunForward, ReportsAgree | two visits, two flushes, two cookies and a user, a failure or a crash; two days of three visits with late buffers, a cleanup, and every query over them |
| `eventually` | MailArrives; EventLogKept, FailedIsRetried; NavigationEnds, HeaderIsOwn | two mailboxes in one batch of the worker, created, disabled and enabled by a request (a request's syncs are left to `sync_races`); overlapping deliveries of an event with failures, timeouts, crashes; two tabs, two people, a failing session request |
| `dashboard_races` | WalkMissesNothing, NobodyIsStranded; OwnChangeShown; SavesChangeTicksOnly, TicksLostToOverlapOnly; FeedbackReachesAdmins, MarkedIsShownRead, PendingIsOwed | every list, every screen, every form and the bell, each against a table that others change and requests that overlap and fail |
| `email_detail_unseen` | EmailDetailIsShown (violated) | finding 3 |

Type invariants (`...TypeOK`) are stated in the modules that carry types through
handlers.  They were checked while the modules were written and are not repeated in
the runs, because they are proved (section 5), save the types of the two orders of
mailboxes in `InboundSync`.

**Bounds and why they are enough.**  Two handlers show every stale read: one
reads, the other writes, the first writes back; the invariants relate one row
to one handler or two handlers to each other, and the proofs confirm that no
third is needed.  Every invariant, action property and refinement of the passing runs
is a theorem for all values of the constants, so that a bound which
hides a case would have made a proof fail; two did (section 5).  Two domain ids let one user create the same name twice, or
re-create it after a deletion; two users with one name share it in
`send_faults`.  Two required records are the least for which a mixture of two
verifications differs from each; in the send runs one record is enough, since
only "all published" matters there.  Two sends and `SendLimit = 1` make the
limiter refuse and two messages be in flight.  `MaxUid = 2` gives a cursor below,
at and above a message; two worker runs and a request give three overlapping
syncs of one mailbox.  `Filing = {"read"}` lets the user change a row once
seen; what he changes it to does not matter to the code.  `Batch` is 2 for two
mailboxes (room for all) and 1 where it starves.  Two mutating handlers and a
reader (three handlers in all) give every overlap of a change, an invalidation and a store; two
users and two roles let an invalidation reach one holder and miss another; two changes
are enough because the custom role may be there at first, so that one assigns it
while the other deletes, resets or replaces it.  Five
tasks let an account be made, raised, invited, accepted and attacked from an
empty database, two at a time.  Three deliveries of an event with two failures
give a first claim, a failed and an overdue takeover.  Two visits are the least
for a merge, two flushes for a takeover of a key that is filled again; the same
properties have also been checked with two failures, and with three visits
without one.  Four ticks, three to the second, with windows of one and two seconds and a
cache of one tick give a window that ends while a request is counted, and a time to live
that is rounded up, down, and to nothing.  Two days of two ticks with an
idle timeout of one and a retention of two give sessions that are continued, split
at midnight and cleaned up; three visits with one late buffer, a visit that is
overtaken.  A list of four or five rows in pages of two has two or three, one
that appears and one that vanishes.  Three acts on a screen are a mutation, a
change of others and a filter or a look at the window, in every order, with one
request that fails.  A form that is opened twice and edited twice overlaps with two
changes of others.  Two tabs, two moves, two links and a failing request let one
person sign out or in as another while the other tab navigates.  In `send_races` and
`send_faults` the engine is not configured, because its answer does not touch
the gate; `domain_races` has it configured.

**Symmetry** (handlers, sends, message ids, worker runs, visits, users) is used in runs
without liveness only, on sets of model values that no definition tells apart.

**Deadlock** is not checked: once every id has been used and deleted, the
bounded instance has nothing left to do.  No handler waits for another: there
are no locks in the code, and every wait is an await that is answered or fails.

**Fairness.**  `WF` of each handler's steps: an await is always answered or times
out (`fetch`, Prisma, Redis, imapflow), and the event loop then resumes the
handler.  `WF` of `WorkerTick`: the interval timer.  `WF` of Polar's next delivery:
it retries until it is answered with success, here at most `MaxDeliveries` times,
more often than the failures it may meet.  No fairness of users, of crashes or of
external parties otherwise: nobody must deliver mail or delete.  The step in which a
handler fails is one of its steps, so "answered" includes errors.  `WF` of a tab's `Route`: the
browser goes on with what it has begun.  The mailboxes of `eventually` have no
faults, because a mailbox whose server always fails is never imported;
`owner_races` and the deliveries of `eventually` have them, and their liveness
properties except the invitation or the event that was hit.

## 4. Findings

1. **A stale unsuspend reopens the gate** (`stale_unsuspend`).
   `unsuspendDomain` computes `status` and `sendingEnabled` from a
   `verificationStatus` it read (line 1154) before another handler's failing
   verification was written.  The row ends with `sendingEnabled` true and
   `verificationStatus` "failed", although `docs/goal.md:90` says DNS is
   verified before production sending.  The domain had been verified at some time
   (`SendingNeedsPublishedDns` holds).
2. **A new mailbox may never be synced** (`sync_starves`).  The worker orders by
   `lastSyncAt` ascending and takes 50; PostgreSQL sorts null last, so with 50
   mailboxes already synced the new one is never in the batch.
   `docs/deploy-vps-mailu.md:179-180` says waiting for the worker is enough.
3. **The detail page of an email is never displayed** (`email_detail_unseen`).
   `routeTree.gen.ts:188-192` nests `/emails/$emailId` under `/emails`, whose
   component renders no `Outlet` (`emails.tsx:32-125`): the address displays the
   list.  `docs/progress-todo.md:25` counts the detail view as done.  The detail
   pages of the inbox, of domains and of roles are nested alike: the only routes
   that render an `Outlet` are the root, `_protected` and `/admin`.

Other races and limits the models show, where a checked property says exactly when they
happen.  A configuration beside the runs gives a trace of the worst of them:

| Race | Property that confines it | Trace |
|---|---|---|
| A slow reader caches permissions of before a change, after the invalidation (up to 900 s) | `StaleIsOwedOrLate`: this, a crash or the deletion of a role are the only ways | `StaleCache.cfg` |
| `deleteRole` deletes a role under a user who was just given it | `AssignmentsNeverStrip`: no assignment does that | `RoleDeletedUnder.cfg` |
| Two owner setups make two owners | - | `TwoOwners.cfg` |
| A ban, archive or deletion hits an account that became owner meanwhile | `OwnersFallToOvertakenOnly` | `OwnerFalls.cfg` |
| A delivery that was taken over fails and makes a processed event be handled again | `EventLogKept`: never before a failure or a timeout | `PolarRepeats.cfg` |
| A visit writes back what a flush has taken: counted twice | `TwiceOnlyIfRevived` | `VisitTwice.cfg` |
| A flush unlists a key that a visit has just filled | `NothingVanishes` (`stranded`) | - |
| A settings read of before an update fills the cache after it | `OwnUpdateSticks` (`late`) | `RateStale.cfg` |
| `Retry-After` is up to half a second short of the window's end | `RetryAfterSuffices`: never more | - |
| Ticks made in the permissions dialog after its fetch failed are wiped by the next answer | `TicksLostToOverlapOnly`: other ticks only by an overlapping change | - |
| The permissions dialog, emptied when it closes, is not filled again when it is reopened while the query still holds the role: it shows no permission, and saving takes them all away | `SavesChangeTicksOnly`: only this dialog, only then | - |
| Saved sets replace what another administrator changed since the form was filled | `SavesChangeTicksOnly` | - |
| Lists of `/inbox`, `/admin/mail` and `/admin/users` have no buttons: rows behind the first page cannot be reached | `WalkMissesNothing` (`HasButtons`) | - |
| The feedback list answers a page behind its end with no rows and the number of the last page | `NobodyIsStranded`: only once feedback was deleted with its user | - |
| A header keeps somebody else's session after a sign-in or sign-out in another tab, or nobody's after a failed request | `HeaderIsOwn`: only then | - |
| A mark sent by a click is not yet in the list of the page that the click opens | `MarkedIsShownRead` | - |
| "Sender domain is suspended" (`docs/api.md:127-134`) is never the answer: a suspended row fails the check of line 844 first | - | `SuspendedMessage.cfg` |

## 5. Proofs

Every proof holds for all values of the constants that satisfy the assumption
its module names (`DomainAssumption`, `SendAssumption`, ...): sets of users,
handlers, messages, visits of any size, finite or not, any bounds, faults in or
out.  The assumptions say that sentinels such as `NoDomain` are no members, that
limits are not zero and how fixed data is typed, nothing about what happens.
They all take the same argument: an inductive invariant `...IInv` holds at first
(`...InitInv`), each action keeps it (one lemma per action, `XKeeps` for action X),
so does every step, and the property follows.  A property is
seldom inductive as it stands because handlers write what they read earlier, so
each invariant says what a handler under way may hold.  The types are part of
each invariant, and for most modules a theorem of their own (`...TypeCorrect`).

### `DomainLifecycleProofs`

| Theorem | States |
|---|---|
| `DomainGateConsistent` | GateConsistent |
| `DomainSendingNeedsDns` | SendingNeedsPublishedDns |
| `DomainRecordsTruthful` | RecordsTruthful |
| `DomainEngineTruth` | EngineTruth |
| `DomainOneRowPerName` | OneRowPerName |
| `DomainHandlersHoldTruth` | HandlerInv |
| `DomainDeletedStaysDeleted` | DeletedStaysDeleted (action property) |

The inductive invariant is `DomainIInv == DomainTypeOK /\ HandlerInv /\
RowsGood /\ OneRowPerName`.  `RowsGood` gathers the gate, DNS and engine
properties row by row.  `HandlerInv` says that what a handler holds is never ahead
of the world (the records it found are published, a "provisioned" answer means
the engine has the name, a "verified" read by unsuspend was earned), that its
step fits the row it works on, and that a fresh key has one handler.
`OneRowPerName` needs the unique index in `FinishCreate`.

### `MailSendProofs`

| Theorem | States |
|---|---|
| `MailWindowLimit` | WindowLimit |
| `MailNamesPublished` | MailOnlyFromPublishedNames |
| `MailSenderOwnsDomain` | SenderOwnsDomain |
| `MailClosingTakesHold` | ClosingTakesHold (action property) |
| `MailImplementsOutbox` | OutboxKept: `MailSend` implements `Outbox` |
| `MailImplementsDomains` | every behaviour of the mail system is one of `DomainLifecycle`, whose theorems therefore hold of it |
| `OutboxSendsOnce` | what follows from OutboxKept alone: `SentOnce` of `Outbox` |

`MailIInv` has, next to the types: `CountersAgree` (what was admitted is at most the
counter, and at most `SendLimit`), `HandlersFit` (past its lookup, a handler holds
a domain of its owner whose name has had all its records published), `HandsHold`
(the row of the message in hand and what the server accepted of it are what the
handler's step says), `RowsFit` (a row has the name and the owner of its domain and
a published name; one that nobody wrote was not sent), and `OneHand` (no two handlers have one
message).  Every step of `MailSend` is a step of `DomainLifecycle` or leaves the
domains alone (`MailStepIsDomainStep`, `MailImplementsDomains`), so that `DomainIInv` is at hand: it is what
makes an open gate mean published records (`OpenGateIsPublished`).  For the
refinement, each action maps to a step of `Outbox` (`CreateIsQueue`, `SmtpIsTake`,
`MarkSentIsRecordSent`, ...) or to a stutter; it needs `OneHand`, for otherwise the
abstract hand of a message would not empty when one of two lets go.

### `IncomingProofs`

| Theorem | States |
|---|---|
| `SyncNothingBehindCursor` | NothingBehindCursor |
| `SyncImplementsArchive` | ArchiveKept: `InboundSync` implements `MailArchive` |
| `SyncUserFilingSticks` | UserFilingSticks (action property, not in a run: ArchiveKept includes it) |
| `ArchiveLeavesNoGap` | what follows from ArchiveKept alone: `NoGap` of `MailArchive` |
| `SyncDisabledStaysQuiet` | DisabledStaysQuiet (action property) |
| `PolarImplementsEventLog` | EventLogKept: `PolarWebhook` implements `EventLog` |
| `LogHandlesOnce` | what follows from EventLogKept alone: `HandledOnce` of `EventLog` |

`SyncIInv` adds to `NothingBehindCursor`: `UidsAscend` (a message comes after all
delivered before it), `MailboxesReached` (a stored cursor stands at a delivered
message) and `HandlersFit` (what a sync has yet to import or will store as cursor
fits what it fetched).  A cursor that a slower sync writes back is behind, never
ahead, of rows that exist.  `SyncDisabledStaysQuiet` needs only the types: the code
checks in the step that starts.

For the refinement each action maps to a step of `MailArchive` (`StartIsBegin`,
`ImportIsImport`, `FinishSyncIsReport`, `RowTurnIsOpen`, `OwnerIsClose`,
`MessageIsMessage`, `CrashIsEnd`) or to a stutter.  `ImportIsImport` is where
`HandlersFit` is needed: no message that is still in the inbox lies between a
handler's cursor and the one it imports, and NothingBehindCursor covers those before.
Two facts are added to `SyncIInv`: a handler that creates a mailbox is the only one
that may make its row (`CreatorsAlone`), and a mailbox nobody has made has cursor 0
(`UnusedAtZero`); without them `FinishCreate` could reset a cursor or open a mailbox
twice, and would be no `Open`.

`PolarIInv` adds `DeliveriesFit` (who is about to take an event over read a row
whose processing had lapsed, who is to record a success saw the handler return)
and `RowsFit` (a row that may be taken over has lapsed, one that is not there has no
attempts).  Each action maps to a step of `EventLog` (`PostIsCall`,
`ReclaimIsCall`, `HandlerEndIsReturn`, `MarkIsRecord`, `AbortIsDie`,
`OverdueIsGiveUp`) or to a stutter.

### `OwnerAccountsProofs`

| Theorem | States |
|---|---|
| `OwnerInvitationGrantsOnce` | InvitationGrantsOnce |
| `OwnerFallsOvertaken` | OwnersFallToOvertakenOnly (action property) |

`OwnerIInv` adds `TasksFit`: a handler that has an invitation is accepting it or has
accepted it, one that assigns the role of an invitation left it accepted, and one
that found owner to be the only role gives nothing but owner.

### `RequestGatesProofs`

| Theorem | States |
|---|---|
| `RatePassedWithinLimit` | PassedWithinLimit |
| `RateRetryAfterSuffices` | RetryAfterSuffices |
| `RateOwnUpdateSticks` | OwnUpdateSticks |
| `RbacStaleIsOwedOrLate` | StaleIsOwedOrLate |
| `RbacAssignmentsNeverStrip` | AssignmentsNeverStrip (action property) |

`RateIInv` needs `CountersLast` (a counter expires no earlier than its window ends),
`PassedAreCounted` (each request let through in the current window is in its counter),
`RequestsInWindow` (a request that has read the clock knows a window that has begun, one
that is refused is sent back to no earlier than half a second before its end) and `UpdatesBehind` (no update is ahead of the
settings row).  It rests on the clause of `RateAssumption`
that windows of different lengths never share a number while the instance lasts,
which holds of seconds since 1970 and windows of at most hours.

`RbacIInv` says what the locals of a mutating handler and of a reader hold at each
await (`AdminsFit`, `ReadersFit`), that a role somebody holds exists
(`HeldRolesLive`), and, in `EntriesCovered`, that what is cached, *or is about to be
stored by a reader*, is current or owed an invalidation or late.  Without the
part about readers it is not inductive.

### `VisitorAnalyticsProofs`

| Theorem | States |
|---|---|
| `VisitTwiceOnlyIfRevived` | TwiceOnlyIfRevived |
| `VisitNothingVanishes` | NothingVanishes |
| `VisitOneIdentity` | OneIdentityPerUser |
| `ReportSessionsForward` | SessionsRunForward |
| `ReportCardsAddUp` | the cards of the page add up, the part CardsAddUp of ReportsAgree, for all ranges |
| `ReportReportsAgree` | ReportsAgree |

`VisitIInv` is the largest, thirteen conjuncts: a visit's data is in exactly one
place, and what that place is depends on how far its handler and the flushes are.
`FlushesFit`, `VisitsFit` and `BuffersNamed` type what is in flight; `KeysOwned`,
`KeysApart` and `KeysStayListed` say that a processing key has one owner, and
afterwards is empty or listed; `DeletedIsCounted` that a key about to be deleted is
counted; `VisitsPlaced` that a visit no race has touched is in one key, and once
counted only in the one its flush is about to delete; `StoredIsKept` that none is lost;
`LookupsHold`, `LookupsApart` and `IdentitiesApart` that of users not in `raced` one
flush at a time holds a lookup, that it is still right, and that they have one
identity.

`ReportIInv` says that buffers run forward and are not of the future, and that, of
identities that were not overtaken, first is before last and sessions lie within.  The proofs about the
reports count finite sets: everybody counted is new or returning, as long as nobody
was overtaken (`CardsFit`); each row in the range falls on one day of the chart
(`ChartFits`) and belongs to one row of the list (`ListFits`).  That the parts add up is
`DisjointAddUp`: the sum of the sizes of disjoint finite sets is the size of their
union.  The sum is a fold, defined by a recursive function on the subsets of its
domain; `SumIs` takes a subset with the fewest members for which it fails
(`LeastNumber`) and removes the member that the fold would.

### `DashboardProofs`

| Theorem | States |
|---|---|
| `EditorSavesTicksOnly` | SavesChangeTicksOnly (action property) |
| `EditorTicksLost` | TicksLostToOverlapOnly (action property) |
| `NoteReachesAdmins` | FeedbackReachesAdmins |
| `NoteShownRead` | MarkedIsShownRead |
| `NotePendingOwed` | PendingIsOwed |
| `ListWalkMissesNothing` | WalkMissesNothing |
| `ListNobodyIsStranded` | NobodyIsStranded |

`EditorIInv`: what a form shows differs from the data of its query in the ticks
only (`FormFromData`), so does what a save sends (`PutFromData`), and ticks that
nothing overlapped are over the record as it is, or over none at all
(`TicksAreFresh`).  `NoteIInv`: each submission has notified exactly
the administrators its loop has passed (`SubmitsFit`, `NotedOnce`), at most one message or handler is under way for the page
the reader is at (`OneUnderWay`), and a list that calls a marked notification unread
is followed by another (`ListsFresh`).  `ListIInv`: what a request has counted and
read is what there is unless that changed since (`FetchFits`), the reply shown is
one to the page asked for (`ShownFits`), only buttons lead to a page, and to one that
there was (`WantFits`), and in a walk that nothing disturbed, what was not
seen lies behind the pages reached (`WalkFits`).  The lemmas on slices and page
counts hold for lists of any length.

### `BrowserProofs`

| Theorem | States |
|---|---|
| `QueryOwnChangeShown` | OwnChangeShown |
| `WebTypeCorrect` | WebTypeOK |
| `WebHeaderIsOwn` | HeaderIsOwn |

`QueryIInv` says that a query holds and is sent versions of the tables it reads
(`KeyFits`), how far a mutation is with what it invalidates (`MutationFits`), and that
the mounted queries have, or are being sent, nothing older than the user's own
changes unless the mutation is still to invalidate them (`MountedAreNew`);
`ScreensFit` proves of the eleven screens that each mutation invalidates
the families of the queries that read what it changes.  `WebIInv` says that a tab
has loaded the session of the cookie, or will load it again, or another tab has
changed the cookie since, or a request failed (`LoadedIsOwn`).

### What the abstract specifications promise

An abstract specification is worth as much as what follows from it.  Each has a
property that a user of the service would ask for, and a theorem that derives it
from the abstract specification alone, with an invariant of its own
(`OutboxSendsOnce`, `LogHandlesOnce`, `ArchiveLeavesNoGap`): no message reaches the
server twice and none that is queued is forgotten while no handler dies; until an
event fails or is given up its handler is called once at most; nothing lies behind a
cursor without a row.  Together with the refinements they hold of the code's models.

### What the attempts found

- OneIdentityPerUser, as first stated, does not hold with three users and enough
  visits.  A flush that read an identity writes its `firstUserId` back
  (`apps/server/src/modules/visitors/visitors.service.ts:325`, `:358`): if the
  identity changed hands in between, its old user is first user of an
  identity once more, and may by then have another.  The instance was too small to
  show it.  The users this can hit are now in `raced`, and for all others the
  property is a theorem.
- NobodyIsStranded held by its bounds only: an empty reply that was sent before a
  row appeared strands a reader until he asks again, which TLC shows with
  `StartRows = 0`.  The property is about who stays stranded however often he
  asks, so `UpToDate` now says that another request would be answered the same.

### What is left to TLC

- MailArrives, FailedIsRetried, NavigationEnds and AcceptedGetsRole: liveness under
  fairness, and ENABLED, are out of the prover's reach.
- The types of `synced` and `fresh`, the two orders of mailboxes in `InboundSync`.
  They are built with SelectSeq, which the prover does not expand, so that nothing
  can be proved of it.  No property depends on them.  Likewise that every finite
  set of notes has an order (`InOrder`): if it had none, an action of the model would
  be disabled; the runs take it.

## 6. Plan

Done: the server's components in the order of importance (`DomainLifecycle`,
`MailSend`, `InboundSync`, `RbacCache`, `OwnerAccounts`, `PolarWebhook`,
`VisitorBuffer`, `RateLimit`); the abstract specifications `Outbox`,
`EventLog` and `MailArchive`; the dashboard and what it reads (`VisitorReports`, `PagedLists`,
`WebSession`, `QueryCache`, `RoleEditor`, `Notifications`); the proofs of what the
runs check about them, as far as the provers reach.  Next:

1. **An abstract limiter** for `RateLimit` (a bag of admitted requests for each
   window), of which PassedWithinLimit is the safety part.

## 7. Not modelled

- The Redis client: a call of Redis that fails is in every module that makes one.
  That a client whose connection was lost stays in state "end", which
  `connectRedis` neither reconnects nor replaces
  (`packages/redis/src/index.server.ts:23`), is known from reading it and covered by
  no property.
- Better Auth and TanStack, beyond what the code's use of them shows; they are
  external actions.  The subscription hooks of its Polar plugin
  (`packages/auth/src/auth-options.server.ts`) write the status of each event
  over the one before: an event that arrives late overwrites a newer one.
- Pure functions: secrets, validation, headers, client IP, permission guards.
- The overview counts of the dashboards, landing pages, `components/ui`, charts,
  the account page and the send test.  They are one query and its layout.

Flaws of modelled code that no property covers, because the repository states no
intention to hold them against:

- a message whose parsing or insert always throws ends every sync before those
  after it (`mail.service.ts:545`);
- UIDVALIDITY is not kept (`mail.service.ts:535`): the model's IMAP server never
  renumbers;
- two owner setups may make two owners, and a crash between creating the owner and
  assigning the role blocks the setup with that address
  (`owner.service.ts:14`, `:37`); `OwnerAccounts` reaches both;
- two first requests may both insert the settings row, and the loser is answered
  503 (`rate-limit.service.ts:284`); `CreateSettings` has it;
- `createDomain` provisions the engine before it inserts the row, so that a
  refused insert leaves the name in the engine (`mail.service.ts:241`);
- a suspended sender is told that its domain is not verified
  (`mail.service.ts:844`, `SuspendedMessage.cfg`).
