------------------------------ MODULE PagedLists ------------------------------
(***************************************************************************)
(* The paged lists: how an endpoint answers "page p" of a list that other  *)
(* people change, and how a page of the dashboard asks for it.  An endpoint*)
(* reads the number of rows and the rows of the page in two queries,       *)
(* outside a transaction.  The client has TanStack Query (external), which *)
(* has one request under way for a page and fetches again whenever a page  *)
(* is looked at, and the Previous and Next buttons.  Replies of pages the  *)
(* client has left are forgotten: while such a page is fetched again they  *)
(* would be displayed, as stale ones.                                      *)
(***************************************************************************)
EXTENDS Integers, Sequences, FiniteSetsExt, SequencesExt

CONSTANTS
  Limit,         \* rows of a page
  StartRows,     \* rows of the list at first
  MaxRows,       \* bound: rows that ever are in the list
  MaxShifts,     \* bound: changes of the list
  MaxFetches     \* bound: requests under way

ASSUME ListAssumption ==
  /\ Limit \in Nat \ {0} /\ StartRows \in 0..MaxRows
  /\ {MaxRows, MaxShifts} \subseteq Nat /\ MaxFetches \in Nat \ {0}

VARIABLES
  list,        \* which endpoint and which page of the dashboard
  rows,        \* the rows that match, in the order of the endpoint
  used,        \* ids given to rows so far
  shifts,      \* bound: changes so far
  want,        \* the page the client asks for
  shown,       \* the reply displayed, of the page asked for
  fetch,       \* requests by page
  walk,        \* history: since the client was on page 1, see WalkedTo
  removed      \* history: a row has left the list

listVars == <<list, rows, used, shifts, want, shown, fetch, walk, removed>>

-----------------------------------------------------------------------------
(***************************************************************************)
(* The endpoints.  counts: the number of rows is read before the rows or   *)
(* alongside them; offset and page: as asked, or clamped to the number of  *)
(* pages; order: where a row enters and whether it moves; leaves: rows are *)
(* deleted, or change so that they no longer match the filters.            *)
(***************************************************************************)
ActivityList ==
  [counts |-> "before", offset |-> "clamped", page |-> "clamped", order |-> "created",
   leaves |-> FALSE]

\* Mutant: as in the feedback list, the offset is not clamped.
WebhookListUnclamped ==
  [counts |-> "before", offset |-> "asked", page |-> "clamped", order |-> "created",
   leaves |-> TRUE]

\* A status changes under a status filter.
WebhookList ==
  [counts |-> "before", offset |-> "clamped", page |-> "clamped", order |-> "created",
   leaves |-> TRUE]

\* Grouped by address, by the last expiry: a further invitation moves the row.
InvitationList ==
  [counts |-> "before", offset |-> "clamped", page |-> "clamped", order |-> "latest",
   leaves |-> TRUE]

\* One row for each person, by the last visit.
VisitorList ==
  [counts |-> "before", offset |-> "clamped", page |-> "clamped", order |-> "latest",
   leaves |-> TRUE]

\* The offset is that of the page asked for, the page in the reply is clamped.
FeedbackList ==
  [counts |-> "alongside", offset |-> "asked", page |-> "clamped", order |-> "created",
   leaves |-> TRUE]

\* pageArgs: offset and page are those asked for.
Unclamped ==
  [counts |-> "alongside", offset |-> "asked", page |-> "asked", order |-> "created",
   leaves |-> TRUE]

\* Emails leave with their user only, whose list this is.
EmailList == [Unclamped EXCEPT !.leaves = FALSE]
InboxList == Unclamped
AdminDomainList == Unclamped
AdminEmailList == Unclamped
AdminInboundList == Unclamped
AdminApiKeyList == Unclamped
AdminMailboxList == Unclamped
\* The total is that of the rows shown, which nobody looks at.
UserList == Unclamped

(***************************************************************************)
(* The buttons: whether they go by the page of the reply or by the page    *)
(* asked for, and whether Next stops at the number of pages.               *)
(***************************************************************************)
ActivityPager == [by |-> "reply", bounded |-> TRUE]
WebhookPager == [by |-> "reply", bounded |-> TRUE]
VisitorPager == [by |-> "reply", bounded |-> TRUE]
FeedbackPager == [by |-> "reply", bounded |-> TRUE]
InvitationPager == [by |-> "asked", bounded |-> TRUE]
EmailPager == [by |-> "asked", bounded |-> FALSE]

\* The page is a filter of the list, and no button sets it.
NoPager == [by |-> "none", bounded |-> TRUE]
InboxPager == NoPager
AdminDomainPager == NoPager
AdminEmailPager == NoPager
AdminInboundPager == NoPager
AdminMailboxPager == NoPager
AdminApiKeyPager == NoPager
UserPager == NoPager

Lists ==
  {[server |-> ActivityList, pager |-> ActivityPager],
   [server |-> WebhookList, pager |-> WebhookPager],
   [server |-> InvitationList, pager |-> InvitationPager],
   [server |-> VisitorList, pager |-> VisitorPager],
   [server |-> FeedbackList, pager |-> FeedbackPager],
   [server |-> EmailList, pager |-> EmailPager],
   [server |-> InboxList, pager |-> InboxPager],
   [server |-> AdminDomainList, pager |-> AdminDomainPager],
   [server |-> AdminEmailList, pager |-> AdminEmailPager],
   [server |-> AdminInboundList, pager |-> AdminInboundPager],
   [server |-> AdminMailboxList, pager |-> AdminMailboxPager],
   [server |-> AdminApiKeyList, pager |-> AdminApiKeyPager],
   [server |-> UserList, pager |-> UserPager]}

-----------------------------------------------------------------------------
PageCount(total) == Max({1, (total + Limit - 1) \div Limit})
Pages == 1..PageCount(MaxRows)
Row == 1..MaxRows

\* skip and take
Slice(page) == SubSeq(rows, (page - 1) * Limit + 1, Min({page * Limit, Len(rows)}))

NoReply == [rows |-> <<>>, page |-> 0, pages |-> 0, raced |-> FALSE]
Loaded(r) == r.page # 0

\* A request: what it has read so far; changed: the list changed in between;
\* joined: the client came back to the page while the request was under way.
NoFetch == [pc |-> "idle", total |-> -1, read |-> FALSE, rows |-> <<>>, changed |-> FALSE,
            joined |-> FALSE]

NoWalk == [on |-> FALSE, from |-> {}, seen |-> {}, unsteady |-> FALSE]

ListInit ==
  /\ list \in Lists
  /\ rows = [i \in 1..StartRows |-> StartRows - i + 1]
  /\ used = StartRows /\ shifts = 0
  /\ want = 1
  /\ shown = NoReply
  /\ fetch = [p \in Pages |-> IF p = 1 THEN [NoFetch EXCEPT !.pc = "reading"] ELSE NoFetch]
  /\ walk = NoWalk
  /\ removed = FALSE

-----------------------------------------------------------------------------
(***************************************************************************)
(* The rows, changed by others.                                            *)
(***************************************************************************)
Shaken == [p \in Pages |->
  [fetch[p] EXCEPT !.changed = @ \/ fetch[p].total >= 0 \/ fetch[p].read]]

\* A new row comes first.
RowEnters ==
  /\ shifts < MaxShifts /\ used < MaxRows
  /\ shifts' = shifts + 1
  /\ used' = used + 1
  /\ rows' = <<used'>> \o rows
  /\ fetch' = Shaken
  /\ UNCHANGED <<list, want, shown, walk, removed>>

RowLeaves ==
  /\ list.server.leaves
  /\ shifts < MaxShifts
  /\ shifts' = shifts + 1
  /\ \E i \in DOMAIN rows : rows' = RemoveAt(rows, i)
  /\ removed' = TRUE
  /\ fetch' = Shaken
  /\ walk' = [walk EXCEPT !.unsteady = TRUE]
  /\ UNCHANGED <<list, used, want, shown>>

\* The row of an address or a person becomes the latest.
RowMoves ==
  /\ list.server.order = "latest"
  /\ shifts < MaxShifts
  /\ shifts' = shifts + 1
  /\ \E i \in DOMAIN rows : i > 1 /\ rows' = <<rows[i]>> \o RemoveAt(rows, i)
  /\ fetch' = Shaken
  /\ walk' = [walk EXCEPT !.unsteady = TRUE]
  /\ UNCHANGED <<list, used, want, shown, removed>>

-----------------------------------------------------------------------------
(***************************************************************************)
(* The endpoint.                                                           *)
(***************************************************************************)
CountRows(p) ==
  /\ fetch[p].pc = "reading" /\ fetch[p].total = -1
  /\ fetch' = [fetch EXCEPT ![p].total = Len(rows)]
  /\ UNCHANGED <<list, rows, used, shifts, want, shown, walk, removed>>

\* The page whose rows are read, for a list that was counted.
Offset(p, total) ==
  IF list.server.offset = "clamped" THEN Min({p, PageCount(total)}) ELSE p

ReadRows(p) ==
  /\ fetch[p].pc = "reading" /\ ~fetch[p].read
  /\ list.server.counts = "before" => fetch[p].total >= 0
  /\ fetch' = [fetch EXCEPT ![p].read = TRUE, ![p].rows = Slice(Offset(p, fetch[p].total))]
  /\ UNCHANGED <<list, rows, used, shifts, want, shown, walk, removed>>

Reply(p) ==
  LET pages == PageCount(fetch[p].total)
  IN  [rows  |-> fetch[p].rows, pages |-> pages,
       page  |-> IF list.server.page = "clamped" THEN Min({p, pages}) ELSE p,
       raced |-> fetch[p].changed \/ fetch[p].joined]

\* A walk begins with page 1: the rows there are now, and those displayed; a
\* page displayed later adds to them.
WalkedTo(p, reply) ==
  IF p = 1
  THEN [on |-> TRUE, from |-> Range(rows), seen |-> Range(reply.rows),
        unsteady |-> reply.raced]
  ELSE [walk EXCEPT !.seen = @ \union Range(reply.rows), !.unsteady = @ \/ reply.raced]

Answer(p) ==
  LET reply == Reply(p)
  IN  /\ fetch[p].pc = "reading" /\ fetch[p].total >= 0 /\ fetch[p].read
      /\ shown' = IF p = want THEN reply ELSE shown
      /\ fetch' = [fetch EXCEPT ![p] = NoFetch]
      /\ walk' = IF p = want THEN WalkedTo(p, reply) ELSE walk
      /\ UNCHANGED <<list, rows, used, shifts, want, removed>>

\* After its retries: what was displayed stays there.
FetchFails(p) ==
  /\ fetch[p].pc = "reading"
  /\ fetch' = [fetch EXCEPT ![p] = NoFetch]
  /\ walk' = [walk EXCEPT !.unsteady = @ \/ p = want]
  /\ UNCHANGED <<list, rows, used, shifts, want, shown, removed>>

-----------------------------------------------------------------------------
(***************************************************************************)
(* The page of the dashboard.                                              *)
(***************************************************************************)
Settled(p) == fetch[p].pc = "idle"

\* A key that is looked at is fetched again; a request under way is joined.
Look(p) ==
  IF Settled(p) THEN [fetch EXCEPT ![p] = [NoFetch EXCEPT !.pc = "reading"]]
  ELSE [fetch EXCEPT ![p].joined = TRUE]

\* The interval of the activity page, the Refresh buttons, the window's focus.
Refetch ==
  /\ Settled(want)
  /\ fetch' = Look(want)
  /\ UNCHANGED <<list, rows, used, shifts, want, shown, walk, removed>>

ShownPage ==
  IF list.pager.by = "reply" /\ Loaded(shown) THEN shown.page ELSE want
ShownPages == IF Loaded(shown) THEN shown.pages ELSE 1

HasButtons == list.pager # NoPager
PreviousEnabled == HasButtons /\ ShownPage > 1
NextEnabled == HasButtons /\ ShownPage < ShownPages

GoTo(p) ==
  /\ Settled(p) => Cardinality({q \in Pages : ~Settled(q)}) < MaxFetches
  /\ want' = p
  /\ fetch' = IF p = want THEN fetch ELSE Look(p)
  /\ shown' = IF p = want THEN shown ELSE NoReply

PressPrevious ==
  /\ PreviousEnabled
  /\ GoTo(Max({1, want - 1}))
  /\ walk' = NoWalk
  /\ UNCHANGED <<list, rows, used, shifts, removed>>

\* Mutant: two presses are taken for one.
PressNextTwice ==
  /\ NextEnabled
  /\ GoTo(Min({ShownPages, want + 2}))
  /\ UNCHANGED <<list, rows, used, shifts, walk, removed>>

\* A walk that goes on from a page that is being loaded again may have missed it.
PressNext ==
  /\ NextEnabled
  /\ GoTo(IF list.pager.bounded THEN Min({ShownPages, want + 1}) ELSE want + 1)
  /\ walk' = [walk EXCEPT !.unsteady = @ \/ ~Settled(want)]
  /\ UNCHANGED <<list, rows, used, shifts, removed>>

-----------------------------------------------------------------------------
Fetching(p) == CountRows(p) \/ ReadRows(p) \/ Answer(p) \/ FetchFails(p)

ListNext ==
  \/ RowEnters \/ RowLeaves \/ RowMoves
  \/ \E p \in Pages : Fetching(p)
  \/ Refetch \/ PressPrevious \/ PressNext

ListSpec == ListInit /\ [][ListNext]_listVars

-----------------------------------------------------------------------------
(***************************************************************************)
(* Properties.                                                             *)
(***************************************************************************)

\* Who walks through a list with Next, from page 1 and as its pages arrive, has
\* seen every row that was there when he began, although pages are offsets into
\* a list that others add to: only a row that leaves or moves during the walk, or
\* a reply whose list changed between the reads it is made of, hides one - except
\* on a page without buttons, which shows the first rows and no others.
WalkMissesNothing ==
  (HasButtons /\ walk.on /\ ~walk.unsteady /\ Settled(want) /\ ~NextEnabled)
    => walk.from \subseteq walk.seen

\* Another request would be answered the same.
UpToDate ==
  /\ Settled(want) /\ Loaded(shown)
  /\ shown.pages = PageCount(Len(rows)) /\ shown.rows = Slice(Offset(want, Len(rows)))

\* Nobody is left on an empty page of a list that has rows, with both buttons
\* disabled, however often he loads it again - except on the feedback list, once
\* feedback was deleted with its user.
NobodyIsStranded ==
  (UpToDate /\ rows # <<>> /\ shown.rows = <<>>)
    => \/ PreviousEnabled \/ NextEnabled
       \/ list.server = FeedbackList /\ removed
=============================================================================
