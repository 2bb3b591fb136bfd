---------------------------- MODULE VisitorReports ----------------------------
(***************************************************************************)
(* From buffered visits to the visitors dashboard.  Visits are merged in   *)
(* the buffer of their subject; a flush writes buffers to an identity and  *)
(* a session in any order, a failed one later; AdminVisitorsService        *)
(* computes cards, a series by day and a list from the sessions, each in a *)
(* query of its own.  VisitorBuffer has the steps and the races of one     *)
(* flush; here a buffer is persisted in one step, and it is time, which    *)
(* VisitorBuffer leaves out, that matters.                                 *)
(*                                                                         *)
(* Times are ticks, TicksPerDay to a day; a date range is a range of days, *)
(* so a query's from and to are the first and the last tick of theirs.     *)
(***************************************************************************)
EXTENDS Integers, Sequences, FiniteSetsExt, SequencesExt

CONSTANTS
  Cookie,         \* visitor ids
  Bots,           \* those whose user agent detectBot takes for a bot's
  Account,        \* users signed in
  TicksPerDay, Days,  \* bound: days that pass
  IdleTimeout,    \* SESSION_IDLE_TIMEOUT_MS, in ticks
  Retention,      \* RETENTION_DAYS, in ticks
  RangeDays,      \* days of the default range, 30
  MaxVisits,      \* bound: visits tracked
  MaxRequeued,    \* bound: buffers that wait under a key of their own
  Nobody          \* null, of users

ASSUME ReportAssumption ==
  /\ TicksPerDay \in Nat \ {0} /\ Days \in Nat \ {0}
  /\ {IdleTimeout, Retention, MaxVisits, MaxRequeued} \subseteq Nat /\ RangeDays \in Nat \ {0}
  /\ Bots \subseteq Cookie
  /\ Nobody \notin Cookie \union Account /\ Cookie \intersect Account = {}

VARIABLES
  clock,
  waiting,     \* Redis: the buffers of subjects
  requeued,    \* Redis: buffers whose flush failed, under keys of their own
  person,      \* visitor_identity rows, by visitorId
  sessions,    \* visitor_session rows
  tracked,     \* bound: visits so far
  overtaken    \* history: identities that were given a visit older than what they had

reportVars == <<clock, waiting, requeued, person, sessions, tracked, overtaken>>

Ticks == 0..(Days * TicksPerDay - 1)
Day(t) == t \div TicksPerDay

Entry == [cookie : Cookie, user : Account \union {Nobody}, isBot : BOOLEAN,
          first : Ticks, last : Ticks]
Session == [identity : Cookie, user : Account \union {Nobody}, isBot : BOOLEAN,
            started : Ticks, last : Ticks]
NoPerson == [exists |-> FALSE, first |-> 0, last |-> 0, firstUser |-> Nobody, lastUser |-> Nobody]

\* The one sequence of some positions, from the first to the last.
InOrder(places) ==
  {s \in [1..Cardinality(places) -> places] :
     /\ \A p \in places : \E i \in DOMAIN s : s[i] = p
     /\ \A i, j \in DOMAIN s : i < j => s[i] < s[j]}

ReportInit ==
  /\ clock = 0
  /\ waiting = {} /\ requeued = {}
  /\ person = [c \in Cookie |-> NoPerson]
  /\ sessions = <<>>
  /\ tracked = 0 /\ overtaken = {}

-----------------------------------------------------------------------------
(***************************************************************************)
(* trackVisit and the flush.                                               *)
(***************************************************************************)
SameSubject(e, c, u) == e.user = u /\ (u = Nobody => e.cookie = c)

\* mergeBufferedVisit: the first visit gives the buffer its cookie and its start.
TrackVisit(c, u) ==
  LET bot == c \in Bots
      mine == {e \in waiting : SameSubject(e, c, u)}
      visit == [cookie |-> c, user |-> u, isBot |-> bot, first |-> clock, last |-> clock]
  IN  /\ tracked < MaxVisits
      /\ tracked' = tracked + 1
      /\ waiting' = (waiting \ mine) \union
           (IF mine = {} THEN {visit}
            ELSE {[e EXCEPT !.last = clock, !.isBot = bot] : e \in mine})
      /\ UNCHANGED <<clock, requeued, person, sessions, overtaken>>

PersonsOf(u) ==
  {c \in Cookie : person[c].exists /\ u \in {person[c].firstUser, person[c].lastUser}}

\* resolveVisitorIdentity: the user's identity that was seen last, or the cookie's.
IdentityFor(e) ==
  LET own == IF e.user = Nobody THEN {} ELSE PersonsOf(e.user)
  IN  IF own = {} THEN {e.cookie}
      ELSE {c \in own : \A d \in own : person[d].last <= person[c].last}

\* Mutant: a visit of a known identity moves its start.
WrittenRestarting(c, e) ==
  [exists |-> TRUE, first |-> e.first, last |-> e.last, firstUser |-> e.user,
   lastUser |-> e.user]

OrElse(x, y) == IF x = Nobody THEN y ELSE x

\* create sets firstSeenAt; update never does, and sets lastSeenAt to the
\* visit's.  NoPerson has no users, so that both write them alike.
Written(c, e) ==
  [exists    |-> TRUE,
   first     |-> IF person[c].exists THEN person[c].first ELSE e.first,
   last      |-> e.last,
   firstUser |-> OrElse(person[c].firstUser, e.user),
   lastUser  |-> OrElse(e.user, person[c].lastUser)]

\* The sessions resolveSession takes for active: there is no upper bound.
Active(c, e) ==
  {n \in DOMAIN sessions :
     /\ sessions[n].identity = c /\ sessions[n].isBot = e.isBot
     /\ sessions[n].last >= e.last - IdleTimeout}

\* resolveSession: the active session seen last, with lastSeenAt set to the
\* visit's, or a new one.
Resolved(c, e) ==
  LET active == Active(c, e)
      latest == {n \in active : \A m \in active : sessions[m].last <= sessions[n].last}
  IN  IF active # {}
      THEN {[sessions EXCEPT ![n].last = e.last,
               ![n].user = OrElse(e.user, @)] : n \in latest}
      ELSE {Append(sessions, [identity |-> c, user |-> e.user, isBot |-> e.isBot,
                              started |-> e.first, last |-> e.last])}

\* persistBufferedVisit.
Persist(e) ==
  \E c \in IdentityFor(e) :
    /\ person' = [person EXCEPT ![c] = Written(c, e)]
    /\ sessions' \in Resolved(c, e)
    /\ overtaken' = IF person[c].exists /\ e.first < person[c].last
                    THEN overtaken \union {c} ELSE overtaken

FlushEntry(e) ==
  /\ e \in waiting \union requeued
  /\ waiting' = waiting \ {e} /\ requeued' = requeued \ {e}
  /\ Persist(e)
  /\ UNCHANGED <<clock, tracked>>

\* The flush fails before it writes: its key stays behind, under its own name.
FlushFails(e) ==
  /\ e \in waiting /\ Cardinality(requeued) < MaxRequeued
  /\ waiting' = waiting \ {e} /\ requeued' = requeued \union {e}
  /\ UNCHANGED <<clock, person, sessions, tracked, overtaken>>

\* maybeRunRetentionCleanup, with the cascade to the sessions.
Cleanup ==
  LET old == {c \in Cookie : person[c].exists /\ person[c].last < clock - Retention}
  IN  /\ old # {}
      /\ person' = [c \in Cookie |-> IF c \in old THEN NoPerson ELSE person[c]]
      /\ \E kept \in InOrder({n \in DOMAIN sessions : sessions[n].identity \notin old}) :
           sessions' = [n \in DOMAIN kept |-> sessions[kept[n]]]
      /\ overtaken' = overtaken \ old
      /\ UNCHANGED <<clock, waiting, requeued, tracked>>

NextTick ==
  /\ clock + 1 \in Ticks
  /\ clock' = clock + 1
  /\ UNCHANGED <<waiting, requeued, person, sessions, tracked, overtaken>>

ReportNext ==
  \/ \E c \in Cookie, u \in Account \union {Nobody} : TrackVisit(c, u)
  \/ \E e \in waiting \union requeued : FlushEntry(e) \/ FlushFails(e)
  \/ Cleanup \/ NextTick

ReportSpec == ReportInit /\ [][ReportNext]_reportVars

-----------------------------------------------------------------------------
(***************************************************************************)
(* The queries of AdminVisitorsService.                                    *)
(***************************************************************************)
NoDate == -1
Dates == {NoDate} \union 0..(Days - 1)

\* normalizeDateRange: a range that is none is replaced by the default one.
DateRange(dateFrom, dateTo) ==
  LET today == Day(clock)
      to == IF dateTo = NoDate THEN today ELSE dateTo
      from == IF dateFrom = NoDate THEN to - (RangeDays - 1) ELSE dateFrom
  IN  IF from > to THEN [from |-> today - (RangeDays - 1), to |-> today]
      ELSE [from |-> from, to |-> to]

\* normalizeOverviewQuery
Ranges ==
  {[from |-> r.from, to |-> r.to, segment |-> s, type |-> t] :
     r \in {DateRange(a, b) : a \in Dates, b \in Dates},
     s \in {"humans", "bots", "all"}, t \in {"all", "new", "returning"}}

Rows ==
  {[id |-> n, identity |-> sessions[n].identity, user |-> sessions[n].user,
    isBot |-> sessions[n].isBot, started |-> sessions[n].started, last |-> sessions[n].last] :
     n \in DOMAIN sessions}

OfSegment(q, s) == q.segment = "all" \/ s.isBot = (q.segment = "bots")

\* whereConditions, as getOverview and listVisitors call it.
Filtered(q) == {s \in Rows : Day(s.started) \in q.from..q.to /\ OfSegment(q, s)}

PersonKey(s) == IF s.user # Nobody THEN s.user ELSE s.identity
PersonKeys(S) == {PersonKey(s) : s \in S}
FirstSeen(S, p) == Min({person[s.identity].first : s \in {s \in S : PersonKey(s) = p}})

\* Mutant: the first day of the range counts as before it.
OfTypeInclusive(q, first) ==
  CASE q.type = "all" -> TRUE
    [] q.type = "new" -> Day(first) \in q.from..q.to
    [] q.type = "returning" -> Day(first) <= q.from

\* personTypeWhere
OfType(q, first) ==
  CASE q.type = "all" -> TRUE
    [] q.type = "new" -> Day(first) \in q.from..q.to
    [] q.type = "returning" -> Day(first) < q.from

\* typed_persons, and the sessions they are joined with.
TypedPersons(q) == LET S == Filtered(q) IN {p \in PersonKeys(S) : OfType(q, FirstSeen(S, p))}
Visits(q) == LET P == TypedPersons(q) IN {s \in Filtered(q) : PersonKey(s) \in P}

Cards(q) ==
  LET S == Filtered(q)
      V == Visits(q)
      P == PersonKeys(V)
  IN  [totalVisits       |-> Cardinality(V),
       uniqueVisitors    |-> Cardinality(P),
       newVisitors       |-> Cardinality({p \in P : Day(FirstSeen(S, p)) \in q.from..q.to}),
       returningVisitors |-> Cardinality({p \in P : Day(FirstSeen(S, p)) < q.from}),
       botVisits         |-> Cardinality({s \in V : s.isBot})]

\* One point for each day of the range (listDateRangeDays), empty ones too.
Series(q) ==
  LET S == Filtered(q)
  IN  [d \in q.from..q.to |->
         LET V == {s \in Visits(q) : Day(s.started) = d}
             P == PersonKeys(V)
         IN  [visits            |-> Cardinality(V),
              uniqueVisitors    |-> Cardinality(P),
              newVisitors       |-> Cardinality({p \in P : Day(FirstSeen(S, p)) = d}),
              returningVisitors |-> Cardinality({p \in P : Day(FirstSeen(S, p)) < d}),
              botVisits         |-> Cardinality({s \in V : s.isBot})]]

\* listVisitors: typed_rollup, with the session that gives a row its details.
Listed(q) ==
  LET S == Filtered(q)
      Of(p) == {s \in S : PersonKey(s) = p}
  IN  {[key        |-> p,
        visits     |-> Cardinality(Of(p)),
        isLoggedIn |-> \E s \in Of(p) : s.user # Nobody,
        seen       |-> Max({s.last : s \in Of(p)})] : p \in TypedPersons(q)}

-----------------------------------------------------------------------------
(***************************************************************************)
(* Properties.                                                             *)
(***************************************************************************)

\* Sessions begin no sooner than their identity was first seen and end no
\* sooner than they began: only a visit that is persisted after a later one of
\* the same identity (a requeued buffer, or the anonymous buffer of a user who
\* has just signed in) turns the clock of a session back.
SessionsRunForward ==
  \A n \in DOMAIN sessions :
    LET s == sessions[n]
    IN  s.identity \notin overtaken
          => person[s.identity].first <= s.started /\ s.started <= s.last

CardsAddUp(q) ==
  LET cards == Cards(q)
      Of(t) == Cards([q EXCEPT !.type = t])
  IN  /\ cards.newVisitors + cards.returningVisitors = cards.uniqueVisitors
      /\ q.type = "all" =>
           /\ Of("new").totalVisits + Of("returning").totalVisits = cards.totalVisits
           /\ Of("new").uniqueVisitors = cards.newVisitors

ChartAgrees(q) ==
  LET cards == Cards(q)
      series == Series(q)
      days == DOMAIN series
  IN  /\ SumFunction([d \in days |-> series[d].visits]) = cards.totalVisits
      /\ SumFunction([d \in days |-> series[d].botVisits]) = cards.botVisits
      /\ SumFunction([d \in days |-> series[d].newVisitors]) <= cards.newVisitors

ListAgrees(q) ==
  LET cards == Cards(q)
      list == Listed(q)
  IN  /\ Cardinality(list) = cards.uniqueVisitors
      /\ SumFunction([r \in list |-> r.visits]) = cards.totalVisits

\* The three queries of the page, which are written out one by one, agree with
\* each other for every range, segment and type: the days' visits and bots add up
\* to the cards', nobody is new on two days, the list has one row for each visitor
\* and all of their visits.  Everybody counted is either new or returning, and the
\* two types split visits and visitors between them, unless a visit was persisted
\* out of order.
ReportsAgree ==
  \A q \in IF sessions = <<>> THEN {} ELSE Ranges :
    ChartAgrees(q) /\ ListAgrees(q) /\ (overtaken = {} => CardsAddUp(q))
=============================================================================
