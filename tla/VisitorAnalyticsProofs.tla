------------------------ MODULE VisitorAnalyticsProofs ------------------------
(***************************************************************************)
(* Machine-checked proofs about the visitor analytics: the buffer of the   *)
(* visits in Redis, and the sessions and identities that reports count.    *)
(***************************************************************************)
EXTENDS VisitorBuffer, VisitorReports, FiniteSetTheorems, TLAPS

-------------------------------------------------------------------------------
(***************************************************************************)
(* VisitorBuffer, for every set of visits, cookies, users and processing   *)
(* keys, any number of flushes and failures: what is counted twice, what   *)
(* is lost and who gets a second identity is accounted for by one of the   *)
(* races the history variables name.                                       *)
(***************************************************************************)

\* Where a flush has a processing key that nobody else knows, and where it has
\* deleted it or handed it back.
Owning == {"find", "cookie", "identify", "count", "delete", "requeue"}
Leaving == {"unlist", "exists", "relist"}

FlushFits(s) ==
  /\ s.pc \in {"idle", "next"} => s.key = NoOne
  /\ s.pc \notin {"idle", "next"} => s.key \in Key
  /\ s.pc \in Owning \union Leaving => s.processing \in Processing
  /\ s.pc \notin Owning \union Leaving => s.processing = NoOne
  /\ s.pc \in Owning => s.taken.visitorId \in Visitor

FlushesFit == \A f \in Flusher : FlushFits(flush[f])

\* A buffer that holds something has the cookie of its first visit.
Named(b) == b = Empty \/ b.visitorId \in Visitor

BuffersNamed == \A k \in Key : Named(buffer[k])

VisitsFit ==
  \A v \in Visit : visit[v].pc # "new" =>
    KeyOf(v) \in Subject /\ visit[v].visitorId \in Visitor /\ Named(visit[v].existing)

\* A processing key holds what its flush took, and no list or batch names it.
Owned(f) ==
  flush[f].pc \in Owning =>
    /\ buffer[flush[f].processing] = flush[f].taken
    /\ flush[f].processing \notin dirty
    /\ \A g \in Flusher :
         flush[f].processing \notin flush[g].keys /\ flush[f].processing # flush[g].key

\* After that it is empty, or somebody else will find it.
Released(f) ==
  flush[f].pc \in Leaving /\ buffer[flush[f].processing] # Empty =>
    \/ flush[f].processing \in dirty \union stranded
    \/ \E g \in Flusher : flush[f].processing = flush[g].key

KeysOwned == \A f \in Flusher : Owned(f) /\ Released(f)

KeysApart ==
  \A f, g \in Flusher :
    flush[f].processing # NoOne /\ flush[f].processing = flush[g].processing => f = g

\* What is about to be deleted has been counted.
DeletedIsCounted ==
  \A f \in Flusher : flush[f].pc = "delete" =>
    \A v \in flush[f].taken.visits : counted[v] > 0

\* Before its set nothing knows a visit.
Unset(v) ==
  visit[v].pc \in {"new", "get", "set"} =>
    /\ counted[v] = 0
    /\ \A k \in Key : v \notin buffer[k].visits
    /\ \A w \in Visit : v \notin visit[w].existing.visits

\* A visit that no race has touched is in one key at most, and once it is counted
\* only in the key that its flush is about to delete.
Once(v) ==
  v \notin revived \union unsure =>
    /\ counted[v] <= 1
    /\ \A k, l \in Key : v \in buffer[k].visits /\ v \in buffer[l].visits => k = l
    /\ \A k \in Key : v \in buffer[k].visits /\ counted[v] > 0 =>
         \E f \in Flusher : flush[f].pc = "delete" /\ flush[f].processing = k

VisitsPlaced == \A v \in Visit : Unset(v) /\ Once(v)

\* The only identity its user can have, as far as a flush knows from its reads.
Known(s) == IF s.pc = "cookie" THEN {} ELSE {s.found}

\* What a flush found is still there, and its user has no other identity, until
\* the flush writes it.
LookupsHold ==
  \A f \in Flusher : flush[f].pc \in LookingUp =>
    /\ flush[f].pc = "identify" /\ flush[f].found # NoOne => identity[flush[f].found].exists
    /\ \A u \in SignedIn \ raced :
         flush[f].taken.userId = u => OfUser(u) \subseteq Known(flush[f])

LookupsApart ==
  \A f, g \in Flusher : \A u \in SignedIn \ raced :
    /\ flush[f].pc \in LookingUp /\ flush[f].taken.userId = u
    /\ flush[g].pc \in LookingUp /\ flush[g].taken.userId = u
    => f = g

IdentitiesApart == \A u \in SignedIn \ raced : \A c, d \in OfUser(u) : c = d

VisitIInv ==
  /\ VisitorTypeOK
  /\ FlushesFit
  /\ VisitsFit
  /\ BuffersNamed
  /\ KeysOwned
  /\ KeysApart
  /\ KeysStayListed
  /\ DeletedIsCounted
  /\ VisitsPlaced
  /\ StoredIsKept
  /\ LookupsHold
  /\ LookupsApart
  /\ IdentitiesApart

USE VisitorAssumption

FPc == {"idle", "next"} \union Owning \union Leaving \union {"skip"}

LEMMA IdleFits ==
  /\ IdleFlush \in FlushState /\ FlushFits(IdleFlush)
  /\ Empty \in Buffered /\ Empty.visits = {} /\ NoIdentity \in Identity
BY DEF IdleFlush, FlushState, FlushFits, Empty, Buffered, NoIdentity, Identity, Key, Subject,
       Owning, Leaving

LEMMA VisitorTyped ==
  ASSUME VisitIInv
  PROVE  /\ visit \in [Visit -> VisitState] /\ buffer \in [Key -> Buffered] /\ dirty \subseteq Key
         /\ flush \in [Flusher -> FlushState] /\ identity \in [Visitor -> Identity]
         /\ counted \in [Visit -> Nat] /\ failures \in 0..MaxFailures
         /\ gone \subseteq Visit /\ revived \subseteq Visit /\ unsure \subseteq Visit
         /\ stranded \subseteq Key /\ raced \subseteq SignedIn
BY DEF VisitIInv, VisitorTypeOK

LEMMA FlushTyped ==
  ASSUME VisitIInv, NEW f \in Flusher
  PROVE  flush[f] \in FlushState /\ FlushFits(flush[f])
BY DEF VisitIInv, VisitorTypeOK, FlushesFit

LEMMA FailingKept ==
  ASSUME VisitIInv, Failing
  PROVE  failures' \in 0..MaxFailures
BY DEF VisitIInv, VisitorTypeOK, Failing

LEMMA VisitInitInv == VisitInit => VisitIInv
<1> SUFFICES ASSUME VisitInit
             PROVE  VisitIInv
  OBVIOUS
<1>1. VisitorTypeOK
  BY IdleFits DEF VisitInit, VisitorTypeOK, VisitState
<1>2. FlushesFit /\ VisitsFit /\ BuffersNamed
  BY IdleFits DEF VisitInit, FlushesFit, VisitsFit, BuffersNamed, Named
<1>3. flush = [f \in Flusher |-> IdleFlush] /\ IdleFlush.pc = "idle" /\ IdleFlush.processing = NoOne
  BY DEF VisitInit, IdleFlush
<1>4. KeysOwned /\ KeysApart /\ DeletedIsCounted /\ LookupsHold /\ LookupsApart
  BY <1>3 DEF KeysOwned, Owned, Released, KeysApart, DeletedIsCounted, LookupsHold,
              LookupsApart, LookingUp, Owning, Leaving
<1>5. KeysStayListed /\ VisitsPlaced /\ StoredIsKept
  BY IdleFits DEF VisitInit, KeysStayListed, VisitsPlaced, Unset, Once, StoredIsKept
<1>6. IdentitiesApart
  BY DEF VisitInit, IdentitiesApart, OfUser, NoIdentity
<1>7. QED
  BY <1>1, <1>2, <1>4, <1>5, <1>6 DEF VisitIInv

-------------------------------------------------------------------------------
(***************************************************************************)
(* What a step keeps when it does not touch what an invariant is about.    *)
(***************************************************************************)

\* A flush goes on to another state; the others stay where they are.
LEMMA FlushesStay ==
  ASSUME VisitIInv, NEW f \in Flusher, NEW s \in FlushState, FlushFits(s),
         flush' = [flush EXCEPT ![f] = s]
  PROVE  /\ flush' \in [Flusher -> FlushState] /\ FlushesFit'
         /\ flush'[f] = s /\ \A g \in Flusher \ {f} : flush'[g] = flush[g]
<1>1. flush' \in [Flusher -> FlushState] /\ flush'[f] = s
      /\ \A g \in Flusher \ {f} : flush'[g] = flush[g]
  BY VisitorTyped
<1>2. FlushesFit'
  BY <1>1, FlushTyped DEF FlushesFit
<1>3. QED
  BY <1>1, <1>2

LEMMA GotoStep ==
  ASSUME VisitIInv, NEW f \in Flusher, NEW pc \in FPc, Goto(f, pc)
  PROVE  \E s \in FlushState :
           /\ flush' = [flush EXCEPT ![f] = s]
           /\ s.pc = pc /\ s.keys = flush[f].keys /\ s.key = flush[f].key
           /\ s.processing = flush[f].processing /\ s.taken = flush[f].taken
           /\ s.found = flush[f].found /\ s.first = flush[f].first
<1>1. PICK s : s = [flush[f] EXCEPT !.pc = pc]
  OBVIOUS
<1>2. flush' = [flush EXCEPT ![f] = s]
  BY <1>1 DEF Goto
<1>3. s \in FlushState
  BY <1>1, FlushTyped DEF FlushState, FPc, Owning, Leaving
<1>4. /\ s.pc = pc /\ s.keys = flush[f].keys /\ s.key = flush[f].key
      /\ s.processing = flush[f].processing /\ s.taken = flush[f].taken
      /\ s.found = flush[f].found /\ s.first = flush[f].first
  BY <1>1, FlushTyped DEF FlushState
<1>5. QED
  BY <1>2, <1>3, <1>4

LEMMA ContinueStep ==
  ASSUME VisitIInv, NEW f \in Flusher, Continue(f)
  PROVE  \E s \in FlushState :
           /\ flush' = [flush EXCEPT ![f] = s]
           /\ s.pc = "next" /\ s.keys = flush[f].keys /\ s.key = NoOne /\ s.processing = NoOne
<1>1. PICK s : s = [IdleFlush EXCEPT !.pc = "next", !.keys = flush[f].keys]
  OBVIOUS
<1>2. flush' = [flush EXCEPT ![f] = s]
  BY <1>1 DEF Continue
<1>3. s \in FlushState
  BY <1>1, FlushTyped, IdleFits DEF FlushState
<1>4. s.pc = "next" /\ s.keys = flush[f].keys /\ s.key = NoOne /\ s.processing = NoOne
  BY <1>1 DEF IdleFlush
<1>5. QED
  BY <1>2, <1>3, <1>4

Identities == LookupsHold /\ LookupsApart /\ IdentitiesApart

LEMMA IdentitiesKept ==
  ASSUME VisitIInv, UNCHANGED <<identity, raced>>,
         \A f \in Flusher : flush'[f].pc \in {"cookie", "identify"} =>
           /\ flush'[f].pc = flush[f].pc /\ flush'[f].taken = flush[f].taken
           /\ flush'[f].found = flush[f].found
  PROVE  Identities'
<1>1. \A u : OfUser(u)' = OfUser(u)
  BY DEF OfUser
<1>2. LookupsHold'
  BY <1>1 DEF VisitIInv, LookupsHold, LookingUp, Known
<1>3. LookupsApart'
  BY DEF VisitIInv, LookupsApart, LookingUp
<1>4. IdentitiesApart'
  BY <1>1 DEF VisitIInv, IdentitiesApart
<1>5. QED
  BY <1>2, <1>3, <1>4 DEF Identities

Counts == DeletedIsCounted /\ VisitsPlaced /\ StoredIsKept

\* Handlers and flushes move on, with the buffers and the counts as they are.
LEMMA CountsKept ==
  ASSUME VisitIInv, UNCHANGED <<buffer, counted>>,
         gone \subseteq gone', revived \subseteq revived', unsure \subseteq unsure',
         \A v \in Visit :
           /\ visit'[v].pc \in {"new", "get", "set"} => visit[v].pc \in {"new", "get", "set"}
           /\ visit'[v].pc \in {"list", "answered"} => visit[v].pc \in {"list", "answered"},
         \A w \in Visit :
           \/ visit'[w].existing.visits \subseteq visit[w].existing.visits
           \/ \E k \in Key : visit'[w].existing = buffer[k],
         \A f \in Flusher :
           /\ flush'[f].pc = "delete" =>
                flush[f].pc = "delete" /\ flush'[f].taken = flush[f].taken
           /\ flush[f].pc = "delete" =>
                \/ flush'[f].pc = "delete" /\ flush'[f].processing = flush[f].processing
                \/ flush[f].taken.visits \subseteq unsure'
  PROVE  Counts'
<1>1. DeletedIsCounted'
  BY DEF VisitIInv, DeletedIsCounted
<1>2. ASSUME NEW v \in Visit
      PROVE  Unset(v)'
  BY DEF VisitIInv, VisitsPlaced, Unset
<1>3. ASSUME NEW v \in Visit
      PROVE  Once(v)'
  <2> SUFFICES ASSUME v \notin revived' \union unsure'
               PROVE  /\ counted[v] <= 1
                      /\ \A k, l \in Key :
                           v \in buffer[k].visits /\ v \in buffer[l].visits => k = l
                      /\ \A k \in Key : v \in buffer[k].visits /\ counted[v] > 0 =>
                           \E f \in Flusher : flush'[f].pc = "delete" /\ flush'[f].processing = k
    BY DEF Once
  <2>1. Once(v) /\ v \notin revived \union unsure
    BY DEF VisitIInv, VisitsPlaced
  <2>2. ASSUME NEW k \in Key, v \in buffer[k].visits, counted[v] > 0
        PROVE  \E f \in Flusher : flush'[f].pc = "delete" /\ flush'[f].processing = k
    <3>1. PICK f \in Flusher : flush[f].pc = "delete" /\ flush[f].processing = k
      BY <2>1, <2>2 DEF Once
    <3>2. buffer[k] = flush[f].taken
      BY <3>1 DEF VisitIInv, KeysOwned, Owned, Owning
    <3>3. QED
      BY <2>2, <3>1, <3>2
  <2>3. QED
    BY <2>1, <2>2 DEF Once
<1>4. StoredIsKept'
  BY DEF VisitIInv, StoredIsKept
<1>5. QED
  BY <1>1, <1>2, <1>3, <1>4 DEF Counts, VisitsPlaced

\* The flushes stay, and the lists lose nothing.
Keys == BuffersNamed /\ KeysOwned /\ KeysApart /\ KeysStayListed

LEMMA KeysKeptByVisits ==
  ASSUME VisitIInv, UNCHANGED flush, NEW k \in Subject,
         \A l \in Key : buffer'[l] # buffer[l] => l = k /\ Named(buffer'[l]),
         dirty \subseteq dirty', dirty' \subseteq dirty \union {k},
         stranded \subseteq stranded' \union dirty',
         \A v \in Visit : visit[v].pc = "list" =>
           \/ visit'[v].pc = "list" /\ KeyOf(v)' = KeyOf(v)
           \/ KeyOf(v) \in dirty' \union stranded',
         k \in dirty' \union stranded' \/ buffer'[k] = buffer[k]
           \/ \E v \in Visit : visit'[v].pc = "list" /\ KeyOf(v)' = k
  PROVE  Keys'
<1>1. \A f \in Flusher : flush[f].processing # NoOne => flush[f].processing \in Key \ {k}
  BY FlushTyped DEF FlushFits, Key, Subject
<1>2. ASSUME NEW f \in Flusher
      PROVE  Owned(f)'
  <2>1. flush[f].pc \in Owning => flush[f].processing \in Processing
    BY FlushTyped DEF FlushFits
  <2>2. flush[f].pc \in Owning => flush[f].processing \in Key \ {k}
    BY <2>1 DEF Key, Subject
  <2>3. QED
    BY <2>2 DEF VisitIInv, KeysOwned, Owned
<1>3. ASSUME NEW f \in Flusher
      PROVE  Released(f)'
  <2>1. flush[f].pc \in Leaving => flush[f].processing \in Processing
    BY FlushTyped DEF FlushFits
  <2>2. flush[f].pc \in Leaving => flush[f].processing \in Key \ {k}
    BY <2>1 DEF Key, Subject
  <2>3. QED
    BY <2>2 DEF VisitIInv, KeysOwned, Released
<1>4. KeysApart'
  BY DEF VisitIInv, KeysApart
<1>5. KeysStayListed'
  BY DEF VisitIInv, KeysStayListed, Key
<1>6. BuffersNamed'
  BY DEF VisitIInv, BuffersNamed, Named
<1>7. QED
  BY <1>2, <1>3, <1>4, <1>5, <1>6 DEF Keys, KeysOwned

LEMMA InvFrom ==
  ASSUME VisitorTypeOK', FlushesFit', VisitsFit', Keys', Counts', Identities'
  PROVE  VisitIInv'
BY DEF VisitIInv, Keys, Counts, Identities

-------------------------------------------------------------------------------
(***************************************************************************)
(* trackVisit, and keys that expire.                                       *)
(***************************************************************************)
LEMMA TrackKeeps ==
  ASSUME VisitIInv, NEW v \in Visit, NEW c \in Visitor, NEW u \in SignedIn \union {NoOne},
         Track(v, c, u)
  PROVE  VisitIInv'
<1>1. PICK h : h = [pc |-> "get", visitorId |-> c, userId |-> u, existing |-> Empty]
  OBVIOUS
<1>2. h \in VisitState /\ h.existing.visits = {} /\ h.pc = "get"
  BY <1>1, IdleFits DEF VisitState
<1>3. /\ visit[v].pc = "new" /\ visit' = [visit EXCEPT ![v] = h]
      /\ UNCHANGED <<buffer, dirty, flush, identity, counted, failures,
                     gone, revived, unsure, stranded, raced>>
  BY <1>1 DEF Track, redis, database, history
<1>4. /\ visit' \in [Visit -> VisitState] /\ visit'[v] = h
      /\ \A w \in Visit \ {v} : visit'[w] = visit[w]
  BY <1>2, <1>3, VisitorTyped
<1>5. VisitorTypeOK' /\ FlushesFit'
  BY <1>3, <1>4 DEF VisitIInv, VisitorTypeOK, FlushesFit
<1>6. SubjectOf(h.userId, h.visitorId) \in Subject
  BY <1>1 DEF SubjectOf, Subject
<1>7. VisitsFit' /\ \A w \in Visit \ {v} : KeyOf(w)' = KeyOf(w)
  <2>1. h.visitorId \in Visitor /\ Named(h.existing)
    BY <1>1 DEF Named
  <2>2. \A w \in Visit \ {v} : KeyOf(w)' = KeyOf(w)
    BY <1>4 DEF KeyOf
  <2>3. KeyOf(v)' \in Subject
    BY <1>4, <1>6 DEF KeyOf
  <2>4. QED
    BY <1>4, <2>1, <2>2, <2>3 DEF VisitIInv, VisitsFit, Named
<1>8. Counts'
  BY <1>2, <1>3, <1>4, CountsKept
<1>9. Identities'
  BY <1>3, IdentitiesKept
<1>10. c \in Subject
  BY DEF Subject
<1>11. Keys'
  BY <1>3, <1>4, <1>7, <1>10, KeysKeptByVisits
<1>12. QED
  BY <1>5, <1>7, <1>8, <1>9, <1>11, InvFrom

\* The handler of a visit that has its subject goes on to another state.
LEMMA VisitMoves ==
  ASSUME VisitIInv, NEW v \in Visit, visit[v].pc # "new", NEW h \in VisitState,
         h.visitorId = visit[v].visitorId, h.userId = visit[v].userId, Named(h.existing),
         visit' = [visit EXCEPT ![v] = h]
  PROVE  /\ visit' \in [Visit -> VisitState] /\ visit'[v] = h
         /\ \A w \in Visit \ {v} : visit'[w] = visit[w]
         /\ VisitsFit' /\ \A w \in Visit : KeyOf(w)' = KeyOf(w)
         /\ KeyOf(v) \in Subject /\ KeyOf(v) \in Key /\ Named(visit[v].existing)
<1>1. /\ visit' \in [Visit -> VisitState] /\ visit'[v] = h
      /\ \A w \in Visit \ {v} : visit'[w] = visit[w]
  BY VisitorTyped
<1>2. \A w \in Visit : KeyOf(w)' = KeyOf(w)
  BY <1>1 DEF KeyOf
<1>3. VisitsFit' /\ KeyOf(v) \in Subject /\ Named(visit[v].existing)
  BY <1>1, <1>2 DEF VisitIInv, VisitsFit, Named
<1>4. QED
  BY <1>1, <1>2, <1>3 DEF Key

LEMMA GetBufferKeeps ==
  ASSUME VisitIInv, NEW v \in Visit, GetBuffer(v)
  PROVE  VisitIInv'
<1>1. /\ visit[v].pc = "get"
      /\ UNCHANGED <<buffer, dirty, flush, identity, counted, failures,
                     gone, revived, unsure, stranded, raced>>
  BY DEF GetBuffer, redis, database, history
<1>2. KeyOf(v) \in Key
  BY <1>1 DEF VisitIInv, VisitsFit, Key
<1>3. PICK h : h = [visit[v] EXCEPT !.pc = "set", !.existing = buffer[KeyOf(v)]]
  OBVIOUS
<1>4. visit' = [visit EXCEPT ![v] = h]
  BY <1>3 DEF GetBuffer
<1>5. h \in VisitState
  <2>1. visit[v] \in VisitState /\ buffer[KeyOf(v)] \in Buffered
    BY <1>2, VisitorTyped
  <2>2. QED
    BY <1>3, <2>1 DEF VisitState
<1>6. /\ h.pc = "set" /\ h.existing = buffer[KeyOf(v)]
      /\ h.visitorId = visit[v].visitorId /\ h.userId = visit[v].userId
  BY <1>3, VisitorTyped DEF VisitState
<1>7. /\ visit' \in [Visit -> VisitState] /\ visit'[v] = h
      /\ \A w \in Visit \ {v} : visit'[w] = visit[w]
      /\ VisitsFit' /\ \A w \in Visit : KeyOf(w)' = KeyOf(w)
      /\ KeyOf(v) \in Subject
  <2>1. Named(h.existing)
    BY <1>2, <1>6 DEF VisitIInv, BuffersNamed
  <2>2. QED
    BY <1>1, <1>4, <1>5, <1>6, <2>1, VisitMoves
<1>8. VisitorTypeOK' /\ FlushesFit'
  BY <1>1, <1>7 DEF VisitIInv, VisitorTypeOK, FlushesFit
<1>9. Counts'
  BY <1>1, <1>2, <1>6, <1>7, CountsKept
<1>10. Identities'
  BY <1>1, IdentitiesKept
<1>11. Keys'
  BY <1>1, <1>6, <1>7, KeysKeptByVisits
<1>12. QED
  BY <1>7, <1>8, <1>9, <1>10, <1>11, InvFrom

LEMMA MergedFits ==
  ASSUME VisitIInv, NEW v \in Visit, visit[v].pc # "new"
  PROVE  /\ Merged(visit[v].existing, v) \in Buffered
         /\ Merged(visit[v].existing, v).visits = visit[v].existing.visits \union {v}
         /\ Named(visit[v].existing) /\ Named(Merged(visit[v].existing, v))
<1>1. visit[v] \in VisitState
  BY VisitorTyped
<1>2. visit[v].existing \in Buffered
  BY <1>1 DEF VisitState
<1> visit[v].visitorId \in Visitor /\ Named(visit[v].existing)
  BY DEF VisitIInv, VisitsFit
<1>3. CASE visit[v].existing = Empty
  BY <1>1, <1>3, IdleFits DEF Merged, VisitState, Buffered, Named
<1>4. CASE visit[v].existing # Empty
  BY <1>1, <1>2, <1>4 DEF Merged, VisitState, Buffered, Named
<1>5. QED
  BY <1>3, <1>4

LEMMA SetBufferKeeps ==
  ASSUME VisitIInv, NEW v \in Visit, SetBuffer(v)
  PROVE  VisitIInv'
<1>1. PICK k, existing, merged :
        /\ k = KeyOf(v) /\ existing = visit[v].existing /\ merged = Merged(existing, v)
  OBVIOUS
<1>2. /\ visit[v].pc = "set" /\ buffer' = [buffer EXCEPT ![k] = merged]
      /\ gone' = gone \union (buffer[k].visits \ existing.visits)
      /\ revived' = revived \union (existing.visits \ buffer[k].visits)
      /\ UNCHANGED <<dirty, flush, identity, counted, failures, unsure, stranded, raced>>
  BY <1>1 DEF SetBuffer, database
<1>3. PICK h : h = [visit[v] EXCEPT !.pc = "list"]
  OBVIOUS
<1>4. visit' = [visit EXCEPT ![v] = h]
  BY <1>3 DEF SetBuffer
<1>5. h \in VisitState /\ h.pc = "list" /\ h.existing = existing
      /\ h.visitorId = visit[v].visitorId /\ h.userId = visit[v].userId
  BY <1>1, <1>3, VisitorTyped DEF VisitState
<1>6. /\ visit' \in [Visit -> VisitState] /\ visit'[v] = h
      /\ \A w \in Visit \ {v} : visit'[w] = visit[w]
      /\ VisitsFit' /\ \A w \in Visit : KeyOf(w)' = KeyOf(w)
      /\ k \in Subject /\ k \in Key
  <2>1. visit[v].pc # "new" /\ Named(h.existing)
    BY <1>1, <1>2, <1>5, MergedFits
  <2>2. QED
    BY <1>1, <1>4, <1>5, <2>1, VisitMoves
<1>7. merged \in Buffered /\ merged.visits = existing.visits \union {v} /\ Named(merged)
  BY <1>1, <1>2, MergedFits
<1>8. /\ buffer' \in [Key -> Buffered] /\ buffer'[k] = merged
      /\ \A l \in Key \ {k} : buffer'[l] = buffer[l]
  BY <1>2, <1>6, <1>7, VisitorTyped
<1>9. buffer[k].visits \subseteq Visit /\ existing.visits \subseteq Visit
  BY <1>1, <1>6, VisitorTyped DEF VisitState, Buffered
<1>10. VisitorTypeOK' /\ FlushesFit'
  <2>1. gone' \subseteq Visit /\ revived' \subseteq Visit
    BY <1>2, <1>9, VisitorTyped
  <2>2. QED
    BY <1>2, <1>6, <1>8, <2>1 DEF VisitIInv, VisitorTypeOK, FlushesFit
<1>11. Counts'
  <2>1. DeletedIsCounted'
    BY <1>2 DEF VisitIInv, DeletedIsCounted
  <2>2. ASSUME NEW x \in Visit
        PROVE  Unset(x)'
    <3> SUFFICES ASSUME visit'[x].pc \in {"new", "get", "set"}
                 PROVE  Unset(x)'
      BY DEF Unset
    <3>1. x # v /\ visit'[x] = visit[x]
      BY <1>5, <1>6
    <3>2. /\ counted[x] = 0 /\ \A l \in Key : x \notin buffer[l].visits
          /\ \A w \in Visit : x \notin visit[w].existing.visits
      BY <3>1 DEF VisitIInv, VisitsPlaced, Unset
    <3>3. \A l \in Key : x \notin buffer'[l].visits
      BY <1>1, <1>7, <1>8, <3>1, <3>2
    <3>4. \A w \in Visit : x \notin visit'[w].existing.visits
      BY <1>1, <1>5, <1>6, <3>2
    <3>5. QED
      BY <1>2, <3>2, <3>3, <3>4 DEF Unset
  <2>3. ASSUME NEW x \in Visit
        PROVE  Once(x)'
    <3> SUFFICES ASSUME x \notin revived' \union unsure'
                 PROVE  Once(x)'
      BY DEF Once
    <3>1. Once(x) /\ x \notin revived \union unsure
      BY <1>2 DEF VisitIInv, VisitsPlaced
    <3>2. x # v /\ x \in buffer'[k].visits => x \in buffer[k].visits
      BY <1>2, <1>7, <1>8
    <3>3. x # v => \A l \in Key : x \in buffer'[l].visits => x \in buffer[l].visits
      BY <1>8, <3>2
    <3>4. CASE x # v
      BY <1>2, <3>1, <3>3, <3>4 DEF Once
    <3>5. CASE x = v
      <4>1. counted[v] = 0 /\ \A l \in Key : v \notin buffer[l].visits
        BY <1>2 DEF VisitIInv, VisitsPlaced, Unset
      <4>2. \A l \in Key : v \in buffer'[l].visits => l = k
        BY <1>8, <4>1
      <4>3. QED
        BY <1>2, <3>5, <4>1, <4>2 DEF Once
    <3>6. QED
      BY <3>4, <3>5
  <2>4. ASSUME NEW x \in Visit, visit'[x].pc \in {"list", "answered"}
        PROVE  counted'[x] > 0 \/ x \in gone' \/ \E l \in Key : x \in buffer'[l].visits
    <3>1. CASE x = v
      BY <1>6, <1>7, <1>8, <3>1
    <3>2. CASE x # v
      <4>1. counted[x] > 0 \/ x \in gone \/ \E l \in Key : x \in buffer[l].visits
        BY <1>6, <2>4, <3>2 DEF VisitIInv, StoredIsKept
      <4>2. ASSUME NEW l \in Key, x \in buffer[l].visits
            PROVE  x \in gone' \/ x \in buffer'[l].visits
        BY <1>2, <1>7, <1>8, <4>2
      <4>3. QED
        BY <1>2, <4>1, <4>2
    <3>3. QED
      BY <3>1, <3>2
  <2>5. QED
    BY <2>1, <2>2, <2>3, <2>4 DEF Counts, VisitsPlaced, StoredIsKept
<1>12. Identities'
  BY <1>2, IdentitiesKept
<1>13. Keys'
  BY <1>1, <1>2, <1>5, <1>6, <1>7, <1>8, KeysKeptByVisits
<1>14. QED
  BY <1>6, <1>10, <1>11, <1>12, <1>13, InvFrom

LEMMA ListKeyKeeps ==
  ASSUME VisitIInv, NEW v \in Visit, ListKey(v)
  PROVE  VisitIInv'
<1>1. /\ visit[v].pc = "list" /\ dirty' = dirty \union {KeyOf(v)}
      /\ stranded' = stranded \ {KeyOf(v)}
      /\ UNCHANGED <<buffer, flush, identity, counted, failures, gone, revived, unsure, raced>>
  BY DEF ListKey, database
<1>2. PICK h : h = [visit[v] EXCEPT !.pc = "answered"]
  OBVIOUS
<1>3. visit' = [visit EXCEPT ![v] = h]
  BY <1>2 DEF ListKey
<1>4. h \in VisitState /\ h.pc = "answered" /\ h.existing = visit[v].existing
      /\ h.visitorId = visit[v].visitorId /\ h.userId = visit[v].userId
  BY <1>2, VisitorTyped DEF VisitState
<1>5. /\ visit' \in [Visit -> VisitState] /\ visit'[v] = h
      /\ \A w \in Visit \ {v} : visit'[w] = visit[w]
      /\ VisitsFit' /\ \A w \in Visit : KeyOf(w)' = KeyOf(w)
      /\ KeyOf(v) \in Subject /\ KeyOf(v) \in Key
  <2>1. visit[v].pc # "new" /\ Named(h.existing)
    BY <1>1, <1>4, MergedFits
  <2>2. QED
    BY <1>3, <1>4, <2>1, VisitMoves
<1>6. VisitorTypeOK' /\ FlushesFit'
  BY <1>1, <1>5 DEF VisitIInv, VisitorTypeOK, FlushesFit
<1>7. Counts'
  BY <1>1, <1>4, <1>5, CountsKept
<1>8. Identities'
  BY <1>1, IdentitiesKept
<1>9. Keys'
  BY <1>1, <1>5, KeysKeptByVisits
<1>10. QED
  BY <1>5, <1>6, <1>7, <1>8, <1>9, InvFrom

LEMMA AbortVisitKeeps ==
  ASSUME VisitIInv, NEW v \in Visit, AbortVisit(v)
  PROVE  VisitIInv'
<1>1. /\ visit[v].pc \in {"get", "set", "list"} /\ failures' \in 0..MaxFailures
      /\ stranded' = IF visit[v].pc = "list" THEN stranded \union {KeyOf(v)} ELSE stranded
      /\ UNCHANGED <<buffer, dirty, flush, identity, counted, gone, revived, unsure, raced>>
  BY FailingKept DEF AbortVisit, UnderWay, redis, database
<1>2. PICK h : h = [visit[v] EXCEPT !.pc = "lost"]
  OBVIOUS
<1>3. visit' = [visit EXCEPT ![v] = h]
  BY <1>2 DEF AbortVisit
<1>4. h \in VisitState /\ h.pc = "lost" /\ h.existing = visit[v].existing
      /\ h.visitorId = visit[v].visitorId /\ h.userId = visit[v].userId
  BY <1>2, VisitorTyped DEF VisitState
<1>5. /\ visit' \in [Visit -> VisitState] /\ visit'[v] = h
      /\ \A w \in Visit \ {v} : visit'[w] = visit[w]
      /\ VisitsFit' /\ \A w \in Visit : KeyOf(w)' = KeyOf(w)
      /\ KeyOf(v) \in Subject /\ KeyOf(v) \in Key
  <2>1. visit[v].pc # "new" /\ Named(h.existing)
    BY <1>1, <1>4, MergedFits
  <2>2. QED
    BY <1>3, <1>4, <2>1, VisitMoves
<1>6. VisitorTypeOK' /\ FlushesFit'
  BY <1>1, <1>5 DEF VisitIInv, VisitorTypeOK, FlushesFit
<1>7. Counts'
  BY <1>1, <1>4, <1>5, CountsKept
<1>8. Identities'
  BY <1>1, IdentitiesKept
<1>9. Keys'
  BY <1>1, <1>5, KeysKeptByVisits
<1>10. QED
  BY <1>5, <1>6, <1>7, <1>8, <1>9, InvFrom

LEMMA ExpireKeyKeeps ==
  ASSUME VisitIInv, NEW k \in Key, ExpireKey(k)
  PROVE  VisitIInv'
<1>1. /\ k \notin dirty /\ \A f \in Flusher : k # flush[f].processing
      /\ buffer' = [buffer EXCEPT ![k] = Empty] /\ gone' = gone \union buffer[k].visits
      /\ UNCHANGED <<visit, dirty, flush, identity, counted, failures,
                     revived, unsure, stranded, raced>>
  BY DEF ExpireKey, database
<1>2. /\ buffer' \in [Key -> Buffered] /\ buffer'[k] = Empty /\ buffer'[k].visits = {}
      /\ \A l \in Key \ {k} : buffer'[l] = buffer[l]
      /\ buffer[k].visits \subseteq Visit
  BY <1>1, VisitorTyped, IdleFits DEF Buffered
<1>3. VisitorTypeOK' /\ FlushesFit'
  BY <1>1, <1>2 DEF VisitIInv, VisitorTypeOK, FlushesFit
<1>4. VisitsFit'
  BY <1>1 DEF VisitIInv, VisitsFit, KeyOf
<1>5. Identities'
  BY <1>1, IdentitiesKept
<1>6. \A x \in Visit, l \in Key : x \in buffer'[l].visits => x \in buffer[l].visits
  BY <1>2
<1>7. DeletedIsCounted' /\ VisitsPlaced'
  <2>1. DeletedIsCounted'
    BY <1>1 DEF VisitIInv, DeletedIsCounted
  <2>2. ASSUME NEW x \in Visit
        PROVE  Unset(x)'
    BY <1>1, <1>6 DEF VisitIInv, VisitsPlaced, Unset
  <2>3. ASSUME NEW x \in Visit
        PROVE  Once(x)'
    BY <1>1, <1>6 DEF VisitIInv, VisitsPlaced, Once
  <2>4. QED
    BY <2>1, <2>2, <2>3 DEF VisitsPlaced
<1>8. StoredIsKept'
  <2>1. \A x \in Visit, l \in Key : x \in buffer[l].visits => x \in gone' \/ x \in buffer'[l].visits
    BY <1>1, <1>2
  <2>2. QED
    BY <1>1, <2>1 DEF VisitIInv, StoredIsKept
<1>9. KeysOwned' /\ KeysApart'
  <2>1. ASSUME NEW f \in Flusher
        PROVE  Owned(f)' /\ Released(f)'
    <3>1. flush[f].pc \in Owning \union Leaving => flush[f].processing \in Key
      BY FlushTyped DEF FlushFits, Key
    <3>2. Owned(f)'
      BY <1>1, <1>2, <3>1 DEF VisitIInv, KeysOwned, Owned
    <3>3. Released(f)'
      BY <1>1, <1>2, <3>1 DEF VisitIInv, KeysOwned, Released
    <3>4. QED
      BY <3>2, <3>3
  <2>2. QED
    BY <1>1, <2>1 DEF VisitIInv, KeysOwned, KeysApart
<1>10. KeysStayListed' /\ BuffersNamed'
  BY <1>1, <1>2 DEF VisitIInv, KeysStayListed, KeyOf, BuffersNamed, Named
<1>11. QED
  BY <1>3, <1>4, <1>5, <1>7, <1>8, <1>9, <1>10, InvFrom DEF Keys, Counts

-------------------------------------------------------------------------------
(***************************************************************************)
(* flushBufferedVisits.                                                    *)
(***************************************************************************)

\* Who names a key after flush f has gone on to state s.
Found(s, l) == l \in dirty' \union stranded' \/ buffer'[l] = Empty \/ l = s.key

\* A flush that lists, unlists, renames or deletes only keys of its own leaves those
\* of the others alone, and no key without somebody who names it.
LEMMA KeysKeptByFlush ==
  ASSUME VisitIInv, UNCHANGED visit, NEW f \in Flusher, NEW s \in FlushState, FlushFits(s),
         flush' = [flush EXCEPT ![f] = s],
         dirty' \subseteq dirty \union {flush[f].key, flush[f].processing},
         s.keys \subseteq flush[f].keys \union dirty,
         s.key \in flush[f].keys \union {flush[f].key, NoOne},
         \A g \in Flusher \ {f} :
           s.processing # NoOne => s.processing # flush[g].processing,
         \A l \in Key : buffer'[l] # buffer[l] =>
           \/ buffer'[l] = Empty /\ l \in flush[f].keys \union {flush[f].processing}
           \/ l = s.processing /\ Named(buffer'[l]),
         \A l \in dirty \union stranded \union ({flush[f].key} \ {NoOne}) : Found(s, l),
         \/ flush[f].processing \in {NoOne, s.processing}
         \/ Found(s, flush[f].processing)
         \/ \E g \in Flusher \ {f} : flush[f].processing = flush[g].key,
         Owned(f)', Released(f)'
  PROVE  Keys'
<1>1. /\ flush'[f] = s /\ \A g \in Flusher \ {f} : flush'[g] = flush[g]
  BY FlushesStay
<1>2. \A g \in Flusher : flush[g].pc \in Owning \union Leaving =>
        flush[g].processing \in Key /\ flush[g].processing # NoOne
  BY FlushTyped DEF FlushFits, Key
<1>3. \A g \in Flusher \ {f} : flush[g].processing # NoOne =>
        flush[g].processing # flush[f].processing
  BY DEF VisitIInv, KeysApart
<1>4. KeysApart'
  BY <1>1 DEF VisitIInv, KeysApart
<1>5. ASSUME NEW g \in Flusher \ {f}
      PROVE  Owned(g)'
  <2> SUFFICES ASSUME flush[g].pc \in Owning
               PROVE  /\ buffer'[flush[g].processing] = flush[g].taken
                      /\ flush[g].processing \notin dirty'
                      /\ \A h \in Flusher : flush[g].processing \notin flush'[h].keys
                                         /\ flush[g].processing # flush'[h].key
    BY <1>1 DEF Owned
  <2>1. /\ buffer[flush[g].processing] = flush[g].taken
        /\ flush[g].processing \notin dirty
        /\ \A h \in Flusher : flush[g].processing \notin flush[h].keys
                           /\ flush[g].processing # flush[h].key
    BY DEF VisitIInv, KeysOwned, Owned
  <2>2. flush[g].processing \in Key /\ flush[g].processing # NoOne
    BY <1>2
  <2>3. buffer'[flush[g].processing] = buffer[flush[g].processing]
    BY <1>3, <2>1, <2>2
  <2>4. flush[g].processing \notin dirty'
    BY <1>3, <2>1, <2>2
  <2>5. flush[g].processing \notin s.keys /\ flush[g].processing # s.key
    BY <2>1, <2>2
  <2>6. QED
    BY <1>1, <2>1, <2>3, <2>4, <2>5
<1>6. ASSUME NEW g \in Flusher \ {f}
      PROVE  Released(g)'
  <2> SUFFICES ASSUME flush[g].pc \in Leaving, buffer'[flush[g].processing] # Empty
               PROVE  \/ flush[g].processing \in dirty' \union stranded'
                      \/ \E h \in Flusher : flush[g].processing = flush'[h].key
    BY <1>1 DEF Released
  <2>1. flush[g].processing \in Key /\ flush[g].processing # NoOne
    BY <1>2
  <2>2. buffer[flush[g].processing] # Empty
    BY <2>1
  <2>3. \/ flush[g].processing \in dirty \union stranded
        \/ \E h \in Flusher : flush[g].processing = flush[h].key
    BY <2>2 DEF VisitIInv, KeysOwned, Released
  <2>4. CASE flush[g].processing \in dirty \union stranded
    BY <1>1, <2>4 DEF Found
  <2>5. CASE flush[g].processing = flush[f].key
    BY <1>1, <2>1, <2>5 DEF Found
  <2>6. CASE \E h \in Flusher \ {f} : flush[g].processing = flush[h].key
    BY <1>1, <2>6
  <2>7. QED
    BY <2>3, <2>4, <2>5, <2>6
<1>7. KeysStayListed'
  <2> SUFFICES ASSUME NEW l \in Key, buffer'[l] # Empty
               PROVE  \/ l \in dirty' \union stranded'
                      \/ \E v \in Visit : visit[v].pc = "list" /\ KeyOf(v) = l
                      \/ \E g \in Flusher : l \in {flush'[g].key, flush'[g].processing}
    BY DEF KeysStayListed, KeyOf
  <2>1. CASE l = s.processing \/ l = s.key
    BY <1>1, <2>1
  <2>2. CASE l # s.processing /\ l # s.key
    <3>1. buffer[l] # Empty
      BY <2>2
    <3>2. \/ l \in dirty \union stranded
          \/ \E v \in Visit : visit[v].pc = "list" /\ KeyOf(v) = l
          \/ \E g \in Flusher : l \in {flush[g].key, flush[g].processing}
      BY <3>1 DEF VisitIInv, KeysStayListed
    <3>3. l # NoOne
      BY DEF Key, Subject
    <3>4. CASE l \in dirty \union stranded \/ l = flush[f].key
      BY <2>2, <3>3, <3>4 DEF Found
    <3>5. CASE l = flush[f].processing
      BY <1>1, <2>2, <3>3, <3>5 DEF Found
    <3>6. CASE \E g \in Flusher \ {f} : l \in {flush[g].key, flush[g].processing}
      BY <1>1, <3>6
    <3>7. QED
      BY <3>2, <3>4, <3>5, <3>6
  <2>3. QED
    BY <2>1, <2>2
<1>8. \A g \in Flusher : Owned(g)' /\ Released(g)'
  BY <1>5, <1>6
<1>9. BuffersNamed'
  BY DEF VisitIInv, BuffersNamed, Named
<1>10. QED
  BY <1>4, <1>7, <1>8, <1>9 DEF Keys, KeysOwned

\* A flush works on what it took: the keys stay as they are.
LEMMA KeysKeptInside ==
  ASSUME VisitIInv, UNCHANGED <<visit, buffer, dirty, stranded>>,
         NEW f \in Flusher, flush[f].pc \in Owning, NEW s \in FlushState, s.pc \in Owning,
         flush' = [flush EXCEPT ![f] = s], s.keys = flush[f].keys, s.key = flush[f].key,
         s.processing = flush[f].processing, s.taken = flush[f].taken
  PROVE  Keys' /\ FlushFits(s)
<1>1. FlushFits(s)
  BY FlushTyped DEF FlushFits, Owning, Leaving
<1>2. /\ flush'[f] = s /\ \A g \in Flusher \ {f} : flush'[g] = flush[g]
  BY <1>1, FlushesStay
<1>3. Owned(f)' /\ Released(f)'
  <2>1. Owned(f) /\ s.pc \notin Leaving
    BY DEF VisitIInv, KeysOwned, Owning, Leaving
  <2>2. QED
    BY <1>2, <2>1 DEF Owned, Released
<1>4. \A g \in Flusher \ {f} : s.processing # NoOne => s.processing # flush[g].processing
  BY DEF VisitIInv, KeysApart
<1>5. \A l \in dirty \union stranded \union ({flush[f].key} \ {NoOne}) : Found(s, l)
  BY DEF Found
<1>6. Keys'
  BY <1>1, <1>3, <1>4, <1>5, KeysKeptByFlush
<1>7. QED
  BY <1>1, <1>6

LEMMA BeginFlushKeeps ==
  ASSUME VisitIInv, NEW f \in Flusher, BeginFlush(f)
  PROVE  VisitIInv'
<1>1. /\ flush[f].pc = "idle"
      /\ UNCHANGED <<visit, buffer, dirty, identity, counted, failures,
                     gone, revived, unsure, stranded, raced>>
  BY DEF BeginFlush, redis, database, history
<1>2. PICK keys \in SUBSET dirty :
        flush' = [flush EXCEPT ![f] = [IdleFlush EXCEPT !.pc = "next", !.keys = keys]]
  BY DEF BeginFlush
<1>3. PICK s : s = [IdleFlush EXCEPT !.pc = "next", !.keys = keys]
  OBVIOUS
<1>4. keys \subseteq Key
  BY VisitorTyped
<1>5. s \in FlushState
  BY <1>3, <1>4, IdleFits DEF FlushState
<1>6. s.pc = "next" /\ s.keys = keys /\ s.key = NoOne /\ s.processing = NoOne
  BY <1>3 DEF IdleFlush
<1>7. FlushFits(s)
  BY <1>6 DEF FlushFits, Owning, Leaving
<1>8. /\ flush' \in [Flusher -> FlushState] /\ FlushesFit'
      /\ flush'[f] = s /\ \A g \in Flusher \ {f} : flush'[g] = flush[g]
  BY <1>2, <1>3, <1>5, <1>7, FlushesStay
<1>9. VisitorTypeOK' /\ VisitsFit'
  BY <1>1, <1>8 DEF VisitIInv, VisitorTypeOK, VisitsFit, KeyOf
<1>10. Counts'
  BY <1>1, <1>6, <1>8, CountsKept
<1>11. Identities'
  BY <1>1, <1>6, <1>8, IdentitiesKept
<1>12. flush[f].key = NoOne /\ flush[f].processing = NoOne
  BY <1>1, FlushTyped DEF FlushFits, Owning, Leaving
<1>13. Owned(f)' /\ Released(f)'
  BY <1>6, <1>8 DEF Owned, Released, Owning, Leaving
<1>14. Keys'
  BY <1>1, <1>2, <1>3, <1>5, <1>6, <1>7, <1>12, <1>13, KeysKeptByFlush DEF Found
<1>15. QED
  BY <1>8, <1>9, <1>10, <1>11, <1>14, InvFrom

LEMMA EndFlushKeeps ==
  ASSUME VisitIInv, NEW f \in Flusher, EndFlush(f)
  PROVE  VisitIInv'
<1>1. /\ flush[f].pc = "next" /\ flush' = [flush EXCEPT ![f] = IdleFlush]
      /\ UNCHANGED <<visit, buffer, dirty, identity, counted, failures,
                     gone, revived, unsure, stranded, raced>>
  BY DEF EndFlush, redis, database, history
<1>2. PICK s : s = IdleFlush
  OBVIOUS
<1>3. /\ s \in FlushState /\ FlushFits(s) /\ s.pc = "idle" /\ s.keys = {}
      /\ s.key = NoOne /\ s.processing = NoOne
  BY <1>2, IdleFits DEF IdleFlush
<1>4. /\ flush' \in [Flusher -> FlushState] /\ FlushesFit'
      /\ flush'[f] = s /\ \A g \in Flusher \ {f} : flush'[g] = flush[g]
  BY <1>1, <1>2, <1>3, FlushesStay
<1>5. VisitorTypeOK' /\ VisitsFit'
  BY <1>1, <1>4 DEF VisitIInv, VisitorTypeOK, VisitsFit, KeyOf
<1>6. Counts'
  BY <1>1, <1>3, <1>4, CountsKept
<1>7. Identities'
  BY <1>1, <1>3, <1>4, IdentitiesKept
<1>8. flush[f].key = NoOne /\ flush[f].processing = NoOne
  BY <1>1, FlushTyped DEF FlushFits, Owning, Leaving
<1>9. Owned(f)' /\ Released(f)'
  BY <1>3, <1>4 DEF Owned, Released, Owning, Leaving
<1>10. Keys'
  BY <1>1, <1>2, <1>3, <1>8, <1>9, KeysKeptByFlush DEF Found
<1>11. QED
  BY <1>4, <1>5, <1>6, <1>7, <1>10, InvFrom

\* The key was empty: nothing but the flush changes.
LEMMA RenameSkipKeeps ==
  ASSUME VisitIInv, NEW f \in Flusher, flush[f].pc = "next", NEW k \in flush[f].keys,
         flush' = [flush EXCEPT ![f] =
           [IdleFlush EXCEPT !.pc = "skip", !.keys = flush[f].keys \ {k}, !.key = k]],
         UNCHANGED <<visit, buffer, dirty, identity, counted, failures,
                     gone, revived, unsure, stranded, raced>>
  PROVE  VisitIInv'
<1>1. PICK s : s = [IdleFlush EXCEPT !.pc = "skip", !.keys = flush[f].keys \ {k}, !.key = k]
  OBVIOUS
<1>2. flush[f].keys \subseteq Key /\ k \in Key
  BY FlushTyped DEF FlushState
<1>3. s \in FlushState
  BY <1>1, <1>2, IdleFits DEF FlushState
<1>4. s.pc = "skip" /\ s.keys = flush[f].keys \ {k} /\ s.key = k /\ s.processing = NoOne
  BY <1>1 DEF IdleFlush
<1>5. FlushFits(s)
  BY <1>2, <1>4 DEF FlushFits, Owning, Leaving
<1>6. /\ flush' \in [Flusher -> FlushState] /\ FlushesFit'
      /\ flush'[f] = s /\ \A g \in Flusher \ {f} : flush'[g] = flush[g]
  BY <1>1, <1>3, <1>5, FlushesStay
<1>7. VisitorTypeOK' /\ VisitsFit'
  BY <1>6 DEF VisitIInv, VisitorTypeOK, VisitsFit, KeyOf
<1>8. Counts'
  BY <1>4, <1>6, CountsKept
<1>9. Identities'
  BY <1>4, <1>6, IdentitiesKept
<1>10. flush[f].key = NoOne /\ flush[f].processing = NoOne
  BY FlushTyped DEF FlushFits, Owning, Leaving
<1>11. Owned(f)' /\ Released(f)'
  BY <1>4, <1>6 DEF Owned, Released, Owning, Leaving
<1>12. Keys'
  BY <1>1, <1>3, <1>4, <1>5, <1>10, <1>11, KeysKeptByFlush DEF Found
<1>13. QED
  BY <1>6, <1>7, <1>8, <1>9, <1>12, InvFrom

\* The key's visits are under a name now that nobody else knows.
LEMMA RenameTakeKeeps ==
  ASSUME VisitIInv, NEW f \in Flusher, flush[f].pc = "next", NEW k \in flush[f].keys,
         buffer[k] # Empty, NEW p \in Processing, Fresh(p),
         buffer' = [buffer EXCEPT ![p] = buffer[k], ![k] = Empty],
         flush' = [flush EXCEPT ![f] =
           [IdleFlush EXCEPT !.pc = "find", !.keys = flush[f].keys \ {k}, !.key = k,
                             !.processing = p, !.taken = buffer[k]]],
         UNCHANGED <<visit, dirty, identity, counted, failures,
                     gone, revived, unsure, stranded, raced>>
  PROVE  VisitIInv'
<1>1. PICK s : s = [IdleFlush EXCEPT !.pc = "find", !.keys = flush[f].keys \ {k}, !.key = k,
                                     !.processing = p, !.taken = buffer[k]]
  OBVIOUS
<1>2. flush[f].keys \subseteq Key /\ k \in Key /\ p \in Key /\ buffer[k] \in Buffered
      /\ buffer[k].visitorId \in Visitor
  <2>1. flush[f].keys \subseteq Key /\ k \in Key /\ p \in Key /\ buffer[k] \in Buffered
    BY FlushTyped, VisitorTyped DEF FlushState, Key
  <2>2. QED
    BY <2>1 DEF VisitIInv, BuffersNamed, Named
<1>3. s \in FlushState
  BY <1>1, <1>2, IdleFits DEF FlushState
<1>4. /\ s.pc = "find" /\ s.keys = flush[f].keys \ {k} /\ s.key = k /\ s.processing = p
      /\ s.taken = buffer[k]
  BY <1>1 DEF IdleFlush
<1>5. FlushFits(s)
  BY <1>2, <1>4 DEF FlushFits, Owning, Leaving
<1>6. /\ flush' \in [Flusher -> FlushState] /\ FlushesFit'
      /\ flush'[f] = s /\ \A g \in Flusher \ {f} : flush'[g] = flush[g]
  BY <1>1, <1>3, <1>5, FlushesStay
<1>7. /\ buffer[p] = Empty /\ p \notin dirty
      /\ \A g \in Flusher : p \notin flush[g].keys /\ p # flush[g].key /\ p # flush[g].processing
  BY DEF Fresh
<1>8. /\ buffer' \in [Key -> Buffered] /\ buffer'[k] = Empty /\ buffer'[p] = buffer[k] /\ p # k
      /\ \A l \in Key \ {k, p} : buffer'[l] = buffer[l]
  BY <1>2, <1>7, VisitorTyped, IdleFits
<1>9. VisitorTypeOK' /\ VisitsFit'
  BY <1>6, <1>8 DEF VisitIInv, VisitorTypeOK, VisitsFit, KeyOf
<1>10. Identities'
  BY <1>4, <1>6, IdentitiesKept
<1>11. flush[f].key = NoOne /\ flush[f].processing = NoOne
  BY FlushTyped DEF FlushFits, Owning, Leaving
<1>12. Owned(f)' /\ Released(f)'
  <2>1. \A g \in Flusher : p \notin flush'[g].keys /\ p # flush'[g].key
    BY <1>4, <1>6, <1>7, <1>8
  <2>2. flush'[f].pc = "find" /\ flush'[f].processing = p /\ flush'[f].taken = buffer'[p]
        /\ p \notin dirty'
    BY <1>4, <1>6, <1>7, <1>8
  <2>3. QED
    BY <2>1, <2>2 DEF Owned, Released, Leaving
<1>13. Keys'
  <2>1. \A l \in Key : buffer'[l] # buffer[l] =>
          \/ buffer'[l] = Empty /\ l \in flush[f].keys \union {flush[f].processing}
          \/ l = s.processing /\ Named(buffer'[l])
    BY <1>2, <1>4, <1>8 DEF Named
  <2>2. \A l \in dirty \union stranded \union ({flush[f].key} \ {NoOne}) : Found(s, l)
    BY <1>11 DEF Found
  <2>3. \A g \in Flusher \ {f} : s.processing # NoOne => s.processing # flush[g].processing
    BY <1>4, <1>7
  <2>4. s.keys \subseteq flush[f].keys \union dirty
        /\ s.key \in flush[f].keys \union {flush[f].key, NoOne}
    BY <1>4
  <2>5. QED
    BY <1>1, <1>3, <1>5, <1>11, <1>12, <2>1, <2>2, <2>3, <2>4, KeysKeptByFlush
<1>14. DeletedIsCounted'
  BY <1>4, <1>6 DEF VisitIInv, DeletedIsCounted
<1>15. \A x \in Visit, l \in Key :
         x \in buffer'[l].visits =>
           \/ l = p /\ x \in buffer[k].visits
           \/ l \notin {p, k} /\ x \in buffer[l].visits
  BY <1>8, IdleFits
<1>16. ASSUME NEW x \in Visit
       PROVE  Unset(x)'
  BY <1>2, <1>15 DEF VisitIInv, VisitsPlaced, Unset
<1>17. ASSUME NEW x \in Visit
       PROVE  Once(x)'
  <2> SUFFICES ASSUME x \notin revived \union unsure
               PROVE  Once(x)'
    BY DEF Once
  <2>1. /\ counted[x] <= 1
        /\ \A l, m \in Key : x \in buffer[l].visits /\ x \in buffer[m].visits => l = m
        /\ \A l \in Key : x \in buffer[l].visits /\ counted[x] > 0 =>
             \E g \in Flusher : flush[g].pc = "delete" /\ flush[g].processing = l
    BY DEF VisitIInv, VisitsPlaced, Once
  <2>2. \A l, m \in Key : x \in buffer'[l].visits /\ x \in buffer'[m].visits => l = m
    BY <1>2, <1>15, <2>1
  <2>3. ASSUME NEW l \in Key, x \in buffer'[l].visits, counted[x] > 0
        PROVE  \E g \in Flusher : flush'[g].pc = "delete" /\ flush'[g].processing = l
    <3>1. CASE x \in buffer[k].visits
      <4>1. PICK g \in Flusher : flush[g].pc = "delete" /\ flush[g].processing = k
        BY <1>2, <2>1, <2>3, <3>1
      <4>2. flush[g].processing \notin flush[f].keys
        BY <4>1 DEF VisitIInv, KeysOwned, Owned, Owning
      <4>3. QED
        BY <4>1, <4>2
    <3>2. CASE x \in buffer[l].visits
      <4>1. PICK g \in Flusher : flush[g].pc = "delete" /\ flush[g].processing = l
        BY <2>1, <2>3, <3>2
      <4>2. QED
        BY <1>6, <4>1
    <3>3. QED
      BY <1>15, <2>3, <3>1, <3>2
  <2>4. QED
    BY <2>1, <2>2, <2>3 DEF Once
<1>18. StoredIsKept'
  <2>1. \A x \in Visit, l \in Key : x \in buffer[l].visits => \E m \in Key : x \in buffer'[m].visits
    BY <1>2, <1>7, <1>8, IdleFits
  <2>2. QED
    BY <2>1 DEF VisitIInv, StoredIsKept
<1>19. QED
  BY <1>6, <1>9, <1>10, <1>13, <1>14, <1>16, <1>17, <1>18, InvFrom DEF Counts, VisitsPlaced

LEMMA RenameKeeps ==
  ASSUME VisitIInv, NEW f \in Flusher, Rename(f)
  PROVE  VisitIInv'
<1>1. /\ flush[f].pc = "next"
      /\ UNCHANGED <<visit, dirty, identity, counted, failures,
                     gone, revived, unsure, stranded, raced>>
  BY DEF Rename, database, history
<1>2. PICK k \in flush[f].keys :
        \/ /\ flush' = [flush EXCEPT ![f] =
                [IdleFlush EXCEPT !.pc = "skip", !.keys = flush[f].keys \ {k}, !.key = k]]
           /\ UNCHANGED buffer
        \/ /\ buffer[k] # Empty
           /\ \E p \in Processing : Fresh(p)
           /\ buffer' = [buffer EXCEPT ![FreshKey] = buffer[k], ![k] = Empty]
           /\ flush' = [flush EXCEPT ![f] =
                [IdleFlush EXCEPT !.pc = "find", !.keys = flush[f].keys \ {k}, !.key = k,
                                  !.processing = FreshKey, !.taken = buffer[k]]]
  BY DEF Rename
<1>3. (\E p \in Processing : Fresh(p)) => FreshKey \in Processing /\ Fresh(FreshKey)
  BY DEF FreshKey
<1>4. PICK p : p = FreshKey
  OBVIOUS
<1>5. QED
  BY <1>1, <1>2, <1>3, <1>4, RenameSkipKeeps, RenameTakeKeeps

LEMMA SkipKeeps ==
  ASSUME VisitIInv, NEW f \in Flusher, Skip(f)
  PROVE  VisitIInv'
<1>1. /\ flush[f].pc = "skip" /\ dirty' = dirty \ {flush[f].key} /\ Continue(f)
      /\ stranded' = IF buffer[flush[f].key] # Empty THEN stranded \union {flush[f].key}
                     ELSE stranded
      /\ UNCHANGED <<visit, buffer, identity, counted, failures, gone, revived, unsure, raced>>
  BY DEF Skip, database
<1>2. PICK s \in FlushState :
        /\ flush' = [flush EXCEPT ![f] = s]
        /\ s.pc = "next" /\ s.keys = flush[f].keys /\ s.key = NoOne /\ s.processing = NoOne
  BY <1>1, ContinueStep
<1>3. FlushFits(s)
  BY <1>2 DEF FlushFits, Owning, Leaving
<1>4. /\ flush' \in [Flusher -> FlushState] /\ FlushesFit'
      /\ flush'[f] = s /\ \A g \in Flusher \ {f} : flush'[g] = flush[g]
  BY <1>2, <1>3, FlushesStay
<1>5. flush[f].key \in Key /\ flush[f].processing = NoOne
  BY <1>1, FlushTyped DEF FlushFits, Owning, Leaving
<1>6. VisitorTypeOK' /\ VisitsFit'
  BY <1>1, <1>4, <1>5 DEF VisitIInv, VisitorTypeOK, VisitsFit, KeyOf
<1>7. Counts'
  BY <1>1, <1>2, <1>4, CountsKept
<1>8. Identities'
  BY <1>1, <1>2, <1>4, IdentitiesKept
<1>9. Owned(f)' /\ Released(f)'
  BY <1>2, <1>4 DEF Owned, Released, Owning, Leaving
<1>10. \A l \in dirty \union stranded \union ({flush[f].key} \ {NoOne}) : Found(s, l)
  BY <1>1 DEF Found
<1>11. Keys'
  BY <1>1, <1>2, <1>3, <1>5, <1>9, <1>10, KeysKeptByFlush
<1>12. QED
  BY <1>4, <1>6, <1>7, <1>8, <1>11, InvFrom

-------------------------------------------------------------------------------
(***************************************************************************)
(* persistBufferedVisit.                                                   *)
(***************************************************************************)
\* A flush has read a row, or that there is none.
LEMMA LookupKeeps ==
  ASSUME VisitIInv, NEW f \in Flusher, flush[f].pc \in {"find", "cookie"},
         NEW s \in FlushState, flush' = [flush EXCEPT ![f] = s],
         s.pc \in LookingUp, s.keys = flush[f].keys, s.key = flush[f].key,
         s.processing = flush[f].processing, s.taken = flush[f].taken,
         s.pc = "identify" /\ s.found # NoOne => identity[s.found].exists,
         \A u \in SignedIn \ raced : s.taken.userId = u => OfUser(u) \subseteq Known(s),
         raced \subseteq raced', raced' \subseteq SignedIn,
         \A g \in Flusher \ {f} : \A u \in SignedIn \ raced' :
           ~(s.taken.userId = u /\ flush[g].pc \in LookingUp /\ flush[g].taken.userId = u),
         UNCHANGED <<visit, buffer, dirty, identity, counted, failures,
                     gone, revived, unsure, stranded>>
  PROVE  VisitIInv'
<1>1. Keys' /\ FlushFits(s)
  BY KeysKeptInside DEF Owning, LookingUp
<1>2. /\ flush' \in [Flusher -> FlushState] /\ FlushesFit'
      /\ flush'[f] = s /\ \A g \in Flusher \ {f} : flush'[g] = flush[g]
  BY <1>1, FlushesStay
<1>3. VisitorTypeOK' /\ VisitsFit'
  BY <1>2 DEF VisitIInv, VisitorTypeOK, VisitsFit, KeyOf
<1>4. Counts'
  BY <1>2, CountsKept DEF LookingUp
<1>5. \A w : OfUser(w)' = OfUser(w)
  BY DEF OfUser
<1>6. IdentitiesApart'
  BY <1>5 DEF VisitIInv, IdentitiesApart
<1>7. LookupsApart'
  BY <1>2 DEF VisitIInv, LookupsApart
<1>8. LookupsHold'
  <2>1. ASSUME NEW g \in Flusher \ {f}, flush[g].pc \in LookingUp
        PROVE  /\ flush[g].pc = "identify" /\ flush[g].found # NoOne
                    => identity[flush[g].found].exists
               /\ \A w \in SignedIn \ raced :
                    flush[g].taken.userId = w => OfUser(w) \subseteq Known(flush[g])
    BY <2>1 DEF VisitIInv, LookupsHold
  <2>2. QED
    BY <1>2, <1>5, <2>1 DEF LookupsHold, Known
<1>9. QED
  BY <1>1, <1>2, <1>3, <1>4, <1>6, <1>7, <1>8, InvFrom DEF Identities

LEMMA HoldingStep ==
  ASSUME VisitIInv, NEW f \in Flusher, NEW c \in Visitor \union {NoOne},
         NEW w \in SignedIn \union {NoOne}, Holding(f, c, w)
  PROVE  \E s \in FlushState :
           /\ flush' = [flush EXCEPT ![f] = s]
           /\ s.pc = "identify" /\ s.keys = flush[f].keys /\ s.key = flush[f].key
           /\ s.processing = flush[f].processing /\ s.taken = flush[f].taken /\ s.found = c
<1>1. PICK s : s = [flush[f] EXCEPT !.pc = "identify", !.found = c, !.first = w]
  OBVIOUS
<1>2. \A g \in FlushState :
        [g EXCEPT !.pc = "identify", !.found = c, !.first = w] \in FlushState
  BY DEF FlushState
<1>3. s \in FlushState
  BY <1>1, <1>2, FlushTyped
<1>4. /\ s.pc = "identify" /\ s.keys = flush[f].keys /\ s.key = flush[f].key
      /\ s.processing = flush[f].processing /\ s.taken = flush[f].taken /\ s.found = c
  BY <1>1, FlushTyped DEF FlushState
<1>5. flush' = [flush EXCEPT ![f] = s]
  BY <1>1 DEF Holding
<1>6. QED
  BY <1>3, <1>4, <1>5

LEMMA FindOfUserKeeps ==
  ASSUME VisitIInv, NEW f \in Flusher, FindOfUser(f)
  PROVE  VisitIInv'
<1>1. PICK u : u = flush[f].taken.userId
  OBVIOUS
<1>2. /\ flush[f].pc = "find" /\ u # NoOne
      /\ UNCHANGED <<visit, buffer, dirty, identity, counted, failures,
                     gone, revived, unsure, stranded>>
      /\ \/ OfUser(u) = {} /\ Goto(f, "cookie")
         \/ \E c \in OfUser(u) : Holding(f, c, identity[c].firstUserId)
      /\ raced' = IF u \in {flush[g].taken.userId :
                              g \in {g \in Flusher : flush[g].pc \in LookingUp}}
                  THEN raced \union {u} ELSE raced
  BY <1>1 DEF FindOfUser, redis, database
<1>3. u \in SignedIn
  BY <1>1, <1>2, FlushTyped DEF FlushState, Buffered
<1>4. /\ raced \subseteq raced' /\ raced' \subseteq SignedIn
      /\ \A g \in Flusher \ {f} : \A w \in SignedIn \ raced' :
           ~(u = w /\ flush[g].pc \in LookingUp /\ flush[g].taken.userId = w)
  BY <1>2, <1>3, VisitorTyped
<1>5. CASE OfUser(u) = {} /\ Goto(f, "cookie")
  <2>1. PICK s \in FlushState :
          /\ flush' = [flush EXCEPT ![f] = s]
          /\ s.pc = "cookie" /\ s.keys = flush[f].keys /\ s.key = flush[f].key
          /\ s.processing = flush[f].processing /\ s.taken = flush[f].taken
    <3>1. "cookie" \in FPc
      BY DEF FPc, Owning
    <3>2. QED
      BY <1>5, <3>1, GotoStep
  <2>2. \A w \in SignedIn \ raced : s.taken.userId = w => OfUser(w) \subseteq Known(s)
    BY <1>1, <1>5, <2>1
  <2>3. s.pc \in LookingUp /\ s.pc # "identify"
    BY <2>1 DEF LookingUp
  <2>4. \A g \in Flusher \ {f} : \A w \in SignedIn \ raced' :
          ~(s.taken.userId = w /\ flush[g].pc \in LookingUp /\ flush[g].taken.userId = w)
    BY <1>1, <1>4, <2>1
  <2>5. QED
    BY <1>2, <1>4, <2>1, <2>2, <2>3, <2>4, LookupKeeps
<1>6. ASSUME NEW c \in OfUser(u), Holding(f, c, identity[c].firstUserId)
      PROVE  VisitIInv'
  <2>1. c \in Visitor /\ identity[c].exists /\ identity[c].firstUserId \in SignedIn \union {NoOne}
    BY VisitorTyped DEF OfUser, Identity
  <2>2. PICK s \in FlushState :
          /\ flush' = [flush EXCEPT ![f] = s]
          /\ s.pc = "identify" /\ s.keys = flush[f].keys /\ s.key = flush[f].key
          /\ s.processing = flush[f].processing /\ s.taken = flush[f].taken /\ s.found = c
    BY <1>6, <2>1, HoldingStep
  <2>3. \A w \in SignedIn \ raced : s.taken.userId = w => OfUser(w) \subseteq Known(s)
    BY <1>1, <1>6, <2>2 DEF VisitIInv, IdentitiesApart, Known
  <2>4. s.pc \in LookingUp
    BY <2>2 DEF LookingUp
  <2>5. \A g \in Flusher \ {f} : \A w \in SignedIn \ raced' :
          ~(s.taken.userId = w /\ flush[g].pc \in LookingUp /\ flush[g].taken.userId = w)
    BY <1>1, <1>4, <2>2
  <2>6. identity[s.found].exists
    BY <2>1, <2>2
  <2>7. QED
    BY <1>2, <1>4, <2>2, <2>3, <2>4, <2>5, <2>6, LookupKeeps
<1>7. QED
  BY <1>2, <1>5, <1>6

LEMMA FindOfCookieKeeps ==
  ASSUME VisitIInv, NEW f \in Flusher, FindOfCookie(f)
  PROVE  VisitIInv'
<1>1. PICK c, u : c = flush[f].taken.visitorId /\ u = flush[f].taken.userId
  OBVIOUS
<1>2. /\ \/ flush[f].pc = "cookie"
         \/ flush[f].pc = "find" /\ u = NoOne
      /\ UNCHANGED <<visit, buffer, dirty, identity, counted, failures,
                     gone, revived, unsure, stranded, raced>>
      /\ \/ ~identity[c].exists /\ Holding(f, NoOne, NoOne)
         \/ identity[c].exists /\ Holding(f, c, identity[c].firstUserId)
  BY <1>1 DEF FindOfCookie, redis, database, history
<1>3. c \in Visitor /\ identity[c].firstUserId \in SignedIn \union {NoOne}
  BY <1>1, <1>2, FlushTyped, VisitorTyped DEF FlushFits, Owning, Identity
<1>4. PICK found \in {c, NoOne} :
        /\ Holding(f, found, identity[c].firstUserId) \/ Holding(f, found, NoOne)
        /\ found # NoOne => identity[found].exists
  BY <1>2
<1>5. PICK s \in FlushState :
        /\ flush' = [flush EXCEPT ![f] = s]
        /\ s.pc = "identify" /\ s.keys = flush[f].keys /\ s.key = flush[f].key
        /\ s.processing = flush[f].processing /\ s.taken = flush[f].taken /\ s.found = found
  BY <1>3, <1>4, HoldingStep
<1>6. \A w \in SignedIn \ raced : w # NoOne
  OBVIOUS
<1>7. ASSUME NEW w \in SignedIn \ raced, u = w
      PROVE  OfUser(w) = {}
  BY <1>1, <1>2, <1>6, <1>7 DEF VisitIInv, LookupsHold, LookingUp, Known
<1>8. \A w \in SignedIn \ raced : s.taken.userId = w => OfUser(w) \subseteq Known(s)
  BY <1>1, <1>5, <1>7
<1>9. \A g \in Flusher \ {f} : \A w \in SignedIn \ raced' :
        ~(s.taken.userId = w /\ flush[g].pc \in LookingUp /\ flush[g].taken.userId = w)
  BY <1>1, <1>2, <1>5, <1>6 DEF VisitIInv, LookupsApart, LookingUp
<1>10. s.pc \in LookingUp /\ raced \subseteq raced' /\ raced' \subseteq SignedIn
  BY <1>2, <1>5, VisitorTyped DEF LookingUp
<1>11. QED
  BY <1>2, <1>4, <1>5, <1>8, <1>9, <1>10, LookupKeeps

\* A flush writes row t for user u: it becomes an identity of his, and one of
\* nobody else who was not its own already, or is a raced one.
LEMMA IdentitiesWritten ==
  ASSUME VisitIInv, NEW f \in Flusher, flush[f].pc = "identify",
         NEW t \in Visitor, NEW x \in SignedIn \union {NoOne}, NEW u \in SignedIn \union {NoOne},
         u = flush[f].taken.userId,
         identity'[t].exists, identity'[t].firstUserId = x, identity'[t].lastUserId = u,
         \A c \in Visitor \ {t} : identity'[c] = identity[c],
         raced \subseteq raced',
         u \in SignedIn \ raced => OfUser(u) \subseteq {t},
         \/ x \in {u, NoOne} \union raced'
         \/ identity[t].exists /\ x = identity[t].firstUserId,
         flush'[f].pc \notin {"cookie", "identify"}, \A g \in Flusher \ {f} : flush'[g] = flush[g]
  PROVE  Identities'
<1>1. /\ identity'[t].exists /\ identity'[t].firstUserId = x /\ identity'[t].lastUserId = u
      /\ \A c \in Visitor \ {t} : identity'[c] = identity[c]
  OBVIOUS
<1>2. ASSUME NEW w \in SignedIn \ raced', w # u
      PROVE  OfUser(w)' \subseteq OfUser(w)
  <2> SUFFICES ASSUME NEW c \in Visitor, identity'[c].exists,
                      w \in {identity'[c].firstUserId, identity'[c].lastUserId}
               PROVE  identity[c].exists /\ w \in {identity[c].firstUserId, identity[c].lastUserId}
    BY DEF OfUser
  <2>1. CASE c # t
    BY <1>1, <2>1
  <2>2. CASE c = t
    <3>1. w = x
      BY <1>1, <1>2, <2>2
    <3>2. w # NoOne
      OBVIOUS
    <3>3. QED
      BY <1>2, <2>2, <3>1, <3>2
  <2>3. QED
    BY <2>1, <2>2
<1>3. ASSUME u \in SignedIn \ raced'
      PROVE  OfUser(u)' \subseteq {t}
  <2> SUFFICES ASSUME NEW c \in Visitor, c # t, identity'[c].exists,
                      u \in {identity'[c].firstUserId, identity'[c].lastUserId}
               PROVE  FALSE
    BY DEF OfUser
  <2>1. c \in OfUser(u)
    BY <1>1 DEF OfUser
  <2>2. QED
    BY <1>3, <2>1
<1>4. IdentitiesApart'
  <2>1. ASSUME NEW w \in SignedIn \ raced', NEW c \in OfUser(w)', NEW d \in OfUser(w)'
        PROVE  c = d
    <3>1. CASE w = u
      BY <1>3, <2>1, <3>1
    <3>2. CASE w # u
      BY <1>2, <2>1, <3>2 DEF VisitIInv, IdentitiesApart
    <3>3. QED
      BY <3>1, <3>2
  <2>2. QED
    BY <2>1 DEF IdentitiesApart
<1>5. LookupsApart'
  BY DEF VisitIInv, LookupsApart, LookingUp
<1>6. LookupsHold'
  <2>1. ASSUME NEW g \in Flusher \ {f}, flush[g].pc \in LookingUp, NEW w \in SignedIn \ raced',
               flush[g].taken.userId = w
        PROVE  OfUser(w)' \subseteq Known(flush[g])
    <3>1. w # u
      BY <2>1 DEF VisitIInv, LookupsApart, LookingUp
    <3>2. QED
      BY <1>2, <2>1, <3>1 DEF VisitIInv, LookupsHold
  <2>2. ASSUME NEW g \in Flusher \ {f}, flush[g].pc = "identify", flush[g].found # NoOne
        PROVE  identity'[flush[g].found].exists
    <3>1. flush[g].found \in Visitor
      BY <2>2, FlushTyped DEF FlushState
    <3>2. identity[flush[g].found].exists
      BY <2>2 DEF VisitIInv, LookupsHold, LookingUp
    <3>3. QED
      BY <1>1, <3>1, <3>2
  <2>3. QED
    BY <2>1, <2>2 DEF LookupsHold, LookingUp, Known
<1>7. QED
  BY <1>4, <1>5, <1>6 DEF Identities

\* A flush goes from one state in which it owns its key to another.
LEMMA OwningStep ==
  ASSUME VisitIInv, NEW f \in Flusher, flush[f].pc \in Owning, NEW pc \in Owning, Goto(f, pc),
         UNCHANGED <<visit, buffer, dirty, stranded>>
  PROVE  /\ Keys' /\ VisitsFit' /\ FlushesFit' /\ flush' \in [Flusher -> FlushState]
         /\ flush'[f].pc = pc /\ flush'[f].taken = flush[f].taken
         /\ flush'[f].processing = flush[f].processing
         /\ \A g \in Flusher \ {f} : flush'[g] = flush[g]
<1>1. PICK s \in FlushState :
        /\ flush' = [flush EXCEPT ![f] = s]
        /\ s.pc = pc /\ s.keys = flush[f].keys /\ s.key = flush[f].key
        /\ s.processing = flush[f].processing /\ s.taken = flush[f].taken
  <2>1. pc \in FPc
    BY DEF FPc
  <2>2. QED
    BY <2>1, GotoStep
<1>2. Keys' /\ FlushFits(s)
  BY <1>1, KeysKeptInside
<1>3. /\ flush' \in [Flusher -> FlushState] /\ FlushesFit'
      /\ flush'[f] = s /\ \A g \in Flusher \ {f} : flush'[g] = flush[g]
  BY <1>1, <1>2, FlushesStay
<1>4. VisitsFit'
  BY DEF VisitIInv, VisitsFit, KeyOf
<1>5. QED
  BY <1>1, <1>2, <1>3, <1>4

LEMMA WriteIdentityKeeps ==
  ASSUME VisitIInv, NEW f \in Flusher, WriteIdentity(f)
  PROVE  VisitIInv'
<1>1. PICK found, first, c, u :
        /\ found = flush[f].found /\ first = flush[f].first
        /\ c = flush[f].taken.visitorId /\ u = flush[f].taken.userId
  OBVIOUS
<1>2. /\ flush[f].pc = "identify"
      /\ UNCHANGED <<visit, buffer, dirty, counted, failures, gone, revived, unsure, stranded>>
  BY DEF WriteIdentity, redis
<1>3. /\ c \in Visitor /\ u \in SignedIn \union {NoOne} /\ found \in Visitor \union {NoOne}
      /\ first \in SignedIn \union {NoOne}
  BY <1>1, <1>2, FlushTyped DEF FlushFits, Owning, FlushState, Buffered
<1>4. PICK x : x = IF first = NoOne THEN u ELSE first
  OBVIOUS
<1>5. \/ Goto(f, "requeue") /\ UNCHANGED <<identity, raced>>
      \/ Goto(f, "count") /\ UNCHANGED <<identity, raced>>
      \/ /\ found = NoOne /\ Goto(f, "count") /\ UNCHANGED raced
         /\ identity' = [identity EXCEPT ![c] =
              [exists |-> TRUE, firstUserId |-> u, lastUserId |-> u]]
      \/ /\ found # NoOne /\ u # NoOne /\ Goto(f, "count")
         /\ raced' = raced \union ({first} \ {NoOne, identity[found].firstUserId})
         /\ identity' = [identity EXCEPT ![found] =
              [exists |-> TRUE, firstUserId |-> x, lastUserId |-> u]]
  BY <1>1, <1>4 DEF WriteIdentity
<1>6. PICK pc \in {"requeue", "count"} : Goto(f, pc)
  BY <1>5
<1>7. /\ Keys' /\ VisitsFit' /\ FlushesFit' /\ flush' \in [Flusher -> FlushState]
      /\ flush'[f].pc = pc /\ flush'[f].taken = flush[f].taken
      /\ flush'[f].processing = flush[f].processing
      /\ \A g \in Flusher \ {f} : flush'[g] = flush[g]
  BY <1>2, <1>6, OwningStep DEF Owning
<1>8. x \in SignedIn \union {NoOne}
  BY <1>3, <1>4
<1>9. raced \subseteq raced' /\ raced' \subseteq SignedIn
  BY <1>3, <1>5, VisitorTyped
<1>10. identity' \in [Visitor -> Identity]
  <2>1. \A y, z \in SignedIn \union {NoOne} :
          [exists |-> TRUE, firstUserId |-> y, lastUserId |-> z] \in Identity
    BY DEF Identity
  <2>2. QED
    BY <1>3, <1>5, <1>8, <2>1, VisitorTyped
<1>11. VisitorTypeOK'
  BY <1>2, <1>7, <1>9, <1>10 DEF VisitIInv, VisitorTypeOK
<1>12. Counts'
  BY <1>2, <1>7, CountsKept
<1>13. u \in SignedIn \ raced => OfUser(u) \subseteq {found}
  BY <1>1, <1>2 DEF VisitIInv, LookupsHold, LookingUp, Known
<1>14. Identities'
  <2> flush'[f].pc \notin {"cookie", "identify"} /\ u = flush[f].taken.userId
    BY <1>1, <1>7
  <2>1. CASE UNCHANGED <<identity, raced>>
    BY <1>2, <1>7, <2>1, IdentitiesKept
  <2>2. CASE /\ found = NoOne /\ UNCHANGED raced
             /\ identity' = [identity EXCEPT ![c] =
                  [exists |-> TRUE, firstUserId |-> u, lastUserId |-> u]]
    <3>1. u \in SignedIn \ raced => OfUser(u) \subseteq {c}
      BY <1>13, <2>2 DEF OfUser
    <3>2. u \in {u, NoOne} \union raced'
      OBVIOUS
    <3>3. /\ identity'[c].exists /\ identity'[c].firstUserId = u /\ identity'[c].lastUserId = u
          /\ \A d \in Visitor \ {c} : identity'[d] = identity[d]
      BY <1>3, <2>2, VisitorTyped
    <3>4. QED
      BY <1>2, <1>3, <1>7, <1>9, <3>1, <3>2, <3>3, IdentitiesWritten
  <2>3. CASE /\ found # NoOne /\ u # NoOne
             /\ raced' = raced \union ({first} \ {NoOne, identity[found].firstUserId})
             /\ identity' = [identity EXCEPT ![found] =
                  [exists |-> TRUE, firstUserId |-> x, lastUserId |-> u]]
    <3>1. identity[found].exists
      BY <1>1, <1>2, <2>3 DEF VisitIInv, LookupsHold, LookingUp
    <3>2. \/ x \in {u, NoOne} \union raced'
          \/ identity[found].exists /\ x = identity[found].firstUserId
      BY <1>4, <2>3, <3>1
    <3>3. found \in Visitor
      BY <1>3, <2>3
    <3>4. /\ identity'[found].exists /\ identity'[found].firstUserId = x
          /\ identity'[found].lastUserId = u
          /\ \A d \in Visitor \ {found} : identity'[d] = identity[d]
      BY <2>3, <3>3, VisitorTyped
    <3>5. QED
      BY <1>2, <1>3, <1>7, <1>8, <1>9, <1>13, <3>2, <3>3, <3>4, IdentitiesWritten
  <2>4. QED
    BY <1>5, <2>1, <2>2, <2>3
<1>15. QED
  BY <1>7, <1>11, <1>12, <1>14, InvFrom

\* What a flush owns has not been counted, except just before it deletes it.
LEMMA NotCountedYet ==
  ASSUME VisitIInv, NEW f \in Flusher, flush[f].pc \in Owning \ {"delete"},
         NEW x \in flush[f].taken.visits, x \notin revived \union unsure
  PROVE  x \in Visit /\ counted[x] = 0
<1>1. buffer[flush[f].processing] = flush[f].taken /\ flush[f].processing \in Key
  BY FlushTyped DEF VisitIInv, KeysOwned, Owned, FlushFits, Key
<1>2. x \in Visit /\ counted[x] \in Nat
  BY VisitorTyped DEF FlushState, Buffered
<1>3. ASSUME counted[x] > 0
      PROVE  FALSE
  <2>1. PICK g \in Flusher : flush[g].pc = "delete" /\ flush[g].processing = flush[f].processing
    BY <1>1, <1>2, <1>3 DEF VisitIInv, VisitsPlaced, Once
  <2>2. g = f
    BY <2>1, FlushTyped DEF VisitIInv, KeysApart, FlushFits
  <2>3. QED
    BY <2>1, <2>2
<1>4. QED
  BY <1>2, <1>3

\* The session of what a flush took is written once: it goes on to the delete, or it
\* does not know and hands the key back.
LEMMA CountedKeeps ==
  ASSUME VisitIInv, NEW f \in Flusher, flush[f].pc = "count", counted' = CountedWith(f),
         \/ flush'[f].pc = "delete" /\ UNCHANGED unsure
         \/ flush'[f].pc = "requeue" /\ unsure' = unsure \union flush[f].taken.visits,
         flush'[f].processing = flush[f].processing, flush'[f].taken = flush[f].taken,
         \A g \in Flusher \ {f} : flush'[g] = flush[g],
         UNCHANGED <<visit, buffer, gone, revived>>
  PROVE  Counts' /\ counted' \in [Visit -> Nat]
<1>1. flush[f].taken.visits \subseteq Visit
  BY FlushTyped DEF FlushState, Buffered
<1>2. /\ counted' \in [Visit -> Nat]
      /\ \A x \in Visit : x \in flush[f].taken.visits => counted'[x] = counted[x] + 1
      /\ \A x \in Visit : x \notin flush[f].taken.visits => counted'[x] = counted[x]
  BY VisitorTyped DEF CountedWith
<1>3. \A x \in Visit : /\ counted[x] \in Nat /\ counted'[x] \in Nat
                       /\ counted[x] > 0 => counted'[x] > 0
  BY <1>2, VisitorTyped
<1>4. /\ buffer[flush[f].processing] = flush[f].taken /\ flush[f].processing \in Key
      /\ flush[f].pc \in Owning
  BY FlushTyped DEF VisitIInv, KeysOwned, Owned, FlushFits, Key, Owning
<1>5. DeletedIsCounted'
  <2>1. \A x \in flush[f].taken.visits : counted'[x] > 0
    BY <1>1, <1>2, <1>3
  <2>2. ASSUME NEW g \in Flusher \ {f}, flush[g].pc = "delete", NEW x \in flush[g].taken.visits
        PROVE  counted'[x] > 0
    <3>1. x \in Visit
      BY FlushTyped DEF FlushState, Buffered
    <3>2. counted[x] > 0
      BY <2>2 DEF VisitIInv, DeletedIsCounted
    <3>3. QED
      BY <1>3, <3>1, <3>2
  <2>3. QED
    BY <2>1, <2>2 DEF DeletedIsCounted
<1>6. ASSUME NEW x \in Visit
      PROVE  Unset(x)'
  BY <1>2, <1>4 DEF VisitIInv, VisitsPlaced, Unset
<1>7. ASSUME NEW x \in Visit
      PROVE  Once(x)'
  <2> SUFFICES ASSUME x \notin revived' \union unsure'
               PROVE  Once(x)'
    BY DEF Once
  <2>1. /\ counted[x] <= 1
        /\ \A k, l \in Key : x \in buffer[k].visits /\ x \in buffer[l].visits => k = l
        /\ \A k \in Key : x \in buffer[k].visits /\ counted[x] > 0 =>
             \E g \in Flusher : flush[g].pc = "delete" /\ flush[g].processing = k
    BY DEF VisitIInv, VisitsPlaced, Once
  <2>2. CASE x \in flush[f].taken.visits
    <3>1. counted[x] = 0 /\ flush'[f].pc = "delete"
      BY <1>4, <2>2, NotCountedYet DEF Owning
    <3>2. counted'[x] = 1
      BY <1>2, <2>2, <3>1
    <3>3. \A k \in Key : x \in buffer[k].visits => k = flush'[f].processing
      BY <1>4, <2>1, <2>2
    <3>4. QED
      BY <2>1, <3>1, <3>2, <3>3 DEF Once
  <2>3. CASE x \notin flush[f].taken.visits
    <3>1. counted'[x] = counted[x]
      BY <1>2, <2>3
    <3>2. \A g \in Flusher : flush[g].pc = "delete" => flush'[g] = flush[g]
      OBVIOUS
    <3>3. QED
      BY <2>1, <3>1, <3>2 DEF Once
  <2>4. QED
    BY <2>2, <2>3
<1>8. StoredIsKept'
  BY <1>3 DEF VisitIInv, StoredIsKept
<1>9. QED
  BY <1>2, <1>5, <1>6, <1>7, <1>8 DEF Counts, VisitsPlaced

LEMMA CountSessionKeeps ==
  ASSUME VisitIInv, NEW f \in Flusher, CountSession(f)
  PROVE  VisitIInv'
<1>1. /\ flush[f].pc = "count" /\ counted' = CountedWith(f) /\ Goto(f, "delete")
      /\ UNCHANGED <<visit, buffer, dirty, identity, failures,
                     gone, revived, unsure, stranded, raced>>
  BY DEF CountSession, redis, history
<1>2. /\ Keys' /\ VisitsFit' /\ FlushesFit' /\ flush' \in [Flusher -> FlushState]
      /\ flush'[f].pc = "delete" /\ flush'[f].taken = flush[f].taken
      /\ flush'[f].processing = flush[f].processing
      /\ \A g \in Flusher \ {f} : flush'[g] = flush[g]
  BY <1>1, OwningStep DEF Owning
<1>3. Counts' /\ counted' \in [Visit -> Nat]
  BY <1>1, <1>2, CountedKeeps
<1>4. Identities'
  BY <1>1, <1>2, IdentitiesKept
<1>5. VisitorTypeOK'
  BY <1>1, <1>2, <1>3 DEF VisitIInv, VisitorTypeOK
<1>6. QED
  BY <1>2, <1>3, <1>4, <1>5, InvFrom

LEMMA PersistThrowsKeeps ==
  ASSUME VisitIInv, NEW f \in Flusher, PersistThrows(f)
  PROVE  VisitIInv'
<1>1. /\ flush[f].pc \in {"find", "cookie", "identify", "count"} /\ Goto(f, "requeue")
      /\ failures' \in 0..MaxFailures
      /\ UNCHANGED <<visit, buffer, dirty, identity, counted,
                     gone, revived, unsure, stranded, raced>>
  BY FailingKept DEF PersistThrows, redis, database, history
<1>2. /\ Keys' /\ VisitsFit' /\ FlushesFit' /\ flush' \in [Flusher -> FlushState]
      /\ flush'[f].pc = "requeue" /\ flush'[f].taken = flush[f].taken
      /\ flush'[f].processing = flush[f].processing
      /\ \A g \in Flusher \ {f} : flush'[g] = flush[g]
  BY <1>1, OwningStep DEF Owning
<1>3. Counts'
  BY <1>1, <1>2, CountsKept
<1>4. Identities'
  BY <1>1, <1>2, IdentitiesKept
<1>5. VisitorTypeOK'
  BY <1>1, <1>2 DEF VisitIInv, VisitorTypeOK
<1>6. QED
  BY <1>2, <1>3, <1>4, <1>5, InvFrom

LEMMA AnswerLostKeeps ==
  ASSUME VisitIInv, NEW f \in Flusher, AnswerLost(f)
  PROVE  VisitIInv'
<1>1. /\ \/ flush[f].pc = "count" /\ counted' = CountedWith(f)
         \/ flush[f].pc = "delete" /\ UNCHANGED counted
      /\ unsure' = unsure \union flush[f].taken.visits
      /\ Goto(f, "requeue") /\ failures' \in 0..MaxFailures
      /\ UNCHANGED <<visit, buffer, dirty, identity, gone, revived, stranded, raced>>
  BY FailingKept DEF AnswerLost, redis
<1>2. /\ Keys' /\ VisitsFit' /\ FlushesFit' /\ flush' \in [Flusher -> FlushState]
      /\ flush'[f].pc = "requeue" /\ flush'[f].taken = flush[f].taken
      /\ flush'[f].processing = flush[f].processing
      /\ \A g \in Flusher \ {f} : flush'[g] = flush[g]
  BY <1>1, OwningStep DEF Owning
<1>3. Counts' /\ counted' \in [Visit -> Nat]
  <2>1. CASE flush[f].pc = "count" /\ counted' = CountedWith(f)
    BY <1>1, <1>2, <2>1, CountedKeeps
  <2>2. CASE flush[f].pc = "delete" /\ UNCHANGED counted
    BY <1>1, <1>2, <2>2, CountsKept, VisitorTyped
  <2>3. QED
    BY <1>1, <2>1, <2>2
<1>4. Identities'
  BY <1>1, <1>2, IdentitiesKept
<1>5. unsure' \subseteq Visit
  BY <1>1, FlushTyped, VisitorTyped DEF FlushState, Buffered
<1>6. VisitorTypeOK'
  BY <1>1, <1>2, <1>3, <1>5 DEF VisitIInv, VisitorTypeOK
<1>7. QED
  BY <1>2, <1>3, <1>4, <1>6, InvFrom

-------------------------------------------------------------------------------
(***************************************************************************)
(* The end of a turn: the keys are deleted, unlisted, or listed again.     *)
(***************************************************************************)
LEMMA DeleteKeeps ==
  ASSUME VisitIInv, NEW f \in Flusher, Delete(f)
  PROVE  VisitIInv'
<1>1. PICK p : p = flush[f].processing
  OBVIOUS
<1>2. /\ flush[f].pc = "delete" /\ Goto(f, "unlist") /\ buffer' = [buffer EXCEPT ![p] = Empty]
      /\ UNCHANGED <<visit, dirty, identity, counted, failures,
                     gone, revived, unsure, stranded, raced>>
  BY <1>1 DEF Delete, database, history
<1>3. PICK s \in FlushState :
        /\ flush' = [flush EXCEPT ![f] = s]
        /\ s.pc = "unlist" /\ s.keys = flush[f].keys /\ s.key = flush[f].key
        /\ s.processing = p /\ s.taken = flush[f].taken
  <2>1. "unlist" \in FPc
    BY DEF FPc, Leaving
  <2>2. QED
    BY <1>1, <1>2, <2>1, GotoStep
<1>4. flush[f].key \in Key /\ p \in Processing /\ p \in Key /\ p # NoOne
  BY <1>1, <1>2, FlushTyped DEF FlushFits, Owning, Key
<1>5. FlushFits(s)
  BY <1>3, <1>4 DEF FlushFits, Owning, Leaving
<1>6. /\ flush' \in [Flusher -> FlushState] /\ FlushesFit'
      /\ flush'[f] = s /\ \A g \in Flusher \ {f} : flush'[g] = flush[g]
  BY <1>3, <1>5, FlushesStay
<1>7. /\ buffer' \in [Key -> Buffered] /\ buffer'[p] = Empty /\ buffer'[p].visits = {}
      /\ \A l \in Key \ {p} : buffer'[l] = buffer[l]
  BY <1>2, <1>4, VisitorTyped, IdleFits
<1>8. VisitorTypeOK' /\ VisitsFit'
  BY <1>2, <1>6, <1>7 DEF VisitIInv, VisitorTypeOK, VisitsFit, KeyOf
<1>9. Identities'
  BY <1>2, <1>3, <1>6, IdentitiesKept
<1>10. Owned(f)' /\ Released(f)'
  BY <1>3, <1>6, <1>7 DEF Owned, Released, Owning
<1>11. Keys'
  <2>1. \A l \in Key : buffer'[l] # buffer[l] =>
          buffer'[l] = Empty /\ l \in flush[f].keys \union {flush[f].processing}
    BY <1>1, <1>7
  <2>2. \A l \in dirty \union stranded \union ({flush[f].key} \ {NoOne}) : Found(s, l)
    BY <1>2, <1>3 DEF Found
  <2>3. \A g \in Flusher \ {f} : s.processing # NoOne => s.processing # flush[g].processing
    BY <1>1, <1>3 DEF VisitIInv, KeysApart
  <2>4. QED
    BY <1>1, <1>2, <1>3, <1>5, <1>10, <2>1, <2>2, <2>3, KeysKeptByFlush
<1>12. buffer[p] = flush[f].taken
  BY <1>1, <1>2 DEF VisitIInv, KeysOwned, Owned, Owning
<1>13. \A x \in Visit, l \in Key : x \in buffer'[l].visits => l # p /\ x \in buffer[l].visits
  BY <1>7
<1>14. DeletedIsCounted'
  BY <1>2, <1>3, <1>6 DEF VisitIInv, DeletedIsCounted
<1>15. ASSUME NEW x \in Visit
       PROVE  Unset(x)'
  BY <1>2, <1>13 DEF VisitIInv, VisitsPlaced, Unset
<1>16. ASSUME NEW x \in Visit
       PROVE  Once(x)'
  <2> SUFFICES ASSUME x \notin revived \union unsure
               PROVE  Once(x)'
    BY <1>2 DEF Once
  <2>1. /\ counted[x] <= 1
        /\ \A k, l \in Key : x \in buffer[k].visits /\ x \in buffer[l].visits => k = l
        /\ \A k \in Key : x \in buffer[k].visits /\ counted[x] > 0 =>
             \E g \in Flusher : flush[g].pc = "delete" /\ flush[g].processing = k
    BY DEF VisitIInv, VisitsPlaced, Once
  <2>2. ASSUME NEW k \in Key, x \in buffer'[k].visits, counted[x] > 0
        PROVE  \E g \in Flusher : flush'[g].pc = "delete" /\ flush'[g].processing = k
    <3>1. PICK g \in Flusher : flush[g].pc = "delete" /\ flush[g].processing = k
      BY <1>13, <2>1, <2>2
    <3>2. g # f
      BY <1>1, <1>13, <2>2, <3>1
    <3>3. QED
      BY <1>6, <3>1, <3>2
  <2>3. \A k, l \in Key : x \in buffer'[k].visits /\ x \in buffer'[l].visits => k = l
    BY <1>13, <2>1
  <2>4. QED
    BY <1>2, <2>1, <2>2, <2>3 DEF Once
<1>17. StoredIsKept'
  <2>1. \A x \in Visit, l \in Key :
          x \in buffer[l].visits => counted[x] > 0 \/ x \in buffer'[l].visits
    BY <1>1, <1>2, <1>7, <1>12 DEF VisitIInv, DeletedIsCounted
  <2>2. QED
    BY <1>2, <2>1 DEF VisitIInv, StoredIsKept
<1>18. QED
  BY <1>6, <1>8, <1>9, <1>11, <1>14, <1>15, <1>16, <1>17, InvFrom DEF Counts, VisitsPlaced

\* A step that changes a flush and the lists, and neither buffers nor rows.
LEMMA ListsChange ==
  ASSUME VisitIInv, NEW f \in Flusher, NEW s \in FlushState, FlushFits(s),
         flush' = [flush EXCEPT ![f] = s], s.pc \notin {"cookie", "identify", "delete"},
         flush[f].pc = "delete" => flush[f].taken.visits \subseteq unsure',
         UNCHANGED <<visit, buffer, identity, counted, gone, revived, raced>>,
         dirty' \subseteq Key, stranded' \subseteq Key, unsure' \subseteq Visit,
         failures' \in 0..MaxFailures, unsure \subseteq unsure', Keys'
  PROVE  VisitIInv'
<1>1. /\ flush' \in [Flusher -> FlushState] /\ FlushesFit'
      /\ flush'[f] = s /\ \A g \in Flusher \ {f} : flush'[g] = flush[g]
  BY FlushesStay
<1>2. VisitorTypeOK' /\ VisitsFit'
  BY <1>1 DEF VisitIInv, VisitorTypeOK, VisitsFit, KeyOf
<1>3. Counts'
  BY <1>1, CountsKept
<1>4. Identities'
  BY <1>1, IdentitiesKept
<1>5. QED
  BY <1>1, <1>2, <1>3, <1>4, InvFrom

LEMMA RequeueKeeps ==
  ASSUME VisitIInv, NEW f \in Flusher, Requeue(f)
  PROVE  VisitIInv'
<1>1. /\ flush[f].pc = "requeue" /\ Goto(f, "unlist")
      /\ dirty' = dirty \union {flush[f].processing}
      /\ UNCHANGED <<visit, buffer, identity, counted, failures,
                     gone, revived, unsure, stranded, raced>>
  BY DEF Requeue, database, history
<1>2. PICK s \in FlushState :
        /\ flush' = [flush EXCEPT ![f] = s]
        /\ s.pc = "unlist" /\ s.keys = flush[f].keys /\ s.key = flush[f].key
        /\ s.processing = flush[f].processing
  <2>1. "unlist" \in FPc
    BY DEF FPc, Leaving
  <2>2. QED
    BY <1>1, <2>1, GotoStep
<1>3. flush[f].key \in Key /\ flush[f].processing \in Processing /\ flush[f].processing \in Key
  BY <1>1, FlushTyped DEF FlushFits, Owning, Key
<1>4. FlushFits(s)
  BY <1>2, <1>3 DEF FlushFits, Owning, Leaving
<1>5. flush'[f] = s
  BY <1>2, <1>4, FlushesStay
<1>6. Owned(f)' /\ Released(f)'
  BY <1>1, <1>2, <1>5 DEF Owned, Released, Owning
<1>7. \A l \in dirty \union stranded \union ({flush[f].key} \ {NoOne}) : Found(s, l)
  BY <1>1, <1>2 DEF Found
<1>8. \A g \in Flusher \ {f} : s.processing # NoOne => s.processing # flush[g].processing
  BY <1>2 DEF VisitIInv, KeysApart
<1>9. Keys'
  BY <1>1, <1>2, <1>4, <1>6, <1>7, <1>8, KeysKeptByFlush
<1>10. dirty' \subseteq Key
  BY <1>1, <1>3, VisitorTyped
<1>11. QED
  BY <1>1, <1>2, <1>4, <1>9, <1>10, ListsChange, VisitorTyped

LEMMA UnlistKeeps ==
  ASSUME VisitIInv, NEW f \in Flusher, Unlist(f)
  PROVE  VisitIInv'
<1>1. /\ flush[f].pc = "unlist" /\ Goto(f, "exists") /\ dirty' = dirty \ {flush[f].key}
      /\ UNCHANGED <<visit, buffer, identity, counted, failures,
                     gone, revived, unsure, stranded, raced>>
  BY DEF Unlist, database, history
<1>2. PICK s \in FlushState :
        /\ flush' = [flush EXCEPT ![f] = s]
        /\ s.pc = "exists" /\ s.keys = flush[f].keys /\ s.key = flush[f].key
        /\ s.processing = flush[f].processing
  <2>1. "exists" \in FPc
    BY DEF FPc, Leaving
  <2>2. QED
    BY <1>1, <2>1, GotoStep
<1>3. flush[f].key \in Key /\ flush[f].processing \in Processing /\ flush[f].processing \in Key
  BY <1>1, FlushTyped DEF FlushFits, Leaving, Key
<1>4. FlushFits(s)
  BY <1>2, <1>3 DEF FlushFits, Owning, Leaving
<1>5. flush'[f] = s /\ \A g \in Flusher \ {f} : flush'[g] = flush[g]
  BY <1>2, <1>4, FlushesStay
<1>6. Owned(f)' /\ Released(f)'
  <2>1. Owned(f)'
    BY <1>2, <1>5 DEF Owned, Owning
  <2>2. Released(f)
    BY DEF VisitIInv, KeysOwned
  <2>3. \A g \in Flusher : flush'[g].key = flush[g].key
    BY <1>2, <1>5
  <2>4. Released(f)'
    BY <1>1, <1>2, <1>5, <2>2, <2>3 DEF Released, Leaving
  <2>5. QED
    BY <2>1, <2>4
<1>7. \A l \in dirty \union stranded \union ({flush[f].key} \ {NoOne}) : Found(s, l)
  BY <1>1, <1>2 DEF Found
<1>8. \A g \in Flusher \ {f} : s.processing # NoOne => s.processing # flush[g].processing
  BY <1>2 DEF VisitIInv, KeysApart
<1>9. Keys'
  BY <1>1, <1>2, <1>4, <1>6, <1>7, <1>8, KeysKeptByFlush
<1>10. dirty' \subseteq Key
  BY <1>1, VisitorTyped
<1>11. QED
  BY <1>1, <1>2, <1>4, <1>9, <1>10, ListsChange, VisitorTyped

\* The last step of a turn: the key is empty, or listed again, or given up.
LEMMA TurnEnds ==
  ASSUME VisitIInv, NEW f \in Flusher, flush[f].pc \in Leaving, Continue(f),
         dirty \subseteq dirty', dirty' \subseteq dirty \union {flush[f].key},
         buffer[flush[f].key] = Empty \/ flush[f].key \in dirty',
         UNCHANGED <<visit, buffer, identity, counted, failures,
                     gone, revived, unsure, stranded, raced>>
  PROVE  VisitIInv'
<1>1. PICK s \in FlushState :
        /\ flush' = [flush EXCEPT ![f] = s]
        /\ s.pc = "next" /\ s.keys = flush[f].keys /\ s.key = NoOne /\ s.processing = NoOne
  BY ContinueStep
<1>2. FlushFits(s)
  BY <1>1 DEF FlushFits, Owning, Leaving
<1>3. flush'[f] = s
  BY <1>1, <1>2, FlushesStay
<1>4. flush[f].key \in Key
  BY FlushTyped DEF FlushFits, Leaving
<1>5. Owned(f)' /\ Released(f)'
  BY <1>1, <1>3 DEF Owned, Released, Owning, Leaving
<1>6. \A l \in dirty \union stranded \union ({flush[f].key} \ {NoOne}) : Found(s, l)
  BY <1>1 DEF Found
<1>7. \/ Found(s, flush[f].processing)
      \/ \E g \in Flusher \ {f} : flush[f].processing = flush[g].key
  <2>1. \/ buffer[flush[f].processing] = Empty
        \/ flush[f].processing \in dirty \union stranded
        \/ \E g \in Flusher : flush[f].processing = flush[g].key
    BY DEF VisitIInv, KeysOwned, Released
  <2>2. QED
    BY <1>1, <2>1 DEF Found
<1>8. Keys'
  BY <1>1, <1>2, <1>5, <1>6, <1>7, KeysKeptByFlush
<1>9. dirty' \subseteq Key
  BY <1>4, VisitorTyped
<1>10. flush[f].pc # "delete"
  BY DEF Leaving
<1>11. QED
  BY <1>1, <1>2, <1>8, <1>9, <1>10, ListsChange, VisitorTyped

LEMMA CheckExistsKeeps ==
  ASSUME VisitIInv, NEW f \in Flusher, CheckExists(f)
  PROVE  VisitIInv'
<1>1. /\ flush[f].pc = "exists"
      /\ UNCHANGED <<visit, buffer, dirty, identity, counted, failures,
                     gone, revived, unsure, stranded, raced>>
  BY DEF CheckExists, redis, database, history
<1>2. CASE buffer[flush[f].key] = Empty /\ Continue(f)
  BY <1>1, <1>2, TurnEnds DEF Leaving
<1>3. CASE Goto(f, "relist")
  <2>1. PICK s \in FlushState :
          /\ flush' = [flush EXCEPT ![f] = s]
          /\ s.pc = "relist" /\ s.keys = flush[f].keys /\ s.key = flush[f].key
          /\ s.processing = flush[f].processing
    <3>1. "relist" \in FPc
      BY DEF FPc, Leaving
    <3>2. QED
      BY <1>3, <3>1, GotoStep
  <2>2. FlushFits(s)
    BY <1>1, <2>1, FlushTyped DEF FlushFits, Owning, Leaving
  <2>3. flush'[f] = s /\ \A g \in Flusher \ {f} : flush'[g] = flush[g]
    BY <2>1, <2>2, FlushesStay
  <2>4. Owned(f)' /\ Released(f)'
    <3>1. Owned(f)'
      BY <2>1, <2>3 DEF Owned, Owning
    <3>2. Released(f)
      BY DEF VisitIInv, KeysOwned
    <3>3. \A g \in Flusher : flush'[g].key = flush[g].key
      BY <2>1, <2>3
    <3>4. Released(f)'
      BY <1>1, <2>1, <2>3, <3>2, <3>3 DEF Released, Leaving
    <3>5. QED
      BY <3>1, <3>4
  <2>5. \A l \in dirty \union stranded \union ({flush[f].key} \ {NoOne}) : Found(s, l)
    BY <1>1, <2>1 DEF Found
  <2>6. \A g \in Flusher \ {f} : s.processing # NoOne => s.processing # flush[g].processing
    BY <2>1 DEF VisitIInv, KeysApart
  <2>7. Keys'
    BY <1>1, <2>1, <2>2, <2>4, <2>5, <2>6, KeysKeptByFlush
  <2>8. QED
    BY <1>1, <2>1, <2>2, <2>7, ListsChange, VisitorTyped
<1>4. QED
  BY <1>2, <1>3 DEF CheckExists

LEMMA RelistKeeps ==
  ASSUME VisitIInv, NEW f \in Flusher, Relist(f)
  PROVE  VisitIInv'
<1>1. /\ flush[f].pc = "relist" /\ dirty' = dirty \union {flush[f].key} /\ Continue(f)
      /\ UNCHANGED <<visit, buffer, identity, counted, failures,
                     gone, revived, unsure, stranded, raced>>
  BY DEF Relist, database, history
<1>2. QED
  BY <1>1, TurnEnds DEF Leaving

LEMMA AbortFlushKeeps ==
  ASSUME VisitIInv, NEW f \in Flusher, AbortFlush(f)
  PROVE  VisitIInv'
<1>1. /\ unsure' = IF flush[f].pc = "delete" THEN unsure \union flush[f].taken.visits ELSE unsure
      /\ stranded' = stranded \union ({flush[f].key, flush[f].processing} \ {NoOne})
      /\ flush' = [flush EXCEPT ![f] = IdleFlush] /\ failures' \in 0..MaxFailures
      /\ UNCHANGED <<visit, buffer, dirty, identity, counted, gone, revived, raced>>
  BY FailingKept DEF AbortFlush, redis, database
<1>2. PICK s : s = IdleFlush
  OBVIOUS
<1>3. /\ s \in FlushState /\ FlushFits(s) /\ s.pc = "idle" /\ s.keys = {}
      /\ s.key = NoOne /\ s.processing = NoOne
  BY <1>2, IdleFits DEF IdleFlush
<1>4. flush'[f] = s
  BY <1>1, <1>2, <1>3, FlushesStay
<1>5. Owned(f)' /\ Released(f)'
  BY <1>3, <1>4 DEF Owned, Released, Owning, Leaving
<1>6. \A l \in dirty \union stranded \union ({flush[f].key} \ {NoOne}) : Found(s, l)
  BY <1>1 DEF Found
<1>7. flush[f].processing = NoOne \/ Found(s, flush[f].processing)
  BY <1>1 DEF Found
<1>8. Keys'
  BY <1>1, <1>2, <1>3, <1>5, <1>6, <1>7, KeysKeptByFlush
<1>9. unsure' \subseteq Visit /\ stranded' \subseteq Key /\ dirty' \subseteq Key
  BY <1>1, FlushTyped, VisitorTyped DEF FlushState, Buffered, Key
<1>10. QED
  BY <1>1, <1>2, <1>3, <1>8, <1>9, ListsChange

-------------------------------------------------------------------------------
(***************************************************************************)
(* Every behaviour.                                                        *)
(***************************************************************************)
LEMMA VisitNextInv == VisitIInv /\ [VisitNext]_visitVars => VisitIInv'
<1> SUFFICES ASSUME VisitIInv, [VisitNext]_visitVars
             PROVE  VisitIInv'
  OBVIOUS
<1>1. ASSUME NEW v \in Visit, NEW c \in Visitor, NEW u \in SignedIn \union {NoOne},
             Track(v, c, u)
      PROVE  VisitIInv'
  BY <1>1, TrackKeeps
<1>2. ASSUME NEW v \in Visit, VisitStep(v) \/ AbortVisit(v)
      PROVE  VisitIInv'
  BY <1>2, GetBufferKeeps, SetBufferKeeps, ListKeyKeeps, AbortVisitKeeps DEF VisitStep
<1>3. ASSUME NEW f \in Flusher, BeginFlush(f) \/ AnswerLost(f) \/ AbortFlush(f)
      PROVE  VisitIInv'
  BY <1>3, BeginFlushKeeps, AnswerLostKeeps, AbortFlushKeeps
<1>4. ASSUME NEW f \in Flusher, FlushStep(f)
      PROVE  VisitIInv'
  BY <1>4, EndFlushKeeps, RenameKeeps, SkipKeeps, FindOfUserKeeps, FindOfCookieKeeps, WriteIdentityKeeps,
     CountSessionKeeps, PersistThrowsKeeps, DeleteKeeps, RequeueKeeps, UnlistKeeps,
     CheckExistsKeeps, RelistKeeps DEF FlushStep
<1>5. ASSUME NEW k \in Key, ExpireKey(k)
      PROVE  VisitIInv'
  BY <1>5, ExpireKeyKeeps
<1>6. CASE UNCHANGED visitVars
  <2>1. UNCHANGED <<visit, buffer, dirty, flush, identity, counted, failures,
                    gone, revived, unsure, stranded, raced>>
    BY <1>6 DEF visitVars, redis, database, history
  <2>2. VisitorTypeOK' /\ FlushesFit' /\ VisitsFit'
    BY <2>1 DEF VisitIInv, VisitorTypeOK, FlushesFit, VisitsFit, KeyOf
  <2>3. Counts' /\ Identities'
    BY <2>1, CountsKept, IdentitiesKept
  <2>4. Keys'
    BY <2>1 DEF VisitIInv, Keys, BuffersNamed, KeysOwned, Owned, Released, KeysApart,
                KeysStayListed, KeyOf
  <2>5. QED
    BY <2>2, <2>3, <2>4, InvFrom
<1>7. QED
  BY <1>1, <1>2, <1>3, <1>4, <1>5, <1>6 DEF VisitNext

\* The invariant that the rest follows from.
THEOREM VisitInvariance == VisitSpec => []VisitIInv
<1>1. QED
  BY VisitInitInv, VisitNextInv, PTL DEF VisitSpec

\* Redis, PostgreSQL and the locals of visits and flushes always have their type.
THEOREM VisitTypeCorrect == VisitSpec => []VisitorTypeOK
<1>1. VisitIInv => VisitorTypeOK
  BY DEF VisitIInv
<1>2. QED
  BY <1>1, VisitInvariance, PTL

\* However many visits, flushes and failures there are: persistBufferedVisit counts a
\* visit twice only if bufferVisit wrote it back after a flush had taken it, or if the
\* flush that had counted it failed before its del.
THEOREM VisitTwiceOnlyIfRevived == VisitSpec => []TwiceOnlyIfRevived
<1>1. VisitIInv => TwiceOnlyIfRevived
  <2> SUFFICES ASSUME VisitIInv, NEW v \in Visit, v \notin revived \union unsure
               PROVE  ~(counted[v] > 1)
    BY DEF TwiceOnlyIfRevived
  <2>1. counted[v] \in Nat /\ counted[v] <= 1
    BY VisitorTyped DEF VisitIInv, VisitsPlaced, Once
  <2>2. QED
    BY <2>1
<1>2. QED
  BY <1>1, VisitInvariance, PTL

\* A visit that bufferVisit has stored is counted or still in a key, unless another
\* one's set overwrote it or it expired; and a key with visits is found again, except
\* after a crash or the race of a flush that unlists it with the visit that fills it.
THEOREM VisitNothingVanishes == VisitSpec => []NothingVanishes
<1>1. VisitIInv => NothingVanishes
  BY DEF VisitIInv, NothingVanishes
<1>2. QED
  BY <1>1, VisitInvariance, PTL

\* upsertVisitorIdentity gives a user one row, unless flushes raced about him.
THEOREM VisitOneIdentity == VisitSpec => []OneIdentityPerUser
<1>1. VisitIInv => OneIdentityPerUser
  <2> SUFFICES ASSUME VisitIInv, NEW u \in SignedIn, u \notin raced
               PROVE  ~(Cardinality(OfUser(u)) > 1)
    BY DEF OneIdentityPerUser
  <2>1. PICK rows : rows = OfUser(u)
    OBVIOUS
  <2>2. \A c, d \in rows : c = d
    BY <2>1 DEF VisitIInv, IdentitiesApart
  <2>3. rows = {} \/ \E c : rows = {c}
    BY <2>2
  <2>4. Cardinality(rows) \in {0, 1}
    BY <2>3, FS_EmptySet, FS_Singleton
  <2>5. QED
    BY <2>1, <2>4
<1>2. QED
  BY <1>1, VisitInvariance, PTL

-------------------------------------------------------------------------------
(***************************************************************************)
(* VisitorReports, for any number of cookies and accounts and every order  *)
(* of visits, flushes, clean-ups and late entries: a session that is       *)
(* stored never ends before it began, the cards of every report add up,    *)
(* and its list has a row for everybody they count.                        *)
(***************************************************************************)

HIDE VisitorAssumption

Buffer == [cookie : Cookie, user : Account \union {Nobody}, isBot : BOOLEAN,
           first : Nat, last : Nat]
Row == [identity : Cookie, user : Account \union {Nobody}, isBot : BOOLEAN,
        started : Nat, last : Nat]
Person == [exists : BOOLEAN, first : Nat, last : Nat,
           firstUser : Account \union {Nobody}, lastUser : Account \union {Nobody}]

ReportTypeOK ==
  /\ clock \in Nat
  /\ waiting \subseteq Buffer /\ requeued \subseteq Buffer
  /\ person \in [Cookie -> Person]
  /\ sessions \in Seq(Row)
  /\ overtaken \subseteq Cookie

\* A buffer ends no sooner than it began, and not in the future.
BuffersRunForward ==
  \A e \in waiting \union requeued : e.first <= e.last /\ e.last <= clock

\* An identity that no visit has overtaken was seen last no sooner than first.
PersonsRunForward ==
  \A c \in Cookie :
    (person[c].exists /\ c \notin overtaken) => person[c].first <= person[c].last

\* A session is one of an identity there is and, if no visit has overtaken that, lies
\* between its first and its last visit.
SessionsLieWithin ==
  \A n \in DOMAIN sessions :
    LET s == sessions[n]
    IN  /\ person[s.identity].exists
        /\ s.identity \notin overtaken =>
             /\ person[s.identity].first <= s.started /\ s.started <= s.last
             /\ s.last <= person[s.identity].last

ReportIInv == ReportTypeOK /\ BuffersRunForward /\ PersonsRunForward /\ SessionsLieWithin

USE ReportAssumption

-------------------------------------------------------------------------------
\* Some positions of a list, in order, are as many positions of the list.
LEMMA PlacesKept ==
  ASSUME NEW n \in Nat, NEW P \in SUBSET (1..n), NEW s \in InOrder(P)
  PROVE  Cardinality(P) \in Nat /\ s \in [1..Cardinality(P) -> P]
<1>1. IsFiniteSet(1..n)
  BY FS_Interval
<1>2. IsFiniteSet(P)
  BY <1>1, FS_Subset
<1>3. Cardinality(P) \in Nat
  BY <1>2, FS_CardinalityType
<1> QED BY <1>3 DEF InOrder

LEMMA TicksAreNumbers == Ticks \subseteq Nat
BY DEF Ticks

LEMMA ReportInitInv == ReportInit => ReportIInv
<1> SUFFICES ASSUME ReportInit PROVE ReportIInv
  OBVIOUS
<1>1. NoPerson \in Person
  BY DEF NoPerson, Person
<1>2. <<>> \in Seq(Row)
  OBVIOUS
<1>3. ReportTypeOK
  BY <1>1, <1>2 DEF ReportInit, ReportTypeOK
<1>4. BuffersRunForward /\ PersonsRunForward /\ SessionsLieWithin
  BY DEF ReportInit, BuffersRunForward, PersonsRunForward, SessionsLieWithin, NoPerson
<1> QED BY <1>3, <1>4 DEF ReportIInv

\* Nothing of the database is touched.
LEMMA RowsStand ==
  ASSUME ReportIInv, UNCHANGED <<person, sessions, overtaken>>,
         clock' \in Nat, waiting' \subseteq Buffer, requeued' \subseteq Buffer, BuffersRunForward'
  PROVE  ReportIInv'
<1>1. ReportTypeOK'
  BY DEF ReportIInv, ReportTypeOK
<1>2. PersonsRunForward' /\ SessionsLieWithin'
  BY DEF ReportIInv, PersonsRunForward, SessionsLieWithin
<1> QED BY <1>1, <1>2 DEF ReportIInv

LEMMA TrackVisitKeeps ==
  ASSUME ReportIInv, NEW c \in Cookie, NEW u \in Account \union {Nobody}, TrackVisit(c, u)
  PROVE  ReportIInv'
<1> DEFINE bot == c \in Bots
           mine == {e \in waiting : SameSubject(e, c, u)}
           next == [cookie |-> c, user |-> u, isBot |-> bot, first |-> clock, last |-> clock]
<1>1. clock \in Nat /\ waiting \subseteq Buffer /\ bot \in BOOLEAN
  BY DEF ReportIInv, ReportTypeOK
<1>2. next \in Buffer /\ next.first = clock /\ next.last = clock
  BY <1>1 DEF Buffer
<1>3. \A e \in waiting : /\ [e EXCEPT !.last = clock, !.isBot = bot] \in Buffer
                         /\ [e EXCEPT !.last = clock, !.isBot = bot].first = e.first
                         /\ [e EXCEPT !.last = clock, !.isBot = bot].last = clock
  BY <1>1 DEF Buffer
<1>4. \A e \in waiting' : \/ e \in waiting \/ e = next
                          \/ \E d \in waiting : e = [d EXCEPT !.last = clock, !.isBot = bot]
  BY DEF TrackVisit
<1> HIDE DEF next, bot, mine
<1>5. waiting' \subseteq Buffer
  BY <1>1, <1>2, <1>3, <1>4
<1>6. UNCHANGED <<clock, requeued, person, sessions, overtaken>>
  BY DEF TrackVisit
<1>7. \A d \in waiting : d.first \in Nat /\ d.last \in Nat /\ d.first <= d.last /\ d.last <= clock
  BY DEF ReportIInv, ReportTypeOK, Buffer, BuffersRunForward
<1>8. \A e \in waiting' : e.first <= e.last /\ e.last <= clock
  <2> SUFFICES ASSUME NEW e \in waiting' PROVE e.first <= e.last /\ e.last <= clock
    OBVIOUS
  <2>1. CASE e \in waiting
    BY <1>7, <2>1
  <2>2. CASE e = next
    BY <1>1, <1>2, <2>2
  <2>3. ASSUME NEW d \in waiting, e = [d EXCEPT !.last = clock, !.isBot = bot]
        PROVE  e.first <= e.last /\ e.last <= clock
    <3>1. e.first = d.first /\ e.last = clock
      BY <1>3, <2>3
    <3>2. d.first <= clock
      BY <1>1, <1>7
    <3> QED BY <1>1, <3>1, <3>2
  <2> QED BY <1>4, <2>1, <2>2, <2>3
<1>9. BuffersRunForward'
  BY <1>6, <1>8 DEF ReportIInv, BuffersRunForward
<1> QED BY <1>5, <1>6, <1>9, RowsStand DEF ReportIInv, ReportTypeOK

LEMMA FlushFailsKeeps ==
  ASSUME ReportIInv, NEW e \in waiting \union requeued, FlushFails(e) PROVE ReportIInv'
<1>1. /\ waiting' = waiting \ {e} /\ requeued' = requeued \union {e} /\ e \in waiting
      /\ UNCHANGED <<clock, person, sessions, overtaken>>
  BY DEF FlushFails
<1>2. BuffersRunForward'
  BY <1>1 DEF ReportIInv, BuffersRunForward
<1> QED BY <1>1, <1>2, RowsStand DEF ReportIInv, ReportTypeOK

LEMMA TickKeeps ==
  ASSUME ReportIInv, NextTick PROVE ReportIInv'
<1>1. clock' = clock + 1 /\ clock \in Nat
  BY DEF NextTick, ReportIInv, ReportTypeOK
<1>2. UNCHANGED <<waiting, requeued, person, sessions, overtaken>>
  BY DEF NextTick
<1>3. \A d \in waiting \union requeued : d.first \in Nat /\ d.last \in Nat
  BY DEF ReportIInv, ReportTypeOK, Buffer
<1>4. BuffersRunForward'
  BY <1>1, <1>2, <1>3 DEF ReportIInv, BuffersRunForward
<1> QED BY <1>1, <1>2, <1>4, RowsStand DEF ReportIInv, ReportTypeOK

\* The rows that a buffer leaves behind, of the identity it is resolved to.
LEMMA FlushKeeps ==
  ASSUME ReportIInv, NEW e \in waiting \union requeued, FlushEntry(e) PROVE ReportIInv'
<1>1. PICK c \in IdentityFor(e) :
        /\ person' = [person EXCEPT ![c] = Written(c, e)]
        /\ sessions' \in Resolved(c, e)
        /\ overtaken' = IF person[c].exists /\ e.first < person[c].last
                        THEN overtaken \union {c} ELSE overtaken
  BY DEF FlushEntry, Persist
<1>2. /\ e \in Buffer /\ e.first <= e.last /\ e.first \in Nat /\ e.last \in Nat
      /\ e.user \in Account \union {Nobody} /\ e.isBot \in BOOLEAN /\ e.cookie \in Cookie
  BY DEF ReportIInv, ReportTypeOK, BuffersRunForward, Buffer
<1>3. c \in Cookie
  BY <1>1, <1>2 DEF IdentityFor, PersonsOf
<1>4. person \in [Cookie -> Person] /\ sessions \in Seq(Row) /\ overtaken \subseteq Cookie
  BY DEF ReportIInv, ReportTypeOK
<1>5. \A d \in Cookie :
        /\ person[d].exists \in BOOLEAN /\ person[d].first \in Nat /\ person[d].last \in Nat
        /\ person[d].firstUser \in Account \union {Nobody}
        /\ person[d].lastUser \in Account \union {Nobody}
  BY <1>4 DEF Person
<1>6. PICK w \in Person : w = Written(c, e)
  <2>1. (IF person[c].exists THEN person[c].first ELSE e.first) \in Nat
    BY <1>2, <1>3, <1>5
  <2>2. /\ OrElse(person[c].firstUser, e.user) \in Account \union {Nobody}
        /\ OrElse(e.user, person[c].lastUser) \in Account \union {Nobody}
    BY <1>2, <1>3, <1>5 DEF OrElse
  <2> QED BY <1>2, <2>1, <2>2 DEF Written, Person
<1>7. /\ w.exists = TRUE /\ w.last = e.last
      /\ w.first = IF person[c].exists THEN person[c].first ELSE e.first
  BY <1>6 DEF Written
<1>8. person' \in [Cookie -> Person] /\ person'[c] = w
      /\ \A d \in Cookie : d # c => person'[d] = person[d]
  BY <1>1, <1>3, <1>4, <1>6
<1>9. /\ waiting' = waiting \ {e} /\ requeued' = requeued \ {e} /\ clock' = clock
  BY DEF FlushEntry
<1>10. overtaken' \subseteq Cookie /\ overtaken \subseteq overtaken'
  BY <1>1, <1>3, <1>4
<1>11. c \notin overtaken' => c \notin overtaken /\ (person[c].exists => person[c].last <= e.first)
  BY <1>1, <1>2, <1>3, <1>5
<1>12. BuffersRunForward'
  BY <1>9 DEF ReportIInv, BuffersRunForward
<1>13. PersonsRunForward'
  <2> SUFFICES ASSUME NEW d \in Cookie, person'[d].exists, d \notin overtaken'
               PROVE  person'[d].first <= person'[d].last
    BY DEF PersonsRunForward
  <2>1. CASE d # c
    BY <1>8, <1>10, <2>1 DEF ReportIInv, PersonsRunForward
  <2>2. CASE d = c /\ person[c].exists
    BY <1>2, <1>3, <1>5, <1>7, <1>8, <1>11, <2>2 DEF ReportIInv, PersonsRunForward
  <2>3. CASE d = c /\ ~person[c].exists
    BY <1>2, <1>7, <1>8, <2>3
  <2> QED BY <2>1, <2>2, <2>3
\* A session as it was fits the identities as they are.
<1>14. ASSUME NEW n \in DOMAIN sessions
       PROVE  /\ sessions[n] \in Row /\ sessions[n].identity \in Cookie
              /\ sessions[n].started \in Nat /\ sessions[n].last \in Nat
              /\ person'[sessions[n].identity].exists
              /\ sessions[n].identity \notin overtaken' =>
                   /\ person'[sessions[n].identity].first <= sessions[n].started
                   /\ sessions[n].started <= sessions[n].last
                   /\ sessions[n].last <= person'[sessions[n].identity].last
                   /\ sessions[n].identity = c => sessions[n].last <= e.first
  <2>1. sessions[n] \in Row
    BY <1>4
  <2>2. /\ sessions[n].identity \in Cookie
        /\ sessions[n].started \in Nat /\ sessions[n].last \in Nat
    BY <2>1 DEF Row
  <2>3. /\ person[sessions[n].identity].exists
        /\ sessions[n].identity \notin overtaken =>
             /\ person[sessions[n].identity].first <= sessions[n].started
             /\ sessions[n].started <= sessions[n].last
             /\ sessions[n].last <= person[sessions[n].identity].last
    BY DEF ReportIInv, SessionsLieWithin
  <2>4. CASE sessions[n].identity # c
    BY <1>8, <1>10, <2>1, <2>2, <2>3, <2>4
  <2>5. CASE sessions[n].identity = c
    BY <1>2, <1>3, <1>5, <1>7, <1>8, <1>11, <2>1, <2>2, <2>3, <2>5
  <2> QED BY <2>4, <2>5
<1>15. CASE Active(c, e) # {}
  <2>1. PICK n \in Active(c, e) :
          sessions' = [sessions EXCEPT ![n].last = e.last, ![n].user = OrElse(e.user, @)]
    BY <1>1, <1>15 DEF Resolved
  <2>2. n \in DOMAIN sessions /\ sessions[n].identity = c
    BY DEF Active
  <2>3. sessions[n] \in Row /\ sessions[n].user \in Account \union {Nobody}
    BY <1>14, <2>2 DEF Row
  <2>4. PICK s \in Row : s = [sessions[n] EXCEPT !.last = e.last, !.user = OrElse(e.user, @)]
    BY <1>2, <2>3 DEF Row, OrElse
  <2>5. s.identity = c /\ s.started = sessions[n].started /\ s.last = e.last
    BY <2>2, <2>3, <2>4 DEF Row
  <2>6. /\ DOMAIN sessions' = DOMAIN sessions /\ sessions'[n] = s
        /\ \A m \in DOMAIN sessions : m # n => sessions'[m] = sessions[m]
    BY <1>4, <2>1, <2>2, <2>3, <2>4 DEF Row
  <2>7. sessions' \in Seq(Row)
    <3>1. DOMAIN sessions = 1..Len(sessions) /\ Len(sessions) \in Nat
      BY <1>4
    <3>2. \A m \in DOMAIN sessions : sessions'[m] \in Row
      BY <1>14, <2>6
    <3>3. sessions' \in [1..Len(sessions) -> Row]
      BY <2>1, <2>6, <3>1, <3>2
    <3> QED BY <3>1, <3>3
  <2>8. SessionsLieWithin'
    <3> SUFFICES ASSUME NEW m \in DOMAIN sessions
                 PROVE  /\ person'[sessions'[m].identity].exists
                        /\ sessions'[m].identity \notin overtaken' =>
                             /\ person'[sessions'[m].identity].first <= sessions'[m].started
                             /\ sessions'[m].started <= sessions'[m].last
                             /\ sessions'[m].last <= person'[sessions'[m].identity].last
      BY <2>6 DEF SessionsLieWithin
    <3>1. CASE m # n
      BY <1>14, <2>6, <3>1
    <3>2. CASE m = n
      BY <1>2, <1>7, <1>8, <1>14, <2>2, <2>5, <2>6, <3>2
    <3> QED BY <3>1, <3>2
  <2>9. ReportTypeOK'
    BY <1>8, <1>9, <1>10, <2>7 DEF ReportIInv, ReportTypeOK
  <2> QED BY <1>12, <1>13, <2>8, <2>9 DEF ReportIInv
<1>16. CASE Active(c, e) = {}
  <2>1. PICK s \in Row :
          s = [identity |-> c, user |-> e.user, isBot |-> e.isBot,
               started |-> e.first, last |-> e.last]
    BY <1>2, <1>3 DEF Row
  <2>2. sessions' = Append(sessions, s)
    BY <1>1, <1>16, <2>1 DEF Resolved
  <2>3. /\ sessions' \in Seq(Row) /\ Len(sessions) \in Nat /\ Len(sessions') = Len(sessions) + 1
        /\ DOMAIN sessions = 1..Len(sessions) /\ DOMAIN sessions' = 1..Len(sessions')
        /\ sessions'[Len(sessions')] = s /\ \A i \in DOMAIN sessions : sessions'[i] = sessions[i]
    BY <1>4, <2>2
  <2>4. c \notin overtaken' => w.first <= e.first
    BY <1>2, <1>3, <1>5, <1>7, <1>11 DEF ReportIInv, PersonsRunForward
  <2>5. SessionsLieWithin'
    <3> SUFFICES ASSUME NEW m \in 1..Len(sessions')
                 PROVE  /\ person'[sessions'[m].identity].exists
                        /\ sessions'[m].identity \notin overtaken' =>
                             /\ person'[sessions'[m].identity].first <= sessions'[m].started
                             /\ sessions'[m].started <= sessions'[m].last
                             /\ sessions'[m].last <= person'[sessions'[m].identity].last
      BY <2>3 DEF SessionsLieWithin
    <3>1. CASE m # Len(sessions')
      BY <1>14, <2>3, <3>1
    <3>2. CASE m = Len(sessions')
      BY <1>2, <1>7, <1>8, <2>1, <2>3, <2>4, <3>2
    <3> QED BY <3>1, <3>2
  <2>6. ReportTypeOK'
    BY <1>8, <1>9, <1>10, <2>3 DEF ReportIInv, ReportTypeOK
  <2> QED BY <1>12, <1>13, <2>5, <2>6 DEF ReportIInv
<1> QED BY <1>15, <1>16

LEMMA CleanupKeeps ==
  ASSUME ReportIInv, Cleanup PROVE ReportIInv'
<1> DEFINE old == {c \in Cookie : person[c].exists /\ person[c].last < clock - Retention}
           young == {n \in DOMAIN sessions : sessions[n].identity \notin old}
<1>1. PICK kept \in InOrder(young) : sessions' = [n \in DOMAIN kept |-> sessions[kept[n]]]
  BY DEF Cleanup
<1>2. /\ person' = [c \in Cookie |-> IF c \in old THEN NoPerson ELSE person[c]]
      /\ overtaken' = overtaken \ old /\ UNCHANGED <<clock, waiting, requeued>>
  BY DEF Cleanup
<1>3. /\ sessions \in Seq(Row) /\ DOMAIN sessions = 1..Len(sessions) /\ Len(sessions) \in Nat
      /\ person \in [Cookie -> Person]
  BY DEF ReportIInv, ReportTypeOK
<1>4. young \in SUBSET (1..Len(sessions))
  BY <1>3
<1>5. \A n \in young : n \in DOMAIN sessions /\ sessions[n] \in Row /\ sessions[n].identity \notin old
  BY <1>3
<1> HIDE DEF young, old
<1>6. Cardinality(young) \in Nat /\ kept \in [1..Cardinality(young) -> young]
  BY <1>1, <1>3, <1>4, PlacesKept
<1>7. /\ DOMAIN sessions' = 1..Cardinality(young)
      /\ \A n \in DOMAIN sessions' : kept[n] \in young /\ sessions'[n] = sessions[kept[n]]
  BY <1>1, <1>6
<1>8. sessions' \in Seq(Row)
  <2>1. sessions' \in [1..Cardinality(young) -> Row]
    BY <1>1, <1>5, <1>6, <1>7
  <2> QED BY <1>6, <2>1
<1>9. NoPerson \in Person /\ NoPerson.exists = FALSE
  BY DEF NoPerson, Person
<1>10. person' \in [Cookie -> Person]
  BY <1>2, <1>3, <1>9
<1>11. ReportTypeOK'
  BY <1>2, <1>8, <1>10 DEF ReportIInv, ReportTypeOK
<1>12. BuffersRunForward'
  BY <1>2 DEF ReportIInv, BuffersRunForward
<1>13. PersonsRunForward'
  BY <1>2, <1>9 DEF ReportIInv, PersonsRunForward
<1>14. SessionsLieWithin'
  <2> SUFFICES ASSUME NEW n \in DOMAIN sessions'
               PROVE  /\ person'[sessions'[n].identity].exists
                      /\ sessions'[n].identity \notin overtaken' =>
                           /\ person'[sessions'[n].identity].first <= sessions'[n].started
                           /\ sessions'[n].started <= sessions'[n].last
                           /\ sessions'[n].last <= person'[sessions'[n].identity].last
    BY DEF SessionsLieWithin
  <2>1. PICK m \in DOMAIN sessions : sessions'[n] = sessions[m] /\ sessions[m].identity \notin old
    BY <1>5, <1>7
  <2>2. sessions[m].identity \in Cookie
    <3>1. sessions[m] \in Row
      BY <1>3
    <3> QED BY <3>1 DEF Row
  <2>3. person'[sessions[m].identity] = person[sessions[m].identity]
    BY <1>2, <2>1, <2>2
  <2> QED BY <1>2, <2>1, <2>3 DEF ReportIInv, SessionsLieWithin
<1> QED BY <1>11, <1>12, <1>13, <1>14 DEF ReportIInv

\* The inductive invariant of VisitorReports.
THEOREM ReportInductive == ReportSpec => []ReportIInv
<1>1. ReportIInv /\ [ReportNext]_reportVars => ReportIInv'
  <2> SUFFICES ASSUME ReportIInv, [ReportNext]_reportVars PROVE ReportIInv'
    OBVIOUS
  <2>1. CASE ReportNext
    BY <2>1, TrackVisitKeeps, FlushKeeps, FlushFailsKeeps, CleanupKeeps, TickKeeps DEF ReportNext
  <2>2. CASE UNCHANGED reportVars
    BY <2>2 DEF reportVars, ReportIInv, ReportTypeOK, BuffersRunForward, PersonsRunForward,
       SessionsLieWithin
  <2> QED BY <2>1, <2>2
<1> QED BY ReportInitInv, <1>1, PTL DEF ReportSpec

\* The sessions that flushes write begin no sooner than their identity was first seen
\* and end no sooner than they began, for any number of visits, days, identities, users
\* and requeued buffers, unless a visit was persisted after a later one of its identity.
THEOREM ReportSessionsForward == ReportSpec => []SessionsRunForward
<1>1. ReportIInv => SessionsRunForward
  BY DEF ReportIInv, SessionsLieWithin, SessionsRunForward
<1> QED BY <1>1, ReportInductive, PTL

-------------------------------------------------------------------------------
(***************************************************************************)
(* The reports.                                                            *)
(***************************************************************************)

\* A set of numbers has a least one.
LEMMA LeastNumber ==
  ASSUME NEW S \in SUBSET Nat, S # {}
  PROVE  Min(S) \in S /\ \A y \in S : Min(S) <= y
<1>1. PICK R : R = OpToRel(<, Nat)
  OBVIOUS
<1>2. \E x \in S : \A y \in S : ~(<<y, x>> \in R)
  BY <1>1, NatLessThanWellFounded, WFMin
<1>3. \A x, y \in Nat : y < x => <<y, x>> \in R
  BY <1>1 DEF OpToRel
<1>4. \E x \in S : \A y \in S : x <= y
  <2>1. PICK x \in S : \A y \in S : ~(<<y, x>> \in R)
    BY <1>2
  <2>2. ASSUME NEW y \in S PROVE x <= y
    <3>1. x \in Nat /\ y \in Nat /\ ~(y < x)
      BY <1>3, <2>1
    <3> QED BY <3>1
  <2> QED BY <2>2
<1> QED BY <1>4 DEF Min


\* Earlier ticks are of no later day.
LEMMA DaysAscend ==
  ASSUME NEW a \in Nat, NEW b \in Nat, a <= b
  PROVE  Day(a) \in Nat /\ Day(b) \in Nat /\ Day(a) <= Day(b)
<1>1. PICK i \in Nat : i = Day(a)
  BY DEF Day
<1>2. PICK j \in Nat : j = Day(b)
  BY DEF Day
<1>3. i * TicksPerDay <= a
  BY <1>1 DEF Day
<1>4. b < (j + 1) * TicksPerDay
  BY <1>2 DEF Day
<1>5. ASSUME j + 1 <= i PROVE FALSE
  <2>1. (j + 1) * TicksPerDay <= i * TicksPerDay
    BY <1>5
  <2>2. (j + 1) * TicksPerDay \in Int /\ i * TicksPerDay \in Int
    OBVIOUS
  <2> QED BY <1>3, <1>4, <2>1, <2>2
<1> QED BY <1>1, <1>2, <1>5

LEMMA RangesAreDays ==
  ASSUME ReportIInv, NEW q \in Ranges
  PROVE  q.from \in Int /\ q.to \in Int
<1>1. Day(clock) \in Int
  BY DaysAscend DEF ReportIInv, ReportTypeOK
<1>2. ASSUME NEW a \in Dates, NEW b \in Dates
      PROVE  DateRange(a, b).from \in Int /\ DateRange(a, b).to \in Int
  BY <1>1 DEF DateRange, Dates, NoDate
<1> QED BY <1>2 DEF Ranges

\* The sessions of a report are finitely many, of days of its range, and began no
\* sooner than their identity was first seen.
LEMMA FilteredFits ==
  ASSUME ReportIInv, NEW q \in Ranges
  PROVE  /\ IsFiniteSet(Filtered(q))
         /\ \A s \in Filtered(q) :
              /\ s.identity \in Cookie /\ s.started \in Nat
              /\ Day(s.started) <= q.to
              /\ person[s.identity].first \in Nat
              /\ s.identity \notin overtaken => person[s.identity].first <= s.started
<1>1. PICK len \in Nat : len = Len(sessions)
  BY DEF ReportIInv, ReportTypeOK
<1>2. DOMAIN sessions = 1..len /\ \A n \in 1..len : sessions[n] \in Row
  BY <1>1 DEF ReportIInv, ReportTypeOK
<1>3. IsFiniteSet(Rows)
  <2>1. IsFiniteSet(1..len)
    <3>1. 1 \in Int /\ len \in Int
      OBVIOUS
    <3> QED BY <3>1, FS_Interval
  <2>2. PICK r : r = [n \in 1..len |->
           [id |-> n, identity |-> sessions[n].identity, user |-> sessions[n].user,
            isBot |-> sessions[n].isBot, started |-> sessions[n].started,
            last |-> sessions[n].last]]
    OBVIOUS
  <2>3. Rows = {r[n] : n \in 1..len}
    BY <1>2, <2>2 DEF Rows
  <2>4. r \in Surjection(1..len, Rows)
    BY <2>2, <2>3 DEF Surjection
  <2> QED BY <2>1, <2>4, FS_Surjection
<1>4. Filtered(q) \subseteq Rows
  BY DEF Filtered
<1>5. ASSUME NEW s \in Filtered(q)
      PROVE  /\ s.identity \in Cookie /\ s.started \in Nat
             /\ Day(s.started) <= q.to
             /\ person[s.identity].first \in Nat
             /\ s.identity \notin overtaken => person[s.identity].first <= s.started
  <2>1. PICK n \in 1..len : s.identity = sessions[n].identity /\ s.started = sessions[n].started
    BY <1>2, <1>4 DEF Rows
  <2>2. s.identity \in Cookie /\ s.started \in Nat
    BY <1>2, <2>1 DEF Row
  <2>3. person[s.identity].first \in Nat
    BY <2>2 DEF ReportIInv, ReportTypeOK, Person
  <2>4. s.identity \notin overtaken => person[s.identity].first <= s.started
    BY <1>2, <2>1 DEF ReportIInv, SessionsLieWithin
  <2>5. Day(s.started) \in q.from..q.to
    BY DEF Filtered
  <2>6. Day(s.started) <= q.to
    BY <2>5, RangesAreDays
  <2> QED BY <2>2, <2>3, <2>4, <2>6
<1> QED BY <1>3, <1>4, <1>5, FS_Subset

\* Somebody counted was first seen on a day before the range ends.
LEMMA FirstSeenFits ==
  ASSUME ReportIInv, overtaken = {}, NEW q \in Ranges, NEW p \in PersonKeys(Filtered(q))
  PROVE  Day(FirstSeen(Filtered(q), p)) \in Int /\ Day(FirstSeen(Filtered(q), p)) <= q.to
<1>1. PICK S : S = Filtered(q)
  OBVIOUS
<1>2. PICK firsts : firsts = {person[s.identity].first : s \in {s \in S : PersonKey(s) = p}}
  OBVIOUS
<1>3. PICK s \in S : PersonKey(s) = p
  BY <1>1 DEF PersonKeys
<1>4. firsts \in SUBSET Nat /\ person[s.identity].first \in firsts
  BY <1>1, <1>2, <1>3, FilteredFits
<1>5. Min(firsts) \in Nat /\ Min(firsts) <= person[s.identity].first
  BY <1>4, LeastNumber
<1>6. PICK first \in Nat : first = Min(firsts)
  BY <1>5
<1>7. first <= s.started /\ s.started \in Nat /\ Day(s.started) <= q.to
  BY <1>1, <1>3, <1>4, <1>5, <1>6, FilteredFits
<1>8. Day(first) \in Nat /\ Day(s.started) \in Nat /\ Day(first) <= Day(s.started)
  BY <1>7, DaysAscend
<1>9. FirstSeen(S, p) = first
  BY <1>2, <1>6 DEF FirstSeen
<1> QED BY <1>1, <1>7, <1>8, <1>9, RangesAreDays

\* Two parts of a finite set that together are all of it.
LEMMA PartsAddUp ==
  ASSUME NEW S, IsFiniteSet(S), NEW A, NEW B, A \union B = S, A \intersect B = {}
  PROVE  Cardinality(A) + Cardinality(B) = Cardinality(S)
<1>1. IsFiniteSet(A) /\ IsFiniteSet(B)
  BY FS_Subset
<1>2. Cardinality(A) \in Nat /\ Cardinality(B) \in Nat
  BY <1>1, FS_CardinalityType
<1>3. Cardinality(S) = Cardinality(A) + Cardinality(B) - Cardinality({})
  BY <1>1, FS_Union
<1>4. Cardinality({}) = 0
  BY FS_EmptySet
<1>5. PICK a \in Nat, b \in Nat : a = Cardinality(A) /\ b = Cardinality(B)
  BY <1>2
<1>6. Cardinality(S) = a + b - 0
  BY <1>3, <1>4, <1>5
<1>7. Cardinality(S) = a + b
  BY <1>6
<1> QED BY <1>5, <1>7

LEMMA KeysAreFinite ==
  ASSUME NEW S, IsFiniteSet(S) PROVE IsFiniteSet(PersonKeys(S))
<1>1. PICK k : k = [s \in S |-> PersonKey(s)]
  OBVIOUS
<1>2. k \in Surjection(S, PersonKeys(S))
  BY <1>1 DEF Surjection, PersonKeys
<1> QED BY <1>2, FS_Surjection

\* The people of a report are those of its type.
LEMMA KeysOfVisits ==
  ASSUME NEW q PROVE PersonKeys(Visits(q)) = TypedPersons(q)
BY DEF PersonKeys, Visits, TypedPersons

\* Whoever is counted is new or returning, and visits are of the one or the other.
LEMMA CardsFit ==
  ASSUME ReportIInv, overtaken = {}, NEW q \in Ranges
  PROVE  CardsAddUp(q)
<1>1. PICK S : S = Filtered(q)
  OBVIOUS
<1>2. PICK new : new = {p \in PersonKeys(S) : Day(FirstSeen(S, p)) \in q.from..q.to}
  OBVIOUS
<1>3. PICK back : back = {p \in PersonKeys(S) : Day(FirstSeen(S, p)) < q.from}
  OBVIOUS
<1>4. q.from \in Int /\ q.to \in Int
  BY RangesAreDays
<1>5. \A p \in PersonKeys(S) :
        Day(FirstSeen(S, p)) \in Int /\ Day(FirstSeen(S, p)) <= q.to
  BY <1>1, FirstSeenFits
<1>6. new \union back = PersonKeys(S) /\ new \intersect back = {}
  <2>1. ASSUME NEW p \in PersonKeys(S)
        PROVE  (p \in new \/ p \in back) /\ ~(p \in new /\ p \in back)
    <3>1. PICK d \in Int : d = Day(FirstSeen(S, p))
      BY <1>5
    <3>2. d <= q.to
      BY <1>5, <3>1
    <3>3. p \in new <=> (q.from <= d /\ d <= q.to)
      BY <1>2, <1>4, <3>1
    <3>4. p \in back <=> d < q.from
      BY <1>3, <3>1
    <3> QED BY <1>4, <3>2, <3>3, <3>4
  <2> QED BY <1>2, <1>3, <2>1
<1>7. PICK P : P = TypedPersons(q)
  OBVIOUS
<1>8. P \subseteq PersonKeys(S) /\ IsFiniteSet(P) /\ IsFiniteSet(S)
  <2>1. P \subseteq PersonKeys(S)
    BY <1>1, <1>7 DEF TypedPersons
  <2>2. IsFiniteSet(S)
    BY <1>1, FilteredFits
  <2> QED BY <2>1, <2>2, KeysAreFinite, FS_Subset
<1>9. PersonKeys(Visits(q)) = P
  BY <1>7, KeysOfVisits
<1>10. Cards(q).newVisitors + Cards(q).returningVisitors = Cards(q).uniqueVisitors
  <2>1. PICK n : n = {p \in P : Day(FirstSeen(S, p)) \in q.from..q.to}
    OBVIOUS
  <2>2. PICK r : r = {p \in P : Day(FirstSeen(S, p)) < q.from}
    OBVIOUS
  <2>3. n = P \intersect new /\ r = P \intersect back
    BY <1>2, <1>3, <1>8, <2>1, <2>2
  <2>4. n \union r = P /\ n \intersect r = {}
    BY <1>6, <1>8, <2>3
  <2>5. Cardinality(n) + Cardinality(r) = Cardinality(P)
    BY <1>8, <2>4, PartsAddUp
  <2>6. /\ Cards(q).newVisitors = Cardinality(n) /\ Cards(q).returningVisitors = Cardinality(r)
        /\ Cards(q).uniqueVisitors = Cardinality(P)
    BY <1>1, <1>9, <2>1, <2>2 DEF Cards
  <2> QED BY <2>5, <2>6
<1>11. ASSUME q.type = "all"
       PROVE  /\ Cards([q EXCEPT !.type = "new"]).totalVisits
                   + Cards([q EXCEPT !.type = "returning"]).totalVisits = Cards(q).totalVisits
              /\ Cards([q EXCEPT !.type = "new"]).uniqueVisitors = Cards(q).newVisitors
  <2>1. PICK a : a = [q EXCEPT !.type = "new"]
    OBVIOUS
  <2>2. PICK b : b = [q EXCEPT !.type = "returning"]
    OBVIOUS
  <2>3. /\ a.type = "new" /\ a.from = q.from /\ a.to = q.to /\ a.segment = q.segment
        /\ b.type = "returning" /\ b.from = q.from /\ b.to = q.to /\ b.segment = q.segment
    BY <2>1, <2>2 DEF Ranges
  <2>4. Filtered(a) = S /\ Filtered(b) = S
    BY <1>1, <2>3 DEF Filtered, OfSegment
  <2>5. TypedPersons(a) = new /\ TypedPersons(b) = back /\ P = PersonKeys(S)
    BY <1>1, <1>2, <1>3, <1>7, <1>11, <2>3, <2>4 DEF TypedPersons, OfType
  <2>6. /\ Visits(a) = {s \in S : PersonKey(s) \in new}
        /\ Visits(b) = {s \in S : PersonKey(s) \in back}
    BY <2>4, <2>5 DEF Visits
  <2>7. Visits(q) = S
    BY <1>1, <1>7, <2>5 DEF Visits, PersonKeys
  <2>8. Visits(a) \union Visits(b) = S /\ Visits(a) \intersect Visits(b) = {}
    <3>1. \A s \in S : PersonKey(s) \in PersonKeys(S)
      BY DEF PersonKeys
    <3> QED BY <1>6, <2>6, <3>1
  <2>9. Cardinality(Visits(a)) + Cardinality(Visits(b)) = Cardinality(S)
    BY <1>8, <2>8, PartsAddUp
  <2>10. /\ Cards(a).totalVisits = Cardinality(Visits(a))
         /\ Cards(b).totalVisits = Cardinality(Visits(b))
         /\ Cards(q).totalVisits = Cardinality(S)
    BY <2>7 DEF Cards
  <2>11. Cards(a).uniqueVisitors = Cardinality(new)
    BY <2>5, KeysOfVisits DEF Cards
  <2>12. Cards(q).newVisitors = Cardinality(new)
    BY <1>1, <1>2, <1>9, <2>5 DEF Cards
  <2> QED BY <2>1, <2>2, <2>9, <2>10, <2>11, <2>12
<1> QED BY <1>10, <1>11 DEF CardsAddUp

\* Whatever the order of visits, flushes, failures and clean-ups, the cards of the page
\* add up for every range, segment and type as long as no visit was persisted after a
\* later one of its identity: everybody counted is new or returning, not both, and the
\* two types split visits and visitors between them.
THEOREM ReportCardsAddUp ==
  ReportSpec => [](overtaken = {} => \A q \in Ranges : CardsAddUp(q))
<1>1. ReportIInv => (overtaken = {} => \A q \in Ranges : CardsAddUp(q))
  BY CardsFit
<1> QED BY <1>1, ReportInductive, PTL

\* A sum is what any function says that adds one element at a time.
LEMMA SumIs ==
  ASSUME NEW S, IsFiniteSet(S), NEW w \in [S -> Nat],
         NEW total \in [SUBSET S -> Nat], total[{}] = 0,
         \A s \in SUBSET S : \A x \in s : total[s] = w[x] + total[s \ {x}]
  PROVE  SumFunction(w) = total[S]
<1> DEFINE first(s) == CHOOSE x \in s : TRUE
           Adds(f) == f = [s \in SUBSET S |-> IF s = {} THEN 0 ELSE w[first(s)] + f[s \ {first(s)}]]
           iter == CHOOSE f : Adds(f)
<1>1. SumFunction(w) = iter[S]
  BY DEF SumFunction, SumFunctionOnSet, FoldFunctionOnSet, MapThenFoldSet
<1>2. ASSUME NEW s \in SUBSET S, s # {} PROVE first(s) \in s
  BY <1>2
<1>3. Adds(total)
  <2>1. ASSUME NEW s \in SUBSET S
        PROVE  total[s] = IF s = {} THEN 0 ELSE w[first(s)] + total[s \ {first(s)}]
    BY <1>2 
  <2> HIDE DEF first
  <2> QED BY <2>1
<1>4. Adds(iter)
  <2> HIDE DEF Adds
  <2> QED BY <1>3
<1> DEFINE Wrong == {Cardinality(s) : s \in {s \in SUBSET S : iter[s] # total[s]}}
<1>5. \A s \in SUBSET S : IsFiniteSet(s) /\ Cardinality(s) \in Nat
  BY FS_Subset, FS_CardinalityType
<1>6. ASSUME NEW s \in SUBSET S, s # {}
      PROVE  iter[s] = w[first(s)] + iter[s \ {first(s)}]
  <2> HIDE DEF first
  <2> QED BY <1>4, <1>6
<1>7. ASSUME Wrong # {} PROVE FALSE
  <2> HIDE DEF iter
  <2>1. Wrong \in SUBSET Nat
    BY <1>5
  <2>2. Min(Wrong) \in Wrong /\ \A n \in Wrong : Min(Wrong) <= n
    <3> HIDE DEF Wrong
    <3> QED BY <1>7, <2>1, LeastNumber
  <2>3. PICK s \in SUBSET S : iter[s] # total[s] /\ Cardinality(s) = Min(Wrong)
    BY <2>2
  <2>4. s # {}
    <3>1. iter[{}] = 0
      BY <1>4
    <3> QED BY <2>3, <3>1
  <2>5. PICK x \in s : x = first(s)
    BY <1>2, <2>4
  <2>6. Cardinality(s \ {x}) = Cardinality(s) - 1
    BY <1>5, <2>5, FS_RemoveElement
  <2>7. iter[s \ {x}] = total[s \ {x}]
    <3>1. Cardinality(s) \in Nat /\ s \ {x} \in SUBSET S
      BY <1>5
    <3>2. Cardinality(s \ {x}) \notin Wrong
      <4> HIDE DEF Wrong
      <4> QED BY <2>2, <2>3, <2>6, <3>1
    <3> QED BY <3>1, <3>2
  <2>8. iter[s] = w[x] + iter[s \ {x}]
    BY <1>6, <2>4, <2>5
  <2>9. total[s] = w[x] + total[s \ {x}]
    OBVIOUS
  <2> QED BY <2>3, <2>7, <2>8, <2>9
<1> HIDE DEF iter
<1>8. iter[S] = total[S]
  <2>1. iter[S] # total[S] => Cardinality(S) \in Wrong
    OBVIOUS
  <2> QED BY <1>7, <2>1
<1> QED BY <1>1, <1>8

\* The sizes of disjoint sets add up to the size of their union.
LEMMA DisjointAddUp ==
  ASSUME NEW S, IsFiniteSet(S), NEW part, DOMAIN part = S, 
         \A x \in S : IsFiniteSet(part[x]),
         \A x, y \in S : x # y => part[x] \intersect part[y] = {},
         NEW w, w = [x \in S |-> Cardinality(part[x])]
  PROVE  SumFunction(w) = Cardinality(UNION {part[x] : x \in S})
<1> DEFINE all(s) == UNION {part[x] : x \in s}
           total == [s \in SUBSET S |-> Cardinality(all(s))]
<1>1. ASSUME NEW s \in SUBSET S PROVE IsFiniteSet(all(s))
  <2>1. IsFiniteSet(s)
    BY FS_Subset
  <2>2. IsFiniteSet({part[x] : x \in s})
    <3>1. [x \in s |-> part[x]] \in Surjection(s, {part[x] : x \in s})
      BY DEF Surjection
    <3> QED BY <2>1, <3>1, FS_Surjection
  <2> QED BY <2>2, FS_UNION
<1>2. total[{}] = 0
  BY FS_EmptySet
<1>3. ASSUME NEW s \in SUBSET S, NEW x \in s
      PROVE  total[s] = w[x] + total[s \ {x}]
  <2>1. all(s) = part[x] \union all(s \ {x}) /\ part[x] \intersect all(s \ {x}) = {}
    OBVIOUS
  <2>2. IsFiniteSet(part[x]) /\ IsFiniteSet(all(s \ {x}))
    BY <1>1
  <2> HIDE DEF all
  <2>3. Cardinality(all(s)) = Cardinality(part[x]) + Cardinality(all(s \ {x}))
    <3>1. IsFiniteSet(all(s))
      BY <1>1
    <3> QED BY <2>1, <3>1, PartsAddUp
  <2> QED BY <2>3
<1>4. SumFunction(w) = total[S]
  <2> HIDE DEF total, all
  <2>1. total \in [SUBSET S -> Nat] /\ w \in [S -> Nat]
    BY <1>1, FS_CardinalityType DEF total
  <2>2. \A s \in SUBSET S : \A x \in s : total[s] = w[x] + total[s \ {x}]
    BY <1>3
  <2> QED BY ONLY IsFiniteSet(S), <1>2, <2>1, <2>2, SumIs
<1> QED BY <1>4

\* A report is of finitely many days and of visits of its range.
LEMMA VisitsFitRange ==
  ASSUME ReportIInv, NEW q \in Ranges
  PROVE  /\ IsFiniteSet(q.from..q.to)
         /\ IsFiniteSet(Visits(q))
         /\ \A s \in Visits(q) : Day(s.started) \in q.from..q.to
<1>1. IsFiniteSet(q.from..q.to)
  BY RangesAreDays, FS_Interval
<1>2. Visits(q) \subseteq Filtered(q)
  BY DEF Visits
<1>3. IsFiniteSet(Filtered(q))
  BY FilteredFits
<1>4. \A s \in Filtered(q) : Day(s.started) \in q.from..q.to
  BY DEF Filtered
<1> QED BY <1>1, <1>2, <1>3, <1>4, FS_Subset

\* Every visit is of one day of the chart, and nobody is new on two days.
LEMMA ChartFits ==
  ASSUME ReportIInv, NEW q \in Ranges
  PROVE  ChartAgrees(q)
<1>1. PICK V : V = Visits(q)
  OBVIOUS
<1>2. PICK days : days = q.from..q.to
  OBVIOUS
<1>3. IsFiniteSet(days) /\ IsFiniteSet(V) /\ \A s \in V : Day(s.started) \in days
  BY <1>1, <1>2, VisitsFitRange
<1>4. PICK visits : visits = [d \in days |-> {s \in V : Day(s.started) = d}]
  OBVIOUS
<1>5. PICK bots : bots = [d \in days |-> {s \in visits[d] : s.isBot}]
  OBVIOUS
<1>6. PICK first : first = [p \in PersonKeys(V) |-> Day(FirstSeen(Filtered(q), p))]
  OBVIOUS
<1>7. PICK new : new = [d \in days |-> {p \in PersonKeys(visits[d]) : first[p] = d}]
  OBVIOUS
<1>8. \A d \in days : PersonKeys(visits[d]) \subseteq PersonKeys(V)
  BY <1>4 DEF PersonKeys
<1>9. /\ DOMAIN Series(q) = days
      /\ \A d \in days : /\ Series(q)[d].visits = Cardinality(visits[d])
                         /\ Series(q)[d].botVisits = Cardinality(bots[d])
                         /\ Series(q)[d].newVisitors = Cardinality(new[d])
  <2>1. DOMAIN Series(q) = days
    BY <1>2 DEF Series
  <2>2. ASSUME NEW d \in days
        PROVE  /\ Series(q)[d].visits = Cardinality(visits[d])
               /\ Series(q)[d].botVisits = Cardinality(bots[d])
               /\ Series(q)[d].newVisitors = Cardinality(new[d])
    <3>1. /\ visits[d] = {s \in Visits(q) : Day(s.started) = d}
          /\ bots[d] = {s \in visits[d] : s.isBot}
      BY <1>1, <1>4, <1>5
    <3>2. new[d] = {p \in PersonKeys(visits[d]) : Day(FirstSeen(Filtered(q), p)) = d}
      BY <1>6, <1>7, <1>8
    <3> QED BY <1>2, <3>1, <3>2 DEF Series
  <2> QED BY <2>1, <2>2
<1>10. SumFunction([d \in days |-> Series(q)[d].visits]) = Cardinality(V)
  <2>1. \A d \in days : IsFiniteSet(visits[d])
    BY <1>3, <1>4, FS_Subset
  <2>2. \A c, d \in days : c # d => visits[c] \intersect visits[d] = {}
    BY <1>4
  <2>3. UNION {visits[d] : d \in days} = V
    BY <1>3, <1>4
  <2>4. PICK w : w = [d \in days |-> Cardinality(visits[d])]
    OBVIOUS
  <2>5. DOMAIN visits = days
    BY <1>4
  <2>6. SumFunction(w) = Cardinality(V)
    BY <1>3, <2>1, <2>2, <2>3, <2>4, <2>5, DisjointAddUp
  <2>7. w = [d \in days |-> Series(q)[d].visits]
    BY <1>9, <2>4
  <2> QED BY <2>6, <2>7
<1>11. SumFunction([d \in days |-> Series(q)[d].botVisits]) = Cardinality({s \in V : s.isBot})
  <2>1. \A d \in days : IsFiniteSet(bots[d])
    <3>1. \A d \in days : bots[d] \subseteq V
      BY <1>4, <1>5
    <3> QED BY <1>3, <3>1, FS_Subset
  <2>2. \A c, d \in days : c # d => bots[c] \intersect bots[d] = {}
    BY <1>4, <1>5
  <2>3. UNION {bots[d] : d \in days} = {s \in V : s.isBot}
    BY <1>3, <1>4, <1>5
  <2>4. PICK w : w = [d \in days |-> Cardinality(bots[d])]
    OBVIOUS
  <2>5. DOMAIN bots = days
    BY <1>5
  <2>6. SumFunction(w) = Cardinality({s \in V : s.isBot})
    BY <1>3, <2>1, <2>2, <2>3, <2>4, <2>5, DisjointAddUp
  <2>7. w = [d \in days |-> Series(q)[d].botVisits]
    BY <1>9, <2>4
  <2> QED BY <2>6, <2>7
<1>12. SumFunction([d \in days |-> Series(q)[d].newVisitors]) <= Cards(q).newVisitors
  <2>1. PICK P : P = {p \in PersonKeys(V) : first[p] \in days}
    OBVIOUS
  <2>2. IsFiniteSet(P)
    <3>1. IsFiniteSet(PersonKeys(V))
      BY <1>3, KeysAreFinite
    <3> QED BY <2>1, <3>1, FS_Subset
  <2>3. \A d \in days : new[d] \subseteq P
    BY <1>7, <1>8, <2>1
  <2>4. \A d \in days : IsFiniteSet(new[d])
    BY <2>2, <2>3, FS_Subset
  <2>5. \A c, d \in days : c # d => new[c] \intersect new[d] = {}
    BY <1>7
  <2>6. PICK U : U = UNION {new[d] : d \in days}
    OBVIOUS
  <2>7. U \subseteq P
    BY <2>3, <2>6
  <2>8. PICK w : w = [d \in days |-> Cardinality(new[d])]
    OBVIOUS
  <2>9. DOMAIN new = days
    BY <1>7
  <2>10. SumFunction(w) = Cardinality(U)
    BY <1>3, <2>4, <2>5, <2>6, <2>8, <2>9, DisjointAddUp
  <2>11. w = [d \in days |-> Series(q)[d].newVisitors]
    BY <1>9, <2>8
  <2>12. Cardinality(U) <= Cardinality(P)
    BY <2>2, <2>7, FS_Subset
  <2>13. Cards(q).newVisitors = Cardinality(P)
    <3>1. P = {p \in PersonKeys(V) : Day(FirstSeen(Filtered(q), p)) \in q.from..q.to}
      BY <1>2, <1>6, <2>1
    <3> QED BY <1>1, <3>1 DEF Cards
  <2> QED BY <2>10, <2>11, <2>12, <2>13
<1>13. /\ Cards(q).totalVisits = Cardinality(V)
       /\ Cards(q).botVisits = Cardinality({s \in V : s.isBot})
  BY <1>1 DEF Cards
<1> QED BY <1>9, <1>10, <1>11, <1>12, <1>13 DEF ChartAgrees

\* The rows of the list are those of its people, one each.
LEMMA ListIsOfPeople ==
  ASSUME ReportIInv, NEW q \in Ranges, NEW P, P = TypedPersons(q)
  PROVE  \E f : /\ f \in Bijection(P, Listed(q))
                /\ \A p \in P :
                     /\ f[p].key = p
                     /\ f[p].visits = Cardinality({s \in Filtered(q) : PersonKey(s) = p})
<1>1. PICK Of : Of = [p \in P |-> {s \in Filtered(q) : PersonKey(s) = p}]
  OBVIOUS
<1>2. PICK f : f = [p \in P |->
        [key |-> p, visits |-> Cardinality(Of[p]),
         isLoggedIn |-> \E s \in Of[p] : s.user # Nobody,
         seen |-> Max({s.last : s \in Of[p]})]]
  OBVIOUS
<1>3. Listed(q) = {f[p] : p \in P}
  BY <1>1, <1>2 DEF Listed
<1>4. \A p \in P : f[p].key = p /\ f[p].visits = Cardinality({s \in Filtered(q) : PersonKey(s) = p})
  BY <1>1, <1>2
<1>5. f \in Bijection(P, Listed(q))
  <2>1. f \in [P -> Listed(q)] /\ \A r \in Listed(q) : \E p \in P : f[p] = r
    BY <1>2, <1>3
  <2>2. \A p, o \in P : f[p] = f[o] => p = o
    BY <1>4
  <2> QED BY <2>1, <2>2 DEF Bijection, Injection, Surjection, IsInjective
<1> QED BY <1>4, <1>5

\* The list has one row for each visitor of the cards and all of their visits.
LEMMA ListFits ==
  ASSUME ReportIInv, NEW q \in Ranges
  PROVE  ListAgrees(q)
<1>1. PICK P : P = TypedPersons(q)
  OBVIOUS
<1>2. PICK f : /\ f \in Bijection(P, Listed(q))
               /\ \A p \in P :
                    /\ f[p].key = p
                    /\ f[p].visits = Cardinality({s \in Filtered(q) : PersonKey(s) = p})
  BY <1>1, ListIsOfPeople
<1>3. IsFiniteSet(P)
  <2>1. PICK S : S = Filtered(q)
    OBVIOUS
  <2>2. IsFiniteSet(PersonKeys(S))
    BY <2>1, FilteredFits, KeysAreFinite
  <2>3. P \subseteq PersonKeys(S)
    BY <1>1, <2>1 DEF TypedPersons
  <2> QED BY <2>2, <2>3, FS_Subset
<1>4. Cardinality(Listed(q)) = Cardinality(P) /\ IsFiniteSet(Listed(q))
  BY <1>2, <1>3, FS_Bijection DEF ExistsBijection
<1>5. Cards(q).uniqueVisitors = Cardinality(P)
  BY <1>1, KeysOfVisits DEF Cards
<1>6. PICK list : list = Listed(q)
  OBVIOUS
<1>7. ASSUME NEW r \in list PROVE r.key \in P /\ f[r.key] = r
  <2>1. PICK p \in P : f[p] = r
    BY <1>2, <1>6 DEF Bijection, Surjection
  <2>2. r.key = p
    BY <1>2, <2>1
  <2> QED BY <2>1, <2>2
<1>8. \A p \in P : f[p] \in list
  BY <1>2, <1>6 DEF Bijection, Surjection
<1>9. PICK rows : rows = [r \in list |-> {s \in Filtered(q) : PersonKey(s) = r.key}]
  OBVIOUS
<1>10. DOMAIN rows = list /\ \A r \in list : r.visits = Cardinality(rows[r])
  BY <1>2, <1>7, <1>9
<1>11. \A r \in list : IsFiniteSet(rows[r])
  <2>1. \A r \in list : rows[r] \subseteq Filtered(q)
    BY <1>9
  <2> QED BY <2>1, FilteredFits, FS_Subset
<1>12. \A r, t \in list : r # t => rows[r] \intersect rows[t] = {}
  BY <1>7, <1>9
<1>13. UNION {rows[r] : r \in list} = Visits(q)
  <2>1. Visits(q) = {s \in Filtered(q) : PersonKey(s) \in P}
    BY <1>1 DEF Visits
  <2>2. \A r \in list : rows[r] \subseteq Visits(q)
    BY <1>7, <1>9, <2>1
  <2>3. ASSUME NEW s \in Visits(q) PROVE \E r \in list : s \in rows[r]
    <3>1. f[PersonKey(s)] \in list /\ f[PersonKey(s)].key = PersonKey(s) /\ s \in Filtered(q)
      BY <1>2, <1>8, <2>1
    <3> QED BY <1>9, <3>1
  <2> QED BY <2>2, <2>3
<1>14. PICK w : w = [r \in list |-> Cardinality(rows[r])]
  OBVIOUS
<1>15. SumFunction(w) = Cardinality(Visits(q))
  BY <1>4, <1>6, <1>10, <1>11, <1>12, <1>13, <1>14, DisjointAddUp
<1>16. w = [r \in list |-> r.visits]
  BY <1>10, <1>14
<1>17. Cards(q).totalVisits = Cardinality(Visits(q))
  BY DEF Cards
<1> QED BY <1>4, <1>5, <1>6, <1>15, <1>16, <1>17 DEF ListAgrees

\* Whatever the order of visits, flushes, failures and clean-ups, the chart and the list
\* of the page agree with its cards for every range, segment and type, and the cards add
\* up unless a visit was persisted after a later one of its identity.
THEOREM ReportReportsAgree == ReportSpec => []ReportsAgree
<1>1. ASSUME ReportIInv, NEW q \in Ranges
      PROVE  ChartAgrees(q) /\ ListAgrees(q) /\ (overtaken = {} => CardsAddUp(q))
  BY <1>1, ChartFits, ListFits, CardsFit
<1>2. ReportIInv => ReportsAgree
  BY <1>1 DEF ReportsAgree
<1> QED BY <1>2, ReportInductive, PTL
===============================================================================
