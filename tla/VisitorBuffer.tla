----------------------------- MODULE VisitorBuffer -----------------------------
(***************************************************************************)
(* Visitor analytics: trackVisit merges a visit into a Redis key of its    *)
(* subject by get and set, and lists the key as dirty; the worker renames  *)
(* listed keys, one after the other, writes what they hold to PostgreSQL   *)
(* and deletes them.                                                       *)
(*                                                                         *)
(* A buffered visit is the set of the visits merged into it, whose number  *)
(* is its eventCount.  Sessions are counted, not told apart: a count lands *)
(* in the active session or in a new one.                                  *)
(***************************************************************************)
EXTENDS Naturals, FiniteSets

CONSTANTS
  Visit,          \* calls of trackVisit that pass the limiter and are not ignored
  Visitor,        \* visitor_id cookies
  SignedIn,       \* users signed in
  Processing,     \* bound: names of processing keys
  Flusher,        \* runs of flushBufferedVisits under way, of timers or servers
  BatchSize,      \* FLUSH_BATCH_SIZE
  MaxFailures,    \* bound: failing calls, and processes that die
  NoOne           \* null, of users and of visitor ids

ASSUME VisitorAssumption ==
  /\ BatchSize \in Nat \ {0} /\ MaxFailures \in Nat
  /\ NoOne \notin Visitor \union SignedIn \union Processing
  /\ Visitor \intersect SignedIn = {} /\ Processing \intersect (Visitor \union SignedIn) = {}

VARIABLES
  visit,        \* the handlers, one for each visit
  buffer,       \* Redis: what the buffer keys hold
  dirty,        \* Redis: the set at DIRTY_VISITOR_BUFFER_KEY
  flush,        \* the flushes under way
  identity,     \* visitor_identity rows, by their unique visitorId
  counted,      \* how often a visit is in the eventCount of sessions
  failures,     \* calls that failed, handlers and flushes that died
  gone,         \* history: visits overwritten by a set that had not read them, or expired
  revived,      \* history: visits written back after a flush had taken them
  unsure,       \* history: visits that were counted by a flush that then failed
  stranded,     \* history: keys unlisted by a flush that had found them empty, or by a crash
  raced         \* history: users looked up by two flushes before either wrote, or
                \* written back as first to an identity that had lost them

redis == <<buffer, dirty>>
database == <<identity, counted>>
history == <<gone, revived, unsure, stranded, raced>>
visitVars == <<visit, redis, flush, database, failures, history>>

Subject == Visitor \union SignedIn
Key == Subject \union Processing

\* getBufferSubject
SubjectOf(u, c) == IF u = NoOne THEN c ELSE u

Buffered == [visits : SUBSET Visit, visitorId : Visitor \union {NoOne},
             userId : SignedIn \union {NoOne}]
Empty == [visits |-> {}, visitorId |-> NoOne, userId |-> NoOne]

Identity == [exists : BOOLEAN, firstUserId : SignedIn \union {NoOne},
             lastUserId : SignedIn \union {NoOne}]
NoIdentity == [exists |-> FALSE, firstUserId |-> NoOne, lastUserId |-> NoOne]

VisitState ==
  [pc : {"new", "get", "set", "list", "answered", "lost"},
   visitorId : Visitor \union {NoOne}, userId : SignedIn \union {NoOne}, existing : Buffered]

FlushState ==
  [pc : {"idle", "next", "find", "cookie", "identify", "count", "delete", "requeue", "unlist",
         "exists", "relist", "skip"},
   keys       : SUBSET Key,                    \* the batch not worked off yet
   key        : Key \union {NoOne},
   processing : Processing \union {NoOne},
   taken      : Buffered,
   found      : Visitor \union {NoOne},        \* the identity row that was found
   first      : SignedIn \union {NoOne}]           \* and its firstUserId

IdleFlush == [pc |-> "idle", keys |-> {}, key |-> NoOne, processing |-> NoOne,
              taken |-> Empty, found |-> NoOne, first |-> NoOne]

VisitInit ==
  /\ visit = [v \in Visit |->
       [pc |-> "new", visitorId |-> NoOne, userId |-> NoOne, existing |-> Empty]]
  /\ buffer = [k \in Key |-> Empty]
  /\ dirty = {}
  /\ flush = [f \in Flusher |-> IdleFlush]
  /\ identity = [c \in Visitor |-> NoIdentity]
  /\ counted = [v \in Visit |-> 0]
  /\ failures = 0
  /\ gone = {} /\ revived = {} /\ unsure = {} /\ stranded = {} /\ raced = {}

UnderWay(v) == visit[v].pc \in {"get", "set", "list"}
KeyOf(v) == SubjectOf(visit[v].userId, visit[v].visitorId)
Failing == failures < MaxFailures /\ failures' = failures + 1
Goto(f, pc) == flush' = [flush EXCEPT ![f].pc = pc]
Continue(f) ==
  flush' = [flush EXCEPT ![f] = [IdleFlush EXCEPT !.pc = "next", !.keys = flush[f].keys]]

-----------------------------------------------------------------------------
(***************************************************************************)
(* trackVisit and bufferVisit.                                             *)
(***************************************************************************)
Track(v, c, u) ==
  /\ visit[v].pc = "new"
  /\ visit' = [visit EXCEPT ![v] =
       [pc |-> "get", visitorId |-> c, userId |-> u, existing |-> Empty]]
  /\ UNCHANGED <<redis, flush, database, failures, history>>

GetBuffer(v) ==
  /\ visit[v].pc = "get"
  /\ visit' = [visit EXCEPT ![v].pc = "set", ![v].existing = buffer[KeyOf(v)]]
  /\ UNCHANGED <<redis, flush, database, failures, history>>

\* mergeBufferedVisit; the first visit of a buffer gives it its visitorId.
Merged(existing, v) ==
  IF existing = Empty
  THEN [visits |-> {v}, visitorId |-> visit[v].visitorId, userId |-> visit[v].userId]
  ELSE [existing EXCEPT !.visits = @ \union {v},
          !.userId = IF visit[v].userId # NoOne THEN visit[v].userId ELSE @]

SetBuffer(v) ==
  LET k == KeyOf(v)
      existing == visit[v].existing
  IN  /\ visit[v].pc = "set"
      /\ buffer' = [buffer EXCEPT ![k] = Merged(existing, v)]
      /\ gone' = gone \union (buffer[k].visits \ existing.visits)
      /\ revived' = revived \union (existing.visits \ buffer[k].visits)
      /\ visit' = [visit EXCEPT ![v].pc = "list"]
      /\ UNCHANGED <<dirty, flush, database, failures, unsure, stranded, raced>>

ListKey(v) ==
  /\ visit[v].pc = "list"
  /\ dirty' = dirty \union {KeyOf(v)}
  /\ stranded' = stranded \ {KeyOf(v)}
  /\ visit' = [visit EXCEPT ![v].pc = "answered"]
  /\ UNCHANGED <<buffer, flush, database, failures, gone, revived, unsure, raced>>

AbortVisit(v) ==
  /\ UnderWay(v)
  /\ Failing
  /\ visit' = [visit EXCEPT ![v].pc = "lost"]
  /\ stranded' = IF visit[v].pc = "list" THEN stranded \union {KeyOf(v)} ELSE stranded
  /\ UNCHANGED <<redis, flush, database, gone, revived, unsure, raced>>

\* BUFFER_TTL_SECONDS are over, of a key that nobody lists or works on.
ExpireKey(k) ==
  /\ buffer[k] # Empty /\ k \notin dirty
  /\ \A v \in Visit : UnderWay(v) => KeyOf(v) # k
  /\ \A f \in Flusher : k \notin {flush[f].key, flush[f].processing}
  /\ buffer' = [buffer EXCEPT ![k] = Empty]
  /\ gone' = gone \union buffer[k].visits
  /\ UNCHANGED <<visit, dirty, flush, database, failures, revived, unsure, stranded, raced>>

-----------------------------------------------------------------------------
(***************************************************************************)
(* flushBufferedVisits.                                                    *)
(***************************************************************************)
\* smembers gives no order; the slice is any part of that size.
BeginFlush(f) ==
  /\ flush[f].pc = "idle"
  /\ dirty # {}
  /\ \E keys \in SUBSET dirty :
       /\ Cardinality(keys) = IF Cardinality(dirty) < BatchSize THEN Cardinality(dirty)
                              ELSE BatchSize
       /\ flush' = [flush EXCEPT ![f] = [IdleFlush EXCEPT !.pc = "next", !.keys = keys]]
  /\ UNCHANGED <<visit, redis, database, failures, history>>

EndFlush(f) ==
  /\ flush[f].pc = "next" /\ flush[f].keys = {}
  /\ flush' = [flush EXCEPT ![f] = IdleFlush]
  /\ UNCHANGED <<visit, redis, database, failures, history>>

\* A random name: one that nobody knows.  All such names are alike.
Fresh(p) ==
  /\ buffer[p] = Empty /\ p \notin dirty
  /\ \A f \in Flusher :
       p \notin flush[f].keys \union {flush[f].key, flush[f].processing}

FreshKey == CHOOSE p \in Processing : Fresh(p)

\* The rename, and the get of the new key, which nobody else can know.
Rename(f) ==
  /\ flush[f].pc = "next"
  /\ \E k \in flush[f].keys :
       LET rest == flush[f].keys \ {k}
       IN  \/ /\ buffer[k] = Empty
              /\ flush' = [flush EXCEPT ![f] =
                   [IdleFlush EXCEPT !.pc = "skip", !.keys = rest, !.key = k]]
              /\ UNCHANGED buffer
           \/ /\ buffer[k] # Empty
              /\ \E p \in Processing : Fresh(p)
              /\ buffer' = [buffer EXCEPT ![FreshKey] = buffer[k], ![k] = Empty]
              /\ flush' = [flush EXCEPT ![f] =
                   [IdleFlush EXCEPT !.pc = "find", !.keys = rest, !.key = k,
                                     !.processing = FreshKey, !.taken = buffer[k]]]
  /\ UNCHANGED <<visit, dirty, database, failures, history>>

\* The key was gone: it is taken off the list, and the loop continues.
Skip(f) ==
  /\ flush[f].pc = "skip"
  /\ dirty' = dirty \ {flush[f].key}
  /\ stranded' = IF buffer[flush[f].key] # Empty THEN stranded \union {flush[f].key} ELSE stranded
  /\ Continue(f)
  /\ UNCHANGED <<visit, buffer, database, failures, gone, revived, unsure, raced>>

OfUser(u) ==
  {c \in Visitor : identity[c].exists /\ u \in {identity[c].firstUserId, identity[c].lastUserId}}

\* What resolveVisitorIdentity knows of the rows between its reads and its write.
LookingUp == {"cookie", "identify"}

Holding(f, found, first) ==
  flush' = [flush EXCEPT ![f].pc = "identify", ![f].found = found, ![f].first = first]

\* Mutant: the cookie alone decides.
FindOfUserSkipped(f) ==
  /\ flush[f].pc = "find" /\ flush[f].taken.userId # NoOne
  /\ Goto(f, "cookie")
  /\ UNCHANGED <<visit, redis, database, failures, history>>

\* findFirst: an identity of the user, the one seen last.
FindOfUser(f) ==
  LET u == flush[f].taken.userId
      others == {flush[g].taken.userId : g \in {g \in Flusher : flush[g].pc \in LookingUp}}
  IN  /\ flush[f].pc = "find" /\ u # NoOne
      /\ \/ OfUser(u) = {} /\ Goto(f, "cookie")
         \/ \E c \in OfUser(u) : Holding(f, c, identity[c].firstUserId)
      /\ raced' = IF u \in others THEN raced \union {u} ELSE raced
      /\ UNCHANGED <<visit, redis, database, failures, gone, revived, unsure, stranded>>

\* findUnique, without a user or an identity of his: the one of the cookie, if any.
FindOfCookie(f) ==
  LET c == flush[f].taken.visitorId
  IN  /\ \/ flush[f].pc = "cookie"
         \/ flush[f].pc = "find" /\ flush[f].taken.userId = NoOne
      /\ \/ ~identity[c].exists /\ Holding(f, NoOne, NoOne)
         \/ identity[c].exists /\ Holding(f, c, identity[c].firstUserId)
      /\ UNCHANGED <<visit, redis, database, failures, history>>

\* Mutant: a lost race for the row is taken for success.
WriteIdentityForgives(f) ==
  LET s == flush[f]
      b == s.taken
  IN  /\ s.pc = "identify"
      /\ identity' = [identity EXCEPT ![IF s.found = NoOne THEN b.visitorId ELSE s.found] =
           [exists |-> TRUE, firstUserId |-> b.userId, lastUserId |-> b.userId]]
      /\ Goto(f, IF s.found = NoOne /\ identity[b.visitorId].exists THEN "delete" ELSE "count")
      /\ UNCHANGED <<visit, redis, counted, failures, history>>

\* create fails on a visitorId that exists by now; update writes back a
\* firstUserId that it has read.
WriteIdentity(f) ==
  LET s == flush[f]
      b == s.taken
      OrElse(x, y) == IF x = NoOne THEN y ELSE x
  IN  /\ s.pc = "identify"
      /\ \/ /\ s.found = NoOne /\ identity[b.visitorId].exists
            /\ Goto(f, "requeue")
            /\ UNCHANGED <<identity, raced>>
         \/ /\ s.found = NoOne /\ ~identity[b.visitorId].exists
            /\ identity' = [identity EXCEPT ![b.visitorId] =
                 [exists |-> TRUE, firstUserId |-> b.userId, lastUserId |-> b.userId]]
            /\ Goto(f, "count")
            /\ UNCHANGED raced
         \/ /\ s.found # NoOne /\ b.userId = NoOne
            /\ Goto(f, "count")
            /\ UNCHANGED <<identity, raced>>
         \/ /\ s.found # NoOne /\ b.userId # NoOne
            /\ identity' = [identity EXCEPT ![s.found] =
                 [exists |-> TRUE, firstUserId |-> OrElse(s.first, b.userId),
                  lastUserId |-> b.userId]]
            /\ raced' = raced \union ({s.first} \ {NoOne, identity[s.found].firstUserId})
            /\ Goto(f, "count")
      /\ UNCHANGED <<visit, redis, counted, failures, gone, revived, unsure, stranded>>

CountedWith(f) ==
  [v \in Visit |-> IF v \in flush[f].taken.visits THEN counted[v] + 1 ELSE counted[v]]

\* Mutant: the session is written once for each visit merged.
CountSessionEach(f) ==
  /\ flush[f].pc = "count"
  /\ counted' = [v \in Visit |->
       counted[v] + IF v \in flush[f].taken.visits
                    THEN Cardinality(flush[f].taken.visits) ELSE 0]
  /\ Goto(f, "delete")
  /\ UNCHANGED <<visit, redis, identity, failures, history>>

\* resolveSession: one increment, or one insert.
CountSession(f) ==
  /\ flush[f].pc = "count"
  /\ counted' = CountedWith(f)
  /\ Goto(f, "delete")
  /\ UNCHANGED <<visit, redis, identity, failures, history>>

\* A call of persistBufferedVisit throws, nothing of it committed.
PersistThrows(f) ==
  /\ Failing
  /\ flush[f].pc \in {"find", "cookie", "identify", "count"}
  /\ Goto(f, "requeue")
  /\ UNCHANGED <<visit, redis, database, history>>

\* The session is written and the answer is lost, or the del fails.
AnswerLost(f) ==
  /\ Failing
  /\ \/ /\ flush[f].pc = "count"
        /\ counted' = CountedWith(f)
     \/ /\ flush[f].pc = "delete"
        /\ UNCHANGED counted
  /\ unsure' = unsure \union flush[f].taken.visits
  /\ Goto(f, "requeue")
  /\ UNCHANGED <<visit, redis, identity, gone, revived, stranded, raced>>

Delete(f) ==
  /\ flush[f].pc = "delete"
  /\ buffer' = [buffer EXCEPT ![flush[f].processing] = Empty]
  /\ Goto(f, "unlist")
  /\ UNCHANGED <<visit, dirty, database, failures, history>>

Requeue(f) ==
  /\ flush[f].pc = "requeue"
  /\ dirty' = dirty \union {flush[f].processing}
  /\ Goto(f, "unlist")
  /\ UNCHANGED <<visit, buffer, database, failures, history>>

Unlist(f) ==
  /\ flush[f].pc = "unlist"
  /\ dirty' = dirty \ {flush[f].key}
  /\ Goto(f, "exists")
  /\ UNCHANGED <<visit, buffer, database, failures, history>>

CheckExists(f) ==
  /\ flush[f].pc = "exists"
  /\ IF buffer[flush[f].key] # Empty THEN Goto(f, "relist") ELSE Continue(f)
  /\ UNCHANGED <<visit, redis, database, failures, history>>

Relist(f) ==
  /\ flush[f].pc = "relist"
  /\ dirty' = dirty \union {flush[f].key}
  /\ Continue(f)
  /\ UNCHANGED <<visit, buffer, database, failures, history>>

\* The process dies, or Redis is gone.
AbortFlush(f) ==
  /\ flush[f].pc # "idle"
  /\ Failing
  /\ unsure' = IF flush[f].pc = "delete" THEN unsure \union flush[f].taken.visits ELSE unsure
  /\ stranded' = stranded \union ({flush[f].key, flush[f].processing} \ {NoOne})
  /\ flush' = [flush EXCEPT ![f] = IdleFlush]
  /\ UNCHANGED <<visit, redis, database, gone, revived, raced>>

-----------------------------------------------------------------------------
VisitStep(v) == GetBuffer(v) \/ SetBuffer(v) \/ ListKey(v)

FlushStep(f) ==
  \/ EndFlush(f) \/ Rename(f) \/ Skip(f)
  \/ FindOfUser(f) \/ FindOfCookie(f) \/ WriteIdentity(f) \/ CountSession(f) \/ PersistThrows(f)
  \/ Delete(f) \/ Requeue(f) \/ Unlist(f) \/ CheckExists(f) \/ Relist(f)

VisitNext ==
  \/ \E v \in Visit : \/ \E c \in Visitor, u \in SignedIn \union {NoOne} : Track(v, c, u)
                      \/ VisitStep(v) \/ AbortVisit(v)
  \/ \E f \in Flusher : BeginFlush(f) \/ FlushStep(f) \/ AnswerLost(f) \/ AbortFlush(f)
  \/ \E k \in Key : ExpireKey(k)

VisitSpec == VisitInit /\ [][VisitNext]_visitVars

-----------------------------------------------------------------------------
(***************************************************************************)
(* Properties.                                                             *)
(***************************************************************************)

\* What is kept in Redis, in PostgreSQL and across awaits has its type.
VisitorTypeOK ==
  /\ visit \in [Visit -> VisitState]
  /\ buffer \in [Key -> Buffered]
  /\ dirty \subseteq Key
  /\ flush \in [Flusher -> FlushState]
  /\ identity \in [Visitor -> Identity]
  /\ counted \in [Visit -> Nat]
  /\ failures \in 0..MaxFailures
  /\ UNION {gone, revived, unsure} \subseteq Visit /\ stranded \subseteq Key
  /\ raced \subseteq SignedIn

\* However visits, flushes, failures and retries interleave, a visit is counted
\* twice only if its own tab's next visit wrote it back after a flush had taken
\* it, or if a flush failed between counting it and deleting it.
TwiceOnlyIfRevived ==
  \A v \in Visit : counted[v] > 1 => v \in revived \union unsure

StoredIsKept ==
  \A v \in Visit :
    visit[v].pc \in {"list", "answered"}
      => counted[v] > 0 \/ v \in gone \/ \E k \in Key : v \in buffer[k].visits

KeysStayListed ==
  \A k \in Key :
    buffer[k] # Empty =>
      \/ k \in dirty \union stranded
      \/ \E v \in Visit : visit[v].pc = "list" /\ KeyOf(v) = k
      \/ \E f \in Flusher : k \in {flush[f].key, flush[f].processing}

\* No visit disappears, whatever fails: one that was stored is counted, or in a
\* key, unless the set of a concurrent visit overwrote it or it expired; and a key
\* that holds visits is listed, or about to be by the visit or the flush that
\* works on it: only a crash, and a flush that found the key empty and unlists it
\* although a visit has filled it, leave one behind.
NothingVanishes == StoredIsKept /\ KeysStayListed

\* One user has one visitor identity, whatever cookies he comes with and whatever
\* fails, unless two flushes looked him up before either wrote what it found, or a
\* flush wrote him back as the first user of an identity that another user had
\* taken over since it read it.
OneIdentityPerUser == \A u \in SignedIn : Cardinality(OfUser(u)) > 1 => u \in raced

\* Each visit is counted once.
CountedOnce == \A v \in Visit : counted[v] <= 1
=============================================================================
