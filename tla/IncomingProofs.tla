---------------------------- MODULE IncomingProofs ----------------------------
(***************************************************************************)
(* Machine-checked proofs about what other services send: the messages     *)
(* that syncs read from the mail engine, and the events that Polar         *)
(* delivers.                                                               *)
(***************************************************************************)
EXTENDS InboundSync, PolarWebhook, TLAPS

-------------------------------------------------------------------------------
(***************************************************************************)
(* InboundSync, for any number of mailboxes, messages, requests and worker *)
(* runs, and with every fault: no sync moves a cursor past a message it    *)
(* has not imported, none puts back what a user has filed, none starts on  *)
(* a mailbox that is disabled; together they keep what a MailArchive       *)
(* promises.                                                               *)
(*                                                                         *)
(* The orders synced and fresh are built with SelectSeq, of which the      *)
(* provers know nothing; no property here depends on their types.          *)
(***************************************************************************)

SyncShape ==
  /\ domains \subseteq Domain
  /\ mailbox \in [Mailbox -> MailboxRow]
  /\ inbox \in [Mailbox -> [Uid -> {"none", "mail", "gone"}]]
  /\ mail \in [Mailbox -> [Uid -> MailStatus \union {"none"}]]
  /\ handler \in [Handler -> HandlerState]

\* UIDs are given in ascending order.
UidsAscend ==
  \A m \in Mailbox, u, v \in Uid : v < u /\ inbox[m][u] # "none" => inbox[m][v] # "none"

\* A cursor stands at a message that was delivered, or before all of them.
Reached(m, cursor) == cursor \in Uid \union {0} /\ (cursor # 0 => inbox[m][cursor] # "none")

AtMailbox == {"fetch", "import", "finish", "fail", "create", "disable"}

\* A handler that syncs has a mailbox, and messages that were delivered.
HandlerFits(h) ==
  /\ h.pc \in AtMailbox => h.mailbox \in Mailbox
  /\ h.pc \in {"fetch", "import", "finish"} => Reached(h.mailbox, h.lastUid)
  /\ h.pc = "import" => \A v \in h.todo : inbox[h.mailbox][v] # "none"

MailboxesReached == \A m \in Mailbox : Reached(m, mailbox[m].lastUid)
HandlersFit == \A h \in Handler : HandlerFits(handler[h])

SyncIInv ==
  /\ SyncShape
  /\ UidsAscend
  /\ MailboxesReached
  /\ HandlersFit
  /\ NothingBehindCursor

USE SyncAssumption

\* What may become of messages and rows: a delivered message stays known, a row
\* stays, and a new message comes after all that were delivered.
Evolves ==
  \A m \in Mailbox, u \in Uid :
    /\ inbox[m][u] # "none" => inbox'[m][u] # "none"
    /\ mail[m][u] # "none" => mail'[m][u] # "none"
    /\ inbox'[m][u] = "mail" => \/ inbox[m][u] = "mail"
                                \/ \A v \in Uid : v >= u => inbox[m][v] = "none"

LEMMA NothingEvolves == UNCHANGED <<inbox, mail>> => Evolves
  BY DEF Evolves

LEMMA UidType == Uid \subseteq Nat \ {0}
  BY DEF Uid

LEMMA IdleFits ==
  /\ IdleHandler \in HandlerState
  /\ IdleHandler.pc = "idle" /\ IdleHandler.mailbox = NoMailbox /\ IdleHandler.queue = <<>>
  /\ IdleHandler.lastUid = 0 /\ IdleHandler.todo = {}
BY DEF IdleHandler, HandlerState

LEMMA SyncInitInv == SyncInit => SyncIInv
<1> SUFFICES ASSUME SyncInit
             PROVE  SyncIInv
  OBVIOUS
<1>1. \A state \in {"unused", "live", "deleted"} :
        NewMailbox(state) \in MailboxRow /\ NewMailbox(state).lastUid = 0
  BY DEF NewMailbox, MailboxRow
<1>2. SyncShape
  BY <1>1, IdleFits DEF SyncInit, SyncShape
<1>3. UidsAscend
  BY DEF SyncInit, UidsAscend
<1>4. \A m \in Mailbox : mailbox[m].lastUid = 0
  BY <1>1 DEF SyncInit
<1>5. MailboxesReached /\ \A m \in Mailbox : ImportedUpTo(m, mailbox[m].lastUid)
  BY <1>4, UidType DEF MailboxesReached, Reached, ImportedUpTo
<1>6. HandlersFit /\ \A h \in Handler : HandlerCursor(handler[h])
  BY IdleFits DEF SyncInit, HandlersFit, HandlerFits, AtMailbox, HandlerCursor
<1>7. QED
  BY <1>2, <1>3, <1>5, <1>6 DEF SyncIInv, NothingBehindCursor

-----------------------------------------------------------------------------
(***************************************************************************)
(* Cursors while messages come and go.                                     *)
(***************************************************************************)

LEMMA CursorKeeps ==
  ASSUME UidsAscend, Evolves, NEW m \in Mailbox, NEW cursor,
         Reached(m, cursor), ImportedUpTo(m, cursor)
  PROVE  Reached(m, cursor)' /\ ImportedUpTo(m, cursor)'
<1>1. Reached(m, cursor)'
  BY DEF Reached, Evolves
<1>2. ASSUME NEW u \in Uid, u <= cursor, inbox'[m][u] = "mail"
      PROVE  mail'[m][u] # "none"
  <2>1. cursor \in Uid /\ inbox[m][cursor] # "none"
    BY <1>2, UidType DEF Reached
  <2>2. inbox[m][u] # "none"
    BY <1>2, <2>1, UidType DEF UidsAscend
  <2>3. inbox[m][u] = "mail"
    BY <1>2, <2>2, UidType DEF Evolves
  <2>4. QED
    BY <1>2, <2>3 DEF ImportedUpTo, Evolves
<1>3. QED
  BY <1>1, <1>2 DEF ImportedUpTo

LEMMA HandlerKeeps ==
  ASSUME SyncIInv, Evolves, NEW s \in HandlerState, HandlerFits(s), HandlerCursor(s)
  PROVE  HandlerFits(s)' /\ HandlerCursor(s)'
<1>1. CASE s.pc \notin {"fetch", "import", "finish"}
  BY <1>1 DEF HandlerFits, HandlerCursor
<1>2. CASE s.pc \in {"fetch", "import", "finish"}
  <2>1. PICK m \in Mailbox : m = s.mailbox
    BY <1>2 DEF HandlerFits, AtMailbox
  <2>2. PICK cursor : cursor = s.lastUid
    OBVIOUS
  <2>3. Reached(m, cursor)' /\ ImportedUpTo(m, cursor)'
    BY <1>2, <2>1, <2>2, CursorKeeps DEF HandlerFits, HandlerCursor, SyncIInv
  <2>4. ASSUME s.pc = "import", NEW v \in s.todo
        PROVE  v \in Uid /\ inbox[m][v] # "none" /\ inbox'[m][v] # "none"
    BY <2>1, <2>4 DEF HandlerState, HandlerFits, Evolves
  <2>5. ASSUME s.pc = "import", NEW u \in Uid, NEW v \in s.todo,
               u <= v, u \notin s.todo, inbox'[m][u] = "mail"
        PROVE  mail'[m][u] # "none"
    <3>1. v \in Uid /\ inbox[m][v] # "none"
      BY <2>4, <2>5
    <3>2. inbox[m][u] # "none"
      BY <2>5, <3>1, UidType DEF SyncIInv, UidsAscend
    <3>3. inbox[m][u] = "mail"
      BY <2>5, <3>2, UidType DEF Evolves
    <3>4. QED
      BY <2>1, <2>5, <3>3 DEF HandlerCursor, Evolves
  <2>6. HandlerFits(s)'
    BY <1>2, <2>1, <2>2, <2>3, <2>4 DEF HandlerFits
  <2>7. HandlerCursor(s)'
    BY <1>2, <2>1, <2>2, <2>3, <2>5 DEF HandlerCursor
  <2>8. QED
    BY <2>6, <2>7
<1>3. QED
  BY <1>1, <1>2

\* One handler moves, to a state that fits.
LEMMA HandlerMoves ==
  ASSUME SyncIInv, Evolves, NEW h \in Handler, NEW s \in HandlerState,
         handler' = [handler EXCEPT ![h] = s], HandlerFits(s)', HandlerCursor(s)'
  PROVE  /\ handler' \in [Handler -> HandlerState] /\ HandlersFit'
         /\ \A g \in Handler : HandlerCursor(handler[g])'
<1>1. handler' \in [Handler -> HandlerState]
  BY DEF SyncIInv, SyncShape
<1>2. ASSUME NEW g \in Handler
      PROVE  HandlerFits(handler[g])' /\ HandlerCursor(handler[g])'
  <2>1. CASE g = h
    <3>1. handler'[g] = s
      BY <2>1 DEF SyncIInv, SyncShape
    <3>2. QED
      BY <3>1 DEF HandlerFits, HandlerCursor, Reached, ImportedUpTo
  <2>2. CASE g # h
    <3>1. PICK t \in HandlerState : t = handler[g] /\ t = handler'[g]
      BY <2>2 DEF SyncIInv, SyncShape
    <3>2. HandlerFits(t) /\ HandlerCursor(t)
      BY <3>1 DEF SyncIInv, HandlersFit, NothingBehindCursor
    <3>3. HandlerFits(t)' /\ HandlerCursor(t)'
      BY <3>2, HandlerKeeps
    <3>4. QED
      BY <3>1, <3>3 DEF HandlerFits, HandlerCursor, Reached, ImportedUpTo
  <2>3. QED
    BY <2>1, <2>2
<1>3. QED
  BY <1>1, <1>2 DEF HandlersFit

LEMMA HandlersStay ==
  ASSUME SyncIInv, Evolves, UNCHANGED handler
  PROVE  /\ handler' \in [Handler -> HandlerState] /\ HandlersFit'
         /\ \A g \in Handler : HandlerCursor(handler[g])'
<1>1. ASSUME NEW g \in Handler
      PROVE  HandlerFits(handler[g])' /\ HandlerCursor(handler[g])'
  <2>1. PICK t \in HandlerState : t = handler[g] /\ t = handler'[g]
    BY DEF SyncIInv, SyncShape
  <2>2. HandlerFits(t) /\ HandlerCursor(t)
    BY <2>1 DEF SyncIInv, HandlersFit, NothingBehindCursor
  <2>3. HandlerFits(t)' /\ HandlerCursor(t)'
    BY <2>2, HandlerKeeps
  <2>4. QED
    BY <2>1, <2>3 DEF HandlerFits, HandlerCursor, Reached, ImportedUpTo
<1>2. QED
  BY <1>1 DEF HandlersFit, SyncIInv, SyncShape

\* Rows whose cursors stood where they stand, or at zero, or where a handler's does.
LEMMA RowsMove ==
  ASSUME SyncIInv, Evolves, mailbox' \in [Mailbox -> MailboxRow],
         \A m \in Mailbox : Reached(m, mailbox'[m].lastUid) /\ ImportedUpTo(m, mailbox'[m].lastUid)
  PROVE  MailboxesReached' /\ \A m \in Mailbox : ImportedUpTo(m, mailbox[m].lastUid)'
<1>1. ASSUME NEW m \in Mailbox
      PROVE  Reached(m, mailbox[m].lastUid)' /\ ImportedUpTo(m, mailbox[m].lastUid)'
  <2>1. PICK cursor : cursor = mailbox'[m].lastUid
    OBVIOUS
  <2>2. Reached(m, cursor)' /\ ImportedUpTo(m, cursor)'
    BY <2>1, CursorKeeps DEF SyncIInv
  <2>3. QED
    BY <2>1, <2>2 DEF Reached, ImportedUpTo
<1>2. QED
  BY <1>1 DEF MailboxesReached

LEMMA RowsStay ==
  ASSUME SyncIInv, Evolves, UNCHANGED mailbox
  PROVE  MailboxesReached' /\ \A m \in Mailbox : ImportedUpTo(m, mailbox[m].lastUid)'
BY RowsMove DEF SyncIInv, SyncShape, MailboxesReached, NothingBehindCursor

-----------------------------------------------------------------------------
(***************************************************************************)
(* The steps.                                                              *)
(***************************************************************************)

LEMMA HandlerTyped ==
  ASSUME SyncIInv, NEW h \in Handler
  PROVE  /\ handler[h] \in HandlerState /\ HandlerFits(handler[h])
         /\ HandlerCursor(handler[h])
BY DEF SyncIInv, SyncShape, HandlersFit, NothingBehindCursor

\* A handler moves, and no message, row or mailbox changes.
LEMMA HandlerOnly ==
  ASSUME SyncIInv, NEW h \in Handler, NEW s \in HandlerState,
         handler' = [handler EXCEPT ![h] = s], UNCHANGED <<domains, mailbox, inbox, mail>>,
         HandlerFits(s), HandlerCursor(s)
  PROVE  SyncIInv'
<1>1. Evolves
  BY NothingEvolves
<1>2. HandlerFits(s)' /\ HandlerCursor(s)'
  BY <1>1, HandlerKeeps
<1>3. /\ handler' \in [Handler -> HandlerState] /\ HandlersFit'
      /\ \A g \in Handler : HandlerCursor(handler[g])'
  BY <1>1, <1>2, HandlerMoves
<1>4. MailboxesReached' /\ \A m \in Mailbox : ImportedUpTo(m, mailbox[m].lastUid)'
  BY <1>1, RowsStay
<1>5. SyncShape' /\ UidsAscend'
  BY <1>3 DEF SyncIInv, SyncShape, UidsAscend
<1>6. QED
  BY <1>3, <1>4, <1>5 DEF SyncIInv, NothingBehindCursor

\* A handler that carries no cursor, and has a mailbox if its step needs one.
LEMMA NoCursorFits ==
  ASSUME NEW s \in HandlerState, s.pc \notin {"fetch", "import", "finish"},
         s.pc \in AtMailbox => s.mailbox \in Mailbox
  PROVE  HandlerFits(s) /\ HandlerCursor(s)
BY DEF HandlerFits, HandlerCursor

\* What a request or a worker run starts with.
LEMMA BeginMoves ==
  ASSUME NEW h \in Request, NEW m \in Mailbox,
         BeginCreate(h, m) \/ BeginDisable(h, m) \/ BeginSync(h, m)
  PROVE  \E s \in HandlerState :
           /\ s.pc \in {"create", "disable", "next"} /\ (s.pc # "next" => s.mailbox = m)
           /\ handler' = [handler EXCEPT ![h] = s]
<1>1. CASE BeginSync(h, m)
  <2>1. <<m>> \in Seq(Mailbox)
    OBVIOUS
  <2>2. [IdleHandler EXCEPT !.pc = "next", !.queue = <<m>>] \in HandlerState
    BY <2>1, IdleFits DEF HandlerState
  <2>3. QED
    BY <1>1, <2>2, IdleFits DEF BeginSync, HandlerState
<1>2. CASE BeginCreate(h, m) \/ BeginDisable(h, m)
  <2>1. PICK pc \in {"create", "disable"} :
          handler' = [handler EXCEPT ![h] = [IdleHandler EXCEPT !.pc = pc, !.mailbox = m]]
    BY <1>2 DEF BeginCreate, BeginDisable
  <2>2. [IdleHandler EXCEPT !.pc = pc, !.mailbox = m] \in HandlerState
    BY IdleFits DEF HandlerState
  <2>3. QED
    BY <2>1, <2>2, IdleFits DEF HandlerState
<1>3. QED
  BY <1>1, <1>2

LEMMA TickMoves ==
  ASSUME NEW h \in Run, WorkerTick(h)
  PROVE  \E s \in HandlerState : s.pc = "next" /\ handler' = [handler EXCEPT ![h] = s]
<1>1. PICK queue \in BoundedSeq(Mailbox, Batch) :
        handler' = [handler EXCEPT ![h] = [IdleHandler EXCEPT !.pc = "next", !.queue = queue]]
  BY DEF WorkerTick
<1>2. queue \in Seq(Mailbox)
  BY DEF BoundedSeq, SeqOf
<1>3. [IdleHandler EXCEPT !.pc = "next", !.queue = queue] \in HandlerState
  BY <1>2, IdleFits DEF HandlerState
<1>4. QED
  BY <1>1, <1>3, IdleFits DEF HandlerState

LEMMA BeginKeeps ==
  ASSUME SyncIInv,
         \/ \E h \in Request, m \in Mailbox :
              BeginCreate(h, m) \/ BeginDisable(h, m) \/ BeginSync(h, m)
         \/ \E h \in Run : WorkerTick(h)
  PROVE  SyncIInv'
<1>1. UNCHANGED <<domains, mailbox, inbox, mail>>
  BY DEF BeginCreate, BeginDisable, BeginSync, WorkerTick
<1>2. PICK h \in Handler, s \in HandlerState :
        /\ s.pc \notin {"fetch", "import", "finish"}
        /\ s.pc \in AtMailbox => s.mailbox \in Mailbox
        /\ handler' = [handler EXCEPT ![h] = s]
  BY BeginMoves, TickMoves DEF Handler, AtMailbox
<1>3. QED
  BY <1>1, <1>2, NoCursorFits, HandlerOnly

LEMMA StartKeeps ==
  ASSUME SyncIInv, NEW h \in Handler, StartMailbox(h)
  PROVE  SyncIInv'
<1>1. UNCHANGED <<domains, mailbox, inbox, mail>>
  BY DEF StartMailbox
<1>2. PICK queue \in Seq(Mailbox) : queue = handler[h].queue
  BY HandlerTyped DEF HandlerState
<1>3. CASE queue = <<>>
  <2>1. handler' = [handler EXCEPT ![h] = IdleHandler]
    BY <1>2, <1>3 DEF StartMailbox
  <2>2. HandlerFits(IdleHandler) /\ HandlerCursor(IdleHandler)
    BY IdleFits, NoCursorFits DEF AtMailbox
  <2>3. QED
    BY <1>1, <2>1, <2>2, IdleFits, HandlerOnly
<1>4. CASE queue # <<>>
  <2>1. PICK m \in Mailbox, rest \in Seq(Mailbox) : m = Head(queue) /\ rest = Tail(queue)
    <3>1. Head(queue) \in Mailbox /\ Tail(queue) \in Seq(Mailbox)
      BY <1>4
    <3>2. QED
      BY <3>1
  <2>2. CASE MaySync(m)
    <3>1. PICK cursor \in Nat : cursor = mailbox[m].lastUid
      BY DEF SyncIInv, SyncShape, MailboxRow
    <3>2. handler' = [handler EXCEPT ![h] =
            [IdleHandler EXCEPT !.pc = "fetch", !.queue = rest, !.mailbox = m, !.lastUid = cursor]]
      BY <1>2, <1>4, <2>1, <2>2, <3>1 DEF StartMailbox
    <3>3. [IdleHandler EXCEPT !.pc = "fetch", !.queue = rest, !.mailbox = m, !.lastUid = cursor]
            \in HandlerState
      BY IdleFits DEF HandlerState
    <3>4. PICK s \in HandlerState :
            /\ s.pc = "fetch" /\ s.mailbox = m /\ s.lastUid = cursor
            /\ handler' = [handler EXCEPT ![h] = s]
      BY <3>2, <3>3, IdleFits DEF HandlerState
    <3>5. Reached(m, cursor) /\ ImportedUpTo(m, cursor)
      BY <3>1 DEF SyncIInv, MailboxesReached, NothingBehindCursor
    <3>6. HandlerFits(s) /\ HandlerCursor(s)
      BY <3>4, <3>5 DEF HandlerFits, HandlerCursor
    <3>7. QED
      BY <1>1, <3>4, <3>6, HandlerOnly
  <2>3. CASE ~MaySync(m)
    <3>1. handler' = [handler EXCEPT ![h] = [IdleHandler EXCEPT !.pc = "next", !.queue = rest]]
      BY <1>2, <1>4, <2>1, <2>3 DEF StartMailbox, Refused
    <3>2. [IdleHandler EXCEPT !.pc = "next", !.queue = rest] \in HandlerState
      BY IdleFits DEF HandlerState
    <3>3. PICK s \in HandlerState : s.pc = "next" /\ handler' = [handler EXCEPT ![h] = s]
      BY <3>1, <3>2, IdleFits DEF HandlerState
    <3>4. HandlerFits(s) /\ HandlerCursor(s)
      BY <3>3, NoCursorFits DEF AtMailbox
    <3>5. QED
      BY <1>1, <3>3, <3>4, HandlerOnly
  <2>4. QED
    BY <2>2, <2>3
<1>5. QED
  BY <1>3, <1>4

LEMMA FetchKeeps ==
  ASSUME SyncIInv, NEW h \in Handler, Fetch(h)
  PROVE  SyncIInv'
<1>1. /\ UNCHANGED <<domains, mailbox, inbox, mail>> /\ handler[h].pc = "fetch"
      /\ handler[h] \in HandlerState
      /\ HandlerFits(handler[h]) /\ HandlerCursor(handler[h])
  BY HandlerTyped DEF Fetch, At
<1>2. PICK m \in Mailbox, cursor \in Uid \union {0} :
        /\ m = handler[h].mailbox /\ cursor = handler[h].lastUid
        /\ Reached(m, cursor) /\ ImportedUpTo(m, cursor)
  BY <1>1 DEF HandlerFits, AtMailbox, Reached, HandlerCursor
<1>3. CASE handler' = [handler EXCEPT ![h].pc = "fail"]
  <2>1. [handler[h] EXCEPT !.pc = "fail"] \in HandlerState
    BY <1>1 DEF HandlerState
  <2>2. PICK s \in HandlerState : /\ s.pc = "fail" /\ s.mailbox = m
                                  /\ handler' = [handler EXCEPT ![h] = s]
    BY <1>1, <1>2, <1>3, <2>1 DEF HandlerState
  <2>3. HandlerFits(s) /\ HandlerCursor(s)
    BY <2>2, NoCursorFits
  <2>4. QED
    BY <1>1, <2>2, <2>3, HandlerOnly
<1>4. CASE handler' = [handler EXCEPT ![h].pc = "import", ![h].todo = Listed(m, cursor)]
  <2>1. PICK todo \in SUBSET Uid : todo = Listed(m, cursor)
    BY DEF Listed
  <2>2. [handler[h] EXCEPT !.pc = "import", !.todo = todo] \in HandlerState
    BY <1>1 DEF HandlerState
  <2>3. PICK s \in HandlerState :
          /\ s.pc = "import" /\ s.mailbox = m /\ s.lastUid = cursor /\ s.todo = todo
          /\ handler' = [handler EXCEPT ![h] = s]
    <3>1. handler' = [handler EXCEPT ![h] = [handler[h] EXCEPT !.pc = "import", !.todo = todo]]
      BY <1>4, <2>1 DEF SyncIInv, SyncShape
    <3>2. QED
      BY <1>1, <1>2, <2>2, <3>1 DEF HandlerState
  <2>4. \A v \in todo : inbox[m][v] = "mail"
    BY <2>1 DEF Listed
  <2>5. ASSUME NEW u \in Uid, u \notin todo, inbox[m][u] = "mail"
        PROVE  mail[m][u] # "none"
    <3>1. ~(u > cursor)
      BY <2>1, <2>5 DEF Listed
    <3>2. u <= cursor
      BY <3>1, UidType
    <3>3. QED
      BY <1>2, <2>5, <3>2 DEF ImportedUpTo
  <2>6. HandlerFits(s)
    BY <1>2, <2>3, <2>4 DEF HandlerFits
  <2>7. HandlerCursor(s)
    BY <1>2, <2>3, <2>5 DEF HandlerCursor
  <2>8. QED
    BY <1>1, <2>3, <2>6, <2>7, HandlerOnly
<1>5. QED
  BY <1>2, <1>3, <1>4 DEF Fetch

\* What the import of one message does to the cursor: it moves to the least message
\* not handled, which has a row then; whatever is passed over is behind the cursor
\* or gone.
LEMMA ImportKeeps ==
  ASSUME SyncIInv, NEW h \in Handler, ImportNext(h)
  PROVE  SyncIInv'
<1>1. /\ UNCHANGED <<domains, mailbox, inbox>> /\ handler[h].pc = "import"
      /\ handler[h] \in HandlerState
      /\ HandlerFits(handler[h]) /\ HandlerCursor(handler[h])
  BY HandlerTyped DEF ImportNext, At
<1>2. PICK m \in Mailbox, cursor \in Uid \union {0}, todo \in SUBSET Uid :
        /\ m = handler[h].mailbox /\ cursor = handler[h].lastUid /\ todo = handler[h].todo
        /\ Reached(m, cursor) /\ ImportedUpTo(m, cursor)
        /\ \A v \in todo : inbox[m][v] # "none"
        /\ \A u \in Uid : \A v \in todo :
             u <= v /\ u \notin todo /\ inbox[m][u] = "mail" => mail[m][u] # "none"
  <2>1. /\ handler[h].mailbox \in Mailbox /\ handler[h].todo \in SUBSET Uid
        /\ Reached(handler[h].mailbox, handler[h].lastUid)
    BY <1>1 DEF HandlerFits, AtMailbox, HandlerState
  <2>2. PICK m \in Mailbox, cursor \in Uid \union {0}, todo \in SUBSET Uid :
          m = handler[h].mailbox /\ cursor = handler[h].lastUid /\ todo = handler[h].todo
    BY <2>1 DEF Reached
  <2>3. /\ Reached(m, cursor) /\ ImportedUpTo(m, cursor)
        /\ \A v \in todo : inbox[m][v] # "none"
    BY <1>1, <2>1, <2>2 DEF HandlerFits, HandlerCursor
  <2>4. \A u \in Uid : \A v \in todo :
          u <= v /\ u \notin todo /\ inbox[m][u] = "mail" => mail[m][u] # "none"
    BY <1>1, <2>2 DEF HandlerCursor
  <2>5. QED
    BY <2>2, <2>3, <2>4
<1>3. PICK u \in todo :
        /\ \A v \in todo : u <= v
        /\ \/ /\ u <= cursor \/ inbox[m][u] = "gone"
              /\ handler' = [handler EXCEPT ![h].todo = @ \ {u}]
              /\ UNCHANGED mail
           \/ /\ u > cursor
              /\ \E status \in {"unread", "read"} :
                   mail' = [mail EXCEPT ![m][u] = Imported(@, status)]
              /\ handler' = [handler EXCEPT ![h].todo = @ \ {u}, ![h].lastUid = u]
           \/ /\ handler' = [handler EXCEPT ![h].pc = "fail"]
              /\ UNCHANGED mail
  BY <1>2 DEF ImportNext
<1>4. u \in Uid
  BY <1>3
<1>5. CASE /\ handler' = [handler EXCEPT ![h].pc = "fail"]
           /\ UNCHANGED mail
  <2>1. [handler[h] EXCEPT !.pc = "fail"] \in HandlerState
    BY <1>1 DEF HandlerState
  <2>2. PICK s \in HandlerState : /\ s.pc = "fail" /\ s.mailbox = m
                                  /\ handler' = [handler EXCEPT ![h] = s]
    BY <1>1, <1>2, <1>5, <2>1 DEF HandlerState
  <2>3. HandlerFits(s) /\ HandlerCursor(s)
    BY <2>2, NoCursorFits
  <2>4. QED
    BY <1>1, <1>5, <2>2, <2>3, HandlerOnly
<1>6. CASE /\ u <= cursor \/ inbox[m][u] = "gone"
           /\ handler' = [handler EXCEPT ![h].todo = @ \ {u}]
           /\ UNCHANGED mail
  <2>1. PICK rest \in SUBSET Uid : rest = todo \ {u}
    OBVIOUS
  <2>2. [handler[h] EXCEPT !.todo = rest] \in HandlerState
    BY <1>1 DEF HandlerState
  <2>3. PICK s \in HandlerState :
          /\ s.pc = "import" /\ s.mailbox = m /\ s.lastUid = cursor /\ s.todo = rest
          /\ handler' = [handler EXCEPT ![h] = s]
    <3>1. handler' = [handler EXCEPT ![h] = [handler[h] EXCEPT !.todo = rest]]
      BY <1>2, <1>6, <2>1 DEF SyncIInv, SyncShape
    <3>2. QED
      BY <1>1, <1>2, <2>2, <3>1 DEF HandlerState
  <2>4. HandlerFits(s)
    BY <1>2, <2>1, <2>3 DEF HandlerFits
  <2>5. inbox[m][u] = "mail" => mail[m][u] # "none"
    BY <1>2, <1>4, <1>6 DEF ImportedUpTo
  <2>6. ASSUME NEW w \in Uid, NEW v \in rest, w <= v, w \notin rest, inbox[m][w] = "mail"
        PROVE  mail[m][w] # "none"
    BY <1>2, <2>1, <2>5, <2>6
  <2>7. HandlerCursor(s)
    BY <1>2, <2>3, <2>6 DEF HandlerCursor
  <2>8. QED
    BY <1>1, <1>6, <2>3, <2>4, <2>7, HandlerOnly
<1>7. CASE /\ u > cursor
           /\ \E status \in {"unread", "read"} :
                mail' = [mail EXCEPT ![m][u] = Imported(@, status)]
           /\ handler' = [handler EXCEPT ![h].todo = @ \ {u}, ![h].lastUid = u]
  <2>1. PICK row \in MailStatus :
          /\ mail[m][u] # "none" => row = mail[m][u]
          /\ mail' = [mail EXCEPT ![m][u] = row]
    <3>1. PICK status \in {"unread", "read"} :
            mail' = [mail EXCEPT ![m][u] = Imported(mail[m][u], status)]
      BY <1>7
    <3>2. Imported(mail[m][u], status) \in MailStatus
      BY <1>4 DEF Imported, MailStatus, SyncIInv, SyncShape
    <3>3. mail[m][u] # "none" => Imported(mail[m][u], status) = mail[m][u]
      BY DEF Imported
    <3>4. QED
      BY <3>1, <3>2, <3>3
  <2>2. /\ mail' \in [Mailbox -> [Uid -> MailStatus \union {"none"}]]
        /\ mail'[m][u] # "none"
        /\ \A n \in Mailbox, w \in Uid : mail[n][w] # "none" => mail'[n][w] # "none"
    BY <1>4, <2>1 DEF SyncIInv, SyncShape, MailStatus
  <2>3. Evolves
    BY <1>1, <2>2 DEF Evolves
  <2>4. PICK rest \in SUBSET Uid : rest = todo \ {u}
    OBVIOUS
  <2>5. [handler[h] EXCEPT !.todo = rest, !.lastUid = u] \in HandlerState
    BY <1>1, <1>4, UidType DEF HandlerState
  <2>6. PICK s \in HandlerState :
          /\ s.pc = "import" /\ s.mailbox = m /\ s.lastUid = u /\ s.todo = rest
          /\ handler' = [handler EXCEPT ![h] = s]
    <3>1. handler' = [handler EXCEPT ![h] = [handler[h] EXCEPT !.todo = rest, !.lastUid = u]]
      BY <1>2, <1>7, <2>4 DEF SyncIInv, SyncShape
    <3>2. QED
      BY <1>1, <1>2, <2>5, <3>1 DEF HandlerState
  <2>7. HandlerFits(s)'
    BY <1>1, <1>2, <1>4, <2>4, <2>6 DEF HandlerFits, Reached
  <2>8. ASSUME NEW w \in Uid, w <= u, inbox[m][w] = "mail"
        PROVE  mail'[m][w] # "none"
    <3>1. CASE w = u
      BY <2>2, <3>1
    <3>2. CASE w # u
      <4>1. w \notin todo
        BY <1>3, <1>4, <2>8, <3>2, UidType
      <4>2. QED
        BY <1>2, <2>2, <2>8, <4>1
    <3>3. QED
      BY <3>1, <3>2
  <2>9. ASSUME NEW w \in Uid, NEW v \in rest, w <= v, w \notin rest, inbox[m][w] = "mail"
        PROVE  mail'[m][w] # "none"
    BY <1>2, <2>2, <2>4, <2>9
  <2>10. HandlerCursor(s)'
    BY <1>1, <2>6, <2>8, <2>9 DEF HandlerCursor, ImportedUpTo
  <2>11. /\ handler' \in [Handler -> HandlerState] /\ HandlersFit'
         /\ \A g \in Handler : HandlerCursor(handler[g])'
    BY <2>3, <2>6, <2>7, <2>10, HandlerMoves
  <2>12. MailboxesReached' /\ \A n \in Mailbox : ImportedUpTo(n, mailbox[n].lastUid)'
    BY <1>1, <2>3, RowsStay
  <2>13. SyncShape' /\ UidsAscend'
    BY <1>1, <2>2, <2>11 DEF SyncIInv, SyncShape, UidsAscend
  <2>14. QED
    BY <2>11, <2>12, <2>13 DEF SyncIInv, NothingBehindCursor
<1>8. QED
  BY <1>3, <1>5, <1>6, <1>7

LEMMA CloseKeeps ==
  ASSUME SyncIInv, NEW h \in Handler, CloseImap(h)
  PROVE  SyncIInv'
<1>1. /\ UNCHANGED <<domains, mailbox, inbox, mail>> /\ handler[h].pc = "import"
      /\ handler[h] \in HandlerState
      /\ HandlerFits(handler[h]) /\ HandlerCursor(handler[h])
  BY HandlerTyped DEF CloseImap, At
<1>2. PICK pc \in {"finish", "fail"} : handler' = [handler EXCEPT ![h].pc = pc]
  BY DEF CloseImap
<1>3. [handler[h] EXCEPT !.pc = pc] \in HandlerState
  BY <1>1 DEF HandlerState
<1>4. PICK s \in HandlerState :
        /\ s.pc = pc /\ s.mailbox = handler[h].mailbox /\ s.lastUid = handler[h].lastUid
        /\ handler' = [handler EXCEPT ![h] = s]
  BY <1>1, <1>2, <1>3 DEF HandlerState
<1>5. HandlerFits(s) /\ HandlerCursor(s)
  BY <1>1, <1>4 DEF HandlerFits, AtMailbox, HandlerCursor
<1>6. QED
  BY <1>1, <1>4, <1>5, HandlerOnly

\* A handler that is done with a mailbox goes on with the rest of its queue.
LEMMA DoneFits ==
  ASSUME SyncIInv, NEW h \in Handler
  PROVE  \E s \in HandlerState : /\ MailboxDone(h) = [handler EXCEPT ![h] = s]
                                 /\ s.pc = "next"
<1>1. handler[h].queue \in Seq(Mailbox)
  BY HandlerTyped DEF HandlerState
<1>2. [IdleHandler EXCEPT !.pc = "next", !.queue = handler[h].queue] \in HandlerState
  BY <1>1, IdleFits DEF HandlerState
<1>3. QED
  BY <1>2, IdleFits DEF MailboxDone, HandlerState

\* A handler writes a row, of the mailbox it is at or of none, and goes on.
LEMMA WriteKeeps ==
  ASSUME SyncIInv, NEW h \in Handler, NEW s \in HandlerState,
         s.pc \notin AtMailbox, handler' = [handler EXCEPT ![h] = s],
         UNCHANGED <<domains, inbox, mail>>, mailbox' \in [Mailbox -> MailboxRow],
         \A m \in Mailbox :
           Reached(m, mailbox'[m].lastUid) /\ ImportedUpTo(m, mailbox'[m].lastUid)
  PROVE  SyncIInv'
<1>1. Evolves
  BY NothingEvolves
<1>2. HandlerFits(s)' /\ HandlerCursor(s)'
  BY DEF HandlerFits, HandlerCursor, AtMailbox
<1>3. /\ handler' \in [Handler -> HandlerState] /\ HandlersFit'
      /\ \A g \in Handler : HandlerCursor(handler[g])'
  BY <1>1, <1>2, HandlerMoves
<1>4. MailboxesReached' /\ \A m \in Mailbox : ImportedUpTo(m, mailbox[m].lastUid)'
  BY <1>1, RowsMove
<1>5. SyncShape' /\ UidsAscend'
  BY <1>3 DEF SyncIInv, SyncShape, UidsAscend
<1>6. QED
  BY <1>3, <1>4, <1>5 DEF SyncIInv, NothingBehindCursor

\* The cursors that are stored.
LEMMA StoredCursors ==
  ASSUME SyncIInv
  PROVE  \A m \in Mailbox : /\ mailbox[m] \in MailboxRow
                            /\ Reached(m, mailbox[m].lastUid)
                            /\ ImportedUpTo(m, mailbox[m].lastUid)
BY DEF SyncIInv, SyncShape, MailboxesReached, NothingBehindCursor

\* One row changes but for its cursor.
LEMMA RowRewritten ==
  ASSUME SyncIInv, NEW m \in Mailbox, NEW row \in MailboxRow,
         row.lastUid = mailbox[m].lastUid, mailbox' = [mailbox EXCEPT ![m] = row]
  PROVE  /\ mailbox' \in [Mailbox -> MailboxRow]
         /\ \A n \in Mailbox : mailbox'[n].lastUid = mailbox[n].lastUid
BY DEF SyncIInv, SyncShape

\* The rows that updates make of a row.
LEMMA Rewritten ==
  ASSUME NEW row \in MailboxRow
  PROVE  LET failed == [row EXCEPT !.status = "sync_failed"]
             off == [row EXCEPT !.status = "disabled", !.disabledAt = TRUE]
             on == [row EXCEPT !.status = "active", !.disabledAt = FALSE]
         IN  /\ failed \in MailboxRow /\ failed.lastUid = row.lastUid
             /\ off \in MailboxRow /\ off.lastUid = row.lastUid
             /\ on \in MailboxRow /\ on.lastUid = row.lastUid
BY DEF MailboxRow

LEMMA ZeroReached ==
  ASSUME NEW m \in Mailbox
  PROVE  Reached(m, 0) /\ ImportedUpTo(m, 0)
BY UidType DEF Reached, ImportedUpTo

LEMMA FinishSyncKeeps ==
  ASSUME SyncIInv, NEW h \in Handler, FinishSync(h)
  PROVE  SyncIInv'
<1>1. /\ UNCHANGED <<domains, inbox, mail>> /\ handler[h].pc = "finish"
      /\ handler[h] \in HandlerState
      /\ HandlerFits(handler[h]) /\ HandlerCursor(handler[h])
  BY HandlerTyped DEF FinishSync, At
<1>2. PICK m \in Mailbox, cursor \in Uid \union {0} :
        /\ m = handler[h].mailbox /\ cursor = handler[h].lastUid
        /\ Reached(m, cursor) /\ ImportedUpTo(m, cursor)
  BY <1>1 DEF HandlerFits, AtMailbox, Reached, HandlerCursor
<1>3. CASE /\ mailbox' = [mailbox EXCEPT ![m].lastUid = cursor, ![m].status = "active"]
           /\ handler' = MailboxDone(h)
  <2>1. PICK s \in HandlerState : handler' = [handler EXCEPT ![h] = s] /\ s.pc = "next"
    BY <1>3, DoneFits
  <2>2. [mailbox[m] EXCEPT !.lastUid = cursor, !.status = "active"] \in MailboxRow
    <3>1. mailbox[m] \in MailboxRow /\ cursor \in Nat
      BY UidType, StoredCursors
    <3>2. QED
      BY <3>1 DEF MailboxRow
  <2>3. PICK row \in MailboxRow :
          row.lastUid = cursor /\ mailbox' = [mailbox EXCEPT ![m] = row]
    <3>1. mailbox' = [mailbox EXCEPT ![m] =
                        [mailbox[m] EXCEPT !.lastUid = cursor, !.status = "active"]]
      BY <1>3 DEF SyncIInv, SyncShape
    <3>2. QED
      BY <2>2, <3>1, StoredCursors DEF MailboxRow
  <2>4. mailbox' \in [Mailbox -> MailboxRow]
    BY <2>3 DEF SyncIInv, SyncShape
  <2>5. ASSUME NEW n \in Mailbox
        PROVE  Reached(n, mailbox'[n].lastUid) /\ ImportedUpTo(n, mailbox'[n].lastUid)
    <3>1. mailbox'[n] = IF n = m THEN row ELSE mailbox[n]
      BY <2>3 DEF SyncIInv, SyncShape
    <3>2. QED
      BY <1>2, <2>3, <3>1, StoredCursors
  <2>6. QED
    BY <1>1, <2>1, <2>4, <2>5, WriteKeeps DEF AtMailbox
<1>4. CASE /\ handler' = [handler EXCEPT ![h].pc = "fail"] /\ UNCHANGED mailbox
  <2>1. [handler[h] EXCEPT !.pc = "fail"] \in HandlerState
    BY <1>1 DEF HandlerState
  <2>2. PICK s \in HandlerState : /\ s.pc = "fail" /\ s.mailbox = m
                                  /\ handler' = [handler EXCEPT ![h] = s]
    BY <1>1, <1>2, <1>4, <2>1 DEF HandlerState
  <2>3. HandlerFits(s) /\ HandlerCursor(s)
    BY <2>2, NoCursorFits
  <2>4. QED
    BY <1>1, <1>4, <2>2, <2>3, HandlerOnly
<1>5. QED
  BY <1>2, <1>3, <1>4 DEF FinishSync

\* Rows change but for their cursors.
LEMMA SameCursors ==
  ASSUME SyncIInv, mailbox' \in [Mailbox -> MailboxRow],
         \A m \in Mailbox : mailbox'[m].lastUid \in {mailbox[m].lastUid, 0}
  PROVE  \A m \in Mailbox :
           Reached(m, mailbox'[m].lastUid) /\ ImportedUpTo(m, mailbox'[m].lastUid)
BY StoredCursors, ZeroReached

LEMMA FailSyncKeeps ==
  ASSUME SyncIInv, NEW h \in Handler, FailSync(h)
  PROVE  SyncIInv'
<1>1. /\ UNCHANGED <<domains, inbox, mail>> /\ handler[h].pc = "fail"
      /\ handler' = MailboxDone(h) /\ handler[h] \in HandlerState
  BY HandlerTyped DEF FailSync, At
<1>2. PICK m \in Mailbox : m = handler[h].mailbox
  BY <1>1, HandlerTyped DEF HandlerFits, AtMailbox
<1>3. PICK s \in HandlerState : handler' = [handler EXCEPT ![h] = s] /\ s.pc = "next"
  BY <1>1, DoneFits
<1>4. /\ mailbox' \in [Mailbox -> MailboxRow]
      /\ \A n \in Mailbox : mailbox'[n].lastUid = mailbox[n].lastUid
  <2>1. CASE mailbox' = [mailbox EXCEPT ![m].status = "sync_failed"]
    <3>1. mailbox' = [mailbox EXCEPT ![m] = [mailbox[m] EXCEPT !.status = "sync_failed"]]
      BY <2>1
    <3>2. QED
      BY <3>1, StoredCursors, Rewritten, RowRewritten
  <2>2. CASE UNCHANGED mailbox
    BY <2>2 DEF SyncIInv, SyncShape
  <2>3. QED
    BY <1>2, <2>1, <2>2 DEF FailSync
<1>5. \A n \in Mailbox :
        Reached(n, mailbox'[n].lastUid) /\ ImportedUpTo(n, mailbox'[n].lastUid)
  BY <1>4, SameCursors
<1>6. QED
  BY <1>1, <1>3, <1>4, <1>5, WriteKeeps DEF AtMailbox

LEMMA FinishRowKeeps ==
  ASSUME SyncIInv, NEW h \in Handler, FinishCreate(h) \/ FinishDisable(h)
  PROVE  SyncIInv'
<1>1. /\ UNCHANGED <<domains, inbox, mail>> /\ handler[h].pc \in {"create", "disable"}
      /\ handler' = [handler EXCEPT ![h] = IdleHandler] /\ handler[h] \in HandlerState
  BY HandlerTyped DEF FinishCreate, FinishDisable, At
<1>2. PICK m \in Mailbox : m = handler[h].mailbox
  BY <1>1, HandlerTyped DEF HandlerFits, AtMailbox
<1>3. /\ mailbox' \in [Mailbox -> MailboxRow]
      /\ \A n \in Mailbox : mailbox'[n].lastUid \in {mailbox[n].lastUid, 0}
  <2>1. CASE mailbox' = [mailbox EXCEPT ![m] = NewMailbox("live")]
    <3>1. NewMailbox("live") \in MailboxRow /\ NewMailbox("live").lastUid = 0
      BY DEF NewMailbox, MailboxRow
    <3>2. QED
      BY <2>1, <3>1 DEF SyncIInv, SyncShape
  <2>2. CASE mailbox' = [mailbox EXCEPT ![m].status = "disabled", ![m].disabledAt = TRUE]
    <3>1. mailbox' = [mailbox EXCEPT ![m] =
                        [mailbox[m] EXCEPT !.status = "disabled", !.disabledAt = TRUE]]
      BY <2>2
    <3>2. QED
      BY <3>1, StoredCursors, Rewritten, RowRewritten
  <2>3. CASE UNCHANGED mailbox
    BY <2>3 DEF SyncIInv, SyncShape
  <2>4. QED
    BY <1>2, <2>1, <2>2, <2>3 DEF FinishCreate, FinishDisable
<1>4. \A n \in Mailbox :
        Reached(n, mailbox'[n].lastUid) /\ ImportedUpTo(n, mailbox'[n].lastUid)
  BY <1>3, SameCursors
<1>5. IdleHandler.pc \notin AtMailbox
  BY IdleFits DEF AtMailbox
<1>6. QED
  BY <1>1, <1>3, <1>4, <1>5, IdleFits, WriteKeeps

\* Users enable mailboxes and delete domains; no handler moves.
LEMMA OwnerKeeps ==
  ASSUME SyncIInv, \/ \E m \in Mailbox : EnableMailbox(m)
                   \/ \E d \in Domain : DeleteDomain(d)
  PROVE  SyncIInv'
<1>1. /\ UNCHANGED <<inbox, mail, handler>> /\ domains' \subseteq Domain
      /\ mailbox' \in [Mailbox -> MailboxRow]
      /\ \A n \in Mailbox : mailbox'[n].lastUid \in {mailbox[n].lastUid, 0}
  <2>1. ASSUME NEW m \in Mailbox, EnableMailbox(m)
        PROVE  /\ mailbox' \in [Mailbox -> MailboxRow]
               /\ \A n \in Mailbox : mailbox'[n].lastUid = mailbox[n].lastUid
    <3>1. mailbox' = [mailbox EXCEPT ![m] =
                        [mailbox[m] EXCEPT !.status = "active", !.disabledAt = FALSE]]
      BY <2>1 DEF EnableMailbox
    <3>2. QED
      BY <3>1, StoredCursors, Rewritten, RowRewritten
  <2>2. ASSUME NEW d \in Domain, DeleteDomain(d)
        PROVE  /\ mailbox' \in [Mailbox -> MailboxRow]
               /\ \A n \in Mailbox : mailbox'[n].lastUid \in {mailbox[n].lastUid, 0}
    <3>1. NewMailbox("deleted") \in MailboxRow /\ NewMailbox("deleted").lastUid = 0
      BY DEF NewMailbox, MailboxRow
    <3>2. \A n \in Mailbox : mailbox'[n] \in {mailbox[n], NewMailbox("deleted")}
      BY <2>2 DEF DeleteDomain
    <3>3. mailbox' = [n \in Mailbox |-> mailbox'[n]]
      BY <2>2 DEF DeleteDomain
    <3>4. QED
      BY <3>1, <3>2, <3>3, StoredCursors
  <2>3. QED
    BY <2>1, <2>2 DEF EnableMailbox, DeleteDomain, SyncIInv, SyncShape
<1>2. Evolves
  BY <1>1, NothingEvolves
<1>3. \A n \in Mailbox :
        Reached(n, mailbox'[n].lastUid) /\ ImportedUpTo(n, mailbox'[n].lastUid)
  BY <1>1, SameCursors
<1>4. MailboxesReached' /\ \A m \in Mailbox : ImportedUpTo(m, mailbox[m].lastUid)'
  BY <1>1, <1>2, <1>3, RowsMove
<1>5. /\ handler' \in [Handler -> HandlerState] /\ HandlersFit'
      /\ \A g \in Handler : HandlerCursor(handler[g])'
  BY <1>1, <1>2, HandlersStay
<1>6. SyncShape' /\ UidsAscend'
  BY <1>1, <1>5 DEF SyncIInv, SyncShape, UidsAscend
<1>7. QED
  BY <1>4, <1>5, <1>6 DEF SyncIInv, NothingBehindCursor

\* Messages come and go, and users file them.
LEMMA MessageKeeps ==
  ASSUME SyncIInv, NEW m \in Mailbox, NEW u \in Uid,
         \/ Deliver(m, u) \/ Expunge(m, u)
         \/ \E status \in Filing : UpdateInboundEmail(m, u, status)
  PROVE  SyncIInv'
<1>1. UNCHANGED <<domains, mailbox, handler>>
  BY DEF Deliver, Expunge, UpdateInboundEmail
<1>2. /\ inbox' \in [Mailbox -> [Uid -> {"none", "mail", "gone"}]]
      /\ mail' \in [Mailbox -> [Uid -> MailStatus \union {"none"}]]
      /\ Evolves /\ UidsAscend'
  <2>1. CASE Deliver(m, u)
    <3>1. /\ inbox' = [inbox EXCEPT ![m][u] = "mail"] /\ UNCHANGED mail
          /\ inbox[m][u] = "none"
          /\ \A v \in Uid : v < u => inbox[m][v] # "none"
      BY <2>1, UidType DEF Deliver, Uid
    <3>2. \A n \in Mailbox, v \in Uid :
            inbox'[n][v] = IF n = m /\ v = u THEN "mail" ELSE inbox[n][v]
      BY <3>1 DEF SyncIInv, SyncShape
    <3>3. inbox' \in [Mailbox -> [Uid -> {"none", "mail", "gone"}]]
      BY <3>1 DEF SyncIInv, SyncShape
    <3>4. \A v \in Uid : v >= u => inbox[m][v] = "none"
      BY <3>1, UidType DEF SyncIInv, UidsAscend
    <3>5. Evolves
      BY <3>1, <3>2, <3>4 DEF Evolves
    <3>6. UidsAscend'
      BY <3>1, <3>2, UidType DEF SyncIInv, UidsAscend
    <3>7. QED
      BY <3>1, <3>3, <3>5, <3>6 DEF SyncIInv, SyncShape
  <2>2. CASE Expunge(m, u)
    <3>1. /\ inbox' = [inbox EXCEPT ![m][u] = "gone"] /\ UNCHANGED mail
          /\ inbox[m][u] = "mail"
      BY <2>2 DEF Expunge
    <3>2. \A n \in Mailbox, v \in Uid :
            inbox'[n][v] = IF n = m /\ v = u THEN "gone" ELSE inbox[n][v]
      BY <3>1 DEF SyncIInv, SyncShape
    <3>3. inbox' \in [Mailbox -> [Uid -> {"none", "mail", "gone"}]]
      BY <3>1 DEF SyncIInv, SyncShape
    <3>4. Evolves
      BY <3>1, <3>2 DEF Evolves
    <3>5. UidsAscend'
      BY <3>1, <3>2 DEF SyncIInv, UidsAscend
    <3>6. QED
      BY <3>1, <3>3, <3>4, <3>5 DEF SyncIInv, SyncShape
  <2>3. ASSUME NEW status \in Filing, UpdateInboundEmail(m, u, status)
        PROVE  /\ mail' \in [Mailbox -> [Uid -> MailStatus \union {"none"}]]
               /\ Evolves /\ UNCHANGED inbox
    BY <2>3 DEF UpdateInboundEmail, MailStatus, Evolves, SyncIInv, SyncShape
  <2>4. QED
    BY <2>1, <2>2, <2>3 DEF SyncIInv, SyncShape, UidsAscend
<1>3. MailboxesReached' /\ \A n \in Mailbox : ImportedUpTo(n, mailbox[n].lastUid)'
  BY <1>1, <1>2, RowsStay
<1>4. /\ handler' \in [Handler -> HandlerState] /\ HandlersFit'
      /\ \A g \in Handler : HandlerCursor(handler[g])'
  BY <1>1, <1>2, HandlersStay
<1>5. SyncShape'
  BY <1>1, <1>2, <1>4 DEF SyncIInv, SyncShape
<1>6. QED
  BY <1>2, <1>3, <1>4, <1>5 DEF SyncIInv, NothingBehindCursor

LEMMA CrashKeeps ==
  ASSUME SyncIInv, Crash
  PROVE  SyncIInv'
<1>1. UNCHANGED <<domains, mailbox, inbox, mail>> /\ \A h \in Handler : handler'[h] = IdleHandler
  BY DEF Crash
<1>2. Evolves
  BY <1>1, NothingEvolves
<1>3. MailboxesReached' /\ \A m \in Mailbox : ImportedUpTo(m, mailbox[m].lastUid)'
  BY <1>1, <1>2, RowsStay
<1>4. HandlersFit' /\ \A h \in Handler : HandlerCursor(handler[h])'
  BY <1>1, IdleFits DEF HandlersFit, HandlerFits, AtMailbox, HandlerCursor
<1>5. SyncShape' /\ UidsAscend'
  BY <1>1, IdleFits DEF Crash, SyncIInv, SyncShape, UidsAscend
<1>6. QED
  BY <1>3, <1>4, <1>5 DEF SyncIInv, NothingBehindCursor

LEMMA SyncStepInv == SyncIInv /\ [SyncNext]_syncVars => SyncIInv'
<1> SUFFICES ASSUME SyncIInv, [SyncNext]_syncVars
             PROVE  SyncIInv'
  OBVIOUS
<1>1. ASSUME NEW h \in Handler, HandlerStep(h)
      PROVE  SyncIInv'
  BY <1>1, StartKeeps, FetchKeeps, ImportKeeps, CloseKeeps, FinishSyncKeeps, FailSyncKeeps,
     FinishRowKeeps DEF HandlerStep
<1>2. CASE SyncNext
  BY <1>1, <1>2, BeginKeeps, OwnerKeeps, MessageKeeps, CrashKeeps DEF SyncNext
<1>3. CASE UNCHANGED syncVars
  <2>1. Evolves
    BY <1>3, NothingEvolves DEF syncVars
  <2>2. MailboxesReached' /\ \A m \in Mailbox : ImportedUpTo(m, mailbox[m].lastUid)'
    BY <1>3, <2>1, RowsStay DEF syncVars
  <2>3. /\ handler' \in [Handler -> HandlerState] /\ HandlersFit'
        /\ \A g \in Handler : HandlerCursor(handler[g])'
    BY <1>3, <2>1, HandlersStay DEF syncVars
  <2>4. SyncShape' /\ UidsAscend'
    BY <1>3, <2>3 DEF syncVars, SyncIInv, SyncShape, UidsAscend
  <2>5. QED
    BY <2>2, <2>3, <2>4 DEF SyncIInv, NothingBehindCursor
<1>4. QED
  BY <1>2, <1>3

\* Mailboxes, messages and handlers stay as SyncIInv says, with every fault.
THEOREM SyncInvariance == SyncSpec => []SyncIInv
  BY SyncInitInv, SyncStepInv, PTL DEF SyncSpec

\* No message is lost behind a cursor: whatever is in the INBOX up to the stored
\* lastUid, or up to the one a sync carries, has an inbound row, whichever of several
\* overlapping, failing or crashing syncs of a mailbox writes last.
THEOREM SyncNothingBehindCursor == SyncSpec => []NothingBehindCursor
<1>1. SyncIInv => NothingBehindCursor
  BY DEF SyncIInv
<1>2. QED
  BY <1>1, SyncInvariance, PTL

-----------------------------------------------------------------------------
(***************************************************************************)
(* What a step may not do.                                                 *)
(***************************************************************************)

LEMMA StepFiles ==
  ASSUME SyncIInv, [SyncNext]_syncVars, NEW m \in Mailbox, NEW u \in Uid,
         mail[m][u] # "none", mail'[m][u] # mail[m][u]
  PROVE  UNCHANGED handler
<1>1. ASSUME NEW h \in Handler, ImportNext(h)
      PROVE  FALSE
  <2>1. handler[h].mailbox \in Mailbox
    BY <1>1, HandlerTyped DEF ImportNext, At, HandlerFits, AtMailbox
  <2>2. PICK n \in Mailbox, v \in Uid, status \in {"unread", "read"} :
          mail' = [mail EXCEPT ![n][v] = Imported(mail[n][v], status)]
    BY <1>1, <2>1, HandlerTyped DEF ImportNext, HandlerState
  <2>3. n = m /\ v = u
    BY <2>2 DEF SyncIInv, SyncShape
  <2>4. QED
    BY <2>2, <2>3 DEF Imported, SyncIInv, SyncShape
<1>2. CASE SyncNext
  BY <1>1, <1>2 DEF SyncNext, HandlerStep, BeginCreate, BeginDisable, BeginSync, WorkerTick,
     StartMailbox, Fetch, CloseImap, FinishSync, FailSync, FinishCreate, FinishDisable,
     EnableMailbox, DeleteDomain, UpdateInboundEmail, Deliver, Expunge, Crash
<1>3. CASE UNCHANGED syncVars
  BY <1>3 DEF syncVars
<1>4. QED
  BY <1>2, <1>3

\* A message that a user has read, archived or deleted is not put back by a sync,
\* overlapping, repeated or late.
THEOREM SyncUserFilingSticks == SyncSpec => UserFilingSticks
<1>1. SyncIInv /\ [SyncNext]_syncVars
        => (\A m \in Mailbox, u \in Uid :
              mail[m][u] # "none" /\ mail'[m][u] # mail[m][u] => UNCHANGED handler)
  BY StepFiles
<1>2. QED
  BY <1>1, SyncInvariance, PTL DEF SyncSpec, UserFilingSticks

\* A handler that starts a sync was at its mailbox before, or asked whether it may.
LEMMA StepStarts ==
  ASSUME SyncIInv, NEW h \in Handler, HandlerStep(h), NEW m \in Mailbox,
         ~Syncing(handler[h], m), Disabled(m)
  PROVE  ~Syncing(handler'[h], m)
<1>1. handler[h] \in HandlerState
  BY HandlerTyped
<1>2. CASE StartMailbox(h)
  <2>1. PICK queue \in Seq(Mailbox) : queue = handler[h].queue
    BY <1>1 DEF HandlerState
  <2>2. CASE queue # <<>> /\ MaySync(Head(queue))
    <3>1. PICK n \in Mailbox : n = Head(queue)
      BY <2>2
    <3>2. MaySync(n)
      BY <2>2, <3>1
    <3>3. n # m
      BY <3>2 DEF MaySync, Disabled
    <3>4. handler'[h] = [IdleHandler EXCEPT !.pc = "fetch", !.queue = Tail(queue), !.mailbox = n,
                                            !.lastUid = mailbox[n].lastUid]
      BY <1>2, <2>1, <2>2, <3>1 DEF StartMailbox, SyncIInv, SyncShape
    <3>5. handler'[h].mailbox = n
      BY <3>4, IdleFits DEF HandlerState
    <3>6. QED
      BY <3>3, <3>5 DEF Syncing
  <2>3. CASE queue = <<>> \/ ~MaySync(Head(queue))
    <3>1. handler'[h] \in {IdleHandler, [IdleHandler EXCEPT !.pc = "next", !.queue = Tail(queue)]}
      BY <1>2, <2>1, <2>3 DEF StartMailbox, Refused, SyncIInv, SyncShape
    <3>2. handler'[h].pc \in {"idle", "next"}
      BY <3>1, IdleFits DEF HandlerState
    <3>3. QED
      BY <3>2 DEF Syncing
  <2>4. QED
    BY <2>2, <2>3
<1>3. CASE Fetch(h) \/ ImportNext(h) \/ CloseImap(h)
  <2>1. handler'[h].mailbox = handler[h].mailbox /\ handler[h].pc \in {"fetch", "import"}
    <3>1. CASE Fetch(h)
      BY <1>1, <3>1 DEF Fetch, At, SyncIInv, SyncShape, HandlerState
    <3>2. CASE ImportNext(h)
      <4>1. handler[h].pc = "import"
        BY <3>2 DEF ImportNext, At
      <4>2. PICK s : /\ s.mailbox = handler[h].mailbox
                     /\ handler' = [handler EXCEPT ![h] = s]
        <5>1. PICK u : \/ handler' = [handler EXCEPT ![h].todo = @ \ {u}]
                       \/ handler' = [handler EXCEPT ![h].todo = @ \ {u}, ![h].lastUid = u]
                       \/ handler' = [handler EXCEPT ![h].pc = "fail"]
          BY <3>2 DEF ImportNext
        <5>2. QED
          BY <1>1, <5>1 DEF SyncIInv, SyncShape, HandlerState
      <4>3. QED
        BY <4>1, <4>2 DEF SyncIInv, SyncShape
    <3>3. CASE CloseImap(h)
      BY <1>1, <3>3 DEF CloseImap, At, SyncIInv, SyncShape, HandlerState
    <3>4. QED
      BY <1>3, <3>1, <3>2, <3>3
  <2>2. QED
    BY <2>1 DEF Syncing
<1>4. CASE FinishSync(h) \/ FailSync(h)
  <2>1. CASE handler' = MailboxDone(h)
    <3>1. handler'[h].pc = "next"
      BY <2>1, DoneFits DEF SyncIInv, SyncShape
    <3>2. QED
      BY <3>1 DEF Syncing
  <2>2. CASE handler' = [handler EXCEPT ![h].pc = "fail"] /\ FinishSync(h)
    <3>1. handler'[h].mailbox = handler[h].mailbox /\ handler[h].pc = "finish"
      BY <1>1, <2>2 DEF FinishSync, At, SyncIInv, SyncShape, HandlerState
    <3>2. QED
      BY <3>1 DEF Syncing
  <2>3. QED
    BY <1>4, <2>1, <2>2 DEF FinishSync, FailSync
<1>5. CASE FinishCreate(h) \/ FinishDisable(h)
  <2>1. handler'[h] = IdleHandler
    BY <1>5 DEF FinishCreate, FinishDisable, SyncIInv, SyncShape
  <2>2. QED
    BY <2>1, IdleFits DEF Syncing
<1>6. QED
  BY <1>2, <1>3, <1>4, <1>5 DEF HandlerStep

LEMMA OneStepAtATime ==
  ASSUME SyncIInv, NEW h \in Handler, HandlerStep(h), NEW g \in Handler, g # h
  PROVE  handler'[g] = handler[g]
BY DEF HandlerStep, StartMailbox, Fetch, ImportNext, CloseImap, FinishSync, FailSync,
   FinishCreate, FinishDisable, MailboxDone, SyncIInv, SyncShape

\* A request or a worker run that begins is not syncing yet.
LEMMA BeginStarts ==
  ASSUME SyncIInv, NEW m \in Mailbox, NEW g \in Handler, ~Syncing(handler[g], m),
         \/ \E h \in Request, n \in Mailbox :
              BeginCreate(h, n) \/ BeginDisable(h, n) \/ BeginSync(h, n)
         \/ \E h \in Run : WorkerTick(h)
  PROVE  ~Syncing(handler'[g], m)
<1>1. PICK h \in Handler, s \in HandlerState :
        /\ s.pc \in {"create", "disable", "next"}
        /\ handler' = [handler EXCEPT ![h] = s]
  BY BeginMoves, TickMoves DEF Handler
<1>2. handler'[g] = IF g = h THEN s ELSE handler[g]
  BY <1>1 DEF SyncIInv, SyncShape
<1>3. QED
  BY <1>1, <1>2 DEF Syncing

\* Once a mailbox is disabled and the syncs under way have ended, none starts before
\* it is enabled, however old the worker's batch is.
THEOREM SyncDisabledStaysQuiet == SyncSpec => DisabledStaysQuiet
<1>1. ASSUME SyncIInv, [SyncNext]_syncVars, NEW m \in Mailbox,
             Disabled(m), \A h \in Handler : ~Syncing(handler[h], m), NEW g \in Handler
      PROVE  ~Syncing(handler'[g], m)
  <2>1. ASSUME NEW h \in Handler, HandlerStep(h)
        PROVE  ~Syncing(handler'[g], m)
    <3>1. CASE g = h
      BY <1>1, <2>1, <3>1, StepStarts
    <3>2. CASE g # h
      BY <1>1, <2>1, <3>2, OneStepAtATime DEF Syncing
    <3>3. QED
      BY <3>1, <3>2
  <2>2. CASE UNCHANGED handler
    BY <1>1, <2>2 DEF Syncing
  <2>3. CASE Crash
    <3>1. handler'[g] = IdleHandler
      BY <2>3 DEF Crash
    <3>2. QED
      BY <3>1, IdleFits DEF Syncing
  <2>4. CASE \/ \E h \in Request, n \in Mailbox :
                  BeginCreate(h, n) \/ BeginDisable(h, n) \/ BeginSync(h, n)
             \/ \E h \in Run : WorkerTick(h)
    BY <1>1, <2>4, BeginStarts
  <2>5. CASE \/ \E n \in Mailbox : EnableMailbox(n)
             \/ \E d \in Domain : DeleteDomain(d)
             \/ \E n \in Mailbox, u \in Uid, status \in Filing : UpdateInboundEmail(n, u, status)
             \/ \E n \in Mailbox, u \in Uid : Deliver(n, u) \/ Expunge(n, u)
             \/ UNCHANGED syncVars
    BY <2>2, <2>5 DEF EnableMailbox, DeleteDomain, UpdateInboundEmail, Deliver, Expunge, syncVars
  <2>6. QED
    BY <1>1, <2>1, <2>3, <2>4, <2>5 DEF SyncNext
<1>2. SyncIInv /\ [SyncNext]_syncVars
        => (\A m \in Mailbox :
              /\ Disabled(m) /\ Disabled(m)'
              /\ \A h \in Handler : ~Syncing(handler[h], m)
              => \A h \in Handler : ~Syncing(handler'[h], m))
  BY <1>1
<1>3. QED
  BY <1>2, SyncInvariance, PTL DEF SyncSpec, DisabledStaysQuiet


-----------------------------------------------------------------------------
(***************************************************************************)
(* The refinement of MailArchive.                                          *)
(***************************************************************************)

\* A mailbox that is being created is unused, and of nobody else's concern.
CreatorsAlone ==
  \A h \in Handler : handler[h].pc = "create" =>
    /\ mailbox[handler[h].mailbox].state = "unused"
    /\ \A g \in Handler \ {h} : handler[g].mailbox # handler[h].mailbox

\* A handler goes on with the mailbox it has, with none or with a live one.
Turned(h, s) ==
  /\ handler' = [handler EXCEPT ![h] = s]
  /\ s.pc # "create"
  /\ s.mailbox \in {NoMailbox, handler[h].mailbox} \/ (s.mailbox \in Mailbox /\ Live(s.mailbox))

Reading == {"fetch", "import", "finish"}

LEMMA StartTurns ==
  ASSUME SyncIInv, NEW h \in Handler, StartMailbox(h)
  PROVE  \E s : /\ Turned(h, s)
                /\ \/ s.pc \notin Reading
                   \/ /\ s.pc = "fetch" /\ s.mailbox \in Mailbox /\ Live(s.mailbox)
                      /\ s.lastUid = mailbox[s.mailbox].lastUid
<1>1. PICK queue \in Seq(Mailbox) : queue = handler[h].queue
  BY HandlerTyped DEF HandlerState
<1>2. CASE queue = <<>>
  <2>1. handler' = [handler EXCEPT ![h] = IdleHandler]
    BY <1>1, <1>2 DEF StartMailbox
  <2> QED BY <2>1, IdleFits DEF Turned, Reading
<1>3. CASE queue # <<>>
  <2>1. PICK m \in Mailbox, rest \in Seq(Mailbox) : m = Head(queue) /\ rest = Tail(queue)
    <3>1. Head(queue) \in Mailbox /\ Tail(queue) \in Seq(Mailbox)
      BY <1>3
    <3> QED BY <3>1
  <2>2. CASE MaySync(m)
    <3>1. PICK s : s = [IdleHandler EXCEPT !.pc = "fetch", !.queue = rest, !.mailbox = m,
                                           !.lastUid = mailbox[m].lastUid]
      OBVIOUS
    <3>2. handler' = [handler EXCEPT ![h] = s]
      BY <1>1, <1>3, <2>1, <2>2, <3>1 DEF StartMailbox
    <3>3. s.pc = "fetch" /\ s.mailbox = m /\ s.lastUid = mailbox[m].lastUid
      BY <3>1, IdleFits DEF HandlerState
    <3>4. Live(m)
      BY <2>2 DEF MaySync
    <3> QED BY <3>2, <3>3, <3>4 DEF Turned
  <2>3. CASE ~MaySync(m)
    <3>1. PICK s : s = [IdleHandler EXCEPT !.pc = "next", !.queue = rest]
      OBVIOUS
    <3>2. handler' = [handler EXCEPT ![h] = s]
      BY <1>1, <1>3, <2>1, <2>3, <3>1 DEF StartMailbox, Refused
    <3>3. s.pc = "next" /\ s.mailbox = NoMailbox
      BY <3>1, IdleFits DEF HandlerState
    <3> QED BY <3>2, <3>3 DEF Turned, Reading
  <2> QED BY <2>2, <2>3
<1> QED BY <1>2, <1>3

LEMMA FetchTurns ==
  ASSUME SyncIInv, NEW h \in Handler, Fetch(h) \/ CloseImap(h)
  PROVE  \E s : /\ Turned(h, s)
                /\ s.pc \in {"import", "finish", "fail"}
                /\ s.mailbox = handler[h].mailbox /\ s.lastUid = handler[h].lastUid
<1>1. handler[h] \in HandlerState
  BY HandlerTyped
<1>2. CASE handler' = [handler EXCEPT ![h].pc = "import",
                                      ![h].todo = Listed(handler[h].mailbox, handler[h].lastUid)]
  <2>1. PICK s : s = [handler[h] EXCEPT !.pc = "import",
                                        !.todo = Listed(handler[h].mailbox, handler[h].lastUid)]
    OBVIOUS
  <2>2. /\ s.pc = "import" /\ s.mailbox = handler[h].mailbox /\ s.lastUid = handler[h].lastUid
        /\ handler' = [handler EXCEPT ![h] = s]
    BY <1>1, <1>2, <2>1 DEF HandlerState
  <2> QED BY <2>2 DEF Turned
<1>3. ASSUME NEW pc \in {"finish", "fail"}, handler' = [handler EXCEPT ![h].pc = pc]
      PROVE  \E s : /\ Turned(h, s)
                    /\ s.pc \in {"import", "finish", "fail"}
                    /\ s.mailbox = handler[h].mailbox /\ s.lastUid = handler[h].lastUid
  <2>1. PICK s : s = [handler[h] EXCEPT !.pc = pc]
    OBVIOUS
  <2>2. /\ s.pc = pc /\ s.mailbox = handler[h].mailbox /\ s.lastUid = handler[h].lastUid
        /\ handler' = [handler EXCEPT ![h] = s]
    BY <1>1, <1>3, <2>1 DEF HandlerState
  <2> QED BY <2>2 DEF Turned
<1> QED BY <1>2, <1>3 DEF Fetch, CloseImap

\* The import of a message has all before it imported.
Imports(h, s, u) ==
  /\ s.pc = "import" /\ s.lastUid = u
  /\ u > handler[h].lastUid /\ Live(s.mailbox)
  /\ inbox[s.mailbox][u] # "none"
  /\ \A v \in Uid : v < u /\ inbox[s.mailbox][v] = "mail" => mail[s.mailbox][v] # "none"
  /\ \E status \in {"unread", "read"} :
       mail' = [mail EXCEPT ![s.mailbox][u] = Imported(@, status)]

LEMMA ImportTurns ==
  ASSUME SyncIInv, NEW h \in Handler, ImportNext(h)
  PROVE  \E s : /\ Turned(h, s)
                /\ s.mailbox = handler[h].mailbox /\ s.mailbox \in Mailbox
                /\ \/ /\ s.pc \in {"fail", "import"} /\ s.lastUid = handler[h].lastUid
                      /\ UNCHANGED mail
                   \/ \E u \in Uid : Imports(h, s, u)
<1>1. PICK m \in Mailbox : m = handler[h].mailbox
  BY HandlerTyped DEF ImportNext, At, HandlerFits, AtMailbox
<1>2. handler[h] \in HandlerState /\ handler[h].todo \in SUBSET Uid /\ handler[h].pc = "import"
  BY HandlerTyped DEF HandlerState, ImportNext, At
<1>3. PICK u \in Uid :
        /\ u \in handler[h].todo /\ \A v \in handler[h].todo : u <= v
        /\ \/ /\ handler' = [handler EXCEPT ![h].todo = @ \ {u}]
              /\ UNCHANGED mail
           \/ /\ u > handler[h].lastUid /\ Live(m)
              /\ \E status \in {"unread", "read"} :
                   mail' = [mail EXCEPT ![m][u] = Imported(@, status)]
              /\ handler' = [handler EXCEPT ![h].todo = @ \ {u}, ![h].lastUid = u]
           \/ /\ handler' = [handler EXCEPT ![h].pc = "fail"]
              /\ UNCHANGED mail
  BY <1>1, <1>2 DEF ImportNext
<1>4. CASE /\ handler' = [handler EXCEPT ![h].todo = @ \ {u}]
           /\ UNCHANGED mail
  <2>1. PICK s : s = [handler[h] EXCEPT !.todo = @ \ {u}]
    OBVIOUS
  <2>2. /\ s.pc = "import" /\ s.mailbox = m /\ s.lastUid = handler[h].lastUid
        /\ handler' = [handler EXCEPT ![h] = s]
    BY <1>1, <1>2, <1>4, <2>1 DEF HandlerState
  <2> QED BY <1>1, <1>4, <2>2 DEF Turned
<1>5. CASE /\ handler' = [handler EXCEPT ![h].pc = "fail"]
           /\ UNCHANGED mail
  <2>1. PICK s : s = [handler[h] EXCEPT !.pc = "fail"]
    OBVIOUS
  <2>2. /\ s.pc = "fail" /\ s.mailbox = m /\ s.lastUid = handler[h].lastUid
        /\ handler' = [handler EXCEPT ![h] = s]
    BY <1>1, <1>2, <1>5, <2>1 DEF HandlerState
  <2> QED BY <1>1, <1>5, <2>2 DEF Turned
<1>6. CASE /\ u > handler[h].lastUid /\ Live(m)
           /\ \E status \in {"unread", "read"} :
                mail' = [mail EXCEPT ![m][u] = Imported(@, status)]
           /\ handler' = [handler EXCEPT ![h].todo = @ \ {u}, ![h].lastUid = u]
  <2>1. PICK s : s = [handler[h] EXCEPT !.todo = @ \ {u}, !.lastUid = u]
    OBVIOUS
  <2>2. /\ s.pc = "import" /\ s.mailbox = m /\ s.lastUid = u
        /\ handler' = [handler EXCEPT ![h] = s]
    <3>1. s.pc = "import" /\ s.mailbox = m /\ s.lastUid = u
      BY <1>1, <1>2, <2>1 DEF HandlerState
    <3>2. handler' = [handler EXCEPT ![h] = s]
      BY <1>6, <2>1
    <3> QED BY <3>1, <3>2
  <2>3. inbox[m][u] # "none"
    BY <1>1, <1>2, <1>3, HandlerTyped DEF HandlerFits
  <2>4. ASSUME NEW v \in Uid, v < u, inbox[m][v] = "mail"
        PROVE  mail[m][v] # "none"
    <3>1. v <= u /\ v \notin handler[h].todo
      BY <1>3, <2>4, UidType
    <3> QED BY <1>1, <1>2, <1>3, <2>4, <3>1, HandlerTyped DEF HandlerCursor
  <2>5. Imports(h, s, u)
    BY <1>6, <2>2, <2>3, <2>4 DEF Imports
  <2>6. Turned(h, s)
    BY <1>1, <2>2 DEF Turned
  <2> QED BY <1>1, <2>2, <2>5, <2>6
<1> QED BY <1>3, <1>4, <1>5, <1>6

LEMMA DoneTurns ==
  ASSUME SyncIInv, NEW h \in Handler, FinishSync(h) \/ FailSync(h)
  PROVE  \E s : Turned(h, s) /\ s.pc \notin Reading
<1>1. handler[h] \in HandlerState
  BY HandlerTyped
<1>2. CASE handler' = MailboxDone(h)
  <2>1. PICK s : s = [IdleHandler EXCEPT !.pc = "next", !.queue = handler[h].queue]
    OBVIOUS
  <2>2. s.pc = "next" /\ s.mailbox = NoMailbox /\ handler' = [handler EXCEPT ![h] = s]
    BY <1>2, <2>1, IdleFits DEF MailboxDone, HandlerState
  <2> QED BY <2>2 DEF Turned, Reading
<1>3. CASE handler' = [handler EXCEPT ![h].pc = "fail"]
  <2>1. PICK s : s = [handler[h] EXCEPT !.pc = "fail"]
    OBVIOUS
  <2>2. /\ s.pc = "fail" /\ s.mailbox = handler[h].mailbox
        /\ handler' = [handler EXCEPT ![h] = s]
    BY <1>1, <1>3, <2>1 DEF HandlerState
  <2> QED BY <2>2 DEF Turned, Reading
<1> QED BY <1>2, <1>3 DEF FinishSync, FailSync

LEMMA RowTurns ==
  ASSUME SyncIInv, NEW h \in Handler, FinishCreate(h) \/ FinishDisable(h)
  PROVE  Turned(h, IdleHandler) /\ IdleHandler.pc \notin Reading
BY IdleFits DEF FinishCreate, FinishDisable, Turned, Reading

\* Requests and worker runs that begin.
LEMMA BeginTurns ==
  ASSUME SyncIInv, NEW h \in Handler,
         \/ \E m \in Mailbox : BeginDisable(h, m) \/ BeginSync(h, m)
         \/ WorkerTick(h)
  PROVE  \E s : Turned(h, s) /\ s.pc \notin Reading
<1>1. CASE \E m \in Mailbox : BeginDisable(h, m)
  <2>1. PICK m \in Mailbox : BeginDisable(h, m)
    BY <1>1
  <2>2. PICK s : s = [IdleHandler EXCEPT !.pc = "disable", !.mailbox = m]
    OBVIOUS
  <2>3. s.pc = "disable" /\ s.mailbox = m /\ Live(m) /\ handler' = [handler EXCEPT ![h] = s]
    BY <2>1, <2>2, IdleFits DEF BeginDisable, HandlerState
  <2> QED BY <2>3 DEF Turned, Reading
<1>2. ASSUME NEW queue,
             handler' = [handler EXCEPT ![h] = [IdleHandler EXCEPT !.pc = "next", !.queue = queue]]
      PROVE  \E s : Turned(h, s) /\ s.pc \notin Reading
  <2>1. PICK s : s = [IdleHandler EXCEPT !.pc = "next", !.queue = queue]
    OBVIOUS
  <2>2. s.pc = "next" /\ s.mailbox = NoMailbox /\ handler' = [handler EXCEPT ![h] = s]
    BY <1>2, <2>1, IdleFits DEF HandlerState
  <2> QED BY <2>2 DEF Turned, Reading
<1> QED BY <1>1, <1>2 DEF BeginSync, WorkerTick

\* What becomes of mailboxes in a step of a handler.
LEMMA StatesStay ==
  ASSUME SyncIInv, NEW h \in Handler, HandlerStep(h), NEW m \in Mailbox, m # handler[h].mailbox
  PROVE  mailbox'[m].state = mailbox[m].state
BY DEF HandlerStep, StartMailbox, Fetch, ImportNext, CloseImap, FinishSync, FailSync,
   FinishCreate, FinishDisable, SyncIInv, SyncShape

LEMMA TurnKeepsCreators ==
  ASSUME SyncIInv, CreatorsAlone, NEW h \in Handler, NEW s, Turned(h, s),
         \A m \in Mailbox : m # handler[h].mailbox /\ mailbox[m].state = "unused"
                              => mailbox'[m].state = "unused"
  PROVE  CreatorsAlone'
<1>1. \A g \in Handler : handler'[g] = IF g = h THEN s ELSE handler[g]
  BY DEF Turned, SyncIInv, SyncShape
<1>2. ASSUME NEW g \in Handler, handler'[g].pc = "create"
      PROVE  /\ mailbox'[handler'[g].mailbox].state = "unused"
             /\ \A k \in Handler \ {g} : handler'[k].mailbox # handler'[g].mailbox
  <2>1. g # h /\ handler'[g] = handler[g]
    BY <1>1, <1>2 DEF Turned
  <2>2. PICK m \in Mailbox : m = handler[g].mailbox /\ m = handler'[g].mailbox
    BY <1>2, <2>1, HandlerTyped DEF HandlerFits, AtMailbox
  <2>3. mailbox[m].state = "unused" /\ \A k \in Handler \ {g} : handler[k].mailbox # m
    BY <1>2, <2>1, <2>2 DEF CreatorsAlone
  <2>4. mailbox'[m].state = "unused"
    BY <2>1, <2>3
  <2>5. s.mailbox # m
    BY <2>1, <2>3 DEF Turned, Live
  <2> QED BY <1>1, <2>2, <2>3, <2>4, <2>5
<1> QED BY <1>2 DEF CreatorsAlone

LEMMA CreatorsStay == SyncIInv /\ CreatorsAlone /\ [SyncNext]_syncVars => CreatorsAlone'
<1> SUFFICES ASSUME SyncIInv, CreatorsAlone, [SyncNext]_syncVars
             PROVE  CreatorsAlone'
  OBVIOUS
<1>1. ASSUME NEW h \in Handler, HandlerStep(h)
      PROVE  CreatorsAlone'
  <2>1. PICK s : Turned(h, s)
    BY <1>1, StartTurns, FetchTurns, ImportTurns, DoneTurns, RowTurns DEF HandlerStep
  <2> QED BY <1>1, <2>1, StatesStay, TurnKeepsCreators
<1>2. ASSUME NEW h \in Handler,
             \/ \E m \in Mailbox : BeginDisable(h, m) \/ BeginSync(h, m)
             \/ WorkerTick(h)
      PROVE  CreatorsAlone'
  <2>1. PICK s : Turned(h, s)
    BY <1>2, BeginTurns
  <2>2. UNCHANGED mailbox
    BY <1>2 DEF BeginDisable, BeginSync, WorkerTick
  <2> QED BY <2>1, <2>2, TurnKeepsCreators
<1>3. ASSUME NEW h \in Handler, NEW m \in Mailbox, BeginCreate(h, m)
      PROVE  CreatorsAlone'
  <2>1. PICK s : s = [IdleHandler EXCEPT !.pc = "create", !.mailbox = m]
    OBVIOUS
  <2>2. /\ s.mailbox = m /\ handler' = [handler EXCEPT ![h] = s] /\ UNCHANGED mailbox
        /\ mailbox[m].state = "unused" /\ \A g \in Handler : handler[g].mailbox # m
    BY <1>3, <2>1, IdleFits DEF BeginCreate, HandlerState
  <2>3. \A g \in Handler : handler'[g] = IF g = h THEN s ELSE handler[g]
    BY <2>2 DEF SyncIInv, SyncShape
  <2> QED BY <2>2, <2>3 DEF CreatorsAlone
<1>4. CASE Crash
  <2>1. \A g \in Handler : handler'[g].pc = "idle"
    BY <1>4, IdleFits DEF Crash
  <2> QED BY <2>1 DEF CreatorsAlone
<1>5. CASE \/ \E m \in Mailbox : EnableMailbox(m)
           \/ \E d \in Domain : DeleteDomain(d)
           \/ \E m \in Mailbox, u \in Uid, status \in Filing : UpdateInboundEmail(m, u, status)
           \/ \E m \in Mailbox, u \in Uid : Deliver(m, u) \/ Expunge(m, u)
           \/ UNCHANGED syncVars
  <2>1. UNCHANGED handler
    BY <1>5 DEF EnableMailbox, DeleteDomain, UpdateInboundEmail, Deliver, Expunge, syncVars
  <2>2. ASSUME NEW m \in Mailbox, mailbox[m].state = "unused"
        PROVE  mailbox'[m].state = "unused"
    <3>1. CASE \E n \in Mailbox : EnableMailbox(n)
      BY <2>2, <3>1 DEF EnableMailbox, Live, SyncIInv, SyncShape
    <3>2. CASE \E d \in Domain : DeleteDomain(d)
      BY <2>2, <3>2 DEF DeleteDomain, Live
    <3>3. CASE UNCHANGED mailbox
      BY <2>2, <3>3
    <3> QED BY <1>5, <3>1, <3>2, <3>3 DEF UpdateInboundEmail, Deliver, Expunge, syncVars
  <2>3. \A h \in Handler : handler[h].pc = "create" => handler[h].mailbox \in Mailbox
    BY HandlerTyped DEF HandlerFits, AtMailbox
  <2> QED BY <2>1, <2>2, <2>3 DEF CreatorsAlone
<1> QED BY <1>1, <1>2, <1>3, <1>4, <1>5 DEF SyncNext, Handler

\* A mailbox that was never created has no cursor.
UnusedAtZero == \A m \in Mailbox : mailbox[m].state = "unused" => mailbox[m].lastUid = 0

LEMMA UnusedStays == SyncIInv /\ UnusedAtZero /\ [SyncNext]_syncVars => UnusedAtZero'
<1> SUFFICES ASSUME SyncIInv, UnusedAtZero, [SyncNext]_syncVars,
                    NEW m \in Mailbox, mailbox'[m].state = "unused"
             PROVE  mailbox'[m].lastUid = 0
  BY DEF UnusedAtZero
<1>1. ASSUME NEW n \in Mailbox, NEW r, mailbox' = [mailbox EXCEPT ![n] = r],
             r.state # "unused"
      PROVE  mailbox'[m] = mailbox[m]
  BY <1>1 DEF SyncIInv, SyncShape
<1>2. ASSUME NEW h \in Handler, HandlerStep(h), ~UNCHANGED mailbox
      PROVE  mailbox'[m] = mailbox[m]
  <2>1. PICK n \in Mailbox : n = handler[h].mailbox
    BY <1>2, HandlerTyped
    DEF HandlerStep, StartMailbox, Fetch, ImportNext, CloseImap, FinishSync, FailSync,
        FinishCreate, FinishDisable, At, HandlerFits, AtMailbox
  <2>2. CASE FinishCreate(h)
    <3>1. mailbox' = [mailbox EXCEPT ![n] = NewMailbox("live")]
      BY <1>2, <2>1, <2>2 DEF FinishCreate
    <3>2. NewMailbox("live").state # "unused"
      BY DEF NewMailbox
    <3> QED BY <1>1, <3>1, <3>2
  <2>3. CASE FinishDisable(h)
    <3>1. PICK r : r = [mailbox[n] EXCEPT !.status = "disabled", !.disabledAt = TRUE]
      OBVIOUS
    <3>2. mailbox' = [mailbox EXCEPT ![n] = r] /\ Live(n)
      BY <1>2, <2>1, <2>3, <3>1 DEF FinishDisable
    <3>3. r.state = "live"
      BY <3>1, <3>2, StoredCursors DEF MailboxRow, Live
    <3> QED BY <1>1, <3>2, <3>3
  <2>4. CASE FinishSync(h)
    <3>1. PICK r : r = [mailbox[n] EXCEPT !.lastUid = handler[h].lastUid, !.status = "active"]
      OBVIOUS
    <3>2. mailbox' = [mailbox EXCEPT ![n] = r] /\ Live(n)
      BY <1>2, <2>1, <2>4, <3>1 DEF FinishSync, SyncIInv, SyncShape
    <3>3. r.state = "live"
      BY <3>1, <3>2, StoredCursors DEF MailboxRow, Live
    <3> QED BY <1>1, <3>2, <3>3
  <2>5. CASE FailSync(h)
    <3>1. PICK r : r = [mailbox[n] EXCEPT !.status = "sync_failed"]
      OBVIOUS
    <3>2. mailbox' = [mailbox EXCEPT ![n] = r] /\ Live(n)
      BY <1>2, <2>1, <2>5, <3>1 DEF FailSync
    <3>3. r.state = "live"
      BY <3>1, <3>2, StoredCursors DEF MailboxRow, Live
    <3> QED BY <1>1, <3>2, <3>3
  <2> QED BY <1>2, <2>2, <2>3, <2>4, <2>5
          DEF HandlerStep, StartMailbox, Fetch, ImportNext, CloseImap
<1>3. ASSUME NEW n \in Mailbox, EnableMailbox(n)
      PROVE  mailbox'[m] = mailbox[m]
  <2>1. PICK r : r = [mailbox[n] EXCEPT !.status = "active", !.disabledAt = FALSE]
    OBVIOUS
  <2>2. mailbox' = [mailbox EXCEPT ![n] = r] /\ Live(n)
    BY <1>3, <2>1 DEF EnableMailbox
  <2>3. r.state = "live"
    BY <2>1, <2>2, StoredCursors DEF MailboxRow, Live
  <2> QED BY <1>1, <2>2, <2>3
<1>4. ASSUME NEW d \in Domain, DeleteDomain(d)
      PROVE  mailbox'[m] = mailbox[m]
  BY <1>4 DEF DeleteDomain, NewMailbox
<1>5. mailbox'[m] = mailbox[m]
  <2>1. CASE SyncNext
    BY <1>2, <1>3, <1>4, <2>1
    DEF SyncNext, BeginCreate, BeginDisable, BeginSync, WorkerTick, UpdateInboundEmail,
        Deliver, Expunge, Crash
  <2> QED BY <2>1 DEF syncVars
<1> QED BY <1>5 DEF UnusedAtZero

\* The variables of the archive, as rows and handlers show them.
States  == [m \in Mailbox |-> mailbox[m].state]
Cursors == [m \in Mailbox |-> mailbox[m].lastUid]
CursorOf(s) ==
  IF s.pc \in Reading THEN [mailbox |-> s.mailbox, upTo |-> s.lastUid]
  ELSE [mailbox |-> NoMailbox, upTo |-> 0]
Syncs   == [h \in Handler |-> CursorOf(handler[h])]

\* What the archive does not see changes.
LEMMA ArchiveStutters ==
  ASSUME States' = States, Cursors' = Cursors, Syncs' = Syncs, UNCHANGED <<inbox, mail>>
  PROVE  UNCHANGED Archive!archiveVars
BY DEF States, Cursors, Syncs, CursorOf, Reading, Archive!archiveVars

\* A handler that moves shows in its cursor alone.
LEMMA TurnShows ==
  ASSUME SyncIInv, NEW h \in Handler, NEW s, handler' = [handler EXCEPT ![h] = s]
  PROVE  Syncs' = [Syncs EXCEPT ![h] = CursorOf(s)]
<1>1. \A g \in Handler : handler'[g] = IF g = h THEN s ELSE handler[g]
  BY DEF SyncIInv, SyncShape
<1>2. Syncs' = [g \in Handler |-> IF g = h THEN CursorOf(s) ELSE CursorOf(handler[g])]
  BY <1>1 DEF Syncs
<1> HIDE DEF CursorOf
<1> QED BY <1>2 DEF Syncs

LEMMA RowsShow ==
  /\ UNCHANGED mailbox => States' = States /\ Cursors' = Cursors
  /\ UNCHANGED handler => Syncs' = Syncs
BY DEF States, Cursors, Syncs

\* A handler that carries no cursor any more ends its sync, if it had one.
LEMMA TurnIsEnd ==
  ASSUME SyncIInv, NEW h \in Handler, NEW s, Turned(h, s), s.pc \notin Reading,
         States' = States, Cursors' = Cursors, UNCHANGED <<inbox, mail>>
  PROVE  [Archive!ArchiveNext]_(Archive!archiveVars)
<1>1. Syncs' = [Syncs EXCEPT ![h] = CursorOf(s)]
  BY TurnShows DEF Turned
<1>2. CursorOf(s) = Archive!NoSync
  BY DEF CursorOf, Archive!NoSync
<1>3. Syncs' = [g \in Handler |-> IF g \in {h} THEN Archive!NoSync ELSE Syncs[g]]
  BY <1>1, <1>2 DEF Syncs
<1>4. Archive!End({h})
  BY <1>3 DEF Archive!End, Syncs, CursorOf, Reading, Cursors
<1>5. UNCHANGED States
  OBVIOUS
<1> QED BY <1>4, <1>5 DEF Archive!ArchiveNext, Archive!SyncsNext, States

\* A handler that keeps its cursor shows in nothing.
LEMMA TurnStutters ==
  ASSUME SyncIInv, NEW h \in Handler, NEW s, Turned(h, s), CursorOf(s) = CursorOf(handler[h]),
         States' = States, Cursors' = Cursors, UNCHANGED <<inbox, mail>>
  PROVE  UNCHANGED Archive!archiveVars
<1>1. Syncs' = [Syncs EXCEPT ![h] = CursorOf(handler[h])]
  BY TurnShows DEF Turned
<1>2. Syncs' = Syncs
  BY <1>1 DEF Syncs
<1> QED BY <1>2, ArchiveStutters

\* A sync starts where the stored cursor stands, on a mailbox that is live.
LEMMA StartIsBegin ==
  ASSUME SyncIInv, NEW h \in Handler, StartMailbox(h)
  PROVE  [Archive!ArchiveNext]_(Archive!archiveVars)
<1>1. PICK s : /\ Turned(h, s)
               /\ \/ s.pc \notin Reading
                  \/ /\ s.pc = "fetch" /\ s.mailbox \in Mailbox /\ Live(s.mailbox)
                     /\ s.lastUid = mailbox[s.mailbox].lastUid
  BY StartTurns
<1>2. UNCHANGED <<mailbox, inbox, mail>> /\ handler[h].pc = "next"
  BY DEF StartMailbox, At
<1>3. States' = States /\ Cursors' = Cursors
  BY <1>2, RowsShow
<1>4. CASE s.pc \notin Reading
  BY <1>1, <1>2, <1>3, <1>4, TurnIsEnd
<1>5. CASE /\ s.pc = "fetch" /\ s.mailbox \in Mailbox /\ Live(s.mailbox)
           /\ s.lastUid = mailbox[s.mailbox].lastUid
  <2>1. PICK m \in Mailbox : m = s.mailbox
    BY <1>5
  <2>2. CursorOf(s) = [mailbox |-> m, upTo |-> Cursors[m]]
    <3>1. CursorOf(s) = [mailbox |-> m, upTo |-> s.lastUid]
      BY <1>5, <2>1 DEF CursorOf, Reading
    <3>2. s.lastUid = Cursors[m]
      BY <1>5, <2>1 DEF Cursors
    <3> QED BY <3>1, <3>2
  <2>3. Syncs' = [Syncs EXCEPT ![h] = [mailbox |-> m, upTo |-> Cursors[m]]]
    <3>1. handler' = [handler EXCEPT ![h] = s]
      BY <1>1 DEF Turned
    <3>2. Syncs' = [Syncs EXCEPT ![h] = CursorOf(s)]
      BY <3>1, TurnShows
    <3> QED BY <3>2, <2>2
  <2>4. Syncs[h] = Archive!NoSync
    BY <1>2 DEF Syncs, CursorOf, Reading, Archive!NoSync
  <2>5. States[m] = "live"
    BY <1>5, <2>1 DEF States, Live
  <2>6. Archive!Begin(h, m)
    BY <1>2, <1>3, <2>3, <2>4, <2>5 DEF Archive!Begin, States, Cursors, Syncs, CursorOf, Reading
  <2> QED BY <1>2, <1>3, <2>6 DEF Archive!ArchiveNext, Archive!SyncsNext, States
<1> QED BY <1>1, <1>4, <1>5

LEMMA FetchStutters ==
  ASSUME SyncIInv, NEW h \in Handler, Fetch(h) \/ CloseImap(h)
  PROVE  [Archive!ArchiveNext]_(Archive!archiveVars)
<1>1. PICK s : /\ Turned(h, s)
               /\ s.pc \in {"import", "finish", "fail"}
               /\ s.mailbox = handler[h].mailbox /\ s.lastUid = handler[h].lastUid
  BY FetchTurns
<1>2. UNCHANGED <<mailbox, inbox, mail>> /\ handler[h].pc \in {"fetch", "import"}
  BY DEF Fetch, CloseImap, At
<1>3. States' = States /\ Cursors' = Cursors
  BY <1>2, RowsShow
<1>4. CASE s.pc = "fail"
  BY <1>1, <1>2, <1>3, <1>4, TurnIsEnd DEF Reading
<1>5. CASE s.pc # "fail"
  <2>1. CursorOf(s) = CursorOf(handler[h])
    BY <1>1, <1>2, <1>5 DEF CursorOf, Reading
  <2> QED BY <1>1, <1>2, <1>3, <2>1, TurnStutters
<1> QED BY <1>4, <1>5

LEMMA ImportIsImport ==
  ASSUME SyncIInv, NEW h \in Handler, ImportNext(h)
  PROVE  [Archive!ArchiveNext]_(Archive!archiveVars)
<1>1. PICK s : /\ Turned(h, s)
               /\ s.mailbox = handler[h].mailbox /\ s.mailbox \in Mailbox
               /\ \/ /\ s.pc \in {"fail", "import"} /\ s.lastUid = handler[h].lastUid
                     /\ UNCHANGED mail
                  \/ \E u \in Uid : Imports(h, s, u)
  BY ImportTurns
<1>2. UNCHANGED <<mailbox, inbox>> /\ handler[h].pc = "import"
  BY DEF ImportNext, At
<1>3. States' = States /\ Cursors' = Cursors
  BY <1>2, RowsShow
<1>4. CASE s.pc = "fail" /\ UNCHANGED mail
  BY <1>1, <1>2, <1>3, <1>4, TurnIsEnd DEF Reading
<1>5. CASE s.pc = "import" /\ s.lastUid = handler[h].lastUid /\ UNCHANGED mail
  <2>1. CursorOf(s) = CursorOf(handler[h])
    BY <1>1, <1>2, <1>5 DEF CursorOf, Reading
  <2> QED BY <1>1, <1>2, <1>3, <1>5, <2>1, TurnStutters
<1>6. ASSUME NEW u \in Uid, Imports(h, s, u)
      PROVE  Archive!ArchiveNext
  <2>1. PICK m \in Mailbox : m = s.mailbox
    BY <1>1
  <2>2. Syncs[h] = [mailbox |-> m, upTo |-> handler[h].lastUid]
    BY <1>1, <1>2, <2>1 DEF Syncs, CursorOf, Reading
  <2>3. CursorOf(s) = [mailbox |-> m, upTo |-> u]
    BY <1>6, <2>1 DEF Imports, CursorOf, Reading
  <2>4. Syncs' = [Syncs EXCEPT ![h] = [mailbox |-> m, upTo |-> u]]
    BY <1>1, <2>3, TurnShows DEF Turned
  <2>5. Syncs' = [Syncs EXCEPT ![h].upTo = u]
    <3>1. [Syncs[h] EXCEPT !.upTo = u] = [mailbox |-> m, upTo |-> u]
      BY <2>2
    <3> QED BY <2>4, <3>1
  <2>6. Syncs[h].mailbox = m /\ u > Syncs[h].upTo /\ States[m] = "live"
    BY <1>6, <2>1, <2>2 DEF Imports, States, Live
  <2>7. inbox[m][u] # "none" /\ Archive!CompleteBefore(m, u)
    BY <1>6, <2>1 DEF Imports, Archive!CompleteBefore
  <2>8. \/ /\ mail[m][u] = "none"
           /\ \E status \in {"unread", "read"} : mail' = [mail EXCEPT ![m][u] = status]
        \/ mail[m][u] # "none" /\ UNCHANGED mail
    <3>1. PICK status \in {"unread", "read"} :
            mail' = [mail EXCEPT ![m][u] = Imported(@, status)]
      BY <1>6, <2>1 DEF Imports
    <3>2. CASE mail[m][u] = "none"
      BY <3>1, <3>2 DEF Imported
    <3>3. CASE mail[m][u] # "none"
      <4>1. mail' = [mail EXCEPT ![m][u] = mail[m][u]]
        BY <3>1, <3>3 DEF Imported
      <4>2. mail' = mail
        BY <4>1 DEF SyncIInv, SyncShape
      <4> QED BY <3>3, <4>2
    <3> QED BY <3>2, <3>3
  <2>9. Archive!Import(h, m, u)
    BY <1>3, <2>5, <2>6, <2>7, <2>8
    DEF Archive!Import, States, Cursors, Syncs, CursorOf, Reading
  <2> QED BY <1>2, <1>3, <2>9 DEF Archive!ArchiveNext, Archive!SyncsNext, States
<1> QED BY <1>1, <1>4, <1>5, <1>6

\* The rows that change keep their state and their cursor.
LEMMA RewriteShowsNot ==
  ASSUME SyncIInv, NEW m \in Mailbox, NEW r, mailbox' = [mailbox EXCEPT ![m] = r],
         r.state = mailbox[m].state, r.lastUid = mailbox[m].lastUid
  PROVE  States' = States /\ Cursors' = Cursors
<1>1. \A n \in Mailbox : mailbox'[n].state = mailbox[n].state
                         /\ mailbox'[n].lastUid = mailbox[n].lastUid
  BY DEF SyncIInv, SyncShape
<1> QED BY <1>1 DEF States, Cursors

LEMMA RowKept ==
  ASSUME NEW r \in MailboxRow
  PROVE  LET failed == [r EXCEPT !.status = "sync_failed"]
             off == [r EXCEPT !.status = "disabled", !.disabledAt = TRUE]
             on == [r EXCEPT !.status = "active", !.disabledAt = FALSE]
         IN  \A k \in {failed, off, on} : k.state = r.state /\ k.lastUid = r.lastUid
BY DEF MailboxRow

LEMMA FailSyncIsEnd ==
  ASSUME SyncIInv, NEW h \in Handler, FailSync(h)
  PROVE  [Archive!ArchiveNext]_(Archive!archiveVars)
<1>1. PICK s : Turned(h, s) /\ s.pc \notin Reading
  BY DoneTurns
<1>2. UNCHANGED <<inbox, mail>>
  BY DEF FailSync
<1>3. PICK m \in Mailbox : m = handler[h].mailbox
  BY HandlerTyped DEF FailSync, At, HandlerFits, AtMailbox
<1>4. CASE mailbox' = [mailbox EXCEPT ![m].status = "sync_failed"]
  <2>1. PICK r : r = [mailbox[m] EXCEPT !.status = "sync_failed"]
    OBVIOUS
  <2>2. r.state = mailbox[m].state /\ r.lastUid = mailbox[m].lastUid
    BY <2>1, RowKept, StoredCursors
  <2>3. States' = States /\ Cursors' = Cursors
    BY <1>4, <2>1, <2>2, RewriteShowsNot
  <2> QED BY <1>1, <1>2, <2>3, TurnIsEnd
<1>5. CASE UNCHANGED mailbox
  BY <1>1, <1>2, <1>5, RowsShow, TurnIsEnd
<1> QED BY <1>3, <1>4, <1>5 DEF FailSync

LEMMA FinishSyncIsReport ==
  ASSUME SyncIInv, NEW h \in Handler, FinishSync(h)
  PROVE  [Archive!ArchiveNext]_(Archive!archiveVars)
<1>1. PICK s : Turned(h, s) /\ s.pc \notin Reading
  BY DoneTurns
<1>2. UNCHANGED <<inbox, mail>> /\ handler[h].pc = "finish"
  BY DEF FinishSync, At
<1>3. PICK m \in Mailbox : m = handler[h].mailbox
  BY HandlerTyped DEF FinishSync, At, HandlerFits, AtMailbox
<1>4. CASE UNCHANGED mailbox
  BY <1>1, <1>2, <1>4, RowsShow, TurnIsEnd
<1>5. CASE /\ Live(m)
           /\ mailbox' = [mailbox EXCEPT ![m].lastUid = handler[h].lastUid,
                                         ![m].status = "active"]
  <2>1. PICK r : r = [mailbox[m] EXCEPT !.lastUid = handler[h].lastUid, !.status = "active"]
    OBVIOUS
  <2>2. r.state = mailbox[m].state /\ r.lastUid = handler[h].lastUid
    BY <2>1, StoredCursors DEF MailboxRow
  <2>3. mailbox' = [mailbox EXCEPT ![m] = r]
    BY <1>5, <2>1 DEF SyncIInv, SyncShape
  <2>4. \A n \in Mailbox : mailbox'[n] = IF n = m THEN r ELSE mailbox[n]
    BY <2>3 DEF SyncIInv, SyncShape
  <2>5. States' = States
    BY <2>2, <2>4 DEF States
  <2>6. Syncs[h] = [mailbox |-> m, upTo |-> handler[h].lastUid]
    BY <1>2, <1>3 DEF Syncs, CursorOf, Reading
  <2>7. Cursors' = [Cursors EXCEPT ![m] = Syncs[h].upTo]
    <3>1. Cursors' = [n \in Mailbox |-> IF n = m THEN handler[h].lastUid ELSE mailbox[n].lastUid]
      BY <2>2, <2>4 DEF Cursors
    <3>2. Syncs[h].upTo = handler[h].lastUid
      BY <2>6
    <3> QED BY <3>1, <3>2 DEF Cursors
  <2>8. Syncs' = [Syncs EXCEPT ![h] = Archive!NoSync]
    <3>1. CursorOf(s) = Archive!NoSync
      BY <1>1 DEF CursorOf, Archive!NoSync
    <3> QED BY <1>1, <3>1, TurnShows DEF Turned
  <2>9. Syncs[h].mailbox = m /\ States[m] = "live"
    BY <1>5, <2>6 DEF States, Live
  <2>10. Archive!Report(h, m)
    BY <1>2, <2>7, <2>8, <2>9 DEF Archive!Report, States, Cursors, Syncs, CursorOf, Reading
  <2> QED BY <1>2, <2>5, <2>10 DEF Archive!ArchiveNext, Archive!SyncsNext, States
<1> QED BY <1>3, <1>4, <1>5 DEF FinishSync

LEMMA RowTurnIsOpen ==
  ASSUME SyncIInv, CreatorsAlone, UnusedAtZero, NEW h \in Handler, FinishCreate(h) \/ FinishDisable(h)
  PROVE  [Archive!ArchiveNext]_(Archive!archiveVars)
<1>1. Turned(h, IdleHandler) /\ IdleHandler.pc \notin Reading
  BY RowTurns
<1>2. UNCHANGED <<inbox, mail>> /\ handler[h].pc \in {"create", "disable"}
  BY DEF FinishCreate, FinishDisable, At
<1>3. PICK m \in Mailbox : m = handler[h].mailbox
  BY HandlerTyped DEF FinishCreate, FinishDisable, At, HandlerFits, AtMailbox
<1>4. CASE UNCHANGED mailbox
  BY <1>1, <1>2, <1>4, RowsShow, TurnIsEnd
<1>5. CASE mailbox' = [mailbox EXCEPT ![m].status = "disabled", ![m].disabledAt = TRUE]
  <2>1. PICK r : r = [mailbox[m] EXCEPT !.status = "disabled", !.disabledAt = TRUE]
    OBVIOUS
  <2>2. r.state = mailbox[m].state /\ r.lastUid = mailbox[m].lastUid
    BY <2>1, RowKept, StoredCursors
  <2>3. mailbox' = [mailbox EXCEPT ![m] = r]
    BY <1>5, <2>1
  <2>4. States' = States /\ Cursors' = Cursors
    BY <2>2, <2>3, RewriteShowsNot
  <2> QED BY <1>1, <1>2, <2>4, TurnIsEnd
<1>6. CASE FinishCreate(h) /\ mailbox' = [mailbox EXCEPT ![m] = NewMailbox("live")]
  <2>1. mailbox[m].state = "unused" /\ mailbox[m].lastUid = 0
    BY <1>3, <1>6 DEF FinishCreate, At, CreatorsAlone, UnusedAtZero
  <2>2. NewMailbox("live").state = "live" /\ NewMailbox("live").lastUid = 0
    BY DEF NewMailbox
  <2>3. \A n \in Mailbox :
          /\ mailbox'[n].state = IF n = m THEN "live" ELSE mailbox[n].state
          /\ mailbox'[n].lastUid = mailbox[n].lastUid
    BY <1>6, <2>1, <2>2 DEF SyncIInv, SyncShape
  <2>4. States' = [States EXCEPT ![m] = "live"] /\ Cursors' = Cursors
    BY <2>3 DEF States, Cursors
  <2>5. CursorOf(IdleHandler) = CursorOf(handler[h])
    BY <1>1, <1>2 DEF CursorOf, Reading
  <2>6. Syncs' = Syncs
    <3>1. Syncs' = [Syncs EXCEPT ![h] = CursorOf(handler[h])]
      BY <1>1, <2>5, TurnShows DEF Turned
    <3> QED BY <3>1 DEF Syncs
  <2>7. States[m] = "unused"
    BY <2>1 DEF States
  <2>8. Archive!Open(m)
    BY <1>2, <2>4, <2>7 DEF Archive!Open, States, Cursors
  <2> QED BY <2>6, <2>8 DEF Archive!ArchiveNext, Archive!MailboxNext, Syncs, CursorOf, Reading
<1> QED BY <1>3, <1>4, <1>5, <1>6 DEF FinishCreate, FinishDisable

LEMMA BeginStutters ==
  ASSUME SyncIInv, NEW h \in Handler,
         \/ \E m \in Mailbox : BeginCreate(h, m) \/ BeginDisable(h, m) \/ BeginSync(h, m)
         \/ WorkerTick(h)
  PROVE  [Archive!ArchiveNext]_(Archive!archiveVars)
<1>1. UNCHANGED <<mailbox, inbox, mail>> /\ handler[h].pc = "idle"
  BY DEF BeginCreate, BeginDisable, BeginSync, WorkerTick, At
<1>2. States' = States /\ Cursors' = Cursors
  BY <1>1, RowsShow
<1>3. ASSUME NEW m \in Mailbox, BeginCreate(h, m)
      PROVE  UNCHANGED Archive!archiveVars
  <2>1. PICK s : s = [IdleHandler EXCEPT !.pc = "create", !.mailbox = m]
    OBVIOUS
  <2>2. s.pc = "create" /\ handler' = [handler EXCEPT ![h] = s]
    BY <1>3, <2>1, IdleFits DEF BeginCreate, HandlerState
  <2>3. CursorOf(s) = CursorOf(handler[h])
    BY <1>1, <2>2 DEF CursorOf, Reading
  <2>4. Syncs' = Syncs
    <3>1. Syncs' = [Syncs EXCEPT ![h] = CursorOf(handler[h])]
      BY <2>2, <2>3, TurnShows
    <3> QED BY <3>1 DEF Syncs
  <2> QED BY <1>1, <1>2, <2>4, ArchiveStutters
<1>4. CASE \/ \E m \in Mailbox : BeginDisable(h, m) \/ BeginSync(h, m)
           \/ WorkerTick(h)
  <2>1. PICK s : Turned(h, s) /\ s.pc \notin Reading
    BY <1>4, BeginTurns
  <2> QED BY <1>1, <1>2, <2>1, TurnIsEnd
<1> QED BY <1>3, <1>4

\* Mailboxes are enabled, and deleted with their domain.
LEMMA OwnerIsClose ==
  ASSUME SyncIInv, \/ \E m \in Mailbox : EnableMailbox(m)
                   \/ \E d \in Domain : DeleteDomain(d)
  PROVE  [Archive!ArchiveNext]_(Archive!archiveVars)
<1>1. UNCHANGED <<inbox, mail, handler>>
  BY DEF EnableMailbox, DeleteDomain
<1>2. Syncs' = Syncs
  BY <1>1, RowsShow
<1>3. ASSUME NEW m \in Mailbox, EnableMailbox(m)
      PROVE  UNCHANGED Archive!archiveVars
  <2>1. PICK r : r = [mailbox[m] EXCEPT !.status = "active", !.disabledAt = FALSE]
    OBVIOUS
  <2>2. r.state = mailbox[m].state /\ r.lastUid = mailbox[m].lastUid
    BY <2>1, RowKept, StoredCursors
  <2>3. mailbox' = [mailbox EXCEPT ![m] = r]
    BY <1>3, <2>1 DEF EnableMailbox
  <2>4. States' = States /\ Cursors' = Cursors
    BY <2>2, <2>3, RewriteShowsNot
  <2> QED BY <1>1, <1>2, <2>4, ArchiveStutters
<1>4. ASSUME NEW d \in Domain, DeleteDomain(d)
      PROVE  Archive!ArchiveNext
  <2>1. PICK M \in SUBSET Mailbox : M = {m \in Mailbox : DomainOf[m] = d /\ Live(m)}
    OBVIOUS
  <2>2. mailbox' = [m \in Mailbox |-> IF m \in M THEN NewMailbox("deleted") ELSE mailbox[m]]
    BY <1>4, <2>1 DEF DeleteDomain
  <2>3. NewMailbox("deleted").state = "deleted" /\ NewMailbox("deleted").lastUid = 0
    BY DEF NewMailbox
  <2>4. /\ States' = [m \in Mailbox |-> IF m \in M THEN "deleted" ELSE States[m]]
        /\ Cursors' = [m \in Mailbox |-> IF m \in M THEN 0 ELSE Cursors[m]]
    BY <2>2, <2>3 DEF States, Cursors
  <2>5. \A m \in M : States[m] = "live"
    BY <2>1 DEF States, Live
  <2>6. Archive!Close(M)
    BY <1>1, <2>4, <2>5 DEF Archive!Close, States, Cursors
  <2> QED BY <1>2, <2>6 DEF Archive!ArchiveNext, Archive!MailboxNext, Syncs, CursorOf, Reading
<1> QED BY <1>3, <1>4

LEMMA MessageIsMessage ==
  ASSUME SyncIInv,
         \/ \E m \in Mailbox, u \in Uid, status \in Filing : UpdateInboundEmail(m, u, status)
         \/ \E m \in Mailbox, u \in Uid : Deliver(m, u) \/ Expunge(m, u)
  PROVE  [Archive!ArchiveNext]_(Archive!archiveVars)
<1>1. UNCHANGED <<mailbox, handler>>
  BY DEF UpdateInboundEmail, Deliver, Expunge
<1>2. States' = States /\ Cursors' = Cursors /\ Syncs' = Syncs
  BY <1>1, RowsShow
<1>3. ASSUME NEW m \in Mailbox, NEW u \in Uid, NEW status \in Filing,
             UpdateInboundEmail(m, u, status)
      PROVE  Archive!ArchiveNext
  <2>1. status \in Archive!Status
    BY DEF MailStatus, Archive!Status
  <2>2. Archive!File(m, u, status)
    BY <1>2, <1>3 DEF UpdateInboundEmail, Archive!File, States, Cursors
  <2> QED BY <1>2, <2>1, <2>2
          DEF Archive!ArchiveNext, Archive!MailboxNext, Syncs, CursorOf, Reading
<1>4. ASSUME NEW m \in Mailbox, NEW u \in Uid, Deliver(m, u)
      PROVE  Archive!ArchiveNext
  <2>1. \A v \in Uid : v < u => v \in 1..(u - 1)
    BY DEF Uid
  <2>2. Archive!Arrive(m, u)
    BY <1>2, <1>4, <2>1 DEF Deliver, Archive!Arrive, States, Cursors
  <2> QED BY <1>2, <2>2 DEF Archive!ArchiveNext, Archive!MailboxNext, Syncs, CursorOf, Reading
<1>5. ASSUME NEW m \in Mailbox, NEW u \in Uid, Expunge(m, u)
      PROVE  Archive!ArchiveNext
  <2>1. Archive!Vanish(m, u)
    BY <1>2, <1>5 DEF Expunge, Archive!Vanish, States, Cursors
  <2> QED BY <1>2, <2>1 DEF Archive!ArchiveNext, Archive!MailboxNext, Syncs, CursorOf, Reading
<1> QED BY <1>3, <1>4, <1>5

LEMMA CrashIsEnd ==
  ASSUME SyncIInv, Crash
  PROVE  [Archive!ArchiveNext]_(Archive!archiveVars)
<1>1. UNCHANGED <<mailbox, inbox, mail>> /\ handler' = [h \in Handler |-> IdleHandler]
  BY DEF Crash
<1>2. States' = States /\ Cursors' = Cursors
  BY <1>1, RowsShow
<1>3. CursorOf(IdleHandler) = Archive!NoSync
  BY IdleFits DEF CursorOf, Reading, Archive!NoSync
<1>4. Syncs' = [h \in Handler |-> IF h \in Handler THEN Archive!NoSync ELSE Syncs[h]]
  BY <1>1, <1>3 DEF Syncs
<1>5. Archive!End(Handler)
  BY <1>1, <1>2, <1>4 DEF Archive!End, Syncs, CursorOf, Reading, Cursors
<1> QED BY <1>1, <1>2, <1>5 DEF Archive!ArchiveNext, Archive!SyncsNext, States

\* Whatever requests and worker runs do to each other, and with every fault, a mailbox
\* is kept as the MailArchive promises: imported without gaps and once each, filed by its
\* user alone, no cursor before its messages, nothing written once the mailbox is gone.
THEOREM SyncImplementsArchive == SyncSpec => ArchiveKept
<1>1. SyncInit => Archive!ArchiveInit /\ CreatorsAlone /\ UnusedAtZero
  <2> SUFFICES ASSUME SyncInit
               PROVE  Archive!ArchiveInit /\ CreatorsAlone /\ UnusedAtZero
    OBVIOUS
  <2>1. \A h \in Handler : handler[h].pc = "idle"
    BY IdleFits DEF SyncInit
  <2>2. \A m \in Mailbox : mailbox[m].state = "unused" /\ mailbox[m].lastUid = 0
    BY DEF SyncInit, NewMailbox
  <2> QED BY <2>1, <2>2
          DEF SyncInit, Archive!ArchiveInit, Archive!NoSync, CreatorsAlone, UnusedAtZero
<1>2. SyncIInv /\ CreatorsAlone /\ UnusedAtZero /\ [SyncNext]_syncVars
        => [Archive!ArchiveNext]_(Archive!archiveVars)
  <2> SUFFICES ASSUME SyncIInv, CreatorsAlone, UnusedAtZero, [SyncNext]_syncVars
               PROVE  [Archive!ArchiveNext]_(Archive!archiveVars)
    OBVIOUS
  <2>1. ASSUME NEW h \in Handler, HandlerStep(h)
        PROVE  [Archive!ArchiveNext]_(Archive!archiveVars)
    BY <2>1, StartIsBegin, FetchStutters, ImportIsImport, FinishSyncIsReport, FailSyncIsEnd,
       RowTurnIsOpen DEF HandlerStep
  <2>2. CASE SyncNext
    BY <2>1, <2>2, BeginStutters, OwnerIsClose, MessageIsMessage, CrashIsEnd
    DEF SyncNext, Handler
  <2>3. CASE UNCHANGED syncVars
    BY <2>3, RowsShow, ArchiveStutters DEF syncVars
  <2> QED BY <2>2, <2>3
<1> QED
  BY <1>1, <1>2, CreatorsStay, UnusedStays, SyncInvariance, PTL
  DEF SyncSpec, ArchiveKept, Archive!ArchiveSpec

\* What the archive promises of itself: who keeps to it, and be it not InboundSync,
\* leaves no gap.  Rows stay, messages come in order, and every cursor stands at a
\* message that has come.
ArchiveIInv ==
  /\ inbox \in [Mailbox -> [Uid -> {"none", "mail", "gone"}]]
  /\ mail \in [Mailbox -> [Uid -> MailStatus \union {"none"}]]
  /\ UidsAscend
  /\ \A m \in Mailbox : Reached(m, Cursors[m]) /\ ImportedUpTo(m, Cursors[m])
  /\ \A h \in Handler, m \in Mailbox :
       Syncs[h].mailbox = m => Reached(m, Syncs[h].upTo) /\ ImportedUpTo(m, Syncs[h].upTo)

LEMMA ArchiveMailboxes ==
  ASSUME ArchiveIInv, Archive!MailboxNext
  PROVE  ArchiveIInv'
<1>1. Syncs' = Syncs
  BY DEF Archive!MailboxNext, Syncs, CursorOf, Reading
<1>2. CASE \E M \in SUBSET Mailbox : Archive!Close(M)
  <2>1. UNCHANGED <<inbox, mail>> /\ \A m \in Mailbox : Cursors'[m] \in {0, Cursors[m]}
    BY <1>2 DEF Archive!Close, Cursors
  <2>2. \A m \in Mailbox : Reached(m, 0) /\ ImportedUpTo(m, 0)
    BY UidType DEF Reached, ImportedUpTo
  <2> QED BY <1>1, <2>1, <2>2 DEF ArchiveIInv, UidsAscend, Reached, ImportedUpTo
<1>3. CASE \E m \in Mailbox : Archive!Open(m)
  <2>1. UNCHANGED <<inbox, mail>> /\ Cursors' = Cursors
    BY <1>3 DEF Archive!Open, Cursors
  <2> QED BY <1>1, <2>1 DEF ArchiveIInv, UidsAscend, Reached, ImportedUpTo
<1>4. ASSUME NEW m \in Mailbox, NEW u \in Uid,
             \/ Archive!Arrive(m, u) \/ Archive!Vanish(m, u)
             \/ \E status \in Archive!Status : Archive!File(m, u, status)
      PROVE  ArchiveIInv'
  <2>1. Cursors' = Cursors
    BY <1>4 DEF Archive!Arrive, Archive!Vanish, Archive!File, Cursors
  <2>2. /\ inbox' \in [Mailbox -> [Uid -> {"none", "mail", "gone"}]]
        /\ mail' \in [Mailbox -> [Uid -> MailStatus \union {"none"}]]
    <3>1. /\ inbox \in [Mailbox -> [Uid -> {"none", "mail", "gone"}]]
          /\ mail \in [Mailbox -> [Uid -> MailStatus \union {"none"}]]
      BY DEF ArchiveIInv
    <3>2. CASE Archive!Arrive(m, u)
      BY <3>1, <3>2 DEF Archive!Arrive
    <3>3. CASE Archive!Vanish(m, u)
      BY <3>1, <3>3 DEF Archive!Vanish
    <3>4. ASSUME NEW status \in Archive!Status, Archive!File(m, u, status)
          PROVE  <2>2!1 /\ <2>2!2
      <4>1. status \in MailStatus /\ mail' = [mail EXCEPT ![m][u] = status] /\ UNCHANGED inbox
        BY <3>4 DEF Archive!File, Archive!Status, MailStatus
      <4> QED BY <3>1, <4>1
    <3> QED BY <1>4, <3>2, <3>3, <3>4
  <2>3. Evolves /\ UidsAscend'
    <3>1. CASE Archive!Arrive(m, u)
      <4>1. \A v \in Uid : v >= u => inbox[m][v] = "none"
        <5>1. inbox[m][u] = "none"
          BY <3>1 DEF Archive!Arrive
        <5> QED BY <5>1, UidType DEF ArchiveIInv, UidsAscend
      <4>2. UNCHANGED mail /\ inbox' = [inbox EXCEPT ![m][u] = "mail"]
        BY <3>1 DEF Archive!Arrive
      <4>3. \A v \in Uid : v < u => inbox[m][v] # "none"
        BY <3>1 DEF Archive!Arrive
      <4>4. Evolves
        BY <4>1, <4>2 DEF Evolves, ArchiveIInv
      <4>5. UidsAscend'
        BY <4>2, <4>3, UidType DEF UidsAscend, ArchiveIInv
      <4> QED BY <4>4, <4>5
    <3>2. CASE Archive!Vanish(m, u)
      <4>1. /\ UNCHANGED mail /\ inbox[m][u] = "mail"
            /\ inbox' = [inbox EXCEPT ![m][u] = "gone"]
        BY <3>2 DEF Archive!Vanish
      <4> QED BY <4>1 DEF Evolves, ArchiveIInv, UidsAscend
    <3>3. CASE \E status \in Archive!Status : Archive!File(m, u, status)
      BY <3>3 DEF Archive!File, Archive!Status, Evolves, ArchiveIInv, UidsAscend
    <3> QED BY <1>4, <3>1, <3>2, <3>3
  <2>4. \A n \in Mailbox : Reached(n, Cursors[n])' /\ ImportedUpTo(n, Cursors[n])'
    <3> HIDE DEF Cursors
    <3> TAKE n \in Mailbox
    <3>1. PICK cursor : cursor = Cursors[n]
      OBVIOUS
    <3> QED BY <2>1, <2>3, <3>1, CursorKeeps DEF ArchiveIInv
  <2>5. ASSUME NEW h \in Handler, NEW n \in Mailbox, Syncs'[h].mailbox = n
        PROVE  Reached(n, Syncs[h].upTo)' /\ ImportedUpTo(n, Syncs[h].upTo)'
    <3>1. PICK cursor : cursor = Syncs[h].upTo
      OBVIOUS
    <3> QED BY <1>1, <2>3, <2>5, <3>1, CursorKeeps DEF ArchiveIInv
  <2> QED BY <2>2, <2>3, <2>4, <2>5 DEF ArchiveIInv
<1> QED BY <1>2, <1>3, <1>4 DEF Archive!MailboxNext

LEMMA ArchiveSyncs ==
  ASSUME ArchiveIInv, Archive!SyncsNext
  PROVE  ArchiveIInv'
<1>1. UNCHANGED inbox
  BY DEF Archive!SyncsNext
<1>2. Archive!NoSync.mailbox \notin Mailbox
  BY DEF Archive!NoSync
<1>3. CASE Archive!End(Handler) \/ \E h \in Handler : Archive!End({h})
  <2>1. UNCHANGED mail /\ Cursors' = Cursors
    BY <1>3 DEF Archive!End, Cursors
  <2>2. \A g \in Handler : Syncs'[g] \in {Syncs[g], Archive!NoSync}
    BY <1>3 DEF Archive!End, Syncs, CursorOf, Reading
  <2>3. \A g \in Handler : Syncs'[g].mailbox \in Mailbox => Syncs'[g] = Syncs[g]
    BY <1>2, <2>2
  <2>4. \A n \in Mailbox : \A cursor :
          Reached(n, cursor) /\ ImportedUpTo(n, cursor)
            => Reached(n, cursor)' /\ ImportedUpTo(n, cursor)'
    BY <1>1, <2>1 DEF Reached, ImportedUpTo
  <2>5. \A n \in Mailbox : Reached(n, Cursors[n])' /\ ImportedUpTo(n, Cursors[n])'
    BY <2>1, <2>4 DEF ArchiveIInv
  <2>6. ASSUME NEW g \in Handler, NEW n \in Mailbox, Syncs'[g].mailbox = n
        PROVE  Reached(n, Syncs[g].upTo)' /\ ImportedUpTo(n, Syncs[g].upTo)'
    BY <2>3, <2>4, <2>6 DEF ArchiveIInv
  <2> QED BY <1>1, <2>1, <2>5, <2>6 DEF ArchiveIInv, UidsAscend
<1>4. ASSUME NEW h \in Handler, NEW m \in Mailbox, Archive!Begin(h, m)
      PROVE  ArchiveIInv'
  <2>1. UNCHANGED mail /\ Cursors' = Cursors
    BY <1>4 DEF Archive!Begin, Cursors
  <2>2. Syncs' = [Syncs EXCEPT ![h] = [mailbox |-> m, upTo |-> Cursors[m]]]
    BY <1>4 DEF Archive!Begin, Syncs, CursorOf, Reading, Cursors
  <2> QED BY <1>1, <2>1, <2>2 DEF ArchiveIInv, UidsAscend, Reached, ImportedUpTo
<1>5. ASSUME NEW h \in Handler, NEW m \in Mailbox, Archive!Report(h, m)
      PROVE  ArchiveIInv'
  <2>1. /\ UNCHANGED mail /\ Syncs[h].mailbox = m
        /\ Cursors' = [Cursors EXCEPT ![m] = Syncs[h].upTo]
        /\ Syncs' = [Syncs EXCEPT ![h] = Archive!NoSync]
    BY <1>5 DEF Archive!Report, Cursors, Syncs, CursorOf, Reading
  <2> QED BY <1>1, <1>2, <2>1 DEF ArchiveIInv, UidsAscend, Reached, ImportedUpTo
<1>6. ASSUME NEW h \in Handler, NEW m \in Mailbox, NEW u \in Uid, Archive!Import(h, m, u)
      PROVE  ArchiveIInv'
  <2>1. /\ Cursors' = Cursors /\ Syncs[h].mailbox = m
        /\ Syncs' = [Syncs EXCEPT ![h].upTo = u]
        /\ inbox[m][u] # "none"
        /\ \A v \in Uid : v < u /\ inbox[m][v] = "mail" => mail[m][v] # "none"
    BY <1>6 DEF Archive!Import, Archive!CompleteBefore, Cursors, Syncs, CursorOf, Reading
  <2>2. /\ mail' \in [Mailbox -> [Uid -> MailStatus \union {"none"}]]
        /\ mail'[m][u] # "none"
        /\ \A n \in Mailbox, v \in Uid : mail[n][v] # "none" => mail'[n][v] # "none"
    <3>1. mail \in [Mailbox -> [Uid -> MailStatus \union {"none"}]]
      BY DEF ArchiveIInv
    <3>2. CASE UNCHANGED mail /\ mail[m][u] # "none"
      BY <3>1, <3>2
    <3>3. ASSUME NEW status \in {"unread", "read"}, mail' = [mail EXCEPT ![m][u] = status]
          PROVE  <2>2!1 /\ <2>2!2 /\ <2>2!3
      BY <3>1, <3>3 DEF MailStatus
    <3> QED BY <1>6, <3>2, <3>3 DEF Archive!Import
  <2>3. Reached(m, u)' /\ ImportedUpTo(m, u)'
    <3>1. ASSUME NEW v \in Uid, v <= u, inbox[m][v] = "mail" PROVE mail'[m][v] # "none"
      <4>1. v < u \/ v = u
        BY <3>1, UidType
      <4> QED BY <2>1, <2>2, <3>1, <4>1
    <3> QED BY <1>1, <2>1, <3>1 DEF Reached, ImportedUpTo
  <2>4. \A n \in Mailbox : \A cursor :
          Reached(n, cursor) /\ ImportedUpTo(n, cursor)
            => Reached(n, cursor)' /\ ImportedUpTo(n, cursor)'
    BY <1>1, <2>2 DEF Reached, ImportedUpTo
  <2>5. \A n \in Mailbox : Reached(n, Cursors[n])' /\ ImportedUpTo(n, Cursors[n])'
    <3> HIDE DEF Cursors
    <3> QED BY <2>1, <2>4 DEF ArchiveIInv
  <2>6. ASSUME NEW g \in Handler, NEW n \in Mailbox, Syncs'[g].mailbox = n
        PROVE  Reached(n, Syncs[g].upTo)' /\ ImportedUpTo(n, Syncs[g].upTo)'
    BY <2>1, <2>3, <2>4, <2>6 DEF ArchiveIInv
  <2> QED BY <1>1, <2>2, <2>5, <2>6 DEF ArchiveIInv, UidsAscend
<1> QED BY <1>3, <1>4, <1>5, <1>6 DEF Archive!SyncsNext

\* Whoever keeps to the archive loses no mail: nothing lies behind a cursor, stored or
\* carried, without a row.  With SyncImplementsArchive this is NothingBehindCursor for
\* the cursors, from the abstract promise alone.
THEOREM ArchiveLeavesNoGap == ArchiveKept => []Archive!NoGap
<1>1. Archive!ArchiveInit => ArchiveIInv
  <2> SUFFICES ASSUME Archive!ArchiveInit
               PROVE  ArchiveIInv
    OBVIOUS
  <2>1. /\ inbox = [m \in Mailbox |-> [u \in Uid |-> "none"]]
        /\ mail = [m \in Mailbox |-> [u \in Uid |-> "none"]]
        /\ \A m \in Mailbox : Cursors[m] = 0
        /\ \A h \in Handler : Syncs[h].mailbox \notin Mailbox
    BY DEF Archive!ArchiveInit, Archive!NoSync, Cursors, Syncs, CursorOf, Reading
  <2> QED BY <2>1, UidType DEF ArchiveIInv, UidsAscend, Reached, ImportedUpTo
<1>2. ArchiveIInv /\ [Archive!ArchiveNext]_(Archive!archiveVars) => ArchiveIInv'
  <2> SUFFICES ASSUME ArchiveIInv, [Archive!ArchiveNext]_(Archive!archiveVars)
               PROVE  ArchiveIInv'
    OBVIOUS
  <2>1. CASE UNCHANGED Archive!archiveVars
    <3>1. UNCHANGED <<inbox, mail>> /\ Cursors' = Cursors /\ Syncs' = Syncs
      BY <2>1 DEF Archive!archiveVars, Cursors, Syncs, CursorOf, Reading
    <3> QED BY <3>1 DEF ArchiveIInv, UidsAscend, Reached, ImportedUpTo
  <2> QED BY <2>1, ArchiveMailboxes, ArchiveSyncs DEF Archive!ArchiveNext
<1>3. ArchiveIInv => Archive!NoGap
  BY DEF ArchiveIInv, Archive!NoGap, Archive!ImportedUpTo, ImportedUpTo, Cursors, Syncs,
         CursorOf, Reading
<1> QED BY <1>1, <1>2, <1>3, PTL DEF ArchiveKept, Archive!ArchiveSpec

-------------------------------------------------------------------------------
(***************************************************************************)
(* PolarWebhook, for every set of events, any number of overlapping        *)
(* deliveries, repeats and failures: the rows keep their types, and the    *)
(* table of events implements EventLog.                                    *)
(***************************************************************************)

HIDE SyncAssumption

\* A delivery that takes an event over read a row whose processing had lapsed; one
\* that is to record a success has seen the handler return.
DeliveryFits(d) ==
  /\ delivery[d].pc = "idle" <=> delivery[d].event = NoEvent
  /\ delivery[d].pc = "reclaim" => delivery[d].event \in lapsed
  /\ delivery[d].pc = "markProcessed" => handled[delivery[d].event] > 0

\* A row that may be taken over has lapsed; one that is not there has no attempts.
RowFits(e) ==
  /\ Retakable(event[e]) => e \in lapsed
  /\ event[e].overdue => e \in lapsed
  /\ event[e].status = "none" => event[e].attempts = 0

DeliveriesFit == \A d \in Delivery : DeliveryFits(d)
RowsFit       == \A e \in Event : RowFits(e)

PolarIInv ==
  /\ PolarTypeOK
  /\ DeliveriesFit
  /\ RowsFit

USE PolarAssumption

LEMMA PolarInitInv == PolarInit => PolarIInv
  BY DEF PolarInit, PolarIInv, PolarTypeOK, Row, DeliveryState, Claimed, Idle,
         DeliveriesFit, DeliveryFits, RowsFit, RowFits, Retakable

\* A delivery that is not idle works on an event.
LEMMA DeliveryHasEvent ==
  ASSUME PolarIInv, NEW d \in Delivery, delivery[d].pc # "idle"
  PROVE  /\ delivery[d] \in DeliveryState
         /\ delivery[d].event \in Event
         /\ event[delivery[d].event] \in Row
BY DEF PolarIInv, PolarTypeOK, DeliveriesFit, DeliveryFits, DeliveryState

\* One delivery goes from one state to another while events are handled more often,
\* lapse or stay as they are.
LEMMA DeliveryMoves ==
  ASSUME PolarIInv, NEW d \in Delivery, NEW h \in DeliveryState,
         delivery' = [delivery EXCEPT ![d] = h],
         lapsed \subseteq lapsed',
         \A e \in Event : handled[e] > 0 => handled'[e] > 0,
         h.pc = "idle" <=> h.event = NoEvent,
         h.pc = "reclaim" => h.event \in lapsed',
         h.pc = "markProcessed" => handled'[h.event] > 0
  PROVE  delivery' \in [Delivery -> DeliveryState] /\ DeliveriesFit'
<1>1. delivery' \in [Delivery -> DeliveryState]
  BY DEF PolarIInv, PolarTypeOK
<1>2. ASSUME NEW c \in Delivery
      PROVE  DeliveryFits(c)'
  <2>1. CASE c = d
    BY <2>1 DEF DeliveryFits, PolarIInv, PolarTypeOK
  <2>2. CASE c # d
    <3>1. delivery'[c] = delivery[c] /\ DeliveryFits(c)
      BY <2>2 DEF PolarIInv, PolarTypeOK, DeliveriesFit
    <3>2. delivery[c].pc = "markProcessed" => delivery[c].event \in Event
      BY DeliveryHasEvent
    <3>3. QED
      BY <3>1, <3>2 DEF DeliveryFits
  <2>3. QED
    BY <2>1, <2>2
<1>3. QED
  BY <1>1, <1>2 DEF DeliveriesFit

\* One row is written.
LEMMA RowMoves ==
  ASSUME PolarIInv, NEW e \in Event, NEW row \in Row,
         event' = [event EXCEPT ![e] = row], lapsed \subseteq lapsed',
         Retakable(row) => e \in lapsed', row.overdue => e \in lapsed',
         row.status # "none"
  PROVE  event' \in [Event -> Row] /\ RowsFit'
<1>1. event' \in [Event -> Row]
  BY DEF PolarIInv, PolarTypeOK
<1>2. \A f \in Event : event'[f] = IF f = e THEN row ELSE event[f]
  BY DEF PolarIInv, PolarTypeOK
<1>3. \A f \in Event : RowFits(f)'
  BY <1>2 DEF PolarIInv, RowsFit, RowFits, Retakable
<1>4. QED
  BY <1>1, <1>3 DEF RowsFit

\* The answer to a delivery, and what Polar then knows.
LEMMA AnswerMoves ==
  ASSUME PolarIInv, NEW d \in Delivery, delivery[d].pc # "idle",
         NEW ok \in BOOLEAN, Answered(d, ok),
         lapsed \subseteq lapsed', handled' = handled
  PROVE  /\ delivery' \in [Delivery -> DeliveryState] /\ DeliveriesFit'
         /\ polar' \in [Event -> [sent : 0..MaxDeliveries, acked : BOOLEAN]]
<1>1. Idle \in DeliveryState /\ Idle.pc = "idle" /\ Idle.event = NoEvent
  BY DEF Idle, DeliveryState
<1>2. delivery' \in [Delivery -> DeliveryState] /\ DeliveriesFit'
  BY <1>1, DeliveryMoves DEF Answered
<1>3. delivery[d].event \in Event
  BY DeliveryHasEvent
<1>4. [polar[delivery[d].event] EXCEPT !.acked = @ \/ ok]
        \in [sent : 0..MaxDeliveries, acked : BOOLEAN]
  BY <1>3 DEF PolarIInv, PolarTypeOK
<1>5. polar' = [polar EXCEPT ![delivery[d].event] =
                  [polar[delivery[d].event] EXCEPT !.acked = @ \/ ok]]
  BY DEF Answered
<1>6. polar' \in [Event -> [sent : 0..MaxDeliveries, acked : BOOLEAN]]
  BY <1>4, <1>5 DEF PolarIInv, PolarTypeOK
<1>7. QED
  BY <1>2, <1>6

\* A delivery that goes to its next step.
LEMMA GotoMoves ==
  ASSUME PolarIInv, NEW d \in Delivery, delivery[d].pc # "idle",
         NEW pc \in {"find", "reclaim"} \union Claimed, Goto(d, pc),
         lapsed \subseteq lapsed',
         \A e \in Event : handled[e] > 0 => handled'[e] > 0,
         pc = "reclaim" => delivery[d].event \in lapsed',
         pc = "markProcessed" => handled'[delivery[d].event] > 0
  PROVE  delivery' \in [Delivery -> DeliveryState] /\ DeliveriesFit'
<1>1. delivery[d] \in DeliveryState /\ delivery[d].event \in Event
  BY DeliveryHasEvent
<1>2. PICK h \in DeliveryState :
        /\ h.pc = pc /\ h.event = delivery[d].event
        /\ delivery' = [delivery EXCEPT ![d] = h]
  <2>1. [delivery[d] EXCEPT !.pc = pc] \in DeliveryState
    BY <1>1 DEF DeliveryState
  <2>2. QED
    BY <1>1, <2>1 DEF Goto, DeliveryState
<1>3. h.pc # "idle" /\ h.event # NoEvent
  BY <1>1, <1>2 DEF Claimed
<1>4. QED
  BY <1>2, <1>3, DeliveryMoves

-----------------------------------------------------------------------------
LEMMA PostKeeps ==
  ASSUME PolarIInv, NEW d \in Delivery, NEW e \in Event, Post(d, e)
  PROVE  PolarIInv'
<1>1. /\ UNCHANGED <<failures, handled, lapsed>>
      /\ polar' = [polar EXCEPT ![e].sent = @ + 1]
      /\ polar[e].sent < MaxDeliveries
  BY DEF Post
<1>2. polar' \in [Event -> [sent : 0..MaxDeliveries, acked : BOOLEAN]]
  <2>1. polar[e] \in [sent : 0..MaxDeliveries, acked : BOOLEAN]
    BY DEF PolarIInv, PolarTypeOK
  <2>2. [polar[e] EXCEPT !.sent = @ + 1] \in [sent : 0..MaxDeliveries, acked : BOOLEAN]
    BY <1>1, <2>1
  <2>3. QED
    BY <1>1, <2>2 DEF PolarIInv, PolarTypeOK
<1>3. delivery' \in [Delivery -> DeliveryState] /\ DeliveriesFit'
  <2>1. PICK pc \in {"handle", "find"} :
          delivery' = [delivery EXCEPT ![d] = [pc |-> pc, event |-> e]]
    BY DEF Post
  <2>2. [pc |-> pc, event |-> e] \in DeliveryState /\ e # NoEvent
    BY DEF DeliveryState, Claimed
  <2>3. QED
    BY <1>1, <2>1, <2>2, DeliveryMoves
<1>4. event' \in [Event -> Row] /\ RowsFit'
  <2>1. CASE /\ event[e].status = "none"
             /\ event' = [event EXCEPT ![e].status = "processing", ![e].attempts = 1]
    <3>1. PICK row \in Row :
            /\ row.status = "processing" /\ row.overdue = event[e].overdue
            /\ event' = [event EXCEPT ![e] = row]
      <4>1. event[e] \in Row
        BY DEF PolarIInv, PolarTypeOK
      <4>2. [event[e] EXCEPT !.status = "processing", !.attempts = 1] \in Row
        BY <4>1 DEF Row
      <4>3. event' = [event EXCEPT ![e] =
                        [event[e] EXCEPT !.status = "processing", !.attempts = 1]]
        BY <2>1 DEF PolarIInv, PolarTypeOK
      <4>4. QED
        BY <4>1, <4>2, <4>3 DEF Row
    <3>2. row.overdue => e \in lapsed
      BY <3>1 DEF PolarIInv, RowsFit, RowFits
    <3>3. QED
      BY <1>1, <3>1, <3>2, RowMoves DEF Retakable
  <2>2. CASE UNCHANGED event
    BY <1>1, <2>2 DEF PolarIInv, PolarTypeOK, RowsFit, RowFits
  <2>3. QED
    BY <2>1, <2>2 DEF Post
<1>5. QED
  BY <1>1, <1>2, <1>3, <1>4 DEF PolarIInv, PolarTypeOK

LEMMA FindKeeps ==
  ASSUME PolarIInv, NEW d \in Delivery, Find(d)
  PROVE  PolarIInv'
<1>1. /\ UNCHANGED <<event, failures, handled, lapsed>>
      /\ delivery[d].pc = "find" /\ delivery[d].event \in Event
  BY DeliveryHasEvent DEF Find
<1>2. RowsFit'
  BY <1>1 DEF PolarIInv, RowsFit, RowFits
<1>3. CASE Retakable(event[delivery[d].event])
  <2>1. delivery[d].event \in lapsed
    BY <1>1, <1>3 DEF PolarIInv, RowsFit, RowFits
  <2>2. delivery' \in [Delivery -> DeliveryState] /\ DeliveriesFit'
    BY <1>1, <1>3, <2>1, GotoMoves DEF Find
  <2>3. QED
    BY <1>1, <1>2, <1>3, <2>2 DEF Find, PolarIInv, PolarTypeOK
<1>4. CASE ~Retakable(event[delivery[d].event])
  <2>1. Answered(d, TRUE)
    BY <1>4 DEF Find
  <2>2. /\ delivery' \in [Delivery -> DeliveryState] /\ DeliveriesFit'
        /\ polar' \in [Event -> [sent : 0..MaxDeliveries, acked : BOOLEAN]]
    BY <1>1, <2>1, AnswerMoves
  <2>3. QED
    BY <1>1, <1>2, <2>2 DEF PolarIInv, PolarTypeOK
<1>5. QED
  BY <1>3, <1>4

LEMMA ReclaimKeeps ==
  ASSUME PolarIInv, NEW d \in Delivery, Reclaim(d)
  PROVE  PolarIInv'
<1>1. /\ UNCHANGED <<polar, failures, handled, lapsed>>
      /\ delivery[d].pc = "reclaim" /\ Goto(d, "handle")
      /\ delivery[d].event \in Event /\ event[delivery[d].event] \in Row
  BY DeliveryHasEvent DEF Reclaim
<1>2. delivery' \in [Delivery -> DeliveryState] /\ DeliveriesFit'
  BY <1>1, GotoMoves DEF Claimed
<1>3. PICK row \in Row :
        /\ row.status = "processing" /\ row.overdue = FALSE
        /\ event' = [event EXCEPT ![delivery[d].event] = row]
  <2>1. PICK old \in Row : old = event[delivery[d].event]
    BY <1>1
  <2>2. event' = [event EXCEPT ![delivery[d].event] =
          [old EXCEPT !.status = "processing", !.overdue = FALSE,
                      !.attempts = old.attempts + 1]]
    BY <1>1, <2>1 DEF Reclaim, PolarIInv, PolarTypeOK
  <2>3. PICK attempts \in Nat : attempts = old.attempts + 1
    BY DEF Row
  <2>4. [old EXCEPT !.status = "processing", !.overdue = FALSE,
                    !.attempts = attempts] \in Row
    BY DEF Row
  <2>5. QED
    BY <2>2, <2>3, <2>4 DEF Row
<1>4. event' \in [Event -> Row] /\ RowsFit'
  BY <1>1, <1>3, RowMoves DEF Retakable
<1>5. QED
  BY <1>1, <1>2, <1>4 DEF PolarIInv, PolarTypeOK

\* The handler of an event ends, or is not answered for.
LEMMA HandlerEndsKeeps ==
  ASSUME PolarIInv, NEW d \in Delivery,
         HandlerThrows(d) \/ HandlerReturns(d) \/ MarkProcessedThrows(d)
  PROVE  PolarIInv'
<1>1. /\ UNCHANGED <<event, polar, lapsed>> /\ delivery[d].pc # "idle"
      /\ delivery[d].event \in Event
  BY DeliveryHasEvent DEF HandlerThrows, HandlerReturns, MarkProcessedThrows
<1>2. RowsFit'
  BY <1>1 DEF PolarIInv, RowsFit, RowFits
<1>3. /\ failures' \in 0..MaxFailures /\ handled' \in [Event -> Nat]
      /\ \A e \in Event : handled[e] > 0 => handled'[e] > 0
  BY <1>1 DEF HandlerThrows, HandlerReturns, MarkProcessedThrows, PolarIInv, PolarTypeOK
<1>4. delivery' \in [Delivery -> DeliveryState] /\ DeliveriesFit'
  <2>1. CASE HandlerThrows(d) \/ MarkProcessedThrows(d)
    BY <1>1, <1>3, <2>1, GotoMoves DEF HandlerThrows, MarkProcessedThrows, Claimed
  <2>2. CASE HandlerReturns(d)
    <3>1. handled'[delivery[d].event] > 0
      BY <1>1, <2>2 DEF HandlerReturns, PolarIInv, PolarTypeOK
    <3>2. QED
      BY <1>1, <1>3, <2>2, <3>1, GotoMoves DEF HandlerReturns, Claimed
  <2>3. QED
    BY <2>1, <2>2
<1>5. QED
  BY <1>1, <1>2, <1>3, <1>4 DEF PolarIInv, PolarTypeOK

\* An outcome is recorded.
LEMMA MarkKeeps ==
  ASSUME PolarIInv, NEW d \in Delivery, MarkProcessed(d) \/ MarkFailed(d)
  PROVE  PolarIInv'
<1>1. /\ UNCHANGED <<failures, handled>> /\ delivery[d].pc # "idle"
      /\ delivery[d].event \in Event /\ event[delivery[d].event] \in Row
      /\ lapsed \subseteq lapsed' /\ lapsed' \subseteq Event
      /\ \E ok \in BOOLEAN : Answered(d, ok)
  BY DeliveryHasEvent DEF MarkProcessed, MarkFailed, PolarIInv, PolarTypeOK
<1>2. /\ delivery' \in [Delivery -> DeliveryState] /\ DeliveriesFit'
      /\ polar' \in [Event -> [sent : 0..MaxDeliveries, acked : BOOLEAN]]
  BY <1>1, AnswerMoves
<1>3. PICK row \in Row :
        /\ row.status \in {"processed", "failed"} /\ row.overdue = FALSE
        /\ row.status = "failed" => delivery[d].event \in lapsed'
        /\ event' = [event EXCEPT ![delivery[d].event] = row]
  <2>1. CASE MarkProcessed(d)
    <3>1. [event[delivery[d].event] EXCEPT !.status = "processed", !.processed = TRUE,
                                           !.overdue = FALSE] \in Row
      BY <1>1 DEF Row
    <3>2. QED
      BY <1>1, <2>1, <3>1 DEF MarkProcessed, Row
  <2>2. CASE MarkFailed(d)
    <3>1. [event[delivery[d].event] EXCEPT !.status = "failed", !.overdue = FALSE] \in Row
      BY <1>1 DEF Row
    <3>2. event' = [event EXCEPT ![delivery[d].event] =
            [event[delivery[d].event] EXCEPT !.status = "failed", !.overdue = FALSE]]
      BY <1>1, <2>2 DEF MarkFailed, PolarIInv, PolarTypeOK
    <3>3. delivery[d].event \in lapsed'
      BY <2>2 DEF MarkFailed
    <3>4. QED
      BY <1>1, <3>1, <3>2, <3>3 DEF Row
  <2>3. QED
    BY <2>1, <2>2
<1>4. event' \in [Event -> Row] /\ RowsFit'
  BY <1>1, <1>3, RowMoves DEF Retakable
<1>5. QED
  BY <1>1, <1>2, <1>4 DEF PolarIInv, PolarTypeOK

LEMMA AbortKeeps ==
  ASSUME PolarIInv, NEW d \in Delivery, Abort(d)
  PROVE  PolarIInv'
<1>1. /\ delivery' \in [Delivery -> DeliveryState] /\ DeliveriesFit'
      /\ polar' \in [Event -> [sent : 0..MaxDeliveries, acked : BOOLEAN]]
  BY AnswerMoves DEF Abort
<1>2. RowsFit'
  BY DEF Abort, PolarIInv, RowsFit, RowFits
<1>3. QED
  BY <1>1, <1>2 DEF Abort, PolarIInv, PolarTypeOK

LEMMA OverdueKeeps ==
  ASSUME PolarIInv, NEW e \in Event, Overdue(e)
  PROVE  PolarIInv'
<1>1. /\ UNCHANGED <<delivery, polar, failures, handled>> /\ lapsed' = lapsed \union {e}
      /\ event[e] \in Row
  BY DEF Overdue, PolarIInv, PolarTypeOK
<1>2. PICK row \in Row :
        /\ row.status = "processing"
        /\ event' = [event EXCEPT ![e] = row]
  <2>1. [event[e] EXCEPT !.overdue = TRUE] \in Row
    BY <1>1 DEF Row
  <2>2. QED
    BY <1>1, <2>1 DEF Overdue, Row
<1>3. event' \in [Event -> Row] /\ RowsFit'
  BY <1>1, <1>2, RowMoves DEF Retakable
<1>4. DeliveriesFit'
  BY <1>1 DEF PolarIInv, DeliveriesFit, DeliveryFits
<1>5. QED
  BY <1>1, <1>3, <1>4 DEF PolarIInv, PolarTypeOK

-----------------------------------------------------------------------------
LEMMA PolarStepInv == PolarIInv /\ [PolarNext]_polarVars => PolarIInv'
<1> SUFFICES ASSUME PolarIInv, [PolarNext]_polarVars
             PROVE  PolarIInv'
  OBVIOUS
<1>1. ASSUME NEW d \in Delivery, DeliveryStep(d) \/ Abort(d)
      PROVE  PolarIInv'
  BY <1>1, FindKeeps, ReclaimKeeps, HandlerEndsKeeps, MarkKeeps, AbortKeeps DEF DeliveryStep
<1>2. CASE PolarNext
  BY <1>1, <1>2, PostKeeps, OverdueKeeps DEF PolarNext
<1>3. CASE UNCHANGED polarVars
  BY <1>3 DEF polarVars, PolarIInv, PolarTypeOK, DeliveriesFit, DeliveryFits, RowsFit, RowFits
<1>4. QED
  BY <1>2, <1>3

\* Rows and deliveries fit each other, whatever fails, dies or overlaps.
THEOREM PolarInvariance == PolarSpec => []PolarIInv
  BY PolarInitInv, PolarStepInv, PTL DEF PolarSpec

\* The rows have the statuses of the code, the requests are in its steps, and
\* Polar sends no more requests than its retries allow.
THEOREM PolarTypeCorrect == PolarSpec => []PolarTypeOK
<1>1. PolarIInv => PolarTypeOK
  BY DEF PolarIInv
<1>2. QED
  BY <1>1, PolarInvariance, PTL

-----------------------------------------------------------------------------
(***************************************************************************)
(* The refinement of EventLog.                                             *)
(***************************************************************************)

\* The variables of the event log, as the table and the requests show them.
Status   == [e \in Event |-> event[e].status]
Attempts == [e \in Event |-> event[e].attempts]
Calls    == [e \in Event |-> Running(e)]
Owed     == [e \in Event |-> Handling(e) \ Running(e)]

\* What the log does not see changes.
LEMMA LogStutters ==
  ASSUME \A e \in Event : /\ event'[e].status = event[e].status
                          /\ event'[e].attempts = event[e].attempts,
         Calls' = Calls, Owed' = Owed, UNCHANGED <<handled, lapsed>>
  PROVE  UNCHANGED Log!logVars
<1>1. Status' = Status /\ Attempts' = Attempts
  BY DEF Status, Attempts
<1>2. QED
  BY <1>1 DEF Status, Attempts, Calls, Owed, Log!logVars

\* The step pc of delivery d shows in the calls and debts of event e alone.
Shows(d, e, pc) ==
  /\ pc = "handle" => Calls' = [Calls EXCEPT ![e] = @ \union {d}]
  /\ pc # "handle" => Calls' = [Calls EXCEPT ![e] = @ \ {d}]
  /\ pc \in {"markProcessed", "markFailed"} => Owed' = [Owed EXCEPT ![e] = @ \union {d}]
  /\ pc \notin {"markProcessed", "markFailed"} => Owed' = [Owed EXCEPT ![e] = @ \ {d}]

\* A set of workers is what it was when who leaves was not in it, or who comes was.
LEMMA NobodyMoves ==
  ASSUME NEW F, F = [f \in Event |-> F[f]], NEW d, NEW e \in Event
  PROVE  /\ d \notin F[e] => [F EXCEPT ![e] = @ \ {d}] = F
         /\ d \in F[e] => [F EXCEPT ![e] = @ \union {d}] = F
<1>1. d \notin F[e] => F[e] \ {d} = F[e]
  OBVIOUS
<1>2. d \in F[e] => F[e] \union {d} = F[e]
  OBVIOUS
<1>3. [F EXCEPT ![e] = F[e]] = F
  OBVIOUS
<1>4. QED
  BY <1>1, <1>2, <1>3

LEMMA FunctionsOfEvents ==
  /\ Calls = [f \in Event |-> Calls[f]]
  /\ Owed = [f \in Event |-> Owed[f]]
BY DEF Calls, Owed

LEMMA DeliveryShows ==
  ASSUME PolarIInv, NEW d \in Delivery, NEW e \in Event, NEW h, NEW pc,
         delivery[d].event = e \/ delivery[d].pc = "idle",
         h.event = e \/ pc = "idle", h.pc = pc,
         delivery' = [delivery EXCEPT ![d] = h]
  PROVE  Shows(d, e, pc)
<1>1. delivery'[d] = h /\ \A c \in Delivery \ {d} : delivery'[c] = delivery[c]
  BY DEF PolarIInv, PolarTypeOK
<1>2. ASSUME NEW f \in Event
      PROVE  /\ Running(f)' = IF f # e THEN Running(f)
                              ELSE IF pc = "handle" THEN Running(f) \union {d}
                                                      ELSE Running(f) \ {d}
             /\ (Handling(f) \ Running(f))' =
                   IF f # e THEN Handling(f) \ Running(f)
                   ELSE IF pc \in {"markProcessed", "markFailed"}
                        THEN (Handling(f) \ Running(f)) \union {d}
                        ELSE (Handling(f) \ Running(f)) \ {d}
  <2>1. CASE f # e
    BY <1>1, <2>1 DEF Running, Handling, Claimed
  <2>2. CASE f = e
    BY <1>1, <2>2 DEF Running, Handling, Claimed
  <2>3. QED
    BY <2>1, <2>2
<1>3. Calls' = [f \in Event |-> IF f # e THEN Running(f)
                                ELSE IF pc = "handle" THEN Running(f) \union {d}
                                                        ELSE Running(f) \ {d}]
  BY <1>2 DEF Calls
<1>4. Owed' = [f \in Event |->
                   IF f # e THEN Handling(f) \ Running(f)
                   ELSE IF pc \in {"markProcessed", "markFailed"}
                        THEN (Handling(f) \ Running(f)) \union {d}
                        ELSE (Handling(f) \ Running(f)) \ {d}]
  BY <1>2 DEF Owed
<1>5. QED
  BY <1>3, <1>4 DEF Calls, Owed, Shows

\* Who calls, owes and lets be.
LEMMA WhoCalls ==
  ASSUME NEW d \in Delivery, NEW e \in Event
  PROVE  /\ d \in Calls[e] <=> delivery[d].event = e /\ delivery[d].pc = "handle"
         /\ d \in Owed[e] <=> delivery[d].event = e
                                /\ delivery[d].pc \in {"markProcessed", "markFailed"}
BY DEF Calls, Owed, Running, Handling, Claimed
\* A delivery with an event goes on, or is answered.
LEMMA GoesOn ==
  ASSUME PolarIInv, NEW d \in Delivery, delivery[d].pc # "idle",
         NEW e \in Event, delivery[d].event = e,
         NEW pc, pc = "idle" => delivery' = [delivery EXCEPT ![d] = Idle],
         pc # "idle" => Goto(d, pc)
  PROVE  Shows(d, e, pc)
<1>1. delivery[d] \in DeliveryState /\ e # NoEvent
  BY DeliveryHasEvent
<1>2. CASE pc = "idle"
  <2>1. Idle.pc = "idle" /\ Idle.event = NoEvent
    BY DEF Idle
  <2>2. PICK h : h = Idle
    OBVIOUS
  <2>3. /\ delivery' = [delivery EXCEPT ![d] = h] /\ h.event = NoEvent
        /\ h.pc = "idle"
    BY <1>2, <2>1, <2>2
  <2>4. QED
    BY <1>2, <2>3, DeliveryShows
<1>3. CASE pc # "idle"
  <2>1. PICK h : /\ h.pc = pc /\ h.event = e
                 /\ delivery' = [delivery EXCEPT ![d] = h]
    <3>1. /\ [delivery[d] EXCEPT !.pc = pc].pc = pc
          /\ [delivery[d] EXCEPT !.pc = pc].event = e
      BY <1>1 DEF DeliveryState
    <3>2. QED
      BY <1>3, <3>1 DEF Goto
  <2>2. QED
    BY <2>1, DeliveryShows
<1>4. QED
  BY <1>2, <1>3

\* The insert that claims an event begins a call; one that finds it claimed does not.
LEMMA PostIsCall ==
  ASSUME PolarIInv, NEW d \in Delivery, NEW e \in Event, Post(d, e)
  PROVE  [Log!LogNext]_(Log!logVars)
<1>1. /\ UNCHANGED <<handled, lapsed>> /\ delivery[d].pc = "idle"
      /\ delivery[d].event = NoEvent /\ event[e] \in Row
  BY DEF Post, PolarIInv, PolarTypeOK, DeliveriesFit, DeliveryFits
<1>2. d \notin Calls[e] /\ d \notin Owed[e]
  BY <1>1, WhoCalls
<1>3. ASSUME NEW pc \in {"handle", "find"},
             delivery' = [delivery EXCEPT ![d] = [pc |-> pc, event |-> e]]
      PROVE  Shows(d, e, pc)
  <2>1. PICK h : h.pc = pc /\ h.event = e /\ delivery' = [delivery EXCEPT ![d] = h]
    BY <1>3
  <2>2. QED
    BY <1>1, <2>1, DeliveryShows
<1>4. CASE /\ event[e].status = "none"
           /\ event' = [event EXCEPT ![e].status = "processing", ![e].attempts = 1]
           /\ delivery' = [delivery EXCEPT ![d] = [pc |-> "handle", event |-> e]]
  <2>1. Calls' = [Calls EXCEPT ![e] = @ \union {d}] /\ Owed' = Owed
    BY <1>2, <1>3, <1>4, NobodyMoves, FunctionsOfEvents DEF Shows
  <2>2. event[e].attempts = 0
    BY <1>4 DEF PolarIInv, RowsFit, RowFits
  <2>3. \A f \in Event : /\ event'[f].status = IF f = e THEN "processing" ELSE event[f].status
                         /\ event'[f].attempts = IF f = e THEN 1 ELSE event[f].attempts
    BY <1>1, <1>4 DEF PolarIInv, PolarTypeOK, Row
  <2>4. /\ Status' = [Status EXCEPT ![e] = "processing"]
        /\ Attempts' = [Attempts EXCEPT ![e] = @ + 1]
    <3>1. Status' = [f \in Event |-> IF f = e THEN "processing" ELSE event[f].status]
      BY <2>3 DEF Status
    <3>2. Attempts' = [f \in Event |-> IF f = e THEN 1 ELSE event[f].attempts]
      BY <2>3 DEF Attempts
    <3>3. Attempts[e] + 1 = 1
      BY <2>2 DEF Attempts
    <3>4. QED
      BY <3>1, <3>2, <3>3 DEF Status, Attempts
  <2>5. Log!Call(e, d)
    BY <1>1, <1>2, <1>4, <2>1, <2>4 DEF Log!Call, Status, Attempts, Calls, Owed
  <2>6. QED
    BY <2>5 DEF Log!LogNext
<1>5. CASE /\ delivery' = [delivery EXCEPT ![d] = [pc |-> "find", event |-> e]]
           /\ UNCHANGED event
  <2>1. Calls' = Calls /\ Owed' = Owed
    BY <1>2, <1>3, <1>5, NobodyMoves, FunctionsOfEvents DEF Shows
  <2>2. QED
    BY <1>1, <1>5, <2>1, LogStutters
<1>6. QED
  BY <1>4, <1>5 DEF Post

\* Looking an event up shows in nothing.
LEMMA FindStutters ==
  ASSUME PolarIInv, NEW d \in Delivery, Find(d)
  PROVE  UNCHANGED Log!logVars
<1>1. PICK e \in Event : e = delivery[d].event
  BY DeliveryHasEvent DEF Find
<1>2. PICK pc \in {"reclaim", "idle"} :
        /\ pc = "idle" => delivery' = [delivery EXCEPT ![d] = Idle]
        /\ pc # "idle" => Goto(d, pc)
  BY DEF Find, Answered
<1>3. d \notin Calls[e] /\ d \notin Owed[e]
  BY <1>1, WhoCalls DEF Find
<1>4. delivery[d].pc # "idle"
  BY DEF Find
<1>5. /\ Calls' = [Calls EXCEPT ![e] = @ \ {d}]
      /\ Owed' = [Owed EXCEPT ![e] = @ \ {d}]
  BY <1>1, <1>2, <1>4, GoesOn DEF Shows
<1>6. Calls' = Calls /\ Owed' = Owed
  BY <1>3, <1>5, NobodyMoves, FunctionsOfEvents
<1>7. QED
  BY <1>6, LogStutters DEF Find

\* Taking an event over begins another call, after a lapse.
LEMMA ReclaimIsCall ==
  ASSUME PolarIInv, NEW d \in Delivery, Reclaim(d)
  PROVE  [Log!LogNext]_(Log!logVars)
<1>1. PICK e \in Event : e = delivery[d].event
  BY DeliveryHasEvent DEF Reclaim
<1>2. /\ d \notin Calls[e] /\ d \notin Owed[e] /\ e \in lapsed
      /\ delivery[d].pc # "idle" /\ UNCHANGED <<handled, lapsed>>
  BY <1>1, WhoCalls DEF Reclaim, PolarIInv, DeliveriesFit, DeliveryFits
<1>3. /\ Calls' = [Calls EXCEPT ![e] = @ \union {d}]
      /\ Owed' = [Owed EXCEPT ![e] = @ \ {d}]
  <2>1. Shows(d, e, "handle")
    BY <1>1, <1>2, GoesOn DEF Reclaim
  <2>2. QED
    BY <2>1 DEF Shows
<1>4. Owed' = Owed
  BY <1>2, <1>3, NobodyMoves, FunctionsOfEvents
<1>5. \A f \in Event : event[f] \in Row
  BY DEF PolarIInv, PolarTypeOK
<1>6. \A f \in Event : /\ event'[f].status = IF f = e THEN "processing" ELSE event[f].status
                       /\ event'[f].attempts = IF f = e THEN event[f].attempts + 1
                                                        ELSE event[f].attempts
  BY <1>1, <1>5 DEF Reclaim, PolarIInv, PolarTypeOK, Row
<1>7. /\ Status' = [Status EXCEPT ![e] = "processing"]
      /\ Attempts' = [Attempts EXCEPT ![e] = @ + 1]
  BY <1>6 DEF Status, Attempts
<1>8. Log!Call(e, d)
  BY <1>2, <1>3, <1>4, <1>7 DEF Log!Call, Status, Attempts, Calls, Owed
<1>9. QED
  BY <1>8 DEF Log!LogNext

\* The handler throws or returns: its call ends, and its outcome is owed.
LEMMA HandlerEndIsReturn ==
  ASSUME PolarIInv, NEW d \in Delivery, HandlerThrows(d) \/ HandlerReturns(d)
  PROVE  [Log!LogNext]_(Log!logVars)
<1>1. PICK e \in Event : e = delivery[d].event
  BY DeliveryHasEvent DEF HandlerThrows, HandlerReturns
<1>2. /\ d \in Calls[e] /\ delivery[d].pc # "idle" /\ UNCHANGED <<event, lapsed>>
      /\ handled' \in {handled, [handled EXCEPT ![e] = @ + 1]}
  BY <1>1, WhoCalls DEF HandlerThrows, HandlerReturns
<1>3. PICK pc \in {"markProcessed", "markFailed"} : Goto(d, pc)
  BY DEF HandlerThrows, HandlerReturns
<1>4. /\ Calls' = [Calls EXCEPT ![e] = @ \ {d}]
      /\ Owed' = [Owed EXCEPT ![e] = @ \union {d}]
  BY <1>1, <1>2, <1>3, GoesOn DEF Shows
<1>5. Status' = Status /\ Attempts' = Attempts
  BY <1>2 DEF Status, Attempts
<1>6. Log!Return(e, d)
  BY <1>2, <1>4, <1>5 DEF Log!Return, Status, Attempts, Calls, Owed
<1>7. QED
  BY <1>6 DEF Log!LogNext

\* A success that cannot be written is still owed, as a failure.
LEMMA MarkProcessedThrowsStutters ==
  ASSUME PolarIInv, NEW d \in Delivery, MarkProcessedThrows(d)
  PROVE  UNCHANGED Log!logVars
<1>1. PICK e \in Event : e = delivery[d].event
  BY DeliveryHasEvent DEF MarkProcessedThrows
<1>2. d \notin Calls[e] /\ d \in Owed[e]
  BY <1>1, WhoCalls DEF MarkProcessedThrows
<1>3. /\ Calls' = [Calls EXCEPT ![e] = @ \ {d}]
      /\ Owed' = [Owed EXCEPT ![e] = @ \union {d}]
  BY <1>1, GoesOn DEF MarkProcessedThrows, Shows
<1>4. Calls' = Calls /\ Owed' = Owed
  BY <1>2, <1>3, NobodyMoves, FunctionsOfEvents
<1>5. QED
  BY <1>4, LogStutters DEF MarkProcessedThrows

\* Writing an outcome records it.
LEMMA MarkIsRecord ==
  ASSUME PolarIInv, NEW d \in Delivery, MarkProcessed(d) \/ MarkFailed(d)
  PROVE  [Log!LogNext]_(Log!logVars)
<1>1. PICK e \in Event : e = delivery[d].event
  BY DeliveryHasEvent DEF MarkProcessed, MarkFailed
<1>2. /\ d \in Owed[e] /\ d \notin Calls[e] /\ delivery[d].pc # "idle"
      /\ delivery' = [delivery EXCEPT ![d] = Idle] /\ UNCHANGED handled
  BY <1>1, WhoCalls DEF MarkProcessed, MarkFailed, Answered
<1>3. /\ Calls' = [Calls EXCEPT ![e] = @ \ {d}]
      /\ Owed' = [Owed EXCEPT ![e] = @ \ {d}]
  <2>1. Shows(d, e, "idle")
    BY <1>1, <1>2, GoesOn
  <2>2. QED
    BY <2>1 DEF Shows
<1>4. Calls' = Calls
  BY <1>2, <1>3, NobodyMoves, FunctionsOfEvents
<1>5. \A f \in Event : event[f] \in Row
  BY DEF PolarIInv, PolarTypeOK
<1>6. ASSUME NEW status,
             \A f \in Event : /\ event'[f].status = IF f = e THEN status ELSE event[f].status
                              /\ event'[f].attempts = event[f].attempts
      PROVE  Log!Record(e, d, status)
  <2>1. Status' = [Status EXCEPT ![e] = status] /\ Attempts' = Attempts
    BY <1>6 DEF Status, Attempts
  <2>2. QED
    BY <1>2, <1>3, <1>4, <2>1 DEF Log!Record, Status, Attempts, Calls, Owed
<1>7. CASE MarkProcessed(d)
  <2>1. \A f \in Event :
          /\ event'[f].status = IF f = e THEN "processed" ELSE event[f].status
          /\ event'[f].attempts = event[f].attempts
    BY <1>1, <1>5, <1>7 DEF MarkProcessed, PolarIInv, PolarTypeOK, Row
  <2>2. handled[e] > 0 /\ UNCHANGED lapsed
    BY <1>1, <1>7 DEF MarkProcessed, PolarIInv, DeliveriesFit, DeliveryFits
  <2>3. Log!RecordSuccess(e, d)
    BY <1>6, <2>1, <2>2 DEF Log!RecordSuccess
  <2>4. QED
    BY <2>3 DEF Log!LogNext
<1>8. CASE MarkFailed(d)
  <2>1. \A f \in Event :
          /\ event'[f].status = IF f = e THEN "failed" ELSE event[f].status
          /\ event'[f].attempts = event[f].attempts
    BY <1>1, <1>5, <1>8 DEF MarkFailed, PolarIInv, PolarTypeOK, Row
  <2>2. lapsed' = lapsed \union {e}
    BY <1>1, <1>8 DEF MarkFailed
  <2>3. Log!RecordFailure(e, d)
    BY <1>6, <2>1, <2>2 DEF Log!RecordFailure
  <2>4. QED
    BY <2>3 DEF Log!LogNext
<1>9. QED
  BY <1>7, <1>8

\* A delivery that dies in a call, or before its outcome is written, owes it no more.
LEMMA AbortIsDie ==
  ASSUME PolarIInv, NEW d \in Delivery, Abort(d)
  PROVE  [Log!LogNext]_(Log!logVars)
<1>1. PICK e \in Event : e = delivery[d].event
  BY DeliveryHasEvent DEF Abort
<1>2. /\ delivery' = [delivery EXCEPT ![d] = Idle] /\ delivery[d].pc # "idle"
      /\ UNCHANGED <<event, handled, lapsed>>
  BY DEF Abort, Answered
<1>3. /\ Calls' = [Calls EXCEPT ![e] = @ \ {d}]
      /\ Owed' = [Owed EXCEPT ![e] = @ \ {d}]
  <2>1. Shows(d, e, "idle")
    BY <1>1, <1>2, GoesOn
  <2>2. QED
    BY <2>1 DEF Shows
<1>4. CASE d \in Calls[e] \union Owed[e]
  <2>1. Status' = Status /\ Attempts' = Attempts
    BY <1>2 DEF Status, Attempts
  <2>2. Log!Die(e, d)
    BY <1>2, <1>3, <1>4, <2>1 DEF Log!Die, Status, Attempts, Calls, Owed
  <2>3. QED
    BY <2>2 DEF Log!LogNext
<1>5. CASE d \notin Calls[e] \union Owed[e]
  <2>1. Calls' = Calls /\ Owed' = Owed
    BY <1>3, <1>5, NobodyMoves, FunctionsOfEvents
  <2>2. QED
    BY <1>2, <2>1, LogStutters
<1>6. QED
  BY <1>4, <1>5

\* A row that is overdue was given up.
LEMMA OverdueIsGiveUp ==
  ASSUME PolarIInv, NEW e \in Event, Overdue(e)
  PROVE  [Log!LogNext]_(Log!logVars)
<1>1. \A f \in Event : event[f] \in Row
  BY DEF PolarIInv, PolarTypeOK
<1>2. \A f \in Event : /\ event'[f].status = event[f].status
                       /\ event'[f].attempts = event[f].attempts
  BY <1>1 DEF Overdue, PolarIInv, PolarTypeOK, Row
<1>3. Status' = Status /\ Attempts' = Attempts
  BY <1>2 DEF Status, Attempts
<1>4. Calls' = Calls /\ Owed' = Owed
  BY DEF Overdue, Calls, Owed, Running, Handling
<1>5. Log!GiveUp(e)
  BY <1>3, <1>4 DEF Overdue, Log!GiveUp, Status, Attempts, Calls, Owed
<1>6. QED
  BY <1>5 DEF Log!LogNext

\* However deliveries of events overlap, take over from each other, fail and die,
\* an event's handler is called once, and again only after a failure or a timeout;
\* attemptCount counts every call, and "processed" is written only after one returned.
THEOREM PolarImplementsEventLog == PolarSpec => EventLogKept
<1>1. PolarInit => Log!LogInit
  <2> SUFFICES ASSUME PolarInit
               PROVE  Log!LogInit
    OBVIOUS
  <2>1. \A e \in Event : /\ event[e].status = "none" /\ event[e].attempts = 0
                         /\ Running(e) = {} /\ Handling(e) \ Running(e) = {}
    BY DEF PolarInit, Running, Handling, Idle, Claimed
  <2>2. QED
    BY <2>1 DEF PolarInit, Log!LogInit
<1>2. PolarIInv /\ [PolarNext]_polarVars => [Log!LogNext]_(Log!logVars)
  <2> SUFFICES ASSUME PolarIInv, [PolarNext]_polarVars
               PROVE  [Log!LogNext]_(Log!logVars)
    OBVIOUS
  <2>1. ASSUME NEW d \in Delivery, DeliveryStep(d) \/ Abort(d)
        PROVE  [Log!LogNext]_(Log!logVars)
    BY <2>1, FindStutters, ReclaimIsCall, HandlerEndIsReturn, MarkProcessedThrowsStutters,
       MarkIsRecord, AbortIsDie DEF DeliveryStep
  <2>2. CASE PolarNext
    BY <2>1, <2>2, PostIsCall, OverdueIsGiveUp DEF PolarNext
  <2>3. CASE UNCHANGED polarVars
    <3>1. Calls' = Calls /\ Owed' = Owed
      BY <2>3 DEF polarVars, Calls, Owed, Running, Handling
    <3>2. QED
      BY <2>3, <3>1, LogStutters DEF polarVars
  <2>4. QED
    BY <2>2, <2>3
<1>3. QED
  BY <1>1, <1>2, PolarInvariance, PTL DEF PolarSpec, EventLogKept, Log!LogSpec

\* An event that has not lapsed has had one call at most, which has not returned while
\* it runs; one that is not in the log has had none.
LogIInv ==
  /\ Attempts \in [Event -> Nat] /\ handled \in [Event -> Nat]
  /\ \A e \in Event : Status[e] = "processed" => handled[e] > 0
  /\ \A e \in Event \ lapsed :
       /\ Attempts[e] <= 1 /\ handled[e] <= 1
       /\ \A v, w \in Calls[e] : v = w
       /\ Calls[e] # {} => handled[e] = 0
       /\ Status[e] = "none" =>
            Calls[e] = {} /\ Owed[e] = {} /\ Attempts[e] = 0 /\ handled[e] = 0

\* Whoever keeps to the event log, and be it not PolarWebhook, calls the handler of an
\* event once at most until the event has failed or was given up, and calls no event
\* processed without a call that returned.
THEOREM LogHandlesOnce == EventLogKept => []Log!HandledOnce
<1>1. Log!LogInit => LogIInv
  BY DEF Log!LogInit, LogIInv, Status, Attempts, Calls, Owed
<1>2. LogIInv /\ [Log!LogNext]_(Log!logVars) => LogIInv'
  <2> SUFFICES ASSUME LogIInv, [Log!LogNext]_(Log!logVars)
               PROVE  LogIInv'
    OBVIOUS
  <2>1. ASSUME NEW e \in Event, NEW w \in Delivery, Log!Call(e, w)
        PROVE  LogIInv'
    <3>1. Status = [f \in Event |-> Status[f]] /\ Attempts = [f \in Event |-> Attempts[f]]
      BY DEF Status, Attempts
    <3>2. /\ Status[e] = "none" \/ e \in lapsed
          /\ Status' = [Status EXCEPT ![e] = "processing"]
          /\ Attempts' = [Attempts EXCEPT ![e] = @ + 1]
          /\ Calls' = [Calls EXCEPT ![e] = @ \union {w}]
          /\ Owed' = Owed /\ UNCHANGED <<handled, lapsed>>
      BY <2>1 DEF Log!Call, Status, Attempts, Calls, Owed
    <3>3. \A f \in Event \ {e} :
            /\ Status'[f] = Status[f] /\ Attempts'[f] = Attempts[f]
            /\ Calls'[f] = Calls[f] /\ Owed'[f] = Owed[f]
      BY <3>1, <3>2, FunctionsOfEvents
    <3>4. /\ Status'[e] = "processing" /\ Attempts'[e] = Attempts[e] + 1
          /\ Calls'[e] = Calls[e] \union {w}
      BY <3>1, <3>2, FunctionsOfEvents
    <3>5. Attempts' \in [Event -> Nat]
      BY <3>2 DEF LogIInv
    <3>6. e \notin lapsed => Attempts'[e] = 1 /\ Calls'[e] = {w} /\ handled[e] = 0
      BY <3>2, <3>4 DEF LogIInv
    <3> QED BY <3>2, <3>3, <3>4, <3>5, <3>6 DEF LogIInv
  <2>2. ASSUME NEW e \in Event, NEW w \in Delivery, Log!Return(e, w)
        PROVE  LogIInv'
    <3>1. /\ w \in Calls[e]
          /\ Calls' = [Calls EXCEPT ![e] = @ \ {w}]
          /\ Owed' = [Owed EXCEPT ![e] = @ \union {w}]
          /\ handled' \in {handled, [handled EXCEPT ![e] = @ + 1]}
          /\ Status' = Status /\ Attempts' = Attempts /\ UNCHANGED lapsed
      BY <2>2 DEF Log!Return, Status, Attempts, Calls, Owed
    <3>2. \A f \in Event \ {e} :
            Calls'[f] = Calls[f] /\ Owed'[f] = Owed[f] /\ handled'[f] = handled[f]
      BY <3>1, FunctionsOfEvents DEF LogIInv
    <3>3. Calls'[e] = Calls[e] \ {w} /\ handled'[e] \in {handled[e], handled[e] + 1}
      BY <3>1, FunctionsOfEvents DEF LogIInv
    <3>4. handled' \in [Event -> Nat] /\ handled'[e] >= handled[e]
      BY <3>1 DEF LogIInv
    <3>5. e \notin lapsed => /\ Calls'[e] = {} /\ handled'[e] <= 1 /\ Status[e] # "none"
      BY <3>1, <3>3 DEF LogIInv
    <3>6. Status[e] = "processed" => handled'[e] > 0
      BY <3>4 DEF LogIInv
    <3> QED BY <3>1, <3>2, <3>4, <3>5, <3>6 DEF LogIInv
  <2>3. ASSUME NEW e \in Event, NEW w \in Delivery,
               Log!RecordSuccess(e, w) \/ Log!RecordFailure(e, w)
        PROVE  LogIInv'
    <3>1. /\ w \in Owed[e]
          /\ Owed' = [Owed EXCEPT ![e] = @ \ {w}]
          /\ \/ handled[e] > 0 /\ Status' = [Status EXCEPT ![e] = "processed"]
             \/ Status' = [Status EXCEPT ![e] = "failed"]
          /\ Attempts' = Attempts /\ Calls' = Calls /\ UNCHANGED handled
          /\ lapsed \subseteq lapsed'
      BY <2>3 DEF Log!RecordSuccess, Log!RecordFailure, Log!Record, Status, Attempts, Calls, Owed
    <3>2. Status = [f \in Event |-> Status[f]]
      BY DEF Status
    <3>3. \A f \in Event \ {e} : Owed'[f] = Owed[f] /\ Status'[f] = Status[f]
      BY <3>1, <3>2, FunctionsOfEvents
    <3>4. Status'[e] # "none" /\ (Status'[e] = "processed" => handled[e] > 0)
      BY <3>1, <3>2
    <3> QED BY <3>1, <3>3, <3>4 DEF LogIInv
  <2>4. ASSUME NEW e \in Event, NEW w \in Delivery, Log!Die(e, w)
        PROVE  LogIInv'
    <3>1. /\ Calls' = [Calls EXCEPT ![e] = @ \ {w}]
          /\ Owed' = [Owed EXCEPT ![e] = @ \ {w}]
          /\ Status' = Status /\ Attempts' = Attempts /\ UNCHANGED <<handled, lapsed>>
      BY <2>4 DEF Log!Die, Status, Attempts, Calls, Owed
    <3> QED BY <3>1, FunctionsOfEvents DEF LogIInv
  <2>5. CASE UNCHANGED Log!logVars \/ \E e \in Event : Log!GiveUp(e)
    <3>1. /\ Calls' = Calls /\ Owed' = Owed /\ Status' = Status /\ Attempts' = Attempts
          /\ UNCHANGED handled /\ lapsed \subseteq lapsed'
      BY <2>5 DEF Log!GiveUp, Log!logVars, Status, Attempts, Calls, Owed
    <3> QED BY <3>1 DEF LogIInv
  <2> QED BY <2>1, <2>2, <2>3, <2>4, <2>5 DEF Log!LogNext
<1>3. LogIInv => Log!HandledOnce
  BY DEF LogIInv, Log!HandledOnce, Status, Attempts
<1> QED BY <1>1, <1>2, <1>3, PTL DEF EventLogKept, Log!LogSpec
===============================================================================
