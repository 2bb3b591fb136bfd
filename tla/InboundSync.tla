------------------------------ MODULE InboundSync ------------------------------
(***************************************************************************)
(* Receiving mail: MailService.syncMailbox (called for a user, for the     *)
(* admin and by startInboundSyncWorker), createMailbox, disableMailbox,    *)
(* enableMailbox and updateInboundEmail.  The IMAP server is external.     *)
(*                                                                         *)
(* Nothing keeps two syncs of one mailbox apart: requests and worker runs  *)
(* overlap, each with the lastUid it has read, and the mailbox may be      *)
(* disabled or deleted under them.                                         *)
(***************************************************************************)
EXTENDS Integers, Sequences, FiniteSets, SequencesExt

CONSTANTS
  Mailbox,           \* primary keys of mailbox_address rows
  Domain, DomainOf,  \* domains, and the domain a mailbox is created in
  MaxUid,            \* bound: messages delivered to one INBOX
  Request, Run,      \* handlers of requests, and runs of the sync worker
  Batch,             \* "take" of the worker's query
  Filing,            \* bound: the statuses users give a message
  Faults,            \* the faults this instance suffers
  NoMailbox

Handler == Request \union Run
Uid == 1..MaxUid
MailStatus == {"unread", "read", "archived", "deleted"}

ASSUME SyncAssumption ==
  /\ DomainOf \in [Mailbox -> Domain]
  /\ MaxUid \in Nat /\ Batch \in Nat \ {0}
  /\ Request \intersect Run = {}
  /\ Filing \subseteq MailStatus
  /\ Faults \subseteq {"imap", "database", "crash", "expunge"}
  /\ NoMailbox \notin Mailbox

VARIABLES
  domains,  \* the domains that still exist
  mailbox,  \* the mailbox_address rows
  synced,   \* rows with a lastSyncAt, the oldest first
  fresh,    \* rows without one, in the order of createdAt
  inbox,    \* external: the messages of each INBOX by UID
  mail,     \* the inbound_email rows by the mailbox and UID they came from
  handler   \* the request handlers and worker runs in flight

syncVars == <<domains, mailbox, synced, fresh, inbox, mail, handler>>

\* disabledAt is kept as "is it set", a null lastUid as 0.
MailboxRow ==
  [state      : {"unused", "live", "deleted"},
   status     : {"active", "disabled", "sync_failed"},
   disabledAt : BOOLEAN,
   lastUid    : Nat]

NewMailbox(state) ==
  [state |-> state, status |-> "active", disabledAt |-> FALSE, lastUid |-> 0]

\* Local variables of a handler.  A worker run has mailboxes left to sync.
HandlerState ==
  [pc      : {"idle", "next", "fetch", "import", "finish", "fail",
              "create", "disable"},
   queue   : Seq(Mailbox),
   mailbox : Mailbox \union {NoMailbox},
   lastUid : Nat,
   todo    : SUBSET Uid]    \* messages of the FETCH answer not yet handled

IdleHandler ==
  [pc |-> "idle", queue |-> <<>>, mailbox |-> NoMailbox, lastUid |-> 0, todo |-> {}]

Live(m) == mailbox[m].state = "live"
At(h, pc) == handler[h].pc = pc
Disabled(m) == mailbox[m].disabledAt \/ mailbox[m].status = "disabled"

SyncInit ==
  /\ domains = Domain
  /\ mailbox = [m \in Mailbox |-> NewMailbox("unused")]
  /\ synced = <<>>
  /\ fresh = <<>>
  /\ inbox = [m \in Mailbox |-> [u \in Uid |-> "none"]]
  /\ mail = [m \in Mailbox |-> [u \in Uid |-> "none"]]
  /\ handler = [h \in Handler |-> IdleHandler]

-----------------------------------------------------------------------------
(***************************************************************************)
(* Mailbox rows: createMailbox and disableMailbox await the mail engine    *)
(* (whose answer is not kept here) between their read and their write.     *)
(***************************************************************************)
BeginCreate(h, m) ==
  /\ At(h, "idle")
  /\ mailbox[m].state = "unused" /\ DomainOf[m] \in domains
  /\ \A g \in Handler : handler[g].mailbox # m
  /\ handler' = [handler EXCEPT ![h] = [IdleHandler EXCEPT !.pc = "create", !.mailbox = m]]
  /\ UNCHANGED <<domains, mailbox, synced, fresh, inbox, mail>>

\* The insert fails if the address is taken, or if the domain is gone.
FinishCreate(h) ==
  LET m == handler[h].mailbox
  IN  /\ At(h, "create")
      /\ handler' = [handler EXCEPT ![h] = IdleHandler]
      /\ \/ UNCHANGED <<mailbox, fresh>>
         \/ /\ DomainOf[m] \in domains
            /\ mailbox' = [mailbox EXCEPT ![m] = NewMailbox("live")]
            /\ fresh' = Append(fresh, m)
      /\ UNCHANGED <<domains, synced, inbox, mail>>

BeginDisable(h, m) ==
  /\ At(h, "idle")
  /\ Live(m)
  /\ handler' = [handler EXCEPT ![h] = [IdleHandler EXCEPT !.pc = "disable", !.mailbox = m]]
  /\ UNCHANGED <<domains, mailbox, synced, fresh, inbox, mail>>

FinishDisable(h) ==
  LET m == handler[h].mailbox
  IN  /\ At(h, "disable")
      /\ handler' = [handler EXCEPT ![h] = IdleHandler]
      /\ mailbox' = IF Live(m)
                    THEN [mailbox EXCEPT ![m].status = "disabled", ![m].disabledAt = TRUE]
                    ELSE mailbox
      /\ UNCHANGED <<domains, synced, fresh, inbox, mail>>

EnableMailbox(m) ==
  /\ Live(m)
  /\ mailbox' = [mailbox EXCEPT ![m].status = "active", ![m].disabledAt = FALSE]
  /\ UNCHANGED <<domains, synced, fresh, inbox, mail, handler>>

\* Deleting a domain deletes its mailboxes; the mail keeps its rows, detached.
DeleteDomain(d) ==
  LET Gone(m) == DomainOf[m] = d /\ Live(m)
      Kept(m) == ~Gone(m)
  IN  /\ d \in domains
      /\ domains' = domains \ {d}
      /\ mailbox' = [m \in Mailbox |-> IF Gone(m) THEN NewMailbox("deleted") ELSE mailbox[m]]
      /\ synced' = SelectSeq(synced, Kept)
      /\ fresh' = SelectSeq(fresh, Kept)
      /\ UNCHANGED <<inbox, mail, handler>>

\* updateInboundEmail: the user files a message.
UpdateInboundEmail(m, u, status) ==
  /\ mail[m][u] # "none"
  /\ mail' = [mail EXCEPT ![m][u] = status]
  /\ UNCHANGED <<domains, mailbox, synced, fresh, inbox, handler>>

-----------------------------------------------------------------------------
(***************************************************************************)
(* External: the IMAP server gives messages ascending UIDs; another mail   *)
(* client may expunge one, also after FETCH has listed it.                 *)
(***************************************************************************)
Deliver(m, u) ==
  /\ inbox[m][u] = "none"
  /\ \A v \in 1..(u - 1) : inbox[m][v] # "none"
  /\ inbox' = [inbox EXCEPT ![m][u] = "mail"]
  /\ UNCHANGED <<domains, mailbox, synced, fresh, mail, handler>>

Expunge(m, u) ==
  /\ "expunge" \in Faults
  /\ inbox[m][u] = "mail"
  /\ inbox' = [inbox EXCEPT ![m][u] = "gone"]
  /\ UNCHANGED <<domains, mailbox, synced, fresh, mail, handler>>

\* FETCH lastUid+1:* lists the newer messages, and the newest one when there is
\* none: in "n:*" the star stands for the greatest UID in use.
Listed(m, lastUid) ==
  LET held == {u \in Uid : inbox[m][u] = "mail"}
  IN  {u \in held : u > lastUid \/ \A v \in held : v <= u}

-----------------------------------------------------------------------------
(***************************************************************************)
(* A sync starts from a request or from the worker's timer.  The worker    *)
(* takes the rows with the oldest lastSyncAt; PostgreSQL sorts null last.  *)
(***************************************************************************)
BeginSync(h, m) ==
  /\ At(h, "idle")
  /\ Live(m)
  /\ handler' = [handler EXCEPT ![h] = [IdleHandler EXCEPT !.pc = "next", !.queue = <<m>>]]
  /\ UNCHANGED <<domains, mailbox, synced, fresh, inbox, mail>>

Eligible(m) ==
  Live(m) /\ mailbox[m].status \in {"active", "sync_failed"} /\ ~mailbox[m].disabledAt

\* The eligible rows in the order of the query, until there are "take" of them.
WorkerBatch(queue) ==
  LET rows == synced \o fresh
      Earlier(m, n) == \E i, j \in DOMAIN rows : i < j /\ rows[i] = m /\ rows[j] = n
  IN  /\ \A i, j \in DOMAIN queue : i < j => Earlier(queue[i], queue[j])
      /\ \A m \in Mailbox :
           IF Contains(queue, m) THEN Eligible(m)
           ELSE Eligible(m) => /\ Len(queue) = Batch
                               /\ \A i \in DOMAIN queue : Earlier(queue[i], m)

WorkerTick(h) ==
  /\ At(h, "idle")
  /\ \E queue \in BoundedSeq(Mailbox, Batch) :
       /\ WorkerBatch(queue)
       /\ handler' = [handler EXCEPT ![h] = [IdleHandler EXCEPT !.pc = "next", !.queue = queue]]
  /\ UNCHANGED <<domains, mailbox, synced, fresh, inbox, mail>>

\* Mutant: only the status column is looked at.
MaySyncByStatus(m) == Live(m) /\ mailbox[m].status # "disabled"

\* syncMailbox reads the row again: gone or disabled, it is refused (404, 403).
MaySync(m) == Live(m) /\ ~Disabled(m)

\* Mutant: the worker's loop has no try and ends at the first refusal.
RefusedStops(h) == IdleHandler

\* A request ends with its refusal, a worker run goes on with the next mailbox.
Refused(h) == [IdleHandler EXCEPT !.pc = "next", !.queue = Tail(handler[h].queue)]

StartMailbox(h) ==
  LET queue == handler[h].queue
      m == Head(queue)
  IN  /\ At(h, "next")
      /\ handler' = [handler EXCEPT ![h] =
           IF queue = <<>> THEN IdleHandler
           ELSE IF MaySync(m)
           THEN [IdleHandler EXCEPT !.pc = "fetch", !.queue = Tail(queue),
                                    !.mailbox = m, !.lastUid = mailbox[m].lastUid]
           ELSE Refused(h)]
      /\ UNCHANGED <<domains, mailbox, synced, fresh, inbox, mail>>

Fetch(h) ==
  /\ At(h, "fetch")
  /\ \/ handler' = [handler EXCEPT ![h].pc = "import",
                                   ![h].todo = Listed(handler[h].mailbox, handler[h].lastUid)]
     \/ /\ "imap" \in Faults
        /\ handler' = [handler EXCEPT ![h].pc = "fail"]
  /\ UNCHANGED <<domains, mailbox, synced, fresh, inbox, mail>>

\* Mutant: messages already seen are left out.
ImportedIfUnseen(row, status) ==
  IF row = "none" /\ status = "unread" THEN status ELSE row

\* Mutant: the upsert also updates.
ImportedAgain(row, status) == status

\* The upsert: creates the row with the message's \Seen flag, or (update: {})
\* leaves the one that is there.
Imported(row, status) == IF row = "none" THEN status ELSE row

\* Messages come in ascending order; one without a source, or not newer, is
\* passed over.  Without a mailbox row the insert breaks its foreign key.
ImportNext(h) ==
  LET m == handler[h].mailbox
      todo == handler[h].todo
      Skip(u) == u <= handler[h].lastUid \/ inbox[m][u] = "gone"
  IN  /\ At(h, "import")
      /\ \E u \in todo :
           /\ \A v \in todo : u <= v
           /\ \/ /\ Skip(u)
                 /\ handler' = [handler EXCEPT ![h].todo = @ \ {u}]
                 /\ UNCHANGED mail
              \/ /\ u > handler[h].lastUid
                 /\ Live(m)
                 /\ \E status \in {"unread", "read"} :
                      mail' = [mail EXCEPT ![m][u] = Imported(@, status)]
                 /\ handler' = [handler EXCEPT ![h].todo = @ \ {u}, ![h].lastUid = u]
              \/ /\ u > handler[h].lastUid
                 /\ ~Live(m) \/ "database" \in Faults
                 /\ handler' = [handler EXCEPT ![h].pc = "fail"]
                 /\ UNCHANGED mail
      /\ UNCHANGED <<domains, mailbox, synced, fresh, inbox>>

\* The fetch is through; logout, which may fail like any IMAP call.
CloseImap(h) ==
  /\ At(h, "import")
  /\ handler[h].todo = {}
  /\ \E pc \in {"finish"} \union (IF "imap" \in Faults THEN {"fail"} ELSE {}) :
       handler' = [handler EXCEPT ![h].pc = pc]
  /\ UNCHANGED <<domains, mailbox, synced, fresh, inbox, mail>>

\* An update of a sync stamps lastSyncAt: the row becomes the newest of all.
Stamped(m) ==
  LET Other(n) == n # m
  IN  /\ synced' = Append(SelectSeq(synced, Other), m)
      /\ fresh' = SelectSeq(fresh, Other)

MailboxDone(h) ==
  [handler EXCEPT ![h] = [IdleHandler EXCEPT !.pc = "next", !.queue = handler[h].queue]]

\* The final update; it throws on a deleted row, into the same catch.
FinishSync(h) ==
  LET m == handler[h].mailbox
  IN  /\ At(h, "finish")
      /\ \/ /\ Live(m)
            /\ mailbox' = [mailbox EXCEPT ![m].lastUid = handler[h].lastUid,
                                          ![m].status = "active"]
            /\ Stamped(m)
            /\ handler' = MailboxDone(h)
         \/ /\ ~Live(m) \/ "database" \in Faults
            /\ handler' = [handler EXCEPT ![h].pc = "fail"]
            /\ UNCHANGED <<mailbox, synced, fresh>>
      /\ UNCHANGED <<domains, inbox, mail>>

\* The catch block: what was imported stays, lastUid is not advanced.
FailSync(h) ==
  LET m == handler[h].mailbox
  IN  /\ At(h, "fail")
      /\ handler' = MailboxDone(h)
      /\ \/ /\ Live(m)
            /\ mailbox' = [mailbox EXCEPT ![m].status = "sync_failed"]
            /\ Stamped(m)
         \/ /\ ~Live(m) \/ "database" \in Faults
            /\ UNCHANGED <<mailbox, synced, fresh>>
      /\ UNCHANGED <<domains, inbox, mail>>

\* The server restarts: every handler and worker run is lost.
Crash ==
  /\ "crash" \in Faults
  /\ \E h \in Handler : ~At(h, "idle")
  /\ handler' = [h \in Handler |-> IdleHandler]
  /\ UNCHANGED <<domains, mailbox, synced, fresh, inbox, mail>>

-----------------------------------------------------------------------------
HandlerStep(h) ==
  \/ StartMailbox(h)
  \/ Fetch(h)
  \/ ImportNext(h)
  \/ CloseImap(h)
  \/ FinishSync(h)
  \/ FailSync(h)
  \/ FinishCreate(h)
  \/ FinishDisable(h)

SyncNext ==
  \/ \E h \in Request, m \in Mailbox :
       BeginCreate(h, m) \/ BeginDisable(h, m) \/ BeginSync(h, m)
  \/ \E h \in Run : WorkerTick(h)
  \/ \E h \in Handler : HandlerStep(h)
  \/ \E m \in Mailbox : EnableMailbox(m)
  \/ \E d \in Domain : DeleteDomain(d)
  \/ \E m \in Mailbox, u \in Uid, status \in Filing : UpdateInboundEmail(m, u, status)
  \/ \E m \in Mailbox, u \in Uid : Deliver(m, u) \/ Expunge(m, u)
  \/ Crash

SyncSpec == SyncInit /\ [][SyncNext]_syncVars

\* The timer keeps firing, and every IMAP and database call is answered.
SyncFairSpec ==
  /\ SyncSpec
  /\ \A h \in Run : WF_syncVars(WorkerTick(h))
  /\ \A h \in Handler : WF_syncVars(HandlerStep(h))

-----------------------------------------------------------------------------
(***************************************************************************)
(* Properties.                                                             *)
(***************************************************************************)

\* Rows and handler locals have the types of the schema and the code.
SyncTypeOK ==
  /\ domains \subseteq Domain
  /\ mailbox \in [Mailbox -> MailboxRow]
  /\ synced \in Seq(Mailbox) /\ fresh \in Seq(Mailbox)
  /\ inbox \in [Mailbox -> [Uid -> {"none", "mail", "gone"}]]
  /\ mail \in [Mailbox -> [Uid -> MailStatus \union {"none"}]]
  /\ handler \in [Handler -> HandlerState]

\* Every message up to "limit" that is still in the INBOX has an inbound row.
ImportedUpTo(m, limit) ==
  \A u \in Uid : u <= limit /\ inbox[m][u] = "mail" => mail[m][u] # "none"

\* A handler has imported everything up to the cursor it carries, and everything
\* before what it has yet to import.
HandlerCursor(h) ==
  h.pc \in {"fetch", "import", "finish"} =>
    /\ ImportedUpTo(h.mailbox, h.lastUid)
    /\ h.pc = "import" =>
         \A u \in Uid : \A v \in h.todo :
           u <= v /\ u \notin h.todo /\ inbox[h.mailbox][u] = "mail"
             => mail[h.mailbox][u] # "none"

\* No message is lost behind a cursor, neither a handler's nor the stored one:
\* whichever of several overlapping syncs writes lastUid last, everything below
\* it has been imported.
NothingBehindCursor ==
  /\ \A m \in Mailbox : ImportedUpTo(m, mailbox[m].lastUid)
  /\ \A h \in Handler : HandlerCursor(handler[h])

\* A message the user has read, archived or deleted is not put back by a later
\* or overlapping sync: a row changes only in a step that runs no handler.
UserFilingSticks ==
  [][\A m \in Mailbox, u \in Uid :
       mail[m][u] # "none" /\ mail'[m][u] # mail[m][u] => UNCHANGED handler]_syncVars

\* However syncs overlap, fail and die, a mailbox is kept as the MailArchive promises:
\* no gap and nothing twice, rows that only their user changes, no cursor before its
\* messages, and nothing written for a mailbox that is gone.
Archive == INSTANCE MailArchive WITH
  Sync <- Handler,
  state <- [m \in Mailbox |-> mailbox[m].state],
  row <- mail,
  cursor <- [m \in Mailbox |-> mailbox[m].lastUid],
  sync <- [h \in Handler |->
             IF handler[h].pc \in {"fetch", "import", "finish"}
             THEN [mailbox |-> handler[h].mailbox, upTo |-> handler[h].lastUid]
             ELSE [mailbox |-> NoMailbox, upTo |-> 0]]
ArchiveKept == Archive!ArchiveSpec

\* Once a mailbox is disabled and the syncs under way have ended, none starts
\* again before it is enabled, however old the worker's batch is.
Syncing(h, m) == h.mailbox = m /\ h.pc \in {"fetch", "import", "finish", "fail"}

DisabledStaysQuiet ==
  [][\A m \in Mailbox :
       /\ Disabled(m) /\ Disabled(m)'
       /\ \A h \in Handler : ~Syncing(handler[h], m)
       => \A h \in Handler : ~Syncing(handler'[h], m)]_syncVars

\* A delivered message reaches the inbox unless its mailbox is disabled or
\* deleted, or the message expunged, first.
MailArrives ==
  \A m \in Mailbox, u \in Uid :
    inbox[m][u] = "mail" /\ Eligible(m)
      ~> mail[m][u] # "none" \/ ~Eligible(m) \/ inbox[m][u] = "gone"

\* Waiting for the worker is enough for a new mailbox, if none is disabled.
NewMailboxGetsSynced ==
  \A m \in Mailbox :
    m \in {fresh[i] : i \in DOMAIN fresh}
      ~> \/ m \notin {fresh[i] : i \in DOMAIN fresh}
         \/ \E n \in Mailbox : Disabled(n)
=============================================================================
