----------------------------- MODULE Notifications -----------------------------
(***************************************************************************)
(* From a feedback that is submitted to the bell in the header of an       *)
(* administrator: submitFeedback stores it, looks up who is to know and    *)
(* writes a notification for each; a page of the dashboard opens a web     *)
(* socket, is sent the latest notifications, and is sent them again after  *)
(* each message it sends.  The server handles the messages of a socket as  *)
(* they come, each with awaits of its own; a notification has a link, so   *)
(* that a click on it marks it as read and leaves the page.                *)
(***************************************************************************)
EXTENDS Integers, Sequences, FiniteSets

CONSTANTS
  MaxFeedback, \* bound: submissions
  Admin,       \* users who are or may become administrators
  Reader,      \* the one whose bell this is
  ListSize,    \* notifications in a list, 20
  MaxPages,    \* bound: pages the reader opens
  MaxSubmits,  \* bound: submissions handled at a time
  MaxTroubles  \* bound: changes of administrators and calls of the database that fail

ASSUME NotificationAssumption ==
  /\ Reader \in Admin
  /\ ListSize \in Nat \ {0} /\ MaxPages \in Nat \ {0} /\ MaxSubmits \in Nat \ {0}
  /\ {MaxFeedback, MaxTroubles} \subseteq Nat

VARIABLES
  user,        \* user rows
  admins,      \* those with the role platform.admin or platform.owner
  submit,      \* the handlers of submissions
  notes,       \* notification rows: for whom, of which feedback, read or not, in order
  page,        \* the page the reader is at, the last he opened
  sending,     \* messages under way on the socket of a page
  handling,    \* the server's handlers of the messages of sockets
  displayed,       \* the list the page displays
  pending,     \* isPending
  marker,      \* history: the page from which a feedback's notification was marked
  broken,      \* history: on this page a handler failed or the socket was refused
  troubles     \* bound

noteVars == <<user, admins, submit, notes, page, sending, handling, displayed, pending, marker,
              broken, troubles>>
bellVars == <<page, sending, handling, displayed, pending, marker, broken>>

Feedback == 1..MaxFeedback
Note == [to : Admin, of : Feedback, read : BOOLEAN]
NoSubmit == [pc |-> "no", left |-> {}, owed |-> {}]

\* The one sequence of some positions, from the first to the last.
InOrder(places) ==
  {s \in [1..Cardinality(places) -> places] :
     /\ \A p \in places : \E i \in DOMAIN s : s[i] = p
     /\ \A i, j \in DOMAIN s : i < j => s[i] < s[j]}

NoteInit ==
  /\ user = Admin /\ admins \in {A \in SUBSET Admin : Reader \in A}
  /\ submit = [f \in Feedback |-> NoSubmit]
  /\ notes = <<>>
  /\ page = 1 /\ sending = <<>>
  /\ handling = {[page |-> 1, does |-> "open", id |-> 0, pc |-> "read", list |-> <<>>]}
  /\ displayed = <<>> /\ pending = FALSE
  /\ marker = [f \in Feedback |-> 0] /\ broken = FALSE
  /\ troubles = 0

-----------------------------------------------------------------------------
(***************************************************************************)
(* submitFeedback.                                                         *)
(***************************************************************************)
\* The row of the feedback.  owed: the administrators there are, while they stay.
Store(f) ==
  /\ submit[f].pc = "no"
  /\ \A g \in Feedback : g < f => submit[g].pc # "no"
  /\ Cardinality({g \in Feedback : submit[g].pc \in {"stored", "telling"}}) < MaxSubmits
  /\ submit' = [submit EXCEPT ![f] = [pc |-> "stored", left |-> {}, owed |-> admins]]
  /\ UNCHANGED <<user, admins, notes, bellVars, troubles>>

FindAdmins(f) ==
  /\ submit[f].pc = "stored"
  /\ submit' = [submit EXCEPT ![f].pc = "telling", ![f].left = admins]
  /\ UNCHANGED <<user, admins, notes, bellVars, troubles>>

\* Mutant: the answer does not wait for the loop.
NotifySome(f, a) ==
  /\ submit[f].pc = "telling" /\ a \in submit[f].left
  /\ a \in user
  /\ notes' = Append(notes, [to |-> a, of |-> f, read |-> FALSE])
  /\ submit' = [submit EXCEPT ![f].left = @ \ {a}, ![f].pc = "done"]
  /\ UNCHANGED <<user, admins, bellVars, troubles>>

\* One round of the loop.
Notify(f, a) ==
  /\ submit[f].pc = "telling" /\ a \in submit[f].left
  /\ a \in user
  /\ notes' = Append(notes, [to |-> a, of |-> f, read |-> FALSE])
  /\ submit' = [submit EXCEPT ![f].left = @ \ {a}]
  /\ UNCHANGED <<user, admins, bellVars, troubles>>

\* The user of a notification is gone, or the database fails: the loop ends, the
\* feedback stays, and the form says that it was not submitted.
NotifyFails(f) ==
  /\ submit[f].pc = "telling"
  /\ \/ submit[f].left \ user # {} /\ troubles' = troubles
     \/ submit[f].left # {} /\ troubles < MaxTroubles /\ troubles' = troubles + 1
  /\ submit' = [submit EXCEPT ![f].pc = "failed"]
  /\ UNCHANGED <<user, admins, notes, bellVars>>

\* The activity log, whose failures are swallowed, and the answer.
AnswerFeedback(f) ==
  /\ submit[f].pc = "telling" /\ submit[f].left = {}
  /\ submit' = [submit EXCEPT ![f].pc = "done"]
  /\ UNCHANGED <<user, admins, notes, bellVars, troubles>>

\* An administrator gets or loses his role, or is deleted with his notifications.
ChangeRole(a) ==
  /\ troubles < MaxTroubles /\ a # Reader /\ a \in user
  /\ troubles' = troubles + 1
  /\ \/ admins' = admins \union {a} /\ UNCHANGED <<user, submit, notes>>
     \/ /\ admins' = admins \ {a}
        /\ submit' = [f \in Feedback |-> [submit[f] EXCEPT !.owed = @ \ {a}]]
        /\ \/ UNCHANGED <<user, notes>>
           \/ /\ user' = user \ {a}
              /\ \E kept \in InOrder({i \in DOMAIN notes : notes[i].to # a}) :
                   notes' = [i \in DOMAIN kept |-> notes[kept[i]]]
  /\ UNCHANGED bellVars

-----------------------------------------------------------------------------
(***************************************************************************)
(* The page.                                                               *)
(***************************************************************************)
Unread == {i \in DOMAIN displayed : ~displayed[i].read}

MarkAll ==
  /\ Unread # {} /\ ~pending
  /\ pending' = TRUE
  /\ sending' = Append(sending, [page |-> page, does |-> "mark-all-read", id |-> 0])
  /\ UNCHANGED <<user, admins, submit, notes, page, handling, displayed, marker, broken, troubles>>

\* Another page: its socket is opened, and the messages of the last one may have
\* left the browser or not.
Leave(messages) ==
  /\ page < MaxPages
  /\ page' = page + 1
  /\ \E left \in {messages, <<>>} : sending' = left
  /\ handling' = handling \union
       {[page |-> page', does |-> "open", id |-> 0, pc |-> "read", list |-> <<>>]}
  /\ displayed' = <<>> /\ pending' = FALSE /\ broken' = FALSE
  /\ UNCHANGED <<user, admins, submit, notes, marker, troubles>>

\* A click marks a notification and follows its link.
Click(i) ==
  /\ i \in DOMAIN displayed
  /\ Leave(IF displayed[i].read THEN sending
           ELSE Append(sending, [page |-> page, does |-> "mark-read", id |-> displayed[i].of]))

Reload == Leave(sending)

-----------------------------------------------------------------------------
(***************************************************************************)
(* The server.                                                             *)
(***************************************************************************)
\* getForUser: the latest first.
LatestNotes ==
  LET mine == {i \in DOMAIN notes : notes[i].to = Reader}
      latest == {i \in mine : Cardinality({j \in mine : j > i}) < ListSize}
  IN  {[i \in DOMAIN s |-> notes[s[Cardinality(latest) + 1 - i]]] : s \in InOrder(latest)}

Receive ==
  /\ sending # <<>>
  /\ LET m == Head(sending)
     IN  handling' = handling \union
           {[page |-> m.page, does |-> m.does, id |-> m.id, pc |-> "mark", list |-> <<>>]}
  /\ sending' = Tail(sending)
  /\ UNCHANGED <<user, admins, submit, notes, page, displayed, pending, marker, broken, troubles>>

Marks(h, n) == n.to = Reader /\ (h.does = "mark-all-read" \/ h.id = n.of)

\* markAsRead and markAllAsRead.
Mark(h) ==
  /\ h \in handling /\ h.pc = "mark"
  /\ notes' = [i \in DOMAIN notes |->
       IF Marks(h, notes[i]) THEN [notes[i] EXCEPT !.read = TRUE] ELSE notes[i]]
  /\ marker' = [f \in Feedback |->
       IF \E i \in DOMAIN notes : notes[i].of = f /\ Marks(h, notes[i]) /\ ~notes[i].read
       THEN h.page ELSE marker[f]]
  /\ handling' = (handling \ {h}) \union {[h EXCEPT !.pc = "read"]}
  /\ UNCHANGED <<user, admins, submit, page, sending, displayed, pending, broken, troubles>>

ReadNotes(h) ==
  /\ h \in handling /\ h.pc = "read"
  /\ \E list \in LatestNotes :
       handling' = (handling \ {h}) \union {[h EXCEPT !.pc = "send", !.list = list]}
  /\ UNCHANGED <<user, admins, submit, notes, page, sending, displayed, pending, marker, broken, troubles>>

\* The list arrives at the page, if that is the one whose socket it is.
Send(h) ==
  /\ h \in handling /\ h.pc = "send"
  /\ handling' = handling \ {h}
  /\ displayed' = IF h.page = page THEN h.list ELSE displayed
  /\ pending' = (pending /\ h.page # page)
  /\ UNCHANGED <<user, admins, submit, notes, page, sending, marker, broken, troubles>>

\* A call of the handler throws, or the socket is refused by the rate limit when
\* it is opened: nothing is sent.
HandlerFails(h) ==
  /\ h \in handling /\ troubles < MaxTroubles
  /\ troubles' = troubles + 1
  /\ handling' = handling \ {h}
  /\ broken' = (broken \/ h.page = page)
  /\ UNCHANGED <<user, admins, submit, notes, page, sending, displayed, pending, marker>>

\* Mutant: the list is read before the mark is written.
HandleUnordered(h) ==
  \/ Mark(h) \/ Send(h)
  \/ /\ h \in handling /\ h.pc = "mark" /\ h.list = <<>>
     /\ \E list \in LatestNotes :
          handling' = (handling \ {h}) \union {[h EXCEPT !.list = list]}
     /\ UNCHANGED <<user, admins, submit, notes, page, sending, displayed, pending, marker, broken, troubles>>
  \/ /\ h \in handling /\ h.pc = "read"
     /\ \E list \in IF h.list = <<>> THEN LatestNotes ELSE {h.list} :
          handling' = (handling \ {h}) \union {[h EXCEPT !.pc = "send", !.list = list]}
     /\ UNCHANGED <<user, admins, submit, notes, page, sending, displayed, pending, marker, broken, troubles>>

\* Mutant: only what opens a socket is answered.
HandleSilent(h) ==
  \/ Mark(h) \/ ReadNotes(h)
  \/ h.does = "open" /\ Send(h)
  \/ /\ h.does # "open" /\ h \in handling /\ h.pc = "send"
     /\ handling' = handling \ {h}
     /\ UNCHANGED <<user, admins, submit, notes, page, sending, displayed, pending, marker, broken, troubles>>

Handle(h) == Mark(h) \/ ReadNotes(h) \/ Send(h)

-----------------------------------------------------------------------------
SubmitNext ==
  \/ \E f \in Feedback : Store(f) \/ FindAdmins(f) \/ NotifyFails(f) \/ AnswerFeedback(f)
  \/ \E f \in Feedback, a \in Admin : Notify(f, a)
  \/ \E a \in Admin : ChangeRole(a)

ServerNext == Receive \/ \E h \in handling : Handle(h)
BellNext ==
  \/ MarkAll \/ Reload \/ (\E i \in DOMAIN displayed : Click(i)) \/ ServerNext
  \/ \E h \in handling : HandlerFails(h)

NoteNext == SubmitNext \/ BellNext

NoteSpec == NoteInit /\ [][NoteNext]_noteVars

-----------------------------------------------------------------------------
(***************************************************************************)
(* Properties.                                                             *)
(***************************************************************************)

\* Feedback that was answered as submitted has notified everybody who was an
\* administrator when it was stored and stayed one, whoever else came and went
\* while the loop was under way.
FeedbackReachesAdmins ==
  \A f \in Feedback :
    submit[f].pc = "done" =>
      \A a \in submit[f].owed : \E i \in DOMAIN notes : notes[i].to = a /\ notes[i].of = f

Quiet == sending = <<>> /\ handling = {}

\* When nothing is under way, a notification that was marked as read is not
\* displayed as unread, although lists are read and sent by handlers that overlap
\* - except the one that was clicked on the page before, whose mark the list of
\* the next page may not have waited for -, or one whose answer failed.
MarkedIsShownRead ==
  (Quiet /\ ~broken) => \A i \in DOMAIN displayed, j \in DOMAIN notes :
    (~displayed[i].read /\ notes[j].read /\ notes[j].to = Reader /\ notes[j].of = displayed[i].of)
      => marker[displayed[i].of] < page

\* "Mark all read", once pressed, comes back to life: its message is on its way to
\* the page with a list, whatever other messages overtake it, unless a handler threw.
PendingIsOwed ==
  (pending /\ ~broken) =>
    \/ \E i \in DOMAIN sending : sending[i].page = page
    \/ \E h \in handling : h.page = page
=============================================================================
