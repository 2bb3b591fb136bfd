--------------------------- MODULE DashboardProofs ----------------------------
(***************************************************************************)
(* Machine-checked proofs about the form of a role's permissions, about    *)
(* feedback and the bell, and about the paged lists.                       *)
(***************************************************************************)
EXTENDS RoleEditor, Notifications, PagedLists, FiniteSetTheorems, SequenceTheorems, TLAPS

-------------------------------------------------------------------------------
(***************************************************************************)
(* RoleEditor, for every set of permissions and any number of edits,       *)
(* fetches and changes by others: what is put is what was ticked, and      *)
(* ticks are lost to an overlap only.                                      *)
(***************************************************************************)

Ticked == [perms : SUBSET Perm, name : Nat]
PutState == [pc : {"idle", "sent", "landed"}, kind : {"none", "perms", "name"},
             perms : SUBSET Perm, reply : Ticked \union {NoData},
             from : SUBSET Perm, chosen : SUBSET Perm, blind : BOOLEAN]

\* The records are records, of sets of what can be ticked.
EditorTypeOK ==
  /\ form \in Forms
  /\ role \in Ticked
  /\ cached \in Ticked \union {NoData}
  /\ get \in [on : BOOLEAN, read : Ticked \union {NoData}]
  /\ open \in BOOLEAN /\ reopened \in BOOLEAN /\ overlapped \in BOOLEAN
  /\ selected \in SUBSET Perm
  /\ put \in PutState
  /\ put.pc = "landed" => put.reply \in Ticked
  /\ ticked \in [on : SUBSET Perm, off : SUBSET Perm]

\* What a form displays differs from the data of its query in what the user ticked
\* only, unless it was emptied and never filled again.
FormFromData ==
  (open /\ cached # NoData /\ ~reopened)
    => Difference(selected, cached.perms) \subseteq ticked.on \union ticked.off

\* What a save sends differs from the data it is made from in the ticks only.
PutFromData ==
  (put.pc = "sent" /\ put.kind = "perms" /\ ~put.blind)
    => Difference(put.perms, put.from) \subseteq put.chosen

\* Ticks that nothing has overlapped are over the record as it is, and no fetch or
\* save under way has anything else, or they are in a dialog that has no data.
TicksAreFresh ==
  /\ Touched => open
  /\ (Touched /\ ~overlapped) =>
       /\ put.pc = "idle"
       /\ \/ form.empties /\ cached = NoData
          \/ cached = role /\ get.read \in {NoData, cached}

EditorIInv == EditorTypeOK /\ FormFromData /\ PutFromData /\ TicksAreFresh

LEMMA EditorInitInv == EditorInit => EditorIInv
<1> SUFFICES ASSUME EditorInit PROVE EditorIInv
  OBVIOUS
<1>1. EditorTypeOK
  <2>1. role \in Ticked
    BY DEF EditorInit, Ticked
  <2>2. NoPut \in PutState /\ NoPut.pc = "idle"
    BY DEF NoPut, PutState, NoData
  <2> QED
    BY <2>1, <2>2 DEF EditorInit, EditorTypeOK, NoGet, NoTicks
<1>2. FormFromData /\ PutFromData /\ TicksAreFresh
  BY DEF EditorInit, FormFromData, PutFromData, TicksAreFresh, NoPut, Touched
<1> QED
  BY <1>1, <1>2 DEF EditorIInv

\* A step keeps the types.
LEMMA EditorTypeStep == EditorIInv /\ [EditorNext]_editorVars => EditorTypeOK'
<1> SUFFICES ASSUME EditorTypeOK, [EditorNext]_editorVars PROVE EditorTypeOK'
  BY DEF EditorIInv
<1> USE DEF EditorTypeOK
<1>r. /\ NoGet \in [on : BOOLEAN, read : Ticked \union {NoData}]
      /\ [NoGet EXCEPT !.on = TRUE] \in [on : BOOLEAN, read : Ticked \union {NoData}]
      /\ NoTicks \in [on : SUBSET Perm, off : SUBSET Perm]
      /\ NoPut \in PutState /\ NoPut.pc = "idle"
  BY DEF NoGet, NoTicks, NoPut, PutState, NoData
<1>d. \A d \in Ticked \union {NoData} : d.perms \in SUBSET Perm
  BY DEF Ticked, NoData
<1>1. CASE Open
  BY <1>1, <1>r, <1>d DEF Open, Fill
<1>2. CASE Close
  BY <1>2, <1>r DEF Close, Emptied
<1>3. ASSUME NEW p \in Perm, Toggle(p) PROVE EditorTypeOK'
  <2>1. ticked' \in [on : SUBSET Perm, off : SUBSET Perm] /\ selected' \in SUBSET Perm
    BY <1>3 DEF Toggle
  <2> QED
    BY <1>3, <2>1 DEF Toggle, Overlapping
<1>4. CASE Save
  <2>1. put' \in PutState /\ put'.pc = "sent"
    BY <1>4, <1>d DEF Save, NoPut, PutState, NoData
  <2> QED
    BY <1>4, <2>1 DEF Save, Touched
<1>5. CASE Rename
  <2>1. put' \in PutState /\ put'.pc = "sent"
    BY <1>5 DEF Rename, NoPut, PutState, NoData
  <2> QED
    BY <1>5, <2>1 DEF Rename, Touched
<1>6. CASE PutLands
  <2>1. role' \in Ticked
    BY <1>6 DEF PutLands, Ticked, PutState
  <2>2. put' \in PutState /\ put'.reply = role'
    BY <1>6, <2>1 DEF PutLands, PutState
  <2> QED
    BY <1>6, <2>1, <2>2 DEF PutLands, Touched
<1>7. CASE Saved
  <2>1. put.reply \in Ticked /\ put.reply.perms \in SUBSET Perm
    BY <1>7 DEF Saved, Ticked
  <2>2. get' \in [on : BOOLEAN, read : Ticked \union {NoData}] /\ cached' \in Ticked \union {NoData}
    BY <1>7, <2>1, <1>r DEF Saved, StartGet
  <2>3. /\ selected' \in SUBSET Perm /\ ticked' \in [on : SUBSET Perm, off : SUBSET Perm]
        /\ open' \in BOOLEAN /\ reopened' \in BOOLEAN /\ overlapped' \in BOOLEAN
    BY <1>7, <2>1, <1>r DEF Saved, Fill, KeepForm, Emptied, Touched
  <2> QED
    BY <1>7, <2>2, <2>3, <1>r DEF Saved
<1>8. CASE SaveFails
  BY <1>8, <1>r DEF SaveFails
<1>9. CASE LookAgain
  BY <1>9, <1>r DEF LookAgain, StartGet
<1>10. CASE ReadRole
  BY <1>10 DEF ReadRole
<1>11. CASE GetAnswered
  <2>1. get.read \in Ticked \union {NoData} /\ get.read.perms \in SUBSET Perm
    BY <1>d
  <2> QED
    BY <1>11, <2>1, <1>r DEF GetAnswered, Take, Fill, KeepForm
<1>12. CASE GetFails
  BY <1>12, <1>r DEF GetFails
<1>13. CASE OtherChanges
  BY <1>13 DEF OtherChanges, Touched, Ticked
<1>14. CASE UNCHANGED editorVars
  BY <1>14 DEF editorVars
<1> QED
  BY <1>1, <1>2, <1>3, <1>4, <1>5, <1>6, <1>7, <1>8, <1>9, <1>10, <1>11, <1>12, <1>13, <1>14
     DEF EditorNext

\* A form that is open is filled whenever its query has other data, and only ticks
\* change it besides.
LEMMA FormStep == EditorIInv /\ [EditorNext]_editorVars => FormFromData'
<1> SUFFICES ASSUME EditorTypeOK, FormFromData, [EditorNext]_editorVars PROVE FormFromData'
  BY DEF EditorIInv
<1> USE DEF FormFromData
<1>f. ASSUME selected' = cached'.perms PROVE FormFromData'
  BY <1>f DEF Difference
<1>k. ASSUME UNCHANGED <<open, cached, reopened, selected, ticked>> PROVE FormFromData'
  BY <1>k
<1>1. CASE Open
  <2>1. CASE form.empties
    BY <1>1, <2>1 DEF Open, Difference
  <2>2. CASE ~form.empties
    BY <1>1, <2>2 DEF Open, Fill, Difference
  <2> QED
    BY <2>1, <2>2
<1>2. CASE Close
  BY <1>2 DEF Close, Emptied
<1>3. ASSUME NEW p \in Perm, Toggle(p) PROVE FormFromData'
  <2>1. /\ Difference(selected', cached.perms) \subseteq Difference(selected, cached.perms) \union {p}
        /\ ticked.on \union ticked.off \union {p} \subseteq ticked'.on \union ticked'.off
    BY <1>3 DEF Toggle, Difference, EditorTypeOK
  <2> QED
    BY <1>3, <2>1 DEF Toggle
<1>4. CASE Save \/ Rename \/ PutLands \/ SaveFails \/ LookAgain \/ ReadRole \/ GetFails \/ OtherChanges
  BY <1>4, <1>k DEF Save, Rename, PutLands, SaveFails, LookAgain, ReadRole, GetFails, OtherChanges
<1>5. CASE Saved
  <2>1. CASE form.answers /\ open
    BY <1>5, <2>1, <1>f DEF Saved, Fill
  <2>2. CASE form.answers /\ ~open
    BY <1>5, <2>2 DEF Saved
  <2>3. CASE ~form.answers /\ form.empties
    BY <1>5, <2>3 DEF Saved, Emptied
  <2>4. CASE ~form.answers /\ ~form.empties
    BY <1>5, <2>4, <1>k DEF Saved
  <2> QED
    BY <2>1, <2>2, <2>3, <2>4
<1>6. CASE GetAnswered
  <2>1. CASE get.read # cached /\ (open \/ form.empties)
    BY <1>6, <2>1, <1>f DEF GetAnswered, Take, Fill
  <2>2. CASE get.read = cached
    BY <1>6, <2>2, <1>k DEF GetAnswered, Take, KeepForm
  <2>3. CASE ~open
    BY <1>6, <2>3 DEF GetAnswered
  <2> QED
    BY <2>1, <2>2, <2>3
<1>7. CASE UNCHANGED editorVars
  BY <1>7, <1>k DEF editorVars
<1> QED
  BY <1>1, <1>2, <1>3, <1>4, <1>5, <1>6, <1>7 DEF EditorNext

\* A save is made from the form, and what it sends stays as it is.
LEMMA PutStep == EditorIInv /\ [EditorNext]_editorVars => PutFromData'
<1> SUFFICES ASSUME EditorIInv, [EditorNext]_editorVars PROVE PutFromData'
  OBVIOUS
<1> USE DEF PutFromData
<1>k. ASSUME put' = put PROVE PutFromData'
  BY <1>k DEF EditorIInv
<1>i. ASSUME put'.pc # "sent" \/ put'.kind # "perms" PROVE PutFromData'
  BY <1>i
<1>1. CASE Save
  <2>1. /\ put'.perms = selected /\ put'.from = cached.perms /\ put'.blind = reopened
        /\ put'.chosen = ticked.on \union ticked.off
    BY <1>1 DEF Save, NoPut
  <2> QED
    BY <1>1, <2>1 DEF Save, EditorIInv, FormFromData
<1>2. CASE Rename
  BY <1>2, <1>i DEF Rename, NoPut
<1>3. CASE PutLands
  BY <1>3, <1>i DEF PutLands, EditorIInv, EditorTypeOK, PutState
<1>4. CASE Saved \/ SaveFails
  BY <1>4, <1>i DEF Saved, SaveFails, NoPut
<1>5. ASSUME NEW p \in Perm, Toggle(p) PROVE PutFromData'
  BY <1>5, <1>k DEF Toggle
<1>6. CASE Open \/ Close \/ LookAgain \/ ReadRole \/ GetAnswered \/ GetFails \/ OtherChanges
  BY <1>6, <1>k DEF Open, Close, LookAgain, ReadRole, GetAnswered, GetFails, OtherChanges
<1>7. CASE UNCHANGED editorVars
  BY <1>7, <1>k DEF editorVars
<1> QED
  BY <1>1, <1>2, <1>3, <1>4, <1>5, <1>6, <1>7 DEF EditorNext

\* Whatever makes the record, or data under way, differ from what is ticked over is an
\* overlap; data that differs fills the form.
LEMMA FreshStep == EditorIInv /\ [EditorNext]_editorVars => TicksAreFresh'
<1> SUFFICES ASSUME EditorTypeOK, TicksAreFresh, [EditorNext]_editorVars PROVE TicksAreFresh'
  BY DEF EditorIInv
<1> USE DEF TicksAreFresh, Touched
<1>n. ASSUME ticked' = NoTicks PROVE TicksAreFresh'
  BY <1>n
<1>o. ASSUME ticked' = ticked, open' = open, overlapped' = Touched PROVE TicksAreFresh'
  BY <1>o
<1>k. ASSUME UNCHANGED <<form, ticked, open, overlapped, cached, role, put>>, get'.read \in {get.read, NoData, role}
      PROVE  TicksAreFresh'
  BY <1>k
<1>g. NoGet.read = NoData /\ [NoGet EXCEPT !.on = TRUE].read = NoData
  BY DEF NoGet
<1>1. CASE Open
  BY <1>1, <1>n DEF Open, Fill
<1>2. CASE Close
  BY <1>2, <1>n DEF Close, Emptied
<1>3. ASSUME NEW p \in Perm, Toggle(p) PROVE TicksAreFresh'
  BY <1>3 DEF Toggle, Overlapping, Editable
<1>4. CASE Save \/ Rename \/ PutLands \/ OtherChanges
  BY <1>4, <1>o DEF Save, Rename, PutLands, OtherChanges
<1>5. CASE Saved
  <2>1. CASE form.answers /\ open
    BY <1>5, <2>1, <1>n DEF Saved, Fill
  <2>2. CASE form.answers /\ ~open
    BY <1>5, <2>2, <1>n DEF Saved, KeepForm
  <2>3. CASE ~form.answers /\ form.empties
    BY <1>5, <2>3, <1>n DEF Saved, Emptied
  <2>4. CASE ~form.answers /\ ~form.empties
    BY <1>5, <2>4, <1>o DEF Saved
  <2> QED
    BY <2>1, <2>2, <2>3, <2>4
<1>6. CASE SaveFails
  BY <1>6, <1>g DEF SaveFails, NoPut
<1>7. CASE LookAgain
  BY <1>7, <1>k, <1>g DEF LookAgain, StartGet
<1>8. CASE ReadRole
  BY <1>8, <1>k DEF ReadRole, EditorTypeOK
<1>9. CASE GetFails
  BY <1>9, <1>k, <1>g DEF GetFails
<1>10. CASE GetAnswered
  <2>1. CASE get.read # cached /\ (open \/ form.empties)
    BY <1>10, <2>1, <1>n DEF GetAnswered, Take, Fill
  <2>2. CASE get.read = cached
    BY <1>10, <2>2, <1>k, <1>g DEF GetAnswered, Take, KeepForm
  <2>3. CASE ~open
    BY <1>10, <2>3, <1>n DEF GetAnswered, Take, Fill, KeepForm
  <2> QED
    BY <2>1, <2>2, <2>3
<1>11. CASE UNCHANGED editorVars
  BY <1>11, <1>k DEF editorVars
<1> QED
  BY <1>1, <1>2, <1>3, <1>4, <1>5, <1>6, <1>7, <1>8, <1>9, <1>10, <1>11 DEF EditorNext

\* The inductive invariant of RoleEditor.
THEOREM EditorInductive == EditorSpec => []EditorIInv
<1>1. EditorIInv /\ [EditorNext]_editorVars => EditorIInv'
  BY EditorTypeStep, FormStep, PutStep, FreshStep DEF EditorIInv
<1> QED
  BY EditorInitInv, <1>1, PTL DEF EditorSpec

\* A save of the form changes of the role what the user ticked and nothing else, except
\* what others changed since the data it is made from, and unless it comes from a dialog
\* opened again over a role the query already had; for any set that can be ticked and
\* any number of openings, ticks, fetches and changes of others.
THEOREM EditorSavesTicksOnly == EditorSpec => SavesChangeTicksOnly
<1>1. ASSUME EditorIInv, [EditorNext]_editorVars, ~(UNCHANGED editorVars),
             put.pc = "sent", put'.pc = "landed", put.kind = "perms", ~put.blind
      PROVE  Difference(role.perms, role'.perms)
               \subseteq put.chosen \union Difference(role.perms, put.from)
  <2>1. CASE PutLands
    <3>1. role'.perms = put.perms
      BY <1>1, <2>1 DEF PutLands, EditorIInv, EditorTypeOK, Ticked
    <3>2. Difference(put.perms, put.from) \subseteq put.chosen
      BY <1>1 DEF EditorIInv, PutFromData
    <3> QED
      BY <3>1, <3>2 DEF Difference
  <2>2. CASE Save \/ Rename \/ Saved \/ SaveFails
    BY <1>1, <2>2 DEF Save, Rename, Saved, SaveFails, NoPut
  <2>3. ASSUME NEW p \in Perm, Toggle(p) PROVE FALSE
    BY <1>1, <2>3 DEF Toggle
  <2>4. CASE Open \/ Close \/ LookAgain \/ ReadRole \/ GetAnswered \/ GetFails \/ OtherChanges
    BY <1>1, <2>4 DEF Open, Close, LookAgain, ReadRole, GetAnswered, GetFails, OtherChanges
  <2> QED
    BY <1>1, <2>1, <2>2, <2>3, <2>4 DEF EditorNext
<1>2. EditorIInv /\ [EditorNext]_editorVars
        => [(put.pc = "sent" /\ put'.pc = "landed" /\ put.kind = "perms" /\ ~put.blind)
              => Difference(role.perms, role'.perms)
                   \subseteq put.chosen \union Difference(role.perms, put.from)]_editorVars
  BY <1>1
<1> QED
  BY EditorInductive, <1>2, PTL DEF EditorSpec, SavesChangeTicksOnly

\* When the effect of a form fills it again, ticks that were not saved are lost only to
\* an overlap with a change of another admin or a save or renaming of one's own, or to
\* the first data of a dialog that was ticked in without any.
THEOREM EditorTicksLost == EditorSpec => TicksLostToOverlapOnly
<1>1. ASSUME EditorIInv, [EditorNext]_editorVars, ~(UNCHANGED editorVars),
             open, open', Touched, ticked' = NoTicks
      PROVE  overlapped \/ (form.empties /\ cached = NoData)
  <2>1. CASE GetAnswered
    <3>1. get.read # cached
      BY <1>1, <2>1 DEF GetAnswered, Take, KeepForm, Touched
    <3> QED
      BY <1>1, <2>1, <3>1 DEF GetAnswered, EditorIInv, TicksAreFresh
  <2>2. CASE Saved
    BY <1>1, <2>2 DEF Saved, EditorIInv, TicksAreFresh
  <2>3. ASSUME NEW p \in Perm, Toggle(p) PROVE FALSE
    <3>1. p \in ticked'.on \union ticked'.off
      BY <2>3 DEF Toggle
    <3> QED
      BY <1>1, <3>1 DEF NoTicks
  <2>4. CASE Open \/ Close
    BY <1>1, <2>4 DEF Open, Close, Emptied
  <2>5. CASE Save \/ Rename \/ PutLands \/ SaveFails \/ LookAgain \/ ReadRole \/ GetFails \/ OtherChanges
    BY <1>1, <2>5 DEF Save, Rename, PutLands, SaveFails, LookAgain, ReadRole, GetFails, OtherChanges, Touched
  <2> QED
    BY <1>1, <2>1, <2>2, <2>3, <2>4, <2>5 DEF EditorNext
<1>2. EditorIInv /\ [EditorNext]_editorVars
        => [(open /\ open' /\ Touched /\ ticked' = NoTicks)
              => overlapped \/ (form.empties /\ cached = NoData)]_editorVars
  BY <1>1
<1> QED
  BY EditorInductive, <1>2, PTL DEF EditorSpec, TicksLostToOverlapOnly

-------------------------------------------------------------------------------
(***************************************************************************)
(* Notifications, for every set of administrators and any number of        *)
(* submissions, pages, marks and failures: feedback reaches who is to      *)
(* know, and the bell shows what was marked.                               *)
(***************************************************************************)

Submission == [pc : {"no", "stored", "telling", "done", "failed"},
               left : SUBSET Admin, owed : SUBSET Admin]
Message == [page : Nat, does : {"mark-all-read", "mark-read"}, id : Nat]
Handler == [page : Nat, does : {"open", "mark-all-read", "mark-read"}, id : Nat,
            pc : {"mark", "read", "send"}, list : Seq(Note)]

NoteShape ==
  /\ admins \in SUBSET Admin
  /\ submit \in [Feedback -> Submission]
  /\ notes \in Seq(Note)
  /\ page \in Nat /\ sending \in Seq(Message) /\ handling \in SUBSET Handler
  /\ displayed \in Seq(Note) /\ pending \in BOOLEAN /\ broken \in BOOLEAN
  /\ marker \in [Feedback -> Nat]

Told(f, a) == \E i \in DOMAIN notes : notes[i].to = a /\ notes[i].of = f

\* How far each submission is with its notifications.
SubmitsFit ==
  \A f \in Feedback :
    /\ submit[f].pc = "stored" => submit[f].owed \subseteq admins
    /\ submit[f].pc \in {"no", "stored"} => \A a \in Admin : ~Told(f, a)
    /\ submit[f].pc = "telling" =>
         /\ \A a \in submit[f].owed : a \in submit[f].left \/ Told(f, a)
         /\ \A a \in submit[f].left : ~Told(f, a)
    /\ submit[f].pc = "done" => \A a \in submit[f].owed : Told(f, a)

\* A feedback has notified a user once.
NotedOnce ==
  \A i, j \in DOMAIN notes :
    (notes[i].to = notes[j].to /\ notes[i].of = notes[j].of) => i = j

\* What is under way is of a page that was opened.
PagesOpened ==
  /\ \A i \in DOMAIN sending : sending[i].page <= page
  /\ \A h \in handling : h.page <= page

\* Of the page the reader is at, at most one message or handler is under way, and
\* none when it displays a list and waits for nothing.
OneUnderWay ==
  /\ \A g, h \in handling : (g.page = page /\ h.page = page) => g = h
  /\ \A i \in DOMAIN sending : sending[i].page = page =>
       /\ \A h \in handling : h.page # page
       /\ \A j \in DOMAIN sending : sending[j].page = page => i = j
  /\ (displayed # <<>> /\ ~pending) =>
       /\ \A h \in handling : h.page # page
       /\ \A i \in DOMAIN sending : sending[i].page # page

\* A list that calls a notification unread which has been marked since was
\* overtaken by a mark made on an earlier page.
Fresh(entries) ==
  \A i \in DOMAIN entries, j \in DOMAIN notes :
    (~entries[i].read /\ notes[j].read /\ notes[j].to = Reader /\ notes[j].of = entries[i].of)
      => marker[entries[i].of] < page

ListsFresh ==
  /\ \A h \in handling : (h.page = page /\ h.pc = "send") => Fresh(h.list)
  /\ \/ Fresh(displayed) \/ broken
     \/ \E h \in handling : h.page = page /\ h.pc \in {"read", "send"}

NoteIInv ==
  /\ NoteShape /\ SubmitsFit /\ NotedOnce
  /\ PagesOpened /\ OneUnderWay /\ ListsFresh /\ PendingIsOwed

USE NotificationAssumption

-----------------------------------------------------------------------------
\* Some positions of a list, in order, are a list of positions.
LEMMA OrderedPlaces ==
  ASSUME NEW n \in Nat, NEW P \in SUBSET (1..n), NEW s \in InOrder(P)
  PROVE  /\ Cardinality(P) \in Nat
         /\ s \in [1..Cardinality(P) -> P] /\ DOMAIN s = 1..Cardinality(P)
         /\ \A p \in P : \E i \in DOMAIN s : s[i] = p
         /\ \A i, j \in DOMAIN s : s[i] = s[j] => i = j
<1>1. IsFiniteSet(P)
  <2>1. IsFiniteSet(1..n)
    BY FS_Interval
  <2> QED BY <2>1, FS_Subset
<1>2. Cardinality(P) \in Nat
  BY <1>1, FS_CardinalityType
<1>3. /\ s \in [1..Cardinality(P) -> P]
      /\ \A p \in P : \E i \in DOMAIN s : s[i] = p
      /\ \A i, j \in DOMAIN s : i < j => s[i] < s[j]
  BY DEF InOrder
<1>4. ASSUME NEW i \in DOMAIN s, NEW j \in DOMAIN s, s[i] = s[j]
      PROVE  i = j
  <2>1. i \in Nat /\ j \in Nat
    BY <1>2, <1>3
  <2>2. s[i] \in Nat /\ s[j] \in Nat
    <3>1. DOMAIN s = 1..Cardinality(P) /\ P \subseteq Nat
      BY <1>3
    <3>2. s[i] \in P /\ s[j] \in P
      BY <1>3, <3>1
    <3> QED BY <3>1, <3>2
  <2>3. ~(i < j) /\ ~(j < i)
    BY <1>3, <1>4, <2>2
  <2> QED BY <2>1, <2>3
<1> QED BY <1>2, <1>3, <1>4

\* The latest notifications are notifications of the reader.
LEMMA LatestAreNotes ==
  ASSUME NoteShape, NEW entries \in LatestNotes
  PROVE  /\ entries \in Seq(Note)
         /\ \A i \in DOMAIN entries : \E k \in DOMAIN notes : entries[i] = notes[k] /\ notes[k].to = Reader
<1> DEFINE mine == {i \in DOMAIN notes : notes[i].to = Reader}
           latest == {i \in mine : Cardinality({j \in mine : j > i}) < ListSize}
<1>1. DOMAIN notes = 1..Len(notes) /\ Len(notes) \in Nat
  BY DEF NoteShape
<1>2. PICK s \in InOrder(latest) :
        entries = [i \in DOMAIN s |-> notes[s[Cardinality(latest) + 1 - i]]]
  BY DEF LatestNotes
<1>3. latest \in SUBSET (1..Len(notes))
  BY <1>1
<1>4. /\ Cardinality(latest) \in Nat
      /\ s \in [1..Cardinality(latest) -> latest] /\ DOMAIN s = 1..Cardinality(latest)
  BY <1>1, <1>2, <1>3, OrderedPlaces
<1>5. \A k \in latest : k \in DOMAIN notes /\ notes[k].to = Reader
  OBVIOUS
<1> HIDE DEF latest
<1>6. ASSUME NEW i \in 1..Cardinality(latest)
      PROVE  s[Cardinality(latest) + 1 - i] \in latest
  BY <1>4
<1>7. DOMAIN entries = 1..Cardinality(latest)
  BY <1>2, <1>4
<1>8. \A i \in DOMAIN entries :
        \E k \in DOMAIN notes : entries[i] = notes[k] /\ notes[k].to = Reader
  BY <1>2, <1>4, <1>5, <1>6, <1>7
<1>9. entries \in [1..Cardinality(latest) -> Note]
  <2>1. \A k \in DOMAIN notes : notes[k] \in Note
    BY <1>1 DEF NoteShape
  <2>2. \A i \in DOMAIN entries : entries[i] \in Note
    BY <1>8, <2>1
  <2> QED BY <1>2, <1>4, <1>7, <2>2
<1>10. entries \in Seq(Note)
  BY <1>4, <1>9
<1> QED BY <1>8, <1>10

\* Which notifications there are, and for whom, is all that the submissions see.
LEMMA SubmitsStand ==
  ASSUME NoteShape, SubmitsFit, NotedOnce,
         submit' = submit, admins' = admins, DOMAIN notes' = DOMAIN notes,
         \A i \in DOMAIN notes : notes'[i].to = notes[i].to /\ notes'[i].of = notes[i].of
  PROVE  SubmitsFit' /\ NotedOnce'
<1>1. \A f, a : Told(f, a)' <=> Told(f, a)
  BY DEF Told
<1>2. SubmitsFit'
  BY <1>1 DEF SubmitsFit
<1>3. NotedOnce'
  BY DEF NotedOnce
<1> QED BY <1>2, <1>3

\* As long as the bell rests and no notification becomes read, what is displayed
\* and under way stays right.
LEMMA BellStands ==
  ASSUME NoteShape, PagesOpened, OneUnderWay, ListsFresh, PendingIsOwed, UNCHANGED bellVars,
         \A j \in DOMAIN notes' : notes'[j].read =>
           \E k \in DOMAIN notes : notes[k] = notes'[j]
  PROVE  PagesOpened' /\ OneUnderWay' /\ ListsFresh' /\ PendingIsOwed'
<1>1. ASSUME NEW entries, Fresh(entries) PROVE Fresh(entries)'
  BY <1>1 DEF Fresh, bellVars
<1>2. ListsFresh'
  BY <1>1 DEF ListsFresh, bellVars
<1>3. PagesOpened' /\ OneUnderWay' /\ PendingIsOwed'
  BY DEF PagesOpened, OneUnderWay, PendingIsOwed, bellVars
<1> QED BY <1>2, <1>3

-----------------------------------------------------------------------------
LEMMA NoteInitially == NoteInit => NoteIInv
<1> SUFFICES ASSUME NoteInit PROVE NoteIInv
  OBVIOUS
<1>1. NoteShape
  <2>1. <<>> \in Seq(Note) /\ <<>> \in Seq(Message)
    OBVIOUS
  <2>2. [page |-> 1, does |-> "open", id |-> 0, pc |-> "read", list |-> <<>>] \in Handler
    BY <2>1 DEF Handler
  <2>3. NoSubmit \in Submission
    BY DEF NoSubmit, Submission
  <2> QED BY <2>1, <2>2, <2>3 DEF NoteInit, NoteShape
<1>2. SubmitsFit /\ NotedOnce
  BY DEF NoteInit, SubmitsFit, NotedOnce, NoSubmit, Told
<1>3. PagesOpened /\ OneUnderWay /\ PendingIsOwed
  BY DEF NoteInit, PagesOpened, OneUnderWay, PendingIsOwed
<1>4. ListsFresh
  BY DEF NoteInit, ListsFresh, Fresh
<1> QED BY <1>1, <1>2, <1>3, <1>4 DEF NoteIInv

LEMMA StoreKeeps ==
  ASSUME NoteIInv, NEW f \in Feedback, Store(f) PROVE NoteIInv'
<1>1. NoteShape'
  BY DEF NoteIInv, NoteShape, Store, Submission, bellVars
<1>2. \A g, a : Told(g, a)' <=> Told(g, a)
  BY DEF Store, Told
<1>3. SubmitsFit'
  BY <1>2 DEF NoteIInv, NoteShape, SubmitsFit, Store, Submission
<1>4. NotedOnce'
  BY DEF NoteIInv, NotedOnce, Store
<1>5. PagesOpened' /\ OneUnderWay' /\ ListsFresh' /\ PendingIsOwed'
  BY BellStands DEF NoteIInv, Store
<1> QED BY <1>1, <1>3, <1>4, <1>5 DEF NoteIInv

LEMMA FindAdminsKeeps ==
  ASSUME NoteIInv, NEW f \in Feedback, FindAdmins(f) PROVE NoteIInv'
<1>1. NoteShape'
  BY DEF NoteIInv, NoteShape, FindAdmins, Submission, bellVars
<1>2. \A g, a : Told(g, a)' <=> Told(g, a)
  BY DEF FindAdmins, Told
<1>3. SubmitsFit'
  BY <1>2 DEF NoteIInv, NoteShape, SubmitsFit, FindAdmins, Submission
<1>4. NotedOnce'
  BY DEF NoteIInv, NotedOnce, FindAdmins
<1>5. PagesOpened' /\ OneUnderWay' /\ ListsFresh' /\ PendingIsOwed'
  BY BellStands DEF NoteIInv, FindAdmins
<1> QED BY <1>1, <1>3, <1>4, <1>5 DEF NoteIInv

LEMMA NotifyKeeps ==
  ASSUME NoteIInv, NEW f \in Feedback, NEW a \in Admin, Notify(f, a) PROVE NoteIInv'
<1>1. PICK n \in Note : n = [to |-> a, of |-> f, read |-> FALSE]
  BY DEF Note
<1>2. notes' = Append(notes, n) /\ notes \in Seq(Note)
  BY <1>1 DEF Notify, NoteIInv, NoteShape
<1>3. /\ notes' \in Seq(Note) /\ Len(notes) \in Nat /\ Len(notes') = Len(notes) + 1
      /\ DOMAIN notes = 1..Len(notes) /\ DOMAIN notes' = 1..Len(notes')
      /\ notes'[Len(notes')] = n /\ \A i \in DOMAIN notes : notes'[i] = notes[i]
  BY <1>2
<1>4. NoteShape'
  BY <1>3 DEF NoteIInv, NoteShape, Notify, Submission, bellVars
<1>5. \A g \in Feedback, b \in Admin : Told(g, b)' <=> (Told(g, b) \/ (g = f /\ b = a))
  <2>1. ASSUME NEW g \in Feedback, NEW b \in Admin, Told(g, b) PROVE Told(g, b)'
    BY <1>3, <2>1 DEF Told
  <2>2. Told(f, a)'
    BY <1>1, <1>3 DEF Told
  <2>3. ASSUME NEW g \in Feedback, NEW b \in Admin, Told(g, b)'
        PROVE  Told(g, b) \/ (g = f /\ b = a)
    <3>1. PICK i \in 1..Len(notes') : notes'[i].to = b /\ notes'[i].of = g
      BY <1>3, <2>3 DEF Told
    <3>2. CASE i = Len(notes')
      BY <1>1, <1>3, <3>1, <3>2
    <3>3. CASE i # Len(notes')
      BY <1>3, <3>1, <3>3 DEF Told
    <3> QED BY <3>2, <3>3
  <2> QED BY <2>1, <2>2, <2>3
<1>6. SubmitsFit'
  <2> SUFFICES ASSUME NEW g \in Feedback PROVE SubmitsFit!(g)'
    BY DEF SubmitsFit
  <2>1. submit[g] \in Submission /\ submit[f] \in Submission /\ SubmitsFit!(g) /\ SubmitsFit!(f)
    BY DEF NoteIInv, NoteShape, SubmitsFit
  <2>2. CASE g = f
    <3>1. /\ submit'[g].pc = "telling" /\ submit'[g].left = submit[g].left \ {a}
          /\ submit'[g].owed = submit[g].owed /\ submit[g].pc = "telling"
      BY <2>1, <2>2 DEF Notify, Submission, NoteIInv, NoteShape
    <3> QED BY <1>5, <2>1, <2>2, <3>1 DEF Submission
  <2>3. CASE g # f
    <3>1. submit'[g] = submit[g] /\ admins' = admins
      BY <2>3 DEF Notify, NoteIInv, NoteShape
    <3> QED BY <1>5, <2>1, <2>3, <3>1 DEF Submission
  <2> QED BY <2>2, <2>3
<1>7. NotedOnce'
  <2>1. ~Told(f, a)
    BY DEF NoteIInv, SubmitsFit, Notify
  <2>2. \A i \in DOMAIN notes : ~(notes'[i].to = n.to /\ notes'[i].of = n.of)
    BY <1>1, <1>3, <2>1 DEF Told
  <2> QED BY <1>3, <2>2 DEF NoteIInv, NotedOnce
<1>8. PagesOpened' /\ OneUnderWay' /\ ListsFresh' /\ PendingIsOwed'
  <2>1. \A j \in DOMAIN notes' : notes'[j].read => \E k \in DOMAIN notes : notes[k] = notes'[j]
    BY <1>1, <1>3
  <2>2. UNCHANGED bellVars
    BY DEF Notify
  <2> QED BY <2>1, <2>2, BellStands DEF NoteIInv
<1> QED BY <1>4, <1>6, <1>7, <1>8 DEF NoteIInv

LEMMA NotifyFailsKeeps ==
  ASSUME NoteIInv, NEW f \in Feedback, NotifyFails(f) PROVE NoteIInv'
<1>1. NoteShape'
  BY DEF NoteIInv, NoteShape, NotifyFails, Submission, bellVars
<1>2. \A g, a : Told(g, a)' <=> Told(g, a)
  BY DEF NotifyFails, Told
<1>3. SubmitsFit'
  BY <1>2 DEF NoteIInv, NoteShape, SubmitsFit, NotifyFails, Submission
<1>4. NotedOnce'
  BY DEF NoteIInv, NotedOnce, NotifyFails
<1>5. PagesOpened' /\ OneUnderWay' /\ ListsFresh' /\ PendingIsOwed'
  BY BellStands DEF NoteIInv, NotifyFails
<1> QED BY <1>1, <1>3, <1>4, <1>5 DEF NoteIInv

LEMMA AnswerKeeps ==
  ASSUME NoteIInv, NEW f \in Feedback, AnswerFeedback(f) PROVE NoteIInv'
<1>1. NoteShape'
  BY DEF NoteIInv, NoteShape, AnswerFeedback, Submission, bellVars
<1>2. \A g, a : Told(g, a)' <=> Told(g, a)
  BY DEF AnswerFeedback, Told
<1>3. SubmitsFit'
  BY <1>2 DEF NoteIInv, NoteShape, SubmitsFit, AnswerFeedback, Submission
<1>4. NotedOnce'
  BY DEF NoteIInv, NotedOnce, AnswerFeedback
<1>5. PagesOpened' /\ OneUnderWay' /\ ListsFresh' /\ PendingIsOwed'
  BY BellStands DEF NoteIInv, AnswerFeedback
<1> QED BY <1>1, <1>3, <1>4, <1>5 DEF NoteIInv

LEMMA ChangeRoleKeeps ==
  ASSUME NoteIInv, NEW a \in Admin, ChangeRole(a) PROVE NoteIInv'
<1> DEFINE rest == {i \in DOMAIN notes : notes[i].to # a}
<1>1. UNCHANGED bellVars
  BY DEF ChangeRole
<1>2. notes \in Seq(Note) /\ Len(notes) \in Nat /\ DOMAIN notes = 1..Len(notes)
  BY DEF NoteIInv, NoteShape
<1>3. CASE admins' = admins \union {a} /\ UNCHANGED <<user, submit, notes>>
  <2>1. NoteShape'
    BY <1>1, <1>3 DEF NoteIInv, NoteShape, bellVars
  <2>2. \A g, b : Told(g, b)' <=> Told(g, b)
    BY <1>3 DEF Told
  <2>3. SubmitsFit' /\ NotedOnce'
    BY <1>3, <2>2 DEF NoteIInv, SubmitsFit, NotedOnce
  <2>4. PagesOpened' /\ OneUnderWay' /\ ListsFresh' /\ PendingIsOwed'
    BY <1>1, <1>3, BellStands DEF NoteIInv
  <2> QED BY <2>1, <2>3, <2>4 DEF NoteIInv
<1>4. ASSUME admins' = admins \ {a},
             submit' = [f \in Feedback |-> [submit[f] EXCEPT !.owed = @ \ {a}]],
             notes' \in Seq(Note),
             \A i \in DOMAIN notes' : \E k \in DOMAIN notes : notes'[i] = notes[k],
             \A k \in DOMAIN notes : notes[k].to # a => \E i \in DOMAIN notes' : notes'[i] = notes[k],
             NotedOnce'
      PROVE  NoteIInv'
  <2>1. ASSUME NEW f \in Feedback
        PROVE  /\ submit'[f] \in Submission /\ submit'[f].pc = submit[f].pc
               /\ submit'[f].left = submit[f].left /\ submit'[f].owed = submit[f].owed \ {a}
    <3>1. submit[f] \in Submission
      BY DEF NoteIInv, NoteShape
    <3>2. PICK owed : owed = submit[f].owed \ {a}
      OBVIOUS
    <3>3. submit'[f] = [submit[f] EXCEPT !.owed = owed]
      BY <1>4, <3>2
    <3> QED BY <3>1, <3>2, <3>3 DEF Submission
  <2>2. submit' \in [Feedback -> Submission]
    BY <1>4, <2>1
  <2>3. NoteShape'
    BY <1>1, <1>4, <2>2 DEF NoteIInv, NoteShape, bellVars
  <2>4. \A g, b : Told(g, b)' => Told(g, b)
    BY <1>4 DEF Told
  <2>5. \A g, b : (Told(g, b) /\ b # a) => Told(g, b)'
    BY <1>4 DEF Told
  <2>6. SubmitsFit'
    <3> SUFFICES ASSUME NEW f \in Feedback PROVE SubmitsFit!(f)'
      BY DEF SubmitsFit
    <3>1. SubmitsFit!(f) /\ submit[f] \in Submission
      BY DEF NoteIInv, NoteShape, SubmitsFit
    <3> QED BY <1>4, <2>1, <2>4, <2>5, <3>1 DEF Submission
  <2>7. PagesOpened' /\ OneUnderWay' /\ ListsFresh' /\ PendingIsOwed'
    BY <1>1, <1>4, BellStands DEF NoteIInv
  <2> QED BY <1>4, <2>3, <2>6, <2>7 DEF NoteIInv
<1>5. CASE /\ admins' = admins \ {a}
           /\ submit' = [f \in Feedback |-> [submit[f] EXCEPT !.owed = @ \ {a}]]
           /\ UNCHANGED <<user, notes>>
  BY <1>2, <1>4, <1>5 DEF NoteIInv, NotedOnce
<1>6. ASSUME NEW kept \in InOrder(rest), notes' = [i \in DOMAIN kept |-> notes[kept[i]]]
      PROVE  /\ notes' \in Seq(Note)
             /\ \A i \in DOMAIN notes' : \E k \in DOMAIN notes : notes'[i] = notes[k]
             /\ \A k \in DOMAIN notes : notes[k].to # a =>
                  \E i \in DOMAIN notes' : notes'[i] = notes[k]
             /\ NotedOnce'
  <2>1. rest \in SUBSET (1..Len(notes))
    BY <1>2
  <2>2. /\ Cardinality(rest) \in Nat
        /\ kept \in [1..Cardinality(rest) -> rest] /\ DOMAIN kept = 1..Cardinality(rest)
        /\ \A p \in rest : \E i \in DOMAIN kept : kept[i] = p
        /\ \A i, j \in DOMAIN kept : kept[i] = kept[j] => i = j
    BY <1>2, <1>6, <2>1, OrderedPlaces
  <2>3. \A k \in DOMAIN notes : notes[k].to # a => k \in rest
    OBVIOUS
  <2>4. rest \subseteq DOMAIN notes
    OBVIOUS
  <2> HIDE DEF rest
  <2>5. \A i \in DOMAIN kept : kept[i] \in DOMAIN notes /\ notes[kept[i]] \in Note
    BY <1>2, <2>2, <2>4
  <2>6. notes' \in [1..Cardinality(rest) -> Note]
    BY <1>6, <2>2, <2>5
  <2>7. notes' \in Seq(Note)
    BY <2>2, <2>6
  <2>8. DOMAIN notes' = DOMAIN kept /\ \A i \in DOMAIN kept : notes'[i] = notes[kept[i]]
    BY <1>6
  <2>9. NotedOnce'
    <3> SUFFICES ASSUME NEW i \in DOMAIN kept, NEW j \in DOMAIN kept,
                        notes'[i].to = notes'[j].to, notes'[i].of = notes'[j].of
                 PROVE  i = j
      BY <2>8 DEF NotedOnce
    <3>1. kept[i] = kept[j]
      BY <2>5, <2>8 DEF NoteIInv, NotedOnce
    <3> QED BY <2>2, <3>1
  <2>10. \A i \in DOMAIN notes' : \E k \in DOMAIN notes : notes'[i] = notes[k]
    BY <2>5, <2>8
  <2>11. \A k \in DOMAIN notes : notes[k].to # a => \E i \in DOMAIN notes' : notes'[i] = notes[k]
    BY <2>2, <2>3, <2>8
  <2> QED BY <2>7, <2>9, <2>10, <2>11
<1>7. CASE /\ admins' = admins \ {a}
           /\ submit' = [f \in Feedback |-> [submit[f] EXCEPT !.owed = @ \ {a}]]
           /\ \E kept \in InOrder(rest) : notes' = [i \in DOMAIN kept |-> notes[kept[i]]]
  <2>1. PICK kept \in InOrder(rest) : notes' = [i \in DOMAIN kept |-> notes[kept[i]]]
    BY <1>7
  <2> HIDE DEF rest
  <2> QED BY <1>4, <1>6, <1>7, <2>1
<1> QED BY <1>3, <1>5, <1>7 DEF ChangeRole

-----------------------------------------------------------------------------
LEMMA MarkAllKeeps ==
  ASSUME NoteIInv, MarkAll PROVE NoteIInv'
<1>1. PICK m \in Message : m = [page |-> page, does |-> "mark-all-read", id |-> 0]
  BY DEF NoteIInv, NoteShape, Message
<1>2. /\ sending' = Append(sending, m) /\ sending \in Seq(Message) /\ m.page = page
      /\ pending' = TRUE /\ displayed # <<>> /\ ~pending
  BY <1>1 DEF MarkAll, NoteIInv, NoteShape, Unread
<1>3. /\ sending' \in Seq(Message) /\ Len(sending) \in Nat /\ Len(sending') = Len(sending) + 1
      /\ DOMAIN sending = 1..Len(sending) /\ DOMAIN sending' = 1..Len(sending')
      /\ sending'[Len(sending')] = m /\ \A i \in DOMAIN sending : sending'[i] = sending[i]
  BY <1>2
<1>4. NoteShape'
  BY <1>2, <1>3 DEF NoteIInv, NoteShape, MarkAll
<1>5. SubmitsFit' /\ NotedOnce'
  BY SubmitsStand DEF NoteIInv, MarkAll
<1>6. PagesOpened'
  BY <1>2, <1>3 DEF NoteIInv, NoteShape, PagesOpened, MarkAll
<1>7. OneUnderWay'
  <2>1. /\ \A h \in handling : h.page # page
        /\ \A i \in DOMAIN sending : sending[i].page # page
    BY <1>2 DEF NoteIInv, OneUnderWay
  <2>2. page' = page /\ handling' = handling
    BY DEF MarkAll
  <2> QED BY <1>2, <1>3, <2>1, <2>2 DEF OneUnderWay
<1>8. ListsFresh'
  BY DEF NoteIInv, ListsFresh, Fresh, MarkAll
<1>9. PendingIsOwed'
  BY <1>2, <1>3 DEF PendingIsOwed, MarkAll
<1> QED BY <1>4, <1>5, <1>6, <1>7, <1>8, <1>9 DEF NoteIInv

LEMMA LeaveKeeps ==
  ASSUME NoteIInv, NEW messages \in Seq(Message),
         \A i \in DOMAIN messages : messages[i].page <= page, Leave(messages)
  PROVE  NoteIInv'
<1>1. PICK o \in Handler : o = [page |-> page', does |-> "open", id |-> 0, pc |-> "read", list |-> <<>>]
  <2>1. page' \in Nat
    BY DEF NoteIInv, NoteShape, Leave
  <2>2. <<>> \in Seq(Note)
    OBVIOUS
  <2> QED BY <2>1, <2>2 DEF Handler
<1>2. /\ handling' = handling \union {o} /\ page' = page + 1 /\ page \in Nat
      /\ displayed' = <<>> /\ pending' = FALSE /\ broken' = FALSE /\ o.page = page' /\ o.pc = "read"
      /\ notes' = notes /\ marker' = marker
  BY <1>1 DEF Leave, NoteIInv, NoteShape
<1>3. /\ sending' \in Seq(Message)
      /\ \A i \in DOMAIN sending' : sending'[i].page <= page
  <2>1. sending' = messages \/ sending' = <<>>
    BY DEF Leave
  <2>2. <<>> \in Seq(Message) /\ DOMAIN <<>> = {}
    OBVIOUS
  <2> QED BY <2>1, <2>2
<1>4. \A h \in handling : h.page <= page /\ h.page \in Nat
  BY DEF NoteIInv, PagesOpened, NoteShape, Handler
<1>5. \A i \in DOMAIN sending' : sending'[i].page \in Nat
  <2>1. \A i \in DOMAIN sending' : sending'[i] \in Message
    BY <1>3
  <2> QED BY <2>1 DEF Message
<1>6. NoteShape'
  <2>1. <<>> \in Seq(Note)
    OBVIOUS
  <2>2. /\ admins' \in SUBSET Admin /\ submit' \in [Feedback -> Submission]
        /\ notes' \in Seq(Note) /\ marker' \in [Feedback -> Nat]
    BY DEF NoteIInv, NoteShape, Leave
  <2>3. page' \in Nat /\ displayed' \in Seq(Note) /\ pending' \in BOOLEAN /\ broken' \in BOOLEAN
    <3>1. page' \in Nat
      BY <1>2
    <3>2. displayed' \in Seq(Note)
      BY <1>2, <2>1
    <3>3. pending' \in BOOLEAN /\ broken' \in BOOLEAN
      BY <1>2
    <3> QED BY <3>1, <3>2, <3>3
  <2>4. handling' \in SUBSET Handler
    BY <1>2 DEF NoteIInv, NoteShape
  <2> QED BY <1>3, <2>2, <2>3, <2>4 DEF NoteShape
<1>7. SubmitsFit' /\ NotedOnce'
  BY SubmitsStand DEF NoteIInv, Leave
<1>8. PagesOpened'
  BY <1>2, <1>3, <1>4, <1>5 DEF PagesOpened
<1>9. OneUnderWay'
  BY <1>2, <1>3, <1>4, <1>5 DEF OneUnderWay
<1>10. ListsFresh'
  BY <1>2, <1>4 DEF ListsFresh
<1>11. PendingIsOwed'
  BY <1>2 DEF PendingIsOwed
<1> QED BY <1>6, <1>7, <1>8, <1>9, <1>10, <1>11 DEF NoteIInv

LEMMA ReloadKeeps ==
  ASSUME NoteIInv, Reload PROVE NoteIInv'
BY LeaveKeeps DEF Reload, NoteIInv, NoteShape, PagesOpened

LEMMA ClickKeeps ==
  ASSUME NoteIInv, NEW i \in DOMAIN displayed, Click(i) PROVE NoteIInv'
<1>1. displayed[i] \in Note /\ page \in Nat /\ sending \in Seq(Message)
  BY DEF NoteIInv, NoteShape
<1>2. PICK m \in Message : m = [page |-> page, does |-> "mark-read", id |-> displayed[i].of]
  <2>1. displayed[i].of \in Nat
    BY <1>1 DEF Note, Feedback
  <2> QED BY <1>1, <2>1 DEF Message
<1>3. PICK messages : messages = IF displayed[i].read THEN sending ELSE Append(sending, m)
  OBVIOUS
<1>4. messages \in Seq(Message)
  BY <1>1, <1>3
<1>5. \A k \in DOMAIN messages : messages[k].page <= page
  BY <1>1, <1>2, <1>3 DEF NoteIInv, PagesOpened
<1>6. Leave(messages)
  BY <1>2, <1>3 DEF Click
<1> QED BY <1>4, <1>5, <1>6, LeaveKeeps

LEMMA ReceiveKeeps ==
  ASSUME NoteIInv, Receive PROVE NoteIInv'
<1>1. sending \in Seq(Message) /\ sending # <<>> /\ page' = page /\ page \in Nat
  BY DEF NoteIInv, NoteShape, Receive
<1>2. PICK m \in Message : m = Head(sending)
  BY <1>1
<1>3. PICK h \in Handler :
        h = [page |-> m.page, does |-> m.does, id |-> m.id, pc |-> "mark", list |-> <<>>]
  <2>1. <<>> \in Seq(Note)
    OBVIOUS
  <2> QED BY <2>1 DEF Message, Handler
<1>4. handling' = handling \union {h} /\ sending' = Tail(sending) /\ h.page = m.page /\ h.pc = "mark"
  BY <1>2, <1>3 DEF Receive
<1>5. /\ DOMAIN sending = 1..Len(sending) /\ Len(sending) \in Nat /\ 1 \in DOMAIN sending
      /\ sending[1] = m /\ sending' \in Seq(Message)
      /\ \A i \in DOMAIN sending' : i \in Nat /\ i + 1 \in DOMAIN sending /\ i + 1 # 1
           /\ sending'[i] = sending[i + 1]
      /\ \A i \in DOMAIN sending : i # 1 => \E k \in DOMAIN sending' : i = k + 1
  <2>1. /\ DOMAIN sending = 1..Len(sending) /\ Len(sending) \in Nat /\ 1 \in DOMAIN sending
        /\ sending[1] = m /\ sending' \in Seq(Message)
    BY <1>1, <1>2, <1>4
  <2>2. /\ Len(sending') = Len(sending) - 1 /\ DOMAIN sending' = 1..Len(sending')
        /\ \A i \in 1..Len(sending') : sending'[i] = sending[i + 1]
    BY <1>1, <1>4, <2>1
  <2>3. ASSUME NEW i \in DOMAIN sending, i # 1 PROVE \E k \in DOMAIN sending' : i = k + 1
    <3>1. i - 1 \in DOMAIN sending' /\ i = (i - 1) + 1
      BY <2>1, <2>2, <2>3
    <3> QED BY <3>1
  <2> QED BY <2>1, <2>2, <2>3
<1>6. NoteShape'
  BY <1>4, <1>5 DEF NoteIInv, NoteShape, Receive
<1>7. SubmitsFit' /\ NotedOnce'
  BY SubmitsStand DEF NoteIInv, Receive
<1>8. PagesOpened'
  BY <1>1, <1>4, <1>5 DEF NoteIInv, PagesOpened
<1>9. OneUnderWay'
  <2>1. displayed' = displayed /\ pending' = pending
    BY DEF Receive
  <2>2. \A i \in DOMAIN sending : sending[i].page = page =>
          /\ \A g \in handling : g.page # page
          /\ \A j \in DOMAIN sending : sending[j].page = page => i = j
    BY DEF NoteIInv, OneUnderWay
  <2>3. (displayed # <<>> /\ ~pending) =>
          /\ \A g \in handling' : g.page # page
          /\ \A i \in DOMAIN sending' : sending'[i].page # page
    BY <1>4, <1>5 DEF NoteIInv, OneUnderWay
  <2>4. \A i \in DOMAIN sending' : sending'[i].page = page =>
          /\ \A g \in handling' : g.page # page
          /\ \A j \in DOMAIN sending' : sending'[j].page = page => i = j
    <3> SUFFICES ASSUME NEW i \in DOMAIN sending', sending'[i].page = page
                 PROVE  /\ \A g \in handling' : g.page # page
                        /\ \A j \in DOMAIN sending' : sending'[j].page = page => i = j
      OBVIOUS
    <3>1. sending[i + 1].page = page /\ i + 1 \in DOMAIN sending /\ i + 1 # 1
      BY <1>5
    <3>2. \A g \in handling' : g.page # page
      BY <1>4, <1>5, <2>2, <3>1
    <3>3. ASSUME NEW j \in DOMAIN sending', sending'[j].page = page PROVE i = j
      <4>1. sending[j + 1].page = page /\ j + 1 \in DOMAIN sending /\ i \in Nat /\ j \in Nat
        BY <1>5, <3>3
      <4>2. i + 1 = j + 1
        BY <2>2, <3>1, <4>1
      <4> QED BY <4>1, <4>2
    <3> QED BY <3>2, <3>3
  <2>5. \A f, g \in handling' : (f.page = page /\ g.page = page) => f = g
    BY <1>4, <1>5, <2>2 DEF NoteIInv, OneUnderWay
  <2> QED BY <1>1, <2>1, <2>3, <2>4, <2>5 DEF OneUnderWay
<1>10. ListsFresh'
  <2>1. ASSUME NEW entries, Fresh(entries) PROVE Fresh(entries)'
    BY <2>1 DEF Fresh, Receive
  <2>2. displayed' = displayed /\ broken' = broken
    BY DEF Receive
  <2> QED BY <1>1, <1>4, <2>1, <2>2 DEF NoteIInv, ListsFresh
<1>11. PendingIsOwed'
  <2>1. pending' = pending /\ broken' = broken
    BY DEF Receive
  <2>2. ASSUME NEW i \in DOMAIN sending, sending[i].page = page
        PROVE  (\E k \in DOMAIN sending' : sending'[k].page = page) \/ h.page = page
    BY <1>4, <1>5, <2>2
  <2> QED BY <1>1, <1>4, <2>1, <2>2 DEF NoteIInv, PendingIsOwed
<1> QED BY <1>6, <1>7, <1>8, <1>9, <1>10, <1>11 DEF NoteIInv

\* The step of a handler: one with the same socket takes its place.
LEMMA MarkKeeps ==
  ASSUME NoteIInv, NEW h \in handling, Mark(h) PROVE NoteIInv'
<1>1. h \in Handler /\ h.pc = "mark" /\ page \in Nat /\ notes \in Seq(Note)
      /\ DOMAIN notes = 1..Len(notes) /\ Len(notes) \in Nat
  BY DEF NoteIInv, NoteShape, Mark
<1>2. PICK g \in Handler : g = [h EXCEPT !.pc = "read"]
  BY <1>1 DEF Handler
<1>3. g.page = h.page /\ g.pc = "read" /\ handling' = (handling \ {h}) \union {g}
  BY <1>1, <1>2 DEF Handler, Mark
<1>4. UNCHANGED <<submit, admins, page, sending, displayed, pending, broken>>
  BY DEF Mark
<1>5. /\ DOMAIN notes' = DOMAIN notes
      /\ \A i \in DOMAIN notes :
           notes'[i] = IF Marks(h, notes[i]) THEN [notes[i] EXCEPT !.read = TRUE] ELSE notes[i]
  BY DEF Mark
<1>6. \A i \in DOMAIN notes :
        /\ notes[i] \in Note /\ notes'[i] \in Note
        /\ notes'[i].to = notes[i].to /\ notes'[i].of = notes[i].of
        /\ notes'[i].read <=> (notes[i].read \/ Marks(h, notes[i]))
  <2> SUFFICES ASSUME NEW i \in DOMAIN notes
               PROVE  /\ notes[i] \in Note /\ notes'[i] \in Note
                      /\ notes'[i].to = notes[i].to /\ notes'[i].of = notes[i].of
                      /\ notes'[i].read <=> (notes[i].read \/ Marks(h, notes[i]))
    OBVIOUS
  <2>1. notes[i] \in Note
    BY <1>1
  <2>2. CASE Marks(h, notes[i])
    <3>1. notes'[i] = [notes[i] EXCEPT !.read = TRUE]
      BY <1>5, <2>2
    <3> QED BY <2>1, <2>2, <3>1 DEF Note
  <2>3. CASE ~Marks(h, notes[i])
    <3>1. notes'[i] = notes[i]
      BY <1>5, <2>3
    <3> QED BY <2>1, <2>3, <3>1
  <2> QED BY <2>2, <2>3
<1>7. notes' \in Seq(Note)
  <2>1. notes' \in [1..Len(notes) -> Note]
    BY <1>1, <1>5, <1>6 DEF Mark
  <2> QED BY <1>1, <2>1
<1>8. marker' \in [Feedback -> Nat]
  BY <1>1 DEF Mark, NoteIInv, NoteShape, Handler
<1>9. NoteShape'
  BY <1>3, <1>4, <1>7, <1>8 DEF NoteIInv, NoteShape
<1>10. SubmitsFit' /\ NotedOnce'
  BY <1>4, <1>5, <1>6, SubmitsStand DEF NoteIInv
<1>11. PagesOpened' /\ OneUnderWay' /\ PendingIsOwed'
  BY <1>3, <1>4 DEF NoteIInv, PagesOpened, OneUnderWay, PendingIsOwed
<1>12. \A f \in Feedback : marker'[f] = marker[f] \/ marker'[f] = h.page
  BY DEF Mark, NoteIInv, NoteShape
<1>13. \A i \in DOMAIN notes :
         (notes'[i].read /\ ~notes[i].read) => marker'[notes[i].of] = h.page
  <2> SUFFICES ASSUME NEW i \in DOMAIN notes, notes'[i].read, ~notes[i].read
               PROVE  marker'[notes[i].of] = h.page
    OBVIOUS
  <2>1. Marks(h, notes[i]) /\ notes[i].of \in Feedback
    BY <1>6 DEF Note
  <2> QED BY <2>1 DEF Mark
<1>14. ListsFresh'
  <2>1. CASE h.page = page
    <3>1. \A k \in handling : k.page = page => k = h
      BY <2>1 DEF NoteIInv, OneUnderWay
    <3> QED BY <1>3, <1>4, <2>1, <3>1 DEF ListsFresh
  <2>2. CASE h.page < page
    <3>1. ASSUME NEW entries \in Seq(Note), Fresh(entries) PROVE Fresh(entries)'
      <4> SUFFICES ASSUME NEW i \in DOMAIN entries, NEW j \in DOMAIN notes, ~entries[i].read,
                          notes'[j].read, notes'[j].to = Reader, notes'[j].of = entries[i].of
                   PROVE  marker'[entries[i].of] < page
        BY <1>4, <1>5 DEF Fresh
      <4>1. entries[i].of \in Feedback
        <5>1. entries[i] \in Note
          OBVIOUS
        <5> QED BY <5>1 DEF Note
      <4>2. CASE notes[j].read
        <5>1. marker[entries[i].of] < page
          BY <1>6, <3>1, <4>2 DEF Fresh
        <5> QED BY <1>12, <2>2, <4>1, <5>1
      <4>3. CASE ~notes[j].read
        BY <1>6, <1>13, <2>2, <4>3
      <4> QED BY <4>2, <4>3
    <3>2. displayed \in Seq(Note) /\ \A k \in handling : k.list \in Seq(Note)
      BY DEF NoteIInv, NoteShape, Handler
    <3>3. \A k \in handling' : (k.page = page /\ k.pc = "send") => Fresh(k.list)'
      BY <1>3, <2>2, <3>1, <3>2 DEF NoteIInv, ListsFresh
    <3>4. Fresh(displayed)' \/ broken \/ \E k \in handling : k.page = page /\ k.pc \in {"read", "send"}
      BY <1>4, <3>1, <3>2 DEF NoteIInv, ListsFresh
    <3> QED BY <1>3, <1>4, <2>2, <3>3, <3>4 DEF ListsFresh
  <2> QED BY <1>1, <2>1, <2>2 DEF NoteIInv, PagesOpened, Handler
<1> QED BY <1>9, <1>10, <1>11, <1>14 DEF NoteIInv

LEMMA ReadNotesKeeps ==
  ASSUME NoteIInv, NEW h \in handling, ReadNotes(h) PROVE NoteIInv'
<1>1. PICK entries \in LatestNotes :
        handling' = (handling \ {h}) \union {[h EXCEPT !.pc = "send", !.list = entries]}
  BY DEF ReadNotes
<1>2. /\ entries \in Seq(Note)
      /\ \A i \in DOMAIN entries : \E k \in DOMAIN notes : entries[i] = notes[k] /\ notes[k].to = Reader
  BY LatestAreNotes DEF NoteIInv
<1>3. h \in Handler /\ h.pc = "read"
  BY DEF NoteIInv, NoteShape, ReadNotes
<1>4. PICK g \in Handler : g = [h EXCEPT !.pc = "send", !.list = entries]
  BY <1>2, <1>3 DEF Handler
<1>5. /\ g.page = h.page /\ g.pc = "send" /\ g.list = entries
      /\ handling' = (handling \ {h}) \union {g}
  BY <1>1, <1>3, <1>4 DEF Handler
<1>6. /\ UNCHANGED <<submit, admins, notes, page, sending, displayed, pending, broken, marker>>
  BY DEF ReadNotes
<1>7. NoteShape'
  BY <1>5, <1>6 DEF NoteIInv, NoteShape
<1>8. SubmitsFit' /\ NotedOnce'
  BY <1>6, SubmitsStand DEF NoteIInv
<1>9. PagesOpened' /\ OneUnderWay' /\ PendingIsOwed'
  BY <1>5, <1>6 DEF NoteIInv, PagesOpened, OneUnderWay, PendingIsOwed
<1>10. \A l : Fresh(l)' <=> Fresh(l)
  BY <1>6 DEF Fresh
<1>11. Fresh(entries)
  <2> SUFFICES ASSUME NEW i \in DOMAIN entries, NEW j \in DOMAIN notes, ~entries[i].read,
                      notes[j].read, notes[j].to = Reader, notes[j].of = entries[i].of
               PROVE  FALSE
    BY DEF Fresh
  <2>1. PICK k \in DOMAIN notes : entries[i] = notes[k] /\ notes[k].to = Reader
    BY <1>2
  <2>2. k = j
    BY <2>1 DEF NoteIInv, NotedOnce
  <2> QED BY <2>1, <2>2
<1>12. ListsFresh'
  BY <1>3, <1>5, <1>6, <1>10, <1>11 DEF NoteIInv, ListsFresh
<1> QED BY <1>7, <1>8, <1>9, <1>12 DEF NoteIInv

LEMMA SendKeeps ==
  ASSUME NoteIInv, NEW h \in handling, Send(h) PROVE NoteIInv'
<1>1. h \in Handler /\ h.pc = "send" /\ handling' = handling \ {h}
  BY DEF NoteIInv, NoteShape, Send
<1>2. UNCHANGED <<submit, admins, notes, page, sending, broken, marker>>
  BY DEF Send
<1>3. /\ displayed' = IF h.page = page THEN h.list ELSE displayed
      /\ pending' = (pending /\ h.page # page)
  BY DEF Send
<1>4. NoteShape'
  BY <1>1, <1>2, <1>3 DEF NoteIInv, NoteShape, Handler
<1>5. SubmitsFit' /\ NotedOnce'
  BY <1>2, SubmitsStand DEF NoteIInv
<1>6. \A l : Fresh(l)' <=> Fresh(l)
  BY <1>2 DEF Fresh
<1>7. PagesOpened'
  BY <1>1, <1>2 DEF NoteIInv, PagesOpened
<1>8. CASE h.page = page
  <2>1. (\A k \in handling' : k.page # page) /\ \A i \in DOMAIN sending : sending[i].page # page
    BY <1>1, <1>8 DEF NoteIInv, OneUnderWay
  <2>2. pending' = FALSE /\ displayed' = h.list
    BY <1>3, <1>8
  <2>3. OneUnderWay' /\ PendingIsOwed'
    BY <1>2, <2>1, <2>2 DEF OneUnderWay, PendingIsOwed
  <2>4. ListsFresh'
    BY <1>1, <1>2, <1>6, <1>8, <2>1, <2>2 DEF NoteIInv, ListsFresh
  <2> QED BY <1>4, <1>5, <1>7, <2>3, <2>4 DEF NoteIInv
<1>9. CASE h.page # page
  <2>1. pending' = pending /\ displayed' = displayed
    BY <1>3, <1>9 DEF NoteIInv, NoteShape
  <2>2. OneUnderWay' /\ PendingIsOwed'
    BY <1>1, <1>2, <1>9, <2>1 DEF NoteIInv, OneUnderWay, PendingIsOwed
  <2>3. ListsFresh'
    BY <1>1, <1>2, <1>6, <1>9, <2>1 DEF NoteIInv, ListsFresh
  <2> QED BY <1>4, <1>5, <1>7, <2>2, <2>3 DEF NoteIInv
<1> QED BY <1>8, <1>9

LEMMA HandlerFailsKeeps ==
  ASSUME NoteIInv, NEW h \in handling, HandlerFails(h) PROVE NoteIInv'
<1>1. handling' = handling \ {h} /\ broken' = (broken \/ h.page = page)
  BY DEF HandlerFails
<1>2. UNCHANGED <<submit, admins, notes, page, sending, displayed, pending, marker>>
  BY DEF HandlerFails
<1>3. NoteShape'
  BY <1>1, <1>2 DEF NoteIInv, NoteShape
<1>4. SubmitsFit' /\ NotedOnce'
  BY <1>2, SubmitsStand DEF NoteIInv
<1>5. \A l : Fresh(l)' <=> Fresh(l)
  BY <1>2 DEF Fresh
<1>6. PagesOpened' /\ OneUnderWay' /\ PendingIsOwed'
  BY <1>1, <1>2 DEF NoteIInv, PagesOpened, OneUnderWay, PendingIsOwed
<1>7. ListsFresh'
  BY <1>1, <1>2, <1>5 DEF NoteIInv, ListsFresh
<1> QED BY <1>3, <1>4, <1>6, <1>7 DEF NoteIInv

-----------------------------------------------------------------------------
LEMMA NoteSteps == NoteIInv /\ [NoteNext]_noteVars => NoteIInv'
<1> SUFFICES ASSUME NoteIInv, [NoteNext]_noteVars PROVE NoteIInv'
  OBVIOUS
<1>1. CASE SubmitNext
  BY <1>1, StoreKeeps, FindAdminsKeeps, NotifyKeeps, NotifyFailsKeeps, AnswerKeeps, ChangeRoleKeeps
     DEF SubmitNext
<1>2. CASE BellNext
  BY <1>2, MarkAllKeeps, ReloadKeeps, ClickKeeps, ReceiveKeeps, MarkKeeps, ReadNotesKeeps,
     SendKeeps, HandlerFailsKeeps DEF BellNext, ServerNext, Handle
<1>3. CASE UNCHANGED noteVars
  BY <1>3 DEF noteVars, NoteIInv, NoteShape, SubmitsFit, NotedOnce, Told, PagesOpened,
     OneUnderWay, ListsFresh, Fresh, PendingIsOwed
<1> QED BY <1>1, <1>2, <1>3 DEF NoteNext

\* The submissions and the bell stay in step, whatever the order in which the
\* loop of submitFeedback, changes of administrators and the handlers of the
\* sockets run, and whatever fails.
THEOREM NoteInductive == NoteSpec => []NoteIInv
BY NoteInitially, NoteSteps, PTL DEF NoteSpec

\* Feedback that was answered as submitted has notified everybody who was an
\* administrator when submitFeedback stored it and stayed one until the answer.
THEOREM NoteReachesAdmins == NoteSpec => []FeedbackReachesAdmins
<1>1. NoteIInv => FeedbackReachesAdmins
  BY DEF NoteIInv, SubmitsFit, FeedbackReachesAdmins, Told
<1> QED BY <1>1, NoteInductive, PTL

\* When nothing is under way, the bell shows no notification as unread that was
\* marked from this page, however the handlers of its socket's messages overlapped.
THEOREM NoteShownRead == NoteSpec => []MarkedIsShownRead
<1>1. NoteIInv => MarkedIsShownRead
  BY DEF NoteIInv, ListsFresh, Fresh, MarkedIsShownRead, Quiet
<1> QED BY <1>1, NoteInductive, PTL

\* A "mark all read" that is waited for is on its way, unless its handler threw.
THEOREM NotePendingOwed == NoteSpec => []PendingIsOwed
<1>1. NoteIInv => PendingIsOwed
  BY DEF NoteIInv
<1> QED BY <1>1, NoteInductive, PTL

-------------------------------------------------------------------------------
(***************************************************************************)
(* PagedLists, for every length of a page, any number of rows, changes of  *)
(* the list and requests under way: a walk from the first page to the      *)
(* last, as its pages arrive, misses only a row that left or moved         *)
(* meanwhile, and an empty page of a list that has rows has a button.      *)
(***************************************************************************)

HIDE NotificationAssumption

Total == Nat \union {-1}
FetchState == [pc : {"idle", "reading"}, total : Total, read : BOOLEAN, rows : Seq(Nat),
               changed : BOOLEAN, joined : BOOLEAN]
ReplyState == [rows : Seq(Nat), page : Nat, pages : Nat, raced : BOOLEAN]
WalkState == [on : BOOLEAN, from : SUBSET Nat, seen : SUBSET Nat, unsteady : BOOLEAN]

USE ListAssumption

-----------------------------------------------------------------------------
(***************************************************************************)
(* Pages and rows.                                                         *)
(***************************************************************************)
LEMMA MaxOfTwo ==
  ASSUME NEW a \in Int, NEW b \in Int
  PROVE  Max({a, b}) = IF a >= b THEN a ELSE b
<1>1. \E x \in {a, b} : \A y \in {a, b} : x >= y
  OBVIOUS
<1> QED BY <1>1 DEF Max

LEMMA MinOfTwo ==
  ASSUME NEW a \in Int, NEW b \in Int
  PROVE  Min({a, b}) = IF a <= b THEN a ELSE b
<1>1. \E x \in {a, b} : \A y \in {a, b} : x <= y
  OBVIOUS
<1> QED BY <1>1 DEF Min

\* Multiplying with the length of a page.
LEMMA PagesAscend ==
  ASSUME NEW a \in Int, NEW b \in Int, a <= b
  PROVE  a * Limit <= b * Limit
OBVIOUS

LEMMA NextPage ==
  ASSUME NEW a \in Int
  PROVE  a * Limit \in Int /\ (a - 1) * Limit \in Int /\ (a - 1) * Limit + Limit = a * Limit
OBVIOUS

\* The last page holds the last row, and the one before is full.
LEMMA PageCountFits ==
  ASSUME NEW total \in Nat
  PROVE  /\ PageCount(total) \in Nat \ {0}
         /\ total <= PageCount(total) * Limit
         /\ total # 0 => (PageCount(total) - 1) * Limit < total
         /\ total = 0 => PageCount(total) = 1
<1> DEFINE d == (total + Limit - 1) \div Limit
<1>1. d \in Nat /\ d * Limit <= total + Limit - 1 /\ total + Limit - 1 < (d + 1) * Limit
  OBVIOUS
<1>2. (d + 1) * Limit = d * Limit + Limit /\ (d - 1) * Limit = d * Limit - Limit
  BY <1>1
<1>3. PageCount(total) = IF 1 >= d THEN 1 ELSE d
  BY <1>1, MaxOfTwo DEF PageCount
<1> HIDE DEF d
<1>4. total # 0 => d >= 1
  BY <1>1, <1>2
<1>5. total = 0 => d < 1
  BY <1>1, <1>2
<1> QED BY <1>1, <1>2, <1>3, <1>4, <1>5

LEMMA PageCountAscends ==
  ASSUME NEW a \in Nat, NEW b \in Nat, a <= b
  PROVE  PageCount(a) <= PageCount(b)
<1>1. CASE a = 0
  BY <1>1, PageCountFits
<1>2. CASE a # 0
  <2>1. /\ PageCount(a) \in Nat /\ PageCount(b) \in Nat
        /\ (PageCount(a) - 1) * Limit < a /\ b <= PageCount(b) * Limit
    BY <1>2, PageCountFits
  <2>2. (PageCount(a) - 1) * Limit \in Int /\ PageCount(b) * Limit \in Int
    BY <2>1
  <2>3. (PageCount(a) - 1) * Limit < PageCount(b) * Limit
    BY <2>1, <2>2
  <2>4. ASSUME PageCount(b) <= PageCount(a) - 1 PROVE FALSE
    <3>1. PageCount(b) * Limit <= (PageCount(a) - 1) * Limit
      BY <2>1, <2>4, PagesAscend
    <3> QED BY <2>2, <2>3, <3>1
  <2> QED BY <2>1, <2>4
<1> QED BY <1>1, <1>2

\* The rows of a page.
LEMMA SliceHolds ==
  ASSUME NEW N, rows \in Seq(N), NEW at \in Nat \ {0}
  PROVE  /\ Slice(at) \in Seq(N)
         /\ \A i \in DOMAIN rows :
              ((at - 1) * Limit < i /\ i <= at * Limit) => rows[i] \in Range(Slice(at))
<1>1. PICK len \in Nat : len = Len(rows)
  OBVIOUS
<1>2. DOMAIN rows = 1..len /\ \A i \in 1..len : rows[i] \in N
  BY <1>1
<1>3. PICK before \in Int : before = (at - 1) * Limit
  OBVIOUS
<1>4. PICK end \in Int : end = at * Limit
  OBVIOUS
<1>5. 0 <= before
  <2>1. 0 * Limit <= (at - 1) * Limit /\ 0 * Limit = 0
    BY PagesAscend
  <2> QED BY <1>3, <2>1
<1>6. PICK n \in Int : n = Min({end, len})
  BY MinOfTwo
<1>7. n = IF end <= len THEN end ELSE len
  BY <1>6, MinOfTwo
<1>8. PICK m \in Int : m = before + 1
  OBVIOUS
<1>9. m >= 1 /\ n <= len
  BY <1>5, <1>7, <1>8
<1>10. Slice(at) = SubSeq(rows, m, n)
  BY <1>1, <1>3, <1>4, <1>6, <1>8 DEF Slice
<1>11. \A i \in m..n : rows[i] \in N
  BY <1>2, <1>9
<1>12. /\ SubSeq(rows, m, n) \in Seq(N)
       /\ Len(SubSeq(rows, m, n)) = IF m <= n THEN n - m + 1 ELSE 0
       /\ \A i \in 1..(n - m + 1) : SubSeq(rows, m, n)[i] = rows[m + i - 1]
  BY <1>11, SubSeqProperties
<1>13. ASSUME NEW i \in 1..len, before < i, i <= end
       PROVE  rows[i] \in Range(Slice(at))
  <2>1. m <= i /\ i <= n
    BY <1>7, <1>8, <1>13
  <2>2. PICK k \in 1..(n - m + 1) : k = i - m + 1
    BY <2>1
  <2>3. m <= n /\ m + k - 1 = i
    BY <2>1, <2>2
  <2>4. SubSeq(rows, m, n)[k] = rows[i]
    BY <1>12, <2>3
  <2>5. DOMAIN SubSeq(rows, m, n) = 1..(n - m + 1)
    BY <1>12, <2>3
  <2> QED BY <1>10, <2>4, <2>5 DEF Range
<1> QED BY <1>2, <1>3, <1>4, <1>10, <1>12, <1>13

\* What removing a row leaves.
LEMMA RemovedOne ==
  ASSUME NEW N, rows \in Seq(N), NEW i \in DOMAIN rows
  PROVE  RemoveAt(rows, i) \in Seq(N) /\ Len(RemoveAt(rows, i)) = Len(rows) - 1
<1>1. PICK len \in Nat : len = Len(rows)
  OBVIOUS
<1>2. i \in 1..len /\ \A k \in 1..len : rows[k] \in N
  BY <1>1
<1>3. PICK head : head = SubSeq(rows, 1, i - 1)
  OBVIOUS
<1>4. PICK tail : tail = SubSeq(rows, i + 1, len)
  OBVIOUS
<1>5. head \in Seq(N) /\ Len(head) = i - 1
  <2>1. 1 \in Int /\ i - 1 \in Int /\ \A k \in 1..(i - 1) : rows[k] \in N
    BY <1>2
  <2>2. head \in Seq(N) /\ Len(head) = IF 1 <= i - 1 THEN (i - 1) - 1 + 1 ELSE 0
    BY <1>3, <2>1, SubSeqProperties
  <2> QED BY <1>2, <2>2
<1>6. tail \in Seq(N) /\ Len(tail) = len - i
  <2>1. i + 1 \in Int /\ len \in Int /\ \A k \in (i + 1)..len : rows[k] \in N
    BY <1>2
  <2>2. tail \in Seq(N) /\ Len(tail) = IF i + 1 <= len THEN len - (i + 1) + 1 ELSE 0
    BY <1>4, <2>1, SubSeqProperties
  <2> QED BY <1>2, <2>2
<1>7. head \o tail \in Seq(N) /\ Len(head \o tail) = Len(head) + Len(tail)
  BY <1>5, <1>6, ConcatProperties
<1>8. RemoveAt(rows, i) = head \o tail
  BY <1>1, <1>3, <1>4 DEF RemoveAt
<1>9. Len(head \o tail) = len - 1
  BY <1>2, <1>5, <1>6, <1>7
<1> QED BY <1>1, <1>7, <1>8, <1>9

LEMMA SeqOfMore ==
  ASSUME NEW S, NEW T, S \subseteq T, NEW s \in Seq(S)
  PROVE  s \in Seq(T) /\ Range(s) \subseteq S
<1>1. s \in [1..Len(s) -> S] /\ Len(s) \in Nat
  OBVIOUS
<1>2. s \in [1..Len(s) -> T]
  BY <1>1
<1> QED BY <1>1, <1>2 DEF Range

\* A row in front of others.
LEMMA PutFirst ==
  ASSUME NEW N, NEW s \in Seq(N), NEW x \in N
  PROVE  /\ <<x>> \o s \in Seq(N) /\ Len(<<x>> \o s) = Len(s) + 1
         /\ (<<x>> \o s)[1] = x
         /\ \A i \in 1..Len(s) : (<<x>> \o s)[i + 1] = s[i]
<1>1. <<x>> \in Seq(N) /\ Len(<<x>>) = 1 /\ <<x>>[1] = x /\ Len(s) \in Nat
  OBVIOUS
<1>2. /\ <<x>> \o s \in Seq(N) /\ Len(<<x>> \o s) = 1 + Len(s)
      /\ \A i \in 1..(1 + Len(s)) : (<<x>> \o s)[i] = IF i <= 1 THEN <<x>>[i] ELSE s[i - 1]
  BY <1>1, ConcatProperties
<1>3. ASSUME NEW i \in 1..Len(s) PROVE (<<x>> \o s)[i + 1] = s[i]
  BY <1>1, <1>2
<1> QED BY <1>1, <1>2, <1>3

\* What the endpoints and the pages have in common.
LEMMA ListsAgree ==
  ASSUME NEW l \in Lists
  PROVE  /\ l.server.offset = "clamped" => l.server.counts = "before"
         /\ (l.server.offset # "clamped" /\ l.pager.by = "reply") => l.server = FeedbackList
         /\ l.pager # NoPager => l.pager.by \in {"reply", "asked"}
<1> DEFINE Fits(server, pager) ==
             /\ server.offset = "clamped" => server.counts = "before"
             /\ (server.offset # "clamped" /\ pager.by = "reply") => server = FeedbackList
             /\ pager # NoPager => pager.by \in {"reply", "asked"}
<1>1. Fits(ActivityList, ActivityPager) /\ Fits(WebhookList, WebhookPager)
  BY DEF ActivityList, ActivityPager, WebhookList, WebhookPager
<1>2. Fits(InvitationList, InvitationPager) /\ Fits(VisitorList, VisitorPager)
  BY DEF InvitationList, InvitationPager, VisitorList, VisitorPager
<1>3. Fits(FeedbackList, FeedbackPager) /\ Fits(EmailList, EmailPager)
  BY DEF FeedbackList, FeedbackPager, EmailList, EmailPager, Unclamped
<1>4. Fits(Unclamped, NoPager)
  BY DEF Unclamped, NoPager
<1>5. \/ l.server = Unclamped /\ l.pager = NoPager
     \/ Fits(l.server, l.pager)
  <2> HIDE DEF Fits
  <2> QED BY <1>1, <1>2, <1>3
     DEF Lists, InboxList, AdminDomainList, AdminEmailList, AdminInboundList, AdminApiKeyList,
         AdminMailboxList, UserList, InboxPager, AdminDomainPager, AdminEmailPager,
         AdminInboundPager, AdminMailboxPager, AdminApiKeyPager, UserPager
<1>6. Fits(l.server, l.pager)
  BY <1>4, <1>5
<1> QED BY <1>6

-----------------------------------------------------------------------------
(***************************************************************************)
(* The inductive invariant.                                                *)
(***************************************************************************)
\* Rows are of the ids given out so far, and so is a walk; that no two rows have the
\* same id is not needed.
ListTypeOK ==
  /\ list \in Lists
  /\ used \in 0..MaxRows /\ rows \in Seq(1..used) /\ Len(rows) <= used
  /\ want \in Pages /\ removed \in BOOLEAN
  /\ fetch \in [Pages -> FetchState]
  /\ shown \in ReplyState
  /\ walk \in WalkState /\ walk.from \subseteq 1..used

\* A request has counted and read the rows there are, unless they changed since; as
\* long as none has left, it has counted no more than there are.
RequestFits(p, f) ==
  /\ f.total <= MaxRows
  /\ (list.server.counts = "before" /\ f.read) => f.total >= 0
  /\ ~removed => f.total <= Len(rows)
  /\ ~f.changed =>
       /\ f.total >= 0 => f.total = Len(rows)
       /\ f.read => f.rows = Slice(Offset(p, f.total))

FetchFits(p) == RequestFits(p, fetch[p])

\* The reply displayed is one to the page asked for.
ShownFits ==
  Loaded(shown) =>
    /\ shown.pages \in Pages
    /\ shown.page = IF list.server.page = "clamped" THEN Min({want, shown.pages}) ELSE want
    /\ ~removed => shown.pages <= PageCount(Len(rows))

\* Only buttons lead to another page, and to one that there was.
WantFits ==
  /\ ~HasButtons => want = 1
  /\ ~removed => want <= PageCount(Len(rows))

Reached == IF Loaded(shown) THEN want ELSE want - 1

\* On a steady walk, what has not been seen of the rows there were at first lies behind
\* the pages reached; at the last one, there is nothing.
WalkFits ==
  (walk.on /\ ~walk.unsteady) =>
    /\ Loaded(shown) \/ ~Settled(want)
    /\ \A x \in walk.from \ walk.seen :
         /\ \E i \in DOMAIN rows : rows[i] = x
         /\ \A i \in DOMAIN rows : rows[i] = x => Reached * Limit < i
    /\ (Loaded(shown) /\ shown.pages <= want) => walk.from \subseteq walk.seen

ListIInv ==
  /\ ListTypeOK /\ (\A p \in Pages : FetchFits(p))
  /\ ShownFits /\ WantFits /\ WalkFits

LEMMA PagesAreNumbers ==
  /\ PageCount(MaxRows) \in Nat \ {0} /\ Pages \subseteq Nat \ {0} /\ 1 \in Pages
  /\ \A total \in 0..MaxRows : PageCount(total) \in Pages
<1>1. MaxRows \in Nat /\ PageCount(MaxRows) \in Nat \ {0}
  BY PageCountFits
<1>2. ASSUME NEW total \in 0..MaxRows PROVE PageCount(total) \in Pages
  <2>1. total \in Nat /\ total <= MaxRows
    BY <1>1
  <2>2. PageCount(total) \in Nat \ {0}
    BY <2>1, PageCountFits
  <2>3. PageCount(total) <= PageCount(MaxRows)
    BY <1>1, <2>1, PageCountAscends
  <2> QED BY <1>1, <2>2, <2>3 DEF Pages
<1>3. Pages \subseteq Nat \ {0} /\ 1 \in Pages
  BY <1>1 DEF Pages
<1> QED BY <1>1, <1>2, <1>3

LEMMA IdleFits ==
  /\ NoFetch \in FetchState /\ [NoFetch EXCEPT !.pc = "reading"] \in FetchState
  /\ NoFetch.total = -1 /\ ~NoFetch.read /\ NoFetch.pc = "idle"
  /\ [NoFetch EXCEPT !.pc = "reading"].total = -1 /\ ~[NoFetch EXCEPT !.pc = "reading"].read
  /\ [NoFetch EXCEPT !.pc = "reading"].pc = "reading"
<1>1. << >> \in Seq(Nat) /\ -1 \in Total
  BY DEF Total
<1> QED BY <1>1 DEF NoFetch, FetchState

\* A request that has read nothing fits.
LEMMA NothingRead ==
  ASSUME NEW p, fetch[p].total = -1, ~fetch[p].read, Len(rows) \in Nat
  PROVE  FetchFits(p)
<1>1. MaxRows \in Nat
  OBVIOUS
<1>2. -1 <= MaxRows /\ -1 <= Len(rows) /\ ~(-1 >= 0)
  BY <1>1
<1> QED BY <1>2 DEF FetchFits, RequestFits

LEMMA ListInitInv == ListInit => ListIInv
<1> SUFFICES ASSUME ListInit PROVE ListIInv
  OBVIOUS
<1>1. /\ rows = [i \in 1..StartRows |-> StartRows - i + 1] /\ used = StartRows
      /\ StartRows \in 0..MaxRows
  BY DEF ListInit
<1>2. rows \in [1..StartRows -> 1..used]
  BY <1>1
<1>3. rows \in Seq(1..used) /\ Len(rows) = StartRows
  BY <1>1, <1>2
<1>4. NoReply \in ReplyState /\ ~Loaded(NoReply)
  BY DEF NoReply, ReplyState, Loaded
<1>5. NoWalk \in WalkState /\ NoWalk.from = {} /\ ~NoWalk.on
  BY DEF NoWalk, WalkState
<1>6. /\ fetch \in [Pages -> FetchState]
      /\ \A p \in Pages : fetch[p].total = -1 /\ ~fetch[p].read
  BY IdleFits DEF ListInit
<1>7. ListTypeOK
  <2>1. list \in Lists /\ shown = NoReply /\ walk = NoWalk /\ removed \in BOOLEAN /\ want \in Pages
    BY PagesAreNumbers DEF ListInit
  <2>2. used \in 0..MaxRows /\ Len(rows) <= used /\ walk.from \subseteq 1..used
    BY <1>1, <1>3, <1>5, <2>1
  <2> QED BY <1>3, <1>4, <1>5, <1>6, <2>1, <2>2 DEF ListTypeOK
<1>8. \A p \in Pages : FetchFits(p)
  <2>1. Len(rows) \in Nat
    BY <1>3
  <2> QED BY <2>1, <1>6, NothingRead
<1>9. WantFits
  BY <1>1, <1>3, PageCountFits DEF ListInit, WantFits
<1>10. ShownFits /\ WalkFits
  BY <1>4, <1>5 DEF ListInit, ShownFits, WalkFits
<1> QED BY <1>7, <1>8, <1>9, <1>10 DEF ListIInv

-----------------------------------------------------------------------------
(***************************************************************************)
(* Others change the list.                                                 *)
(***************************************************************************)
LEMMA ShakenFits ==
  ASSUME ListIInv
  PROVE  /\ Shaken \in [Pages -> FetchState]
         /\ \A p \in Pages :
              /\ Shaken[p].pc = fetch[p].pc /\ Shaken[p].total = fetch[p].total
              /\ Shaken[p].read = fetch[p].read
              /\ ~Shaken[p].changed => fetch[p].total < 0 /\ ~fetch[p].read
<1> SUFFICES ASSUME NEW p \in Pages
             PROVE  /\ Shaken[p] \in FetchState
                    /\ Shaken[p].pc = fetch[p].pc /\ Shaken[p].total = fetch[p].total
                    /\ Shaken[p].read = fetch[p].read
                    /\ ~Shaken[p].changed => fetch[p].total < 0 /\ ~fetch[p].read
  BY DEF Shaken
<1>1. fetch[p] \in FetchState
  BY DEF ListIInv, ListTypeOK
<1>2. fetch[p].total \in Int /\ fetch[p].read \in BOOLEAN /\ fetch[p].changed \in BOOLEAN
  BY <1>1 DEF FetchState, Total
<1>3. PICK changed \in BOOLEAN :
        changed = (fetch[p].changed \/ fetch[p].total >= 0 \/ fetch[p].read)
  BY <1>2
<1>4. Shaken[p] = [fetch[p] EXCEPT !.changed = changed]
  BY <1>3 DEF Shaken
<1>5. ~changed => ~(fetch[p].total >= 0) /\ ~fetch[p].read
  BY <1>3
<1>6. ~changed => fetch[p].total < 0 /\ ~fetch[p].read
  BY <1>2, <1>5
<1> QED BY <1>1, <1>4, <1>6 DEF FetchState

LEMMA ShiftKeeps ==
  ASSUME ListIInv, fetch' = Shaken, UNCHANGED <<list, want, shown>>,
         used' \in 0..MaxRows, used <= used', rows' \in Seq(1..used'), Len(rows') <= used',
         removed' = TRUE \/ (removed' = removed /\ Len(rows) <= Len(rows')),
         walk' \in WalkState, walk'.from = walk.from, WalkFits'
  PROVE  ListIInv'
<1>1. /\ Len(rows) \in Nat /\ Len(rows') \in Nat /\ used \in Nat /\ removed \in BOOLEAN
      /\ Len(rows) <= MaxRows
  BY DEF ListIInv, ListTypeOK
<1>2. ListTypeOK'
  <2>1. removed' \in BOOLEAN
    BY <1>1
  <2>2. walk'.from \subseteq 1..used'
    BY <1>1 DEF ListIInv, ListTypeOK
  <2> QED BY <2>1, <2>2, ShakenFits DEF ListIInv, ListTypeOK
<1>3. ASSUME NEW p \in Pages PROVE FetchFits(p)'
  <2>1. RequestFits(p, fetch[p]) /\ fetch[p].total \in Int
    BY DEF ListIInv, ListTypeOK, FetchFits, FetchState, Total
  <2>2. fetch'[p].total = fetch[p].total /\ fetch'[p].read = fetch[p].read
    BY ShakenFits
  <2>3. ~fetch'[p].changed => fetch'[p].total < 0 /\ ~fetch'[p].read
    BY <2>2, ShakenFits
  <2>4. ~removed' => fetch'[p].total <= Len(rows')
    BY <1>1, <2>1, <2>2 DEF FetchFits, RequestFits
  <2> QED BY <2>1, <2>2, <2>3, <2>4 DEF FetchFits, RequestFits
<1>4. ~removed' => ~removed /\ PageCount(Len(rows)) <= PageCount(Len(rows'))
  BY <1>1, PageCountAscends
<1>5. PageCount(Len(rows)) \in Nat /\ PageCount(Len(rows')) \in Nat
  BY <1>1, PageCountFits
<1>6. ShownFits'
  <2> SUFFICES ASSUME Loaded(shown)
               PROVE  /\ shown.pages \in Pages
                      /\ shown.page = IF list.server.page = "clamped"
                                      THEN Min({want, shown.pages}) ELSE want
                      /\ ~removed' => shown.pages <= PageCount(Len(rows'))
    BY DEF ShownFits, Loaded
  <2>1. /\ shown.pages \in Pages
        /\ shown.page = IF list.server.page = "clamped" THEN Min({want, shown.pages}) ELSE want
        /\ ~removed => shown.pages <= PageCount(Len(rows))
    BY DEF ListIInv, ShownFits
  <2>2. shown.pages \in Nat
    BY <2>1, PagesAreNumbers
  <2> QED BY <1>4, <1>5, <2>1, <2>2
<1>7. WantFits'
  BY <1>4, <1>5, PagesAreNumbers DEF ListIInv, ListTypeOK, WantFits, HasButtons
<1> QED BY <1>2, <1>3, <1>6, <1>7 DEF ListIInv

LEMMA RowEntersKeeps ==
  ASSUME ListIInv, RowEnters PROVE ListIInv'
<1>1. /\ used \in Nat /\ rows \in Seq(1..used) /\ Len(rows) \in Nat /\ DOMAIN rows = 1..Len(rows)
      /\ Len(rows) <= used /\ used < MaxRows /\ used' = used + 1 /\ used' \in 0..MaxRows
  BY DEF ListIInv, ListTypeOK, RowEnters
<1>2. used' \in 1..used' /\ rows \in Seq(1..used')
  <2>1. \A i \in 1..Len(rows) : rows[i] \in 1..used'
    BY <1>1
  <2>2. rows \in [1..Len(rows) -> 1..used']
    BY <1>1, <2>1
  <2> QED BY <1>1, <2>2
<1>3. /\ rows' \in Seq(1..used') /\ Len(rows') = Len(rows) + 1
      /\ rows'[1] = used' /\ \A i \in 1..Len(rows) : rows'[i + 1] = rows[i]
  <2>1. rows' = <<used'>> \o rows
    BY DEF RowEnters
  <2> QED BY <1>2, <2>1, PutFirst
<1>4. DOMAIN rows' = 1..Len(rows')
  BY <1>3
<1>5. UNCHANGED <<list, want, shown, walk, removed>> /\ fetch' = Shaken
  BY DEF RowEnters
<1>6. WalkFits'
  <2> SUFFICES ASSUME walk.on, ~walk.unsteady
               PROVE  /\ Loaded(shown) \/ ~Settled(want)'
                      /\ \A x \in walk.from \ walk.seen :
                           /\ \E i \in DOMAIN rows' : rows'[i] = x
                           /\ \A i \in DOMAIN rows' : rows'[i] = x => Reached * Limit < i
                      /\ (Loaded(shown) /\ shown.pages <= want) => walk.from \subseteq walk.seen
    BY <1>5 DEF WalkFits, Reached, Loaded, Settled
  <2>1. Loaded(shown) \/ ~Settled(want)'
    BY <1>5, ShakenFits DEF ListIInv, ListTypeOK, WalkFits, Settled
  <2>2. PICK reached \in Int : reached = Reached * Limit
    BY PagesAreNumbers DEF Reached, ListIInv, ListTypeOK
  <2>3. ASSUME NEW x \in walk.from \ walk.seen
        PROVE  /\ \E i \in DOMAIN rows' : rows'[i] = x
               /\ \A i \in DOMAIN rows' : rows'[i] = x => reached < i
    <3>1. PICK k \in 1..Len(rows) : rows[k] = x
      BY <1>1 DEF ListIInv, WalkFits
    <3>2. \A i \in 1..Len(rows) : rows[i] = x => reached < i
      BY <1>1, <2>2 DEF ListIInv, WalkFits
    <3>3. k + 1 \in DOMAIN rows' /\ rows'[k + 1] = x
      BY <1>1, <1>3, <1>4, <3>1
    <3>4. x # used'
      BY <1>1 DEF ListIInv, ListTypeOK
    <3>5. ASSUME NEW i \in DOMAIN rows', rows'[i] = x PROVE reached < i
      <4>1. i # 1
        BY <1>3, <3>4, <3>5
      <4>2. i \in Nat /\ 1 <= i /\ i <= Len(rows) + 1
        BY <1>1, <1>3, <1>4
      <4>3. i - 1 \in 1..Len(rows) /\ i = (i - 1) + 1
        BY <1>1, <4>1, <4>2
      <4>4. PICK j \in 1..Len(rows) : i = j + 1
        BY <4>3
      <4>5. rows[j] = x
        BY <1>3, <3>5, <4>4
      <4>6. reached < j /\ j \in Int
        BY <3>2, <4>4, <4>5
      <4> QED BY <2>2, <4>4, <4>6
    <3> QED BY <3>3, <3>5
  <2>4. (Loaded(shown) /\ shown.pages <= want) => walk.from \subseteq walk.seen
    BY DEF ListIInv, WalkFits
  <2> QED BY <2>1, <2>2, <2>3, <2>4
<1>7. used <= used' /\ Len(rows') <= used' /\ Len(rows) <= Len(rows')
  BY <1>1, <1>3
<1>8. walk' \in WalkState /\ walk'.from = walk.from
  BY <1>5 DEF ListIInv, ListTypeOK
<1> QED BY <1>1, <1>3, <1>5, <1>6, <1>7, <1>8, ShiftKeeps

\* A walk during which a row leaves or moves claims nothing.
LEMMA Unsteadied ==
  ASSUME ListIInv, walk' = [walk EXCEPT !.unsteady = TRUE]
  PROVE  walk' \in WalkState /\ walk'.from = walk.from /\ WalkFits'
<1>1. walk' \in WalkState /\ walk'.from = walk.from /\ walk'.unsteady = TRUE
  BY DEF ListIInv, ListTypeOK, WalkState
<1> QED BY <1>1 DEF WalkFits

LEMMA RowLeavesKeeps ==
  ASSUME ListIInv, RowLeaves PROVE ListIInv'
<1>1. PICK i \in DOMAIN rows : rows' = RemoveAt(rows, i)
  BY DEF RowLeaves
<1>2. /\ used \in 0..MaxRows /\ rows \in Seq(1..used) /\ Len(rows) \in Nat /\ Len(rows) <= used
  BY DEF ListIInv, ListTypeOK
<1>3. rows' \in Seq(1..used) /\ Len(rows') = Len(rows) - 1
  BY <1>1, <1>2, RemovedOne
<1>4. /\ UNCHANGED <<list, used, want, shown>> /\ fetch' = Shaken /\ removed' = TRUE
      /\ walk' = [walk EXCEPT !.unsteady = TRUE]
  BY DEF RowLeaves
<1>5. walk' \in WalkState /\ walk'.from = walk.from /\ WalkFits'
  BY <1>4, Unsteadied
<1>6. used' \in 0..MaxRows /\ used <= used' /\ rows' \in Seq(1..used') /\ Len(rows') <= used'
  BY <1>2, <1>3, <1>4
<1> QED BY <1>4, <1>5, <1>6, ShiftKeeps

LEMMA RowMovesKeeps ==
  ASSUME ListIInv, RowMoves PROVE ListIInv'
<1>1. PICK i \in DOMAIN rows : rows' = <<rows[i]>> \o RemoveAt(rows, i)
  BY DEF RowMoves
<1>2. /\ used \in 0..MaxRows /\ rows \in Seq(1..used) /\ Len(rows) \in Nat /\ Len(rows) <= used
      /\ rows[i] \in 1..used
  BY DEF ListIInv, ListTypeOK
<1>3. RemoveAt(rows, i) \in Seq(1..used) /\ Len(RemoveAt(rows, i)) = Len(rows) - 1
  BY <1>2, RemovedOne
<1>4. rows' \in Seq(1..used) /\ Len(rows') = Len(RemoveAt(rows, i)) + 1
  BY <1>1, <1>2, <1>3, PutFirst
<1>5. /\ UNCHANGED <<list, used, want, shown, removed>> /\ fetch' = Shaken
      /\ walk' = [walk EXCEPT !.unsteady = TRUE]
  BY DEF RowMoves
<1>6. walk' \in WalkState /\ walk'.from = walk.from /\ WalkFits'
  BY <1>5, Unsteadied
<1>7. Len(rows') = Len(rows)
  BY <1>2, <1>3, <1>4
<1>8. used' = used /\ used <= used
  BY <1>2, <1>5
<1>9. used' \in 0..MaxRows /\ used <= used' /\ rows' \in Seq(1..used') /\ Len(rows') <= used'
  BY <1>2, <1>4, <1>7, <1>8
<1>10. Len(rows) <= Len(rows')
  BY <1>2, <1>7
<1> QED BY <1>5, <1>6, <1>9, <1>10, ShiftKeeps

-----------------------------------------------------------------------------
(***************************************************************************)
(* The requests.                                                           *)
(***************************************************************************)
LEMMA OffsetIsPage ==
  ASSUME ListIInv, NEW p \in Pages, NEW total \in Total,
         list.server.offset = "clamped" => total >= 0
  PROVE  Offset(p, total) \in Nat \ {0} /\ Offset(p, total) <= p
<1>1. p \in Nat \ {0}
  BY PagesAreNumbers
<1>2. CASE list.server.offset = "clamped"
  <2>1. total \in Nat
    BY <1>2 DEF Total
  <2>2. PageCount(total) \in Nat \ {0}
    BY <2>1, PageCountFits
  <2>3. Offset(p, total) = IF p <= PageCount(total) THEN p ELSE PageCount(total)
    BY <1>1, <1>2, <2>2, MinOfTwo DEF Offset
  <2> QED BY <1>1, <2>2, <2>3
<1>3. CASE list.server.offset # "clamped"
  BY <1>1, <1>3 DEF Offset
<1> QED BY <1>2, <1>3

LEMMA OneRequest ==
  ASSUME ListIInv, NEW p \in Pages, NEW f \in FetchState, RequestFits(p, f),
         fetch' = [fetch EXCEPT ![p] = f], UNCHANGED <<list, rows, removed>>
  PROVE  /\ fetch' \in [Pages -> FetchState] /\ \A q \in Pages : FetchFits(q)'
         /\ fetch'[p] = f /\ \A q \in Pages \ {p} : fetch'[q] = fetch[q]
<1>1. fetch \in [Pages -> FetchState] /\ \A q \in Pages : RequestFits(q, fetch[q])
  BY DEF ListIInv, ListTypeOK, FetchFits
<1>2. /\ fetch' \in [Pages -> FetchState]
      /\ fetch'[p] = f /\ \A q \in Pages \ {p} : fetch'[q] = fetch[q]
  BY <1>1
<1>3. ASSUME NEW q \in Pages PROVE FetchFits(q)'
  <2>1. PICK r : r = fetch'[q]
    OBVIOUS
  <2>2. RequestFits(q, r)
    BY <1>1, <1>2, <2>1
  <2> QED BY <2>1, <2>2 DEF FetchFits, RequestFits, Slice, Offset
<1> QED BY <1>2, <1>3

\* A request that is not the last of the page looked at.
LEMMA LookingOn ==
  ASSUME ListIInv, NEW p \in Pages, NEW f \in FetchState, RequestFits(p, f),
         fetch' = [fetch EXCEPT ![p] = f],
         UNCHANGED <<list, rows, used, want, shown, walk, removed>>,
         p = want => f.pc = "reading" \/ fetch[p].pc = "idle"
  PROVE  ListIInv'
<1>1. /\ fetch' \in [Pages -> FetchState] /\ \A q \in Pages : FetchFits(q)'
      /\ fetch'[p] = f /\ \A q \in Pages \ {p} : fetch'[q] = fetch[q]
  BY OneRequest
<1>2. ListTypeOK'
  BY <1>1 DEF ListIInv, ListTypeOK
<1>3. ShownFits' /\ WantFits'
  BY DEF ListIInv, ShownFits, WantFits, HasButtons, Loaded
<1>4. ~Settled(want) => ~Settled(want)'
  BY <1>1 DEF ListIInv, ListTypeOK, Settled
<1>5. WalkFits'
  BY <1>4 DEF ListIInv, WalkFits, Reached, Loaded
<1> QED BY <1>1, <1>2, <1>3, <1>5 DEF ListIInv

LEMMA CountRowsKeeps ==
  ASSUME ListIInv, NEW p \in Pages, CountRows(p) PROVE ListIInv'
<1> DEFINE f == [fetch[p] EXCEPT !.total = Len(rows)]
<1>1. /\ fetch[p] \in FetchState /\ RequestFits(p, fetch[p])
      /\ Len(rows) \in Nat /\ Len(rows) <= MaxRows
  BY DEF ListIInv, ListTypeOK, FetchFits
<1>2. f \in FetchState /\ f.pc = "reading" /\ f.total = Len(rows)
  BY <1>1 DEF CountRows, FetchState, Total
<1>3. f.read = fetch[p].read /\ f.rows = fetch[p].rows /\ f.changed = fetch[p].changed
  BY <1>1 DEF FetchState
<1>4. fetch[p].read => Offset(p, fetch[p].total) = Offset(p, Len(rows))
  <2>1. fetch[p].read => list.server.counts # "before"
    BY <1>1 DEF RequestFits, CountRows
  <2>2. fetch[p].read => list.server.offset # "clamped"
    BY <2>1, ListsAgree DEF ListIInv, ListTypeOK
  <2> QED BY <2>2 DEF Offset
<1>5. fetch' = [fetch EXCEPT ![p] = f]
  BY DEF CountRows
<1> HIDE DEF f
<1>6. RequestFits(p, f)
  BY <1>1, <1>2, <1>3, <1>4 DEF RequestFits
<1>7. UNCHANGED <<list, rows, used, want, shown, walk, removed>>
  BY DEF CountRows
<1> QED BY <1>2, <1>5, <1>6, <1>7, LookingOn

LEMMA ReadRowsKeeps ==
  ASSUME ListIInv, NEW p \in Pages, ReadRows(p) PROVE ListIInv'
<1> DEFINE f == [fetch[p] EXCEPT !.read = TRUE, !.rows = Slice(Offset(p, fetch[p].total))]
<1>1. /\ fetch[p] \in FetchState /\ RequestFits(p, fetch[p]) /\ fetch[p].total \in Total
      /\ rows \in Seq(Nat)
  <2>1. rows \in Seq(1..used)
    BY DEF ListIInv, ListTypeOK
  <2>2. rows \in Seq(Nat)
    <3>1. 1..used \subseteq Nat
      BY DEF ListIInv, ListTypeOK
    <3> QED BY <2>1, <3>1, SeqOfMore
  <2> QED BY <2>2 DEF ListIInv, ListTypeOK, FetchFits, FetchState
<1>2. list.server.offset = "clamped" => fetch[p].total >= 0
  BY ListsAgree DEF ReadRows, ListIInv, ListTypeOK
<1>3. Slice(Offset(p, fetch[p].total)) \in Seq(Nat)
  BY <1>1, <1>2, OffsetIsPage, SliceHolds
<1>4. /\ f \in FetchState /\ f.pc = "reading" /\ f.read /\ f.total = fetch[p].total
      /\ f.rows = Slice(Offset(p, fetch[p].total)) /\ f.changed = fetch[p].changed
  BY <1>1, <1>3 DEF ReadRows, FetchState
<1>5. fetch' = [fetch EXCEPT ![p] = f]
  BY DEF ReadRows
<1> HIDE DEF f
<1>6. RequestFits(p, f)
  BY <1>1, <1>4 DEF RequestFits, ReadRows
<1>7. UNCHANGED <<list, rows, used, want, shown, walk, removed>>
  BY DEF ReadRows
<1> QED BY <1>4, <1>5, <1>6, <1>7, LookingOn

\* A request that is made, or ends.
LEMMA FreshFits ==
  ASSUME ListIInv, NEW p \in Pages
  PROVE  RequestFits(p, NoFetch) /\ RequestFits(p, [NoFetch EXCEPT !.pc = "reading"])
<1>1. MaxRows \in Nat /\ Len(rows) \in Nat
  BY DEF ListIInv, ListTypeOK
<1>2. ASSUME NEW f, f.total = -1, ~f.read PROVE RequestFits(p, f)
  <2>1. -1 <= MaxRows /\ -1 <= Len(rows) /\ ~(-1 >= 0)
    BY <1>1
  <2> QED BY <1>2, <2>1 DEF RequestFits
<1> QED BY <1>2, IdleFits

LEMMA LookFits ==
  ASSUME ListIInv, NEW p \in Pages
  PROVE  \E f \in FetchState :
           Look(p) = [fetch EXCEPT ![p] = f] /\ RequestFits(p, f) /\ f.pc # "idle"
<1>1. fetch[p] \in FetchState /\ RequestFits(p, fetch[p])
  BY DEF ListIInv, ListTypeOK, FetchFits
<1>2. CASE Settled(p)
  BY <1>2, IdleFits, FreshFits DEF Look
<1>3. CASE ~Settled(p)
  <2> DEFINE f == [fetch[p] EXCEPT !.joined = TRUE]
  <2>1. /\ f \in FetchState /\ f.pc # "idle" /\ f.total = fetch[p].total
        /\ f.read = fetch[p].read /\ f.rows = fetch[p].rows /\ f.changed = fetch[p].changed
    BY <1>1, <1>3 DEF Settled, FetchState
  <2>2. Look(p) = [fetch EXCEPT ![p] = f]
    BY <1>3 DEF Look
  <2> HIDE DEF f
  <2>3. RequestFits(p, f)
    BY <1>1, <2>1 DEF RequestFits
  <2> QED BY <2>1, <2>2, <2>3
<1> QED BY <1>2, <1>3

LEMMA RefetchKeeps ==
  ASSUME ListIInv, Refetch PROVE ListIInv'
<1>1. want \in Pages
  BY DEF ListIInv, ListTypeOK
<1>2. PICK f \in FetchState :
        Look(want) = [fetch EXCEPT ![want] = f] /\ RequestFits(want, f) /\ f.pc # "idle"
  BY <1>1, LookFits
<1>3. fetch' = [fetch EXCEPT ![want] = f] /\ f.pc = "reading"
  BY <1>2 DEF Refetch, FetchState
<1>4. UNCHANGED <<list, rows, used, want, shown, walk, removed>>
  BY DEF Refetch
<1> QED BY <1>1, <1>2, <1>3, <1>4, LookingOn

LEMMA FetchFailsKeeps ==
  ASSUME ListIInv, NEW p \in Pages, FetchFails(p) PROVE ListIInv'
<1>1. fetch' = [fetch EXCEPT ![p] = NoFetch] /\ UNCHANGED <<list, rows, used, want, shown, removed>>
  BY DEF FetchFails
<1>2. NoFetch \in FetchState /\ RequestFits(p, NoFetch)
  BY IdleFits, FreshFits
<1>3. walk \in WalkState
  BY DEF ListIInv, ListTypeOK
<1>4. CASE p = want
  <2>1. walk' = [walk EXCEPT !.unsteady = TRUE]
    BY <1>4 DEF FetchFails
  <2>2. walk' \in WalkState /\ walk'.from = walk.from /\ WalkFits'
    BY <2>1, Unsteadied
  <2>3. fetch' \in [Pages -> FetchState] /\ \A q \in Pages : FetchFits(q)'
    BY <1>1, <1>2, OneRequest
  <2>4. ListTypeOK'
    BY <1>1, <2>2, <2>3 DEF ListIInv, ListTypeOK
  <2>5. ShownFits' /\ WantFits'
    BY <1>1 DEF ListIInv, ShownFits, WantFits, HasButtons, Loaded
  <2> QED BY <2>2, <2>3, <2>4, <2>5 DEF ListIInv
<1>5. CASE p # want
  <2>1. PICK unsteady \in BOOLEAN : unsteady = walk.unsteady
    BY <1>3 DEF WalkState
  <2>2. walk' = [walk EXCEPT !.unsteady = unsteady]
    BY <1>5, <2>1 DEF FetchFails
  <2>3. walk' = walk
    BY <1>3, <2>1, <2>2 DEF WalkState
  <2> QED BY <1>1, <1>2, <1>5, <2>3, LookingOn
<1> QED BY <1>4, <1>5

-----------------------------------------------------------------------------
(***************************************************************************)
(* The buttons.                                                            *)
(***************************************************************************)

\* Next is enabled by a reply only, and leads to the page after the one asked for.
LEMMA NextIsOneFurther ==
  ASSUME ListIInv, NextEnabled
  PROVE  /\ Loaded(shown) /\ want < shown.pages /\ want + 1 \in Pages
         /\ (IF list.pager.bounded THEN Min({ShownPages, want + 1}) ELSE want + 1) = want + 1
<1>1. want \in Nat \ {0} /\ PageCount(MaxRows) \in Nat
  BY PagesAreNumbers DEF ListIInv, ListTypeOK
<1>2. Loaded(shown)
  <2> SUFFICES ASSUME ~Loaded(shown) PROVE FALSE
    OBVIOUS
  <2>1. ShownPage = want /\ ShownPages = 1 /\ ShownPage < ShownPages
    BY DEF ShownPage, ShownPages, NextEnabled
  <2> QED BY <1>1, <2>1
<1>3. /\ shown.pages \in Pages /\ ShownPages = shown.pages /\ ShownPage < shown.pages
      /\ shown.page = IF list.server.page = "clamped" THEN Min({want, shown.pages}) ELSE want
      /\ ShownPage \in {shown.page, want}
  BY <1>2 DEF ListIInv, ShownFits, ShownPage, ShownPages, NextEnabled
<1>4. shown.pages \in Nat /\ shown.pages <= PageCount(MaxRows)
  BY <1>1, <1>3 DEF Pages
<1>5. Min({want, shown.pages}) = IF want <= shown.pages THEN want ELSE shown.pages
  BY <1>1, <1>4, MinOfTwo
<1>6. want < shown.pages
  BY <1>1, <1>3, <1>4, <1>5
<1>7. Min({shown.pages, want + 1}) = want + 1
  <2>1. Min({shown.pages, want + 1}) = IF shown.pages <= want + 1 THEN shown.pages ELSE want + 1
    BY <1>1, <1>4, MinOfTwo
  <2> QED BY <1>1, <1>4, <1>6, <2>1
<1>8. want + 1 \in Pages
  BY <1>1, <1>4, <1>6 DEF Pages
<1> QED BY <1>2, <1>3, <1>6, <1>7, <1>8

\* The page asked for changes; what it was asked for with is forgotten.
LEMMA GoToKeeps ==
  ASSUME ListIInv, NEW p \in Pages, GoTo(p), HasButtons,
         UNCHANGED <<list, rows, used, removed>>, ~removed => p <= PageCount(Len(rows)),
         walk' \in WalkState, walk'.from \subseteq 1..used, WalkFits'
  PROVE  ListIInv'
<1>1. want' = p
  BY DEF GoTo
<1>2. fetch' \in [Pages -> FetchState] /\ \A q \in Pages : FetchFits(q)'
  <2>1. CASE p = want
    <3>1. fetch' = [fetch EXCEPT ![p] = fetch[p]]
      BY <2>1 DEF GoTo, ListIInv, ListTypeOK
    <3>2. fetch[p] \in FetchState /\ RequestFits(p, fetch[p])
      BY DEF ListIInv, ListTypeOK, FetchFits
    <3> QED BY <3>1, <3>2, OneRequest
  <2>2. CASE p # want
    <3>1. PICK f \in FetchState : Look(p) = [fetch EXCEPT ![p] = f] /\ RequestFits(p, f)
      BY LookFits
    <3>2. fetch' = [fetch EXCEPT ![p] = f]
      BY <2>2, <3>1 DEF GoTo
    <3> QED BY <3>1, <3>2, OneRequest
  <2> QED BY <2>1, <2>2
<1>3. NoReply \in ReplyState /\ ~Loaded(NoReply)
  BY DEF NoReply, ReplyState, Loaded
<1>4. (shown' = shown /\ want' = want) \/ shown' = NoReply
  BY <1>1 DEF GoTo
<1>5. ListTypeOK'
  BY <1>1, <1>2, <1>3, <1>4 DEF ListIInv, ListTypeOK
<1>6. ShownFits'
  <2>1. CASE shown' = NoReply
    BY <1>3, <2>1 DEF ShownFits, Loaded
  <2>2. CASE shown' = shown /\ want' = want
    BY <2>2 DEF ListIInv, ShownFits, Loaded
  <2> QED BY <1>4, <2>1, <2>2
<1>7. WantFits'
  BY <1>1 DEF WantFits, HasButtons
<1> QED BY <1>2, <1>5, <1>6, <1>7 DEF ListIInv

LEMMA PressPreviousKeeps ==
  ASSUME ListIInv, PressPrevious PROVE ListIInv'
<1>1. want \in Nat \ {0} /\ want <= PageCount(MaxRows) /\ PageCount(MaxRows) \in Nat
  BY PagesAreNumbers DEF ListIInv, ListTypeOK, Pages
<1>2. PICK p : p = Max({1, want - 1})
  OBVIOUS
<1>3. p \in Pages /\ p <= want
  <2>1. p = IF 1 >= want - 1 THEN 1 ELSE want - 1
    BY <1>1, <1>2, MaxOfTwo
  <2> QED BY <1>1, <2>1 DEF Pages
<1>4. ~removed => p <= PageCount(Len(rows))
  <2>1. PageCount(Len(rows)) \in Nat
    BY PageCountFits DEF ListIInv, ListTypeOK
  <2>2. ~removed => want <= PageCount(Len(rows))
    BY DEF ListIInv, WantFits
  <2>3. p \in Nat
    BY <1>3, PagesAreNumbers
  <2> QED BY <1>1, <1>3, <2>1, <2>2, <2>3
<1>5. walk' \in WalkState /\ walk'.from \subseteq 1..used /\ WalkFits'
  <2>1. walk' = NoWalk
    BY DEF PressPrevious
  <2>2. NoWalk \in WalkState /\ NoWalk.from = {} /\ ~NoWalk.on
    BY DEF NoWalk, WalkState
  <2> QED BY <2>1, <2>2 DEF WalkFits
<1>6. GoTo(p) /\ HasButtons /\ UNCHANGED <<list, rows, used, removed>>
  BY <1>2 DEF PressPrevious, PreviousEnabled
<1> QED BY <1>3, <1>4, <1>5, <1>6, GoToKeeps

LEMMA PressNextKeeps ==
  ASSUME ListIInv, PressNext PROVE ListIInv'
<1>1. NextEnabled /\ HasButtons /\ UNCHANGED <<list, rows, used, removed>>
  BY DEF PressNext, NextEnabled
<1>2. PICK p : p = want + 1
  OBVIOUS
<1>3. /\ want \in Nat \ {0} /\ p \in Pages /\ p # want
      /\ Loaded(shown) /\ want < shown.pages /\ GoTo(p)
  <2>1. want \in Nat \ {0}
    BY PagesAreNumbers DEF ListIInv, ListTypeOK
  <2>2. p # want
    BY <1>2, <2>1
  <2> QED BY <1>1, <1>2, <2>1, <2>2, NextIsOneFurther DEF PressNext
<1>4. ~removed => p <= PageCount(Len(rows))
  <2>1. PageCount(Len(rows)) \in Nat
    BY PageCountFits DEF ListIInv, ListTypeOK
  <2>2. shown.pages \in Nat /\ (~removed => shown.pages <= PageCount(Len(rows)))
    BY <1>3, PagesAreNumbers DEF ListIInv, ShownFits
  <2> QED BY <1>2, <1>3, <2>1, <2>2
<1>5. /\ walk \in WalkState /\ walk' = [walk EXCEPT !.unsteady = @ \/ ~Settled(want)]
      /\ walk.from \subseteq 1..used
  BY DEF ListIInv, ListTypeOK, PressNext
<1>6. PICK unsteady \in BOOLEAN : unsteady = (walk.unsteady \/ ~Settled(want))
  OBVIOUS
<1>7. walk' = [walk EXCEPT !.unsteady = unsteady]
  BY <1>5, <1>6
<1>8. /\ walk' \in WalkState /\ walk'.from = walk.from /\ walk'.seen = walk.seen
      /\ walk'.on = walk.on /\ walk'.unsteady = unsteady
  BY <1>5, <1>7 DEF WalkState
<1>9. WalkFits'
  <2> SUFFICES ASSUME walk.on, ~unsteady PROVE WalkFits'
    BY <1>8 DEF WalkFits
  <2>1. ~walk.unsteady
    BY <1>6
  <2>2. shown' = NoReply /\ want' = p /\ fetch' = Look(p)
    BY <1>3 DEF GoTo
  <2>3. ~Loaded(shown)'
    BY <2>2 DEF Loaded, NoReply
  <2>4. ~Settled(want)'
    <3>1. PICK f \in FetchState : Look(p) = [fetch EXCEPT ![p] = f] /\ f.pc # "idle"
      BY <1>3, LookFits
    <3>2. fetch'[p] = f
      BY <1>3, <2>2, <3>1 DEF ListIInv, ListTypeOK
    <3> QED BY <2>2, <3>1, <3>2 DEF Settled
  <2>5. Reached' = Reached
    <3>1. Reached' = p - 1
      BY <2>2, <2>3 DEF Reached, Loaded
    <3>2. Reached = want
      BY <1>3 DEF Reached
    <3> QED BY <1>2, <1>3, <3>1, <3>2
  <2>6. \A x \in walk.from \ walk.seen :
           /\ \E i \in DOMAIN rows : rows[i] = x
           /\ \A i \in DOMAIN rows : rows[i] = x => Reached * Limit < i
    BY <2>1 DEF ListIInv, WalkFits
  <2> QED BY <1>1, <1>8, <2>3, <2>4, <2>5, <2>6 DEF WalkFits
<1> QED BY <1>1, <1>3, <1>4, <1>5, <1>8, <1>9, GoToKeeps

-----------------------------------------------------------------------------
(***************************************************************************)
(* The answers.                                                            *)
(***************************************************************************)
LEMMA ReplyFits ==
  ASSUME ListIInv, NEW p \in Pages, fetch[p].total >= 0
  PROVE  /\ Reply(p) \in ReplyState /\ Reply(p).page # 0
         /\ Reply(p).pages \in Pages /\ Reply(p).pages = PageCount(fetch[p].total)
         /\ Reply(p).page = IF list.server.page = "clamped" THEN Min({p, Reply(p).pages}) ELSE p
         /\ Reply(p).rows = fetch[p].rows
         /\ ~Reply(p).raced => ~fetch[p].changed
         /\ fetch[p].total \in Nat
<1>1. fetch[p] \in FetchState /\ RequestFits(p, fetch[p]) /\ p \in Nat \ {0}
  BY PagesAreNumbers DEF ListIInv, ListTypeOK, FetchFits
<1>2. fetch[p].total \in 0..MaxRows
  BY <1>1 DEF FetchState, Total, RequestFits
<1>3. PICK pages : pages = PageCount(fetch[p].total)
  OBVIOUS
<1>4. pages \in Pages /\ pages \in Nat \ {0}
  BY <1>2, <1>3, PagesAreNumbers
<1>5. PICK at : at = IF list.server.page = "clamped" THEN Min({p, pages}) ELSE p
  OBVIOUS
<1>6. at \in Nat /\ at # 0
  <2>1. Min({p, pages}) = IF p <= pages THEN p ELSE pages
    BY <1>1, <1>4, MinOfTwo
  <2> QED BY <1>1, <1>4, <1>5, <2>1
<1>7. PICK raced \in BOOLEAN : raced = (fetch[p].changed \/ fetch[p].joined)
  OBVIOUS
<1>8. Reply(p) = [rows |-> fetch[p].rows, pages |-> pages, page |-> at, raced |-> raced]
  BY <1>3, <1>5, <1>7 DEF Reply
<1>9. fetch[p].rows \in Seq(Nat)
  BY <1>1 DEF FetchState
<1>10. Reply(p) \in ReplyState
  BY <1>4, <1>6, <1>8, <1>9 DEF ReplyState
<1>11. /\ Reply(p).pages = pages /\ Reply(p).page = at /\ Reply(p).raced = raced
       /\ Reply(p).rows = fetch[p].rows
  BY <1>8
<1>12. ~Reply(p).raced => ~fetch[p].changed
  BY <1>7, <1>11
<1>13. Reply(p).page = IF list.server.page = "clamped" THEN Min({p, Reply(p).pages}) ELSE p
  BY <1>5, <1>11
<1> QED BY <1>2, <1>3, <1>4, <1>6, <1>10, <1>11, <1>12, <1>13

\* What a page displayed adds to a walk.
LEMMA WalkedToFits ==
  ASSUME ListIInv, NEW p \in Pages, NEW reply \in ReplyState
  PROVE  /\ WalkedTo(p, reply) \in WalkState /\ WalkedTo(p, reply).from \subseteq 1..used
         /\ ~WalkedTo(p, reply).unsteady => ~reply.raced
         /\ p # 1 =>
              /\ WalkedTo(p, reply).on = walk.on /\ WalkedTo(p, reply).from = walk.from
              /\ WalkedTo(p, reply).seen = walk.seen \union Range(reply.rows)
              /\ ~WalkedTo(p, reply).unsteady => ~walk.unsteady
<1>1. walk \in WalkState /\ walk.from \subseteq 1..used /\ 1..used \subseteq Nat /\ rows \in Seq(1..used)
  BY DEF ListIInv, ListTypeOK
<1>2. Range(reply.rows) \subseteq Nat /\ Range(rows) \subseteq 1..used /\ reply.raced \in BOOLEAN
  BY <1>1, SeqOfMore DEF ReplyState
<1>3. CASE p = 1
  <2>1. WalkedTo(p, reply) = [on |-> TRUE, from |-> Range(rows), seen |-> Range(reply.rows),
                              unsteady |-> reply.raced]
    BY <1>3 DEF WalkedTo
  <2>2. PICK seen \in SUBSET Nat : seen = Range(reply.rows)
    BY <1>2
  <2>3. PICK from \in SUBSET Nat : from = Range(rows)
    BY <1>1, <1>2
  <2>4. PICK raced \in BOOLEAN : raced = reply.raced
    BY <1>2
  <2>5. WalkedTo(p, reply) = [on |-> TRUE, from |-> from, seen |-> seen, unsteady |-> raced]
    BY <2>1, <2>2, <2>3, <2>4
  <2>6. WalkedTo(p, reply) \in WalkState
    BY <2>5 DEF WalkState
  <2>7. WalkedTo(p, reply).from \subseteq 1..used
    BY <1>2, <2>3, <2>5
  <2>8. ~WalkedTo(p, reply).unsteady => ~reply.raced
    BY <2>4, <2>5
  <2> QED BY <1>3, <2>6, <2>7, <2>8
<1>4. CASE p # 1
  <2>1. PICK unsteady \in BOOLEAN : unsteady = (walk.unsteady \/ reply.raced)
    OBVIOUS
  <2>2. PICK seen \in SUBSET Nat : seen = walk.seen \union Range(reply.rows)
    BY <1>1, <1>2 DEF WalkState
  <2>3. WalkedTo(p, reply) = [walk EXCEPT !.seen = seen, !.unsteady = unsteady]
    BY <1>4, <2>1, <2>2 DEF WalkedTo
  <2>4. /\ WalkedTo(p, reply) \in WalkState /\ WalkedTo(p, reply).on = walk.on
        /\ WalkedTo(p, reply).from = walk.from
        /\ WalkedTo(p, reply).seen = seen /\ WalkedTo(p, reply).unsteady = unsteady
    BY <1>1, <2>3 DEF WalkState
  <2>5. ~unsteady => ~walk.unsteady /\ ~reply.raced
    BY <2>1
  <2> QED BY <1>1, <2>2, <2>4, <2>5
<1> QED BY <1>3, <1>4

\* The rows of a reply that nothing raced: those of the page, or else of a page that
\* is the last one.
LEMMA AnswerShows ==
  ASSUME ListIInv, NEW p \in Pages, fetch[p].total >= 0, fetch[p].read, ~fetch[p].changed,
         NEW i \in DOMAIN rows, (p - 1) * Limit < i
  PROVE  /\ rows[i] \in Range(fetch[p].rows) \/ p * Limit < i
         /\ PageCount(fetch[p].total) <= p => rows[i] \in Range(fetch[p].rows)
<1>1. PICK len \in Nat : len = Len(rows)
  BY DEF ListIInv, ListTypeOK
<1>2. /\ fetch[p].total = len /\ fetch[p].rows = Slice(Offset(p, len))
      /\ len \in Total /\ len >= 0 /\ p \in Nat \ {0} /\ i \in 1..len
  BY <1>1, PagesAreNumbers DEF ListIInv, ListTypeOK, FetchFits, RequestFits, Total
<1>3. PICK pages \in Nat : pages = PageCount(len)
  BY <1>1, PageCountFits
<1>4. PICK last \in Int : last = pages * Limit
  BY <1>3
<1>5. len <= last
  BY <1>1, <1>3, <1>4, PageCountFits
<1>6. PICK before \in Int : before = (p - 1) * Limit
  BY <1>2
<1>7. PICK end \in Int : end = p * Limit
  BY <1>2
<1>8. pages <= p => i <= end
  <2>1. pages <= p => last <= end
    BY <1>2, <1>3, <1>4, <1>7, PagesAscend
  <2> QED BY <1>2, <1>5, <1>7, <2>1
<1>9. Offset(p, len) = p
  <2>1. p <= pages
    <3> SUFFICES ASSUME pages <= p - 1 PROVE FALSE
      BY <1>2, <1>3
    <3>1. last <= before
      BY <1>2, <1>3, <1>4, <1>6, PagesAscend
    <3> QED BY <1>1, <1>2, <1>5, <1>6, <3>1
  <2>2. Min({p, pages}) = p
    BY <1>2, <1>3, <2>1, MinOfTwo
  <2> QED BY <1>3, <2>2 DEF Offset
<1>10. i <= end => rows[i] \in Range(fetch[p].rows)
  <2>1. rows \in Seq(1..used)
    BY DEF ListIInv, ListTypeOK
  <2> QED BY <1>2, <1>6, <1>7, <1>9, <2>1, SliceHolds
<1>11. i <= end \/ end < i
  BY <1>2, <1>7
<1> QED BY <1>2, <1>3, <1>7, <1>8, <1>10, <1>11

LEMMA ReplyKeeps ==
  ASSUME ListIInv, NEW p \in Pages, Answer(p) PROVE ListIInv'
<1>1. /\ fetch' = [fetch EXCEPT ![p] = NoFetch] /\ UNCHANGED <<list, rows, used, want, removed>>
      /\ fetch[p].total >= 0 /\ fetch[p].read
  BY DEF Answer
<1>2. NoFetch \in FetchState /\ RequestFits(p, NoFetch)
  BY IdleFits, FreshFits
<1>3. CASE p # want
  <2>1. UNCHANGED <<shown, walk>>
    BY <1>3 DEF Answer
  <2> QED BY <1>1, <1>2, <1>3, <2>1, LookingOn
<1>4. CASE p = want
  <2>1. PICK reply : reply = Reply(want)
    OBVIOUS
  <2>2. /\ reply \in ReplyState /\ reply.page # 0 /\ reply.pages \in Pages
        /\ reply.pages = PageCount(fetch[want].total)
        /\ reply.page = IF list.server.page = "clamped" THEN Min({want, reply.pages}) ELSE want
        /\ reply.rows = fetch[want].rows
        /\ ~reply.raced => ~fetch[want].changed
        /\ fetch[want].total \in Nat
    BY <1>1, <1>4, <2>1, ReplyFits
  <2>3. shown' = reply /\ walk' = WalkedTo(want, reply)
    BY <1>4, <2>1 DEF Answer
  <2>4. /\ walk' \in WalkState /\ walk'.from \subseteq 1..used
        /\ ~walk'.unsteady => ~reply.raced
        /\ want # 1 => /\ walk'.on = walk.on /\ walk'.from = walk.from
                       /\ walk'.seen = walk.seen \union Range(reply.rows)
                       /\ ~walk'.unsteady => ~walk.unsteady
    BY <1>4, <2>2, <2>3, WalkedToFits
  <2>5. fetch' \in [Pages -> FetchState] /\ \A q \in Pages : FetchFits(q)'
    BY <1>1, <1>2, OneRequest
  <2>6. ListTypeOK'
    BY <1>1, <2>2, <2>3, <2>4, <2>5 DEF ListIInv, ListTypeOK
  <2>7. ShownFits'
    <3>1. ~removed => PageCount(fetch[want].total) <= PageCount(Len(rows))
      BY <1>4, <2>2, PageCountAscends DEF ListIInv, ListTypeOK, FetchFits, RequestFits
    <3> QED BY <1>1, <2>2, <2>3, <3>1 DEF ShownFits
  <2>8. WantFits'
    BY <1>1 DEF ListIInv, WantFits, HasButtons
  <2>9. WalkFits'
    <3> SUFFICES ASSUME walk'.on, ~walk'.unsteady PROVE WalkFits'
      BY DEF WalkFits
    <3>1. Loaded(shown)' /\ Reached' = want
      BY <1>1, <2>2, <2>3 DEF Loaded, Reached
    <3>2. want \in Nat \ {0} /\ ~fetch[want].changed
      BY <1>4, <2>2, <2>4, PagesAreNumbers
    <3>3. \A i \in DOMAIN rows : (want - 1) * Limit < i =>
             /\ rows[i] \in Range(reply.rows) \/ want * Limit < i
             /\ reply.pages <= want => rows[i] \in Range(reply.rows)
      BY <1>1, <1>4, <2>2, <3>2, AnswerShows
    <3>4. Range(reply.rows) \subseteq walk'.seen
      <4>1. want = 1 => walk'.seen = Range(reply.rows)
        BY <2>3 DEF WalkedTo
      <4> QED BY <2>4, <4>1
    <3>5. ASSUME NEW x \in walk'.from \ walk'.seen
          PROVE  /\ \E i \in DOMAIN rows : rows[i] = x
                 /\ \A i \in DOMAIN rows : rows[i] = x => (want - 1) * Limit < i
      <4>1. CASE want = 1
        <5>1. x \in Range(rows)
          BY <2>3, <3>5, <4>1 DEF WalkedTo
        <5>2. \E i \in DOMAIN rows : rows[i] = x
          BY <5>1 DEF Range
        <5>3. (want - 1) * Limit = 0 /\ \A i \in DOMAIN rows : i \in Nat /\ 1 <= i
          <6>1. (1 - 1) * Limit = 0
            OBVIOUS
          <6>2. \A i \in DOMAIN rows : i \in Nat /\ 1 <= i
            BY DEF ListIInv, ListTypeOK
          <6> QED BY <4>1, <6>1, <6>2
        <5>4. \A i \in DOMAIN rows : 0 < i
          BY <5>3
        <5> QED BY <5>2, <5>3, <5>4
      <4>2. CASE want # 1
        <5>1. x \in walk.from \ walk.seen /\ walk.on /\ ~walk.unsteady
          BY <2>4, <3>5, <4>2
        <5>2. /\ \E i \in DOMAIN rows : rows[i] = x
              /\ \A i \in DOMAIN rows : rows[i] = x => Reached * Limit < i
          BY <5>1 DEF ListIInv, WalkFits
        <5>3. PICK reached \in Int : reached = Reached * Limit
          BY <3>2 DEF Reached
        <5>4. PICK before \in Int : before = (want - 1) * Limit
          BY <3>2
        <5>5. before <= reached
          <6>1. Reached \in Int /\ want - 1 <= Reached
            BY <3>2 DEF Reached
          <6> QED BY <3>2, <5>3, <5>4, <6>1, PagesAscend
        <5>6. ASSUME NEW i \in DOMAIN rows, rows[i] = x PROVE before < i
          <6>1. reached < i /\ i \in Int
            BY <5>2, <5>3, <5>6 DEF ListIInv, ListTypeOK
          <6> QED BY <5>3, <5>4, <5>5, <6>1
        <5> QED BY <5>2, <5>4, <5>6
      <4> QED BY <4>1, <4>2
    <3>6. ASSUME NEW x \in walk'.from \ walk'.seen
          PROVE  /\ \E i \in DOMAIN rows : rows[i] = x
                 /\ \A i \in DOMAIN rows : rows[i] = x => want * Limit < i
                 /\ ~(reply.pages <= want)
      BY <3>3, <3>4, <3>5, <3>6
    <3>7. reply.pages <= want => walk'.from \subseteq walk'.seen
      BY <3>6
    <3> QED BY <1>1, <2>3, <3>1, <3>6, <3>7 DEF WalkFits
  <2> QED BY <2>5, <2>6, <2>7, <2>8, <2>9 DEF ListIInv
<1> QED BY <1>3, <1>4

-----------------------------------------------------------------------------
LEMMA ListIInvInductive ==
  ListIInv /\ [ListNext]_listVars => ListIInv'
<1> SUFFICES ASSUME ListIInv, [ListNext]_listVars PROVE ListIInv'
  OBVIOUS
<1>1. CASE RowEnters BY <1>1, RowEntersKeeps
<1>2. CASE RowLeaves BY <1>2, RowLeavesKeeps
<1>3. CASE RowMoves BY <1>3, RowMovesKeeps
<1>4. ASSUME NEW p \in Pages, Fetching(p) PROVE ListIInv'
  BY <1>4, CountRowsKeeps, ReadRowsKeeps, ReplyKeeps, FetchFailsKeeps DEF Fetching
<1>5. CASE Refetch BY <1>5, RefetchKeeps
<1>6. CASE PressPrevious BY <1>6, PressPreviousKeeps
<1>7. CASE PressNext BY <1>7, PressNextKeeps
<1>8. CASE UNCHANGED listVars
  <2>1. ListTypeOK' /\ ShownFits' /\ WantFits' /\ WalkFits'
    BY <1>8 DEF listVars, ListIInv, ListTypeOK, ShownFits, WantFits, WalkFits, HasButtons,
                Loaded, Settled, Reached
  <2>2. \A p \in Pages : FetchFits(p)'
    BY <1>8 DEF listVars, ListIInv, FetchFits, RequestFits, Slice, Offset
  <2> QED BY <2>1, <2>2 DEF ListIInv
<1> QED BY <1>1, <1>2, <1>3, <1>4, <1>5, <1>6, <1>7, <1>8 DEF ListNext

\* What requests hold, what is displayed and how far a walk has come stay true of the
\* rows, whatever the others, the endpoint and the client do.
THEOREM ListInductive == ListSpec => []ListIInv
BY ListInitInv, ListIInvInductive, PTL DEF ListSpec

\* Whoever walks through a list by its buttons, as its pages arrive, has seen every row
\* that was there when he began: the offsets of later pages only move backward.
THEOREM ListWalkMissesNothing == ListSpec => []WalkMissesNothing
<1>1. ListIInv => WalkMissesNothing
  <2> SUFFICES ASSUME ListIInv, HasButtons, walk.on, ~walk.unsteady, Settled(want), ~NextEnabled
               PROVE  walk.from \subseteq walk.seen
    BY DEF WalkMissesNothing
  <2>1. Loaded(shown) /\ (shown.pages <= want => walk.from \subseteq walk.seen)
    BY DEF ListIInv, WalkFits
  <2>2. want \in Nat /\ shown.pages \in Nat
    BY <2>1, PagesAreNumbers DEF ListIInv, ListTypeOK, ShownFits
  <2>3. Min({want, shown.pages}) = IF want <= shown.pages THEN want ELSE shown.pages
    BY <2>2, MinOfTwo
  <2>4. ~(ShownPage < shown.pages)
    BY <2>1 DEF NextEnabled, ShownPages
  <2>5. ShownPage <= want
    BY <2>1, <2>2, <2>3 DEF ListIInv, ShownFits, ShownPage
  <2>6. shown.pages <= want
    BY <2>1, <2>2, <2>3, <2>4, <2>5 DEF ListIInv, ShownFits, ShownPage
  <2> QED BY <2>1, <2>6
<1> QED BY <1>1, ListInductive, PTL

\* Nobody is left on an empty page of a list that has rows without a button that leads
\* away from it, the feedback list excepted.
THEOREM ListNobodyIsStranded == ListSpec => []NobodyIsStranded
<1>1. ListIInv => NobodyIsStranded
  <2> SUFFICES ASSUME ListIInv, UpToDate, rows # <<>>, shown.rows = <<>>
               PROVE  \/ PreviousEnabled \/ NextEnabled
                      \/ list.server = FeedbackList /\ removed
    BY DEF NobodyIsStranded
  <2>1. PICK len \in Nat : len = Len(rows)
    BY DEF ListIInv, ListTypeOK
  <2>2. /\ Loaded(shown) /\ shown.rows = Slice(Offset(want, len))
        /\ len # 0 /\ want \in Nat \ {0} /\ rows \in Seq(1..used) /\ DOMAIN rows = 1..len
    <3>1. want \in Pages /\ rows \in Seq(1..used)
      BY DEF ListIInv, ListTypeOK
    <3>2. Loaded(shown) /\ shown.rows = Slice(Offset(want, len))
      BY <2>1 DEF UpToDate
    <3>3. DOMAIN rows = 1..len
      BY <2>1, <3>1
    <3>4. len # 0
      BY <2>1, <3>1
    <3> QED BY <3>1, <3>2, <3>3, <3>4, PagesAreNumbers
  <2>3. PICK pages \in Nat \ {0} : pages = PageCount(len)
    BY <2>1, PageCountFits
  <2>4. len <= pages * Limit /\ (pages - 1) * Limit < len /\ pages * Limit \in Int
    BY <2>1, <2>2, <2>3, PageCountFits
  <2>5. ASSUME NEW at \in Nat \ {0}, at <= pages, Slice(at) = <<>> PROVE FALSE
    <3>1. PICK before \in Int : before = (at - 1) * Limit
      OBVIOUS
    <3>2. PICK end \in Int : end = at * Limit
      OBVIOUS
    <3>3. before + Limit = end
      BY <3>1, <3>2, NextPage
    <3>4. before < len
      <4>1. at - 1 \in Int /\ pages - 1 \in Int /\ at - 1 <= pages - 1
        BY <2>3, <2>5
      <4>2. (at - 1) * Limit <= (pages - 1) * Limit
        BY <4>1, PagesAscend
      <4>3. (pages - 1) * Limit \in Int
        BY <4>1
      <4> QED BY <2>1, <2>4, <3>1, <4>2, <4>3
    <3>5. 0 <= before
      <4>1. 0 * Limit <= (at - 1) * Limit /\ 0 * Limit = 0
        BY PagesAscend
      <4> QED BY <3>1, <4>1
    <3>6. PICK i \in 1..len : i = before + 1
      BY <2>1, <3>4, <3>5
    <3>7. rows[i] \in Range(Slice(at))
      <4>1. before < i /\ i <= end
        BY <3>1, <3>2, <3>3, <3>6
      <4> QED BY <2>2, <3>1, <3>2, <4>1, SliceHolds
    <3> QED BY <2>5, <3>7 DEF Range
  <2>6. list.server.offset # "clamped" /\ pages < want
    <3>1. Min({want, pages}) = IF want <= pages THEN want ELSE pages
      BY <2>2, <2>3, MinOfTwo
    <3>2. Offset(want, len) \in {want, Min({want, pages})}
      BY <2>3 DEF Offset
    <3>3. list.server.offset = "clamped" => Offset(want, len) = Min({want, pages})
      BY <2>3 DEF Offset
    <3>4. ~(Offset(want, len) \in Nat \ {0} /\ Offset(want, len) <= pages)
      BY <2>2, <2>5
    <3> QED BY <2>2, <2>3, <3>1, <3>2, <3>3, <3>4
  <2>7. removed /\ HasButtons
    <3>1. want \in Nat /\ pages \in Nat /\ want # 1
      BY <2>2, <2>3, <2>6
    <3> QED BY <2>1, <2>3, <2>6, <3>1 DEF ListIInv, WantFits
  <2>8. CASE list.pager.by = "reply"
    BY <2>6, <2>7, <2>8, ListsAgree DEF ListIInv, ListTypeOK
  <2>9. CASE list.pager.by # "reply"
    <3>1. ShownPage = want /\ want > 1
      BY <2>2, <2>3, <2>6, <2>9 DEF ShownPage
    <3> QED BY <2>7, <3>1 DEF PreviousEnabled
  <2> QED BY <2>8, <2>9
<1> QED BY <1>1, ListInductive, PTL
===============================================================================
