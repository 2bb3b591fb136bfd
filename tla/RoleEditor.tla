------------------------------ MODULE RoleEditor ------------------------------
(***************************************************************************)
(* A form that edits a record other admins edit too: the dialog with the   *)
(* permissions of a role, the page of a role, the rate limits.  The record *)
(* is fetched into a query, an effect copies it into the form whenever the *)
(* query has other data, and Save sends the whole of the form.             *)
(*                                                                         *)
(* External: TanStack Query keeps the data of a query, also for a form that*)
(* is closed, fetches it when a form is opened or the window is looked at, *)
(* and hands out the same object when what it fetched is equal; React runs *)
(* an effect when what it depends on is another object.                    *)
(***************************************************************************)
EXTENDS Integers, FiniteSets

CONSTANTS
  Perm,        \* what can be ticked in the form
  MaxOthers,   \* bound: changes of other admins
  MaxEdits,    \* bound: ticks
  MaxOpens,    \* bound: times a form is opened
  MaxGets      \* bound: fetches

ASSUME EditorAssumption == {MaxOthers, MaxEdits, MaxOpens, MaxGets} \subseteq Nat

VARIABLES
  form,        \* which form it is
  role,        \* the record in the database: what is ticked, and its name
  cached,      \* the data of the query
  get,         \* the fetch under way, and what it has read
  open,        \* the form is displayed
  selected,    \* what is ticked in it
  put,         \* the save under way; from, chosen, blind: history, the data it is made
               \* from, the ticks, and whether it is made in a form that was emptied
  ticked,      \* history: ticks since the form was filled, by the user
  reopened,    \* history: the form was emptied and has not been filled
  overlapped,  \* history: another admin's change or an own save since the first tick
  opens, edits, others, gets  \* bounds

editorVars == <<form, role, cached, get, open, selected, put, ticked, reopened,
                overlapped, opens, edits, others, gets>>

(***************************************************************************)
(* The forms.  empties: closing it clears what is ticked, and nothing else;*)
(* locks: it cannot be edited while a save is under way; answers: the      *)
(* answer of a save goes into the query and the form, else the query is    *)
(* invalidated; renames: the page has a second form, for the name.         *)
(***************************************************************************)
PermissionsDialog == [empties |-> TRUE, locks |-> TRUE, answers |-> FALSE, renames |-> FALSE]
RolePage == [empties |-> FALSE, locks |-> FALSE, answers |-> FALSE, renames |-> TRUE]
RateLimitsPage == [empties |-> FALSE, locks |-> FALSE, answers |-> TRUE, renames |-> FALSE]
Forms == {PermissionsDialog, RolePage, RateLimitsPage}

Record == [perms : SUBSET Perm, name : 0..(MaxOthers + 1)]
NoData == [perms |-> {}, name |-> -1]
NoGet == [on |-> FALSE, read |-> NoData]
NoPut == [pc |-> "idle", kind |-> "none", perms |-> {}, reply |-> NoData,
          from |-> {}, chosen |-> {}, blind |-> FALSE]
NoTicks == [on |-> {}, off |-> {}]

EditorInit ==
  /\ form \in Forms
  /\ role \in [perms : SUBSET Perm, name : {0}]
  /\ cached = NoData /\ get = NoGet
  /\ open = FALSE /\ selected = {} /\ put = NoPut
  /\ ticked = NoTicks /\ reopened = FALSE /\ overlapped = FALSE
  /\ opens = 0 /\ edits = 0 /\ others = 0 /\ gets = 0

Touched == ticked # NoTicks

-----------------------------------------------------------------------------
\* The effect on the data: the form is filled from it.
Fill(data) ==
  /\ selected' = data.perms
  /\ ticked' = NoTicks /\ reopened' = FALSE /\ overlapped' = FALSE

KeepForm == UNCHANGED <<selected, ticked, reopened, overlapped>>

\* Mutant: the effect depends on which record it is, not on its data.
TakeOnce(data) ==
  IF open /\ cached = NoData THEN Fill(data) ELSE KeepForm

\* Mutant: the effect runs for every answer.
TakeAnswer(data) ==
  IF open \/ form.empties THEN Fill(data) ELSE KeepForm

\* Data arrives in the query.  The dialog is there, closed, in every row of the
\* list, so that its effect runs while it is closed too; a page is there when open.
Take(data) ==
  IF data # cached /\ (open \/ form.empties) THEN Fill(data) ELSE KeepForm

\* A fetch under way is joined by those that want one when there is no data yet,
\* and else replaced.
StartGet == get' = IF get.on /\ cached = NoData THEN get ELSE [NoGet EXCEPT !.on = TRUE]

-----------------------------------------------------------------------------
(***************************************************************************)
(* The form.                                                               *)
(***************************************************************************)
\* A page that is opened is filled from the data there is.  The dialog was cleared
\* when it was closed, or never filled.
Open ==
  /\ ~open /\ opens < MaxOpens
  /\ opens' = opens + 1
  /\ open' = TRUE
  /\ IF form.empties
     THEN /\ UNCHANGED <<selected, ticked, overlapped>>
          /\ reopened' = (cached # NoData /\ selected # cached.perms)
     ELSE IF cached # NoData THEN Fill(cached)
     ELSE /\ selected' = {} /\ ticked' = NoTicks
          /\ reopened' = FALSE /\ overlapped' = FALSE
  /\ get' = IF get.on THEN get ELSE [NoGet EXCEPT !.on = TRUE]
  /\ UNCHANGED <<form, role, cached, put, edits, others, gets>>

Emptied ==
  /\ open' = FALSE
  /\ selected' = {} /\ ticked' = NoTicks /\ overlapped' = FALSE
  /\ UNCHANGED reopened

Close ==
  /\ open
  /\ Emptied
  /\ UNCHANGED <<form, role, cached, get, put, opens, edits, others, gets>>

\* A tick is over a record that may have changed already.
Overlapping ==
  \/ cached \notin {NoData, role} \/ put.pc # "idle"
  \/ get.read \notin {NoData, cached}

\* The dialog asks only whether the first fetch is under way: once that has failed it
\* shows the permissions, none of them ticked.  A page without data shows no form.
Editable == cached # NoData \/ (form.empties /\ ~get.on)

Toggle(p) ==
  /\ open /\ Editable /\ edits < MaxEdits
  /\ form.locks => put.pc = "idle"
  /\ edits' = edits + 1
  /\ selected' = IF p \in selected THEN selected \ {p} ELSE selected \union {p}
  /\ ticked' = IF p \in selected
               THEN [on |-> ticked.on \ {p}, off |-> ticked.off \union {p}]
               ELSE [on |-> ticked.on \union {p}, off |-> ticked.off \ {p}]
  /\ overlapped' = (overlapped \/ Overlapping)
  /\ UNCHANGED <<form, role, cached, get, open, put, reopened, opens, others, gets>>

\* The button is there for a form that differs from the data; the rate limits
\* have no such condition.
Save ==
  /\ open /\ cached # NoData /\ put.pc = "idle"
  /\ selected # cached.perms \/ form.answers
  /\ put' = [NoPut EXCEPT !.pc = "sent", !.kind = "perms", !.perms = selected,
                           !.from = cached.perms, !.chosen = ticked.on \union ticked.off,
                           !.blind = reopened]
  /\ overlapped' = Touched
  /\ UNCHANGED <<form, role, cached, get, open, selected, ticked, reopened, opens,
                 edits, others, gets>>

Rename ==
  /\ form.renames /\ open /\ cached # NoData /\ put.pc = "idle" /\ role.name = cached.name
  /\ others < MaxOthers /\ others' = others + 1
  /\ put' = [NoPut EXCEPT !.pc = "sent", !.kind = "name"]
  /\ overlapped' = Touched
  /\ UNCHANGED <<form, role, cached, get, open, selected, ticked, reopened, opens,
                 edits, gets>>

\* The handler replaces the whole set, or sets the name.
PutLands ==
  /\ put.pc = "sent"
  /\ role' = IF put.kind = "name" THEN [role EXCEPT !.name = @ + 1]
             ELSE [role EXCEPT !.perms = put.perms]
  /\ put' = [put EXCEPT !.pc = "landed", !.reply = role']
  /\ overlapped' = Touched
  /\ UNCHANGED <<form, cached, get, open, selected, ticked, reopened, opens, edits,
                 others, gets>>

\* onSuccess: invalidate, and fetch again what is displayed; the dialog closes.
\* The rate limits take the answer instead.
Saved ==
  /\ put.pc = "landed"
  /\ put' = NoPut
  /\ IF form.answers
     THEN /\ cached' = put.reply
          /\ (IF open THEN Fill(put.reply) ELSE KeepForm)
          /\ UNCHANGED <<get, open>>
     ELSE /\ cached' = cached
          /\ IF open THEN StartGet ELSE get' = get
          /\ IF form.empties THEN Emptied
             ELSE /\ UNCHANGED <<open, selected, ticked, reopened>>
                  /\ overlapped' = Touched
  /\ UNCHANGED <<form, role, opens, edits, others, gets>>

\* onError: a message; the form stays as it is.
SaveFails ==
  /\ put.pc = "sent"
  /\ put' = NoPut
  /\ UNCHANGED <<form, role, cached, get, open, selected, ticked, reopened, overlapped,
                 opens, edits, others, gets>>

-----------------------------------------------------------------------------
(***************************************************************************)
(* Fetches, and other admins.                                              *)
(***************************************************************************)
\* The window is looked at.
LookAgain ==
  /\ open /\ gets < MaxGets
  /\ gets' = gets + 1
  /\ ~get.on /\ StartGet
  /\ UNCHANGED <<form, role, cached, open, selected, put, ticked, reopened, overlapped,
                 opens, edits, others>>

ReadRole ==
  /\ get.on /\ get.read = NoData
  /\ get' = [get EXCEPT !.read = role]
  /\ UNCHANGED <<form, role, cached, open, selected, put, ticked, reopened, overlapped,
                 opens, edits, others, gets>>

GetAnswered ==
  /\ get.on /\ get.read # NoData
  /\ get' = NoGet
  /\ cached' = get.read
  /\ Take(get.read)
  /\ UNCHANGED <<form, role, open, put, opens, edits, others, gets>>

GetFails ==
  /\ get.on
  /\ get' = NoGet
  /\ UNCHANGED <<form, role, cached, open, selected, put, ticked, reopened, overlapped,
                 opens, edits, others, gets>>

OtherChanges ==
  /\ others < MaxOthers
  /\ others' = others + 1
  /\ \/ \E perms \in SUBSET Perm \ {role.perms} : role' = [role EXCEPT !.perms = perms]
     \/ role' = [role EXCEPT !.name = @ + 1]
  /\ overlapped' = Touched
  /\ UNCHANGED <<form, cached, get, open, selected, put, ticked, reopened, opens, edits,
                 gets>>

EditorNext ==
  \/ Open \/ Close \/ (\E p \in Perm : Toggle(p)) \/ Save \/ Rename \/ PutLands \/ Saved \/ SaveFails
  \/ LookAgain \/ ReadRole \/ GetAnswered \/ GetFails \/ OtherChanges

EditorSpec == EditorInit /\ [][EditorNext]_editorVars

-----------------------------------------------------------------------------
(***************************************************************************)
(* Properties.                                                             *)
(***************************************************************************)

Difference(a, b) == (a \ b) \union (b \ a)

\* A save, which replaces the whole set, changes nothing but what the user ticked
\* in the form, however often it was opened, filled again and saved: only what
\* another admin changed and the form had no answer with yet is undone with it -
\* except by a dialog that is opened again while the query has the role, which
\* shows no permission and whose save takes every one.
SavesChangeTicksOnly ==
  [][(put.pc = "sent" /\ put'.pc = "landed" /\ put.kind = "perms" /\ ~put.blind)
       => Difference(role.perms, role'.perms)
            \subseteq put.chosen \union Difference(role.perms, put.from)]_editorVars

\* Ticks that were not saved are lost by the form being filled again only to a
\* change of another admin, or to a save or renaming of one's own that was under
\* way, or when they were made in a dialog without data, which the first answer
\* fills: once there is data, looking at the window, or a fetch that finds nothing
\* new, loses none.
TicksLostToOverlapOnly ==
  [][(open /\ open' /\ Touched /\ ticked' = NoTicks)
       => overlapped \/ (form.empties /\ cached = NoData)]_editorVars
=============================================================================
