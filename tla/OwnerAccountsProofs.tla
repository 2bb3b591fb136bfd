-------------------------- MODULE OwnerAccountsProofs --------------------------
(***************************************************************************)
(* Machine-checked proofs about OwnerAccounts, for any number of accounts, *)
(* invitations and handlers: an invitation gives its role once, and an     *)
(* account that is owner and nothing else falls only to a handler that had *)
(* read something else.                                                    *)
(***************************************************************************)
EXTENDS OwnerAccounts, TLAPS

Granting == {"slug", "roleDelete", "roleCommit"}
Past == {"accepted", "deleted"}

\* What a handler's locals say of the rows: whoever has an invitation is accepting
\* it, or has; whoever read that owner is the only role will give nothing else.
HandlerFits(h) ==
  /\ h.pc \in {"name", "write", "accept"} \union Granting => h.target \in User
  /\ h.pc = "accept" => h.invitation \in Invitation
  /\ h.invitation # NoInvitation => h.pc \in {"accept"} \union Granting
  /\ h.pc \in Granting /\ h.invitation # NoInvitation => invitation[h.invitation].status \in Past
  /\ h.pc = "write" => ~h.sole
  /\ h.pc \in {"roleDelete", "roleCommit"} /\ h.sole => h.role = "owner"

TasksFit == \A t \in Task : HandlerFits(task[t])

OwnerIInv ==
  /\ OwnerTypeOK
  /\ TasksFit
  /\ InvitationGrantsOnce

USE OwnerAssumption

Pc == {"idle", "vacancy", "email", "createOwner", "name", "write", "accept",
       "slug", "roleDelete", "roleCommit"}

LEMMA NewRows ==
  /\ NoRow \in UserRow /\ NoRow.state = "unused"
  /\ \A e \in Email : NewUser(e) \in UserRow
BY DEF NoRow, NewUser, UserRow

LEMMA IdleFits ==
  /\ Idle \in TaskState /\ Idle.pc = "idle" /\ Idle.invitation = NoInvitation
  /\ ~Idle.sole /\ HandlerFits(Idle)
BY DEF Idle, TaskState, Slug, Disabling, HandlerFits, Granting

LEMMA OwnerInitInv == Init => OwnerIInv
<1> SUFFICES ASSUME Init
             PROVE  OwnerIInv
  OBVIOUS
<1>1. OwnerTypeOK
  BY NewRows, IdleFits DEF Init, OwnerTypeOK, history, InvitationRow, Slug
<1>2. TasksFit
  BY IdleFits DEF Init, TasksFit
<1>3. InvitationGrantsOnce
  BY IdleFits DEF Init, InvitationGrantsOnce
<1>4. QED
  BY <1>1, <1>2, <1>3 DEF OwnerIInv

-----------------------------------------------------------------------------
(***************************************************************************)
(* The states of handlers.                                                 *)
(***************************************************************************)

LEMMA TaskTyped ==
  ASSUME OwnerIInv, NEW t \in Task
  PROVE  task[t] \in TaskState /\ HandlerFits(task[t])
BY DEF OwnerIInv, OwnerTypeOK, TasksFit

LEMMA Steps ==
  ASSUME NEW h \in TaskState, NEW pc \in Pc
  PROVE  \E s \in TaskState :
           /\ s = [h EXCEPT !.pc = pc] /\ s.pc = pc /\ s.target = h.target
           /\ s.invitation = h.invitation /\ s.sole = h.sole /\ s.role = h.role
           /\ s.email = h.email
<1>1. PICK s : s = [h EXCEPT !.pc = pc]
  OBVIOUS
<1>2. s \in TaskState
  BY <1>1 DEF TaskState, Pc
<1>3. /\ s.pc = pc /\ s.target = h.target /\ s.invitation = h.invitation
      /\ s.sole = h.sole /\ s.role = h.role /\ s.email = h.email
  BY <1>1 DEF TaskState
<1>4. QED
  BY <1>1, <1>2, <1>3

LEMMA Assigns ==
  ASSUME NEW h \in TaskState, NEW u \in User, NEW role \in Slug
  PROVE  \E s \in TaskState :
           /\ s = Assigning(h, u, role) /\ s.pc = "slug" /\ s.target = u
           /\ s.invitation = h.invitation /\ s.sole = h.sole
<1>1. PICK s : s = [h EXCEPT !.pc = "slug", !.target = u, !.role = role]
  OBVIOUS
<1>2. s \in TaskState
  BY <1>1 DEF TaskState
<1>3. /\ s.pc = "slug" /\ s.target = u /\ s.invitation = h.invitation /\ s.sole = h.sole
  BY <1>1 DEF TaskState
<1>4. QED
  BY <1>1, <1>2, <1>3 DEF Assigning

\* One handler goes on, and none begins to give the role of an invitation.
LEMMA OneTask ==
  ASSUME OwnerIInv, NEW t \in Task, NEW h \in TaskState, Goto(t, h),
         UNCHANGED <<invitation, grants>>, HandlerFits(h),
         h.pc \in Granting /\ h.invitation # NoInvitation
           => task[t].pc \in Granting /\ task[t].invitation = h.invitation,
         user' \in [User -> UserRow], started' \in 0..MaxTasks, cut' \subseteq Invitation
  PROVE  OwnerIInv'
<1>1. \A s \in Task : task'[s] = IF s = t THEN h ELSE task[s]
  BY DEF Goto, OwnerIInv, OwnerTypeOK
<1>2. OwnerTypeOK'
  BY DEF Goto, OwnerIInv, OwnerTypeOK
<1>3. TasksFit'
  BY <1>1 DEF OwnerIInv, TasksFit, HandlerFits
<1>4. \A s \in Task, i \in Invitation :
        task'[s].pc \in Granting /\ task'[s].invitation = i
          => task[s].pc \in Granting /\ task[s].invitation = i
  BY <1>1
<1>5. InvitationGrantsOnce'
  BY <1>4 DEF OwnerIInv, InvitationGrantsOnce, Granting
<1>6. QED
  BY <1>2, <1>3, <1>5 DEF OwnerIInv

LEMMA OwnerConstants ==
  ASSUME OwnerIInv
  PROVE  /\ started \in 0..MaxTasks /\ (started < MaxTasks => started + 1 \in 0..MaxTasks)
         /\ user \in [User -> UserRow] /\ cut \subseteq Invitation
BY DEF OwnerIInv, OwnerTypeOK

\* A handler begins, which changes no row.
LEMMA BeginKeeps ==
  ASSUME OwnerIInv, NEW t \in Task,
         \/ \E e \in Email : BeginSetup(t, e)
         \/ \E a, u \in User, r \in Slug : BeginUpdate(t, a, u, r)
         \/ \E a, u \in User, x \in Disabling : BeginDisable(t, a, u, x)
         \/ \E i \in Invitation, u \in User : BeginAccept(t, i, u)
  PROVE  OwnerIInv'
<1>1. UNCHANGED rows /\ started' \in 0..MaxTasks
  BY OwnerConstants DEF BeginSetup, BeginUpdate, BeginDisable, BeginAccept, Starts
<1>2. \E h \in TaskState : Goto(t, h) /\ HandlerFits(h) /\ h.pc \notin Granting
  <2>1. ASSUME NEW e \in Email, BeginSetup(t, e)
        PROVE  \E h \in TaskState : Goto(t, h) /\ HandlerFits(h) /\ h.pc \notin Granting
    <3>1. PICK h : h = [Idle EXCEPT !.pc = "vacancy", !.email = e]
      OBVIOUS
    <3>2. h \in TaskState /\ h.pc = "vacancy" /\ h.invitation = NoInvitation
      BY <3>1, IdleFits DEF TaskState
    <3>3. HandlerFits(h) /\ h.pc \notin Granting
      BY <3>2 DEF HandlerFits, Granting
    <3>4. QED
      BY <2>1, <3>1, <3>2, <3>3 DEF BeginSetup
  <2>2. ASSUME NEW a \in User, NEW u \in User, NEW r \in Slug, BeginUpdate(t, a, u, r)
        PROVE  \E h \in TaskState : Goto(t, h) /\ HandlerFits(h) /\ h.pc \notin Granting
    <3>1. PICK s \in TaskState : /\ s = Assigning(Idle, u, r) /\ s.target = u
                                 /\ s.invitation = NoInvitation
      BY Assigns, IdleFits
    <3>2. PICK h \in TaskState : /\ h = [s EXCEPT !.pc = "name"] /\ h.pc = "name"
                                 /\ h.target = u /\ h.invitation = NoInvitation
      <4>1. "name" \in Pc
        BY DEF Pc
      <4>2. QED
        BY <3>1, <4>1, Steps
    <3>3. HandlerFits(h) /\ h.pc \notin Granting
      BY <3>2 DEF HandlerFits, Granting
    <3>4. QED
      BY <2>2, <3>1, <3>2, <3>3 DEF BeginUpdate
  <2>3. ASSUME NEW a \in User, NEW u \in User, NEW x \in Disabling, BeginDisable(t, a, u, x)
        PROVE  \E h \in TaskState : Goto(t, h) /\ HandlerFits(h) /\ h.pc \notin Granting
    <3>1. user[u].roles # {"owner"}
      BY <2>3 DEF BeginDisable, MayDisable, PrimaryRoleSlugs
    <3>2. PICK h : h = [Idle EXCEPT !.pc = "write", !.target = u, !.action = x, !.sole = FALSE]
      OBVIOUS
    <3>3. Goto(t, h)
      BY <2>3, <3>1, <3>2 DEF BeginDisable
    <3>4. h \in TaskState /\ h.pc = "write" /\ h.target = u /\ ~h.sole
          /\ h.invitation = NoInvitation
      BY <3>2, IdleFits DEF TaskState
    <3>5. HandlerFits(h) /\ h.pc \notin Granting
      BY <3>4 DEF HandlerFits, Granting
    <3>6. QED
      BY <3>3, <3>4, <3>5
  <2>4. ASSUME NEW i \in Invitation, NEW u \in User, BeginAccept(t, i, u)
        PROVE  \E h \in TaskState : Goto(t, h) /\ HandlerFits(h) /\ h.pc \notin Granting
    <3>1. invitation[i].role \in Slug
      BY DEF OwnerIInv, OwnerTypeOK, InvitationRow
    <3>2. PICK s \in TaskState : s = Assigning(Idle, u, invitation[i].role) /\ s.target = u
      BY <3>1, Assigns, IdleFits
    <3>3. PICK h : h = [s EXCEPT !.pc = "accept", !.invitation = i]
      OBVIOUS
    <3>4. h \in TaskState /\ h.pc = "accept" /\ h.target = u /\ h.invitation = i
      BY <3>2, <3>3 DEF TaskState
    <3>5. HandlerFits(h) /\ h.pc \notin Granting
      BY <3>4 DEF HandlerFits, Granting
    <3>6. QED
      BY <2>4, <3>2, <3>3, <3>4, <3>5 DEF BeginAccept
  <2>5. QED
    BY <2>1, <2>2, <2>3, <2>4
<1>3. QED
  BY <1>1, <1>2, OneTask, OwnerConstants DEF rows, history

\* A handler reads, and goes on or ends.
LEMMA ReadKeeps ==
  ASSUME OwnerIInv, NEW t \in Task,
         \/ CheckVacancy(t) \/ CheckEmail(t) \/ UpdateName(t)
         \/ ReadSlug(t) \/ RoleDelete(t)
  PROVE  OwnerIInv'
<1>1. UNCHANGED <<rows, started>> /\ task[t] \in TaskState /\ HandlerFits(task[t])
  BY TaskTyped DEF CheckVacancy, CheckEmail, UpdateName, ReadSlug, RoleDelete
<1> DEFINE Goes(h) == /\ Goto(t, h) /\ HandlerFits(h)
                      /\ h.pc \in Granting /\ h.invitation # NoInvitation
                           => task[t].pc \in Granting /\ task[t].invitation = h.invitation
<1>2. CASE Ends(t)
  BY <1>1, <1>2, IdleFits, OneTask, OwnerConstants DEF Ends, rows, history, Granting
<1>3. ASSUME NEW pc \in {"email", "createOwner", "slug"}, Goto(t, [task[t] EXCEPT !.pc = pc]),
             task[t].pc = (CASE pc = "email" -> "vacancy"
                             [] pc = "createOwner" -> "email"
                             [] pc = "slug" -> "name")
      PROVE  \E h \in TaskState : Goes(h)
  <2>1. PICK h \in TaskState :
          /\ h = [task[t] EXCEPT !.pc = pc] /\ h.pc = pc /\ h.target = task[t].target
          /\ h.invitation = task[t].invitation /\ h.sole = task[t].sole /\ h.role = task[t].role
    <3>1. pc \in Pc
      BY DEF Pc
    <3>2. QED
      BY <1>1, <3>1, Steps
  <2>2. task[t].invitation = NoInvitation
    BY <1>1, <1>3 DEF HandlerFits, Granting
  <2>3. HandlerFits(h)
    BY <1>1, <1>3, <2>1, <2>2 DEF HandlerFits, Granting
  <2>4. QED
    BY <1>3, <2>1, <2>2, <2>3
<1>4. CASE ReadSlug(t) /\ ~Ends(t)
  <2>1. PICK slug \in PrimaryRoleSlugs(task[t].target) :
          /\ slug = "owner" => task[t].role = "owner"
          /\ Goto(t, [task[t] EXCEPT !.pc = "roleDelete",
                        !.sole = (user[task[t].target].roles = {"owner"})])
    BY <1>4 DEF ReadSlug
  <2>2. PICK sole \in BOOLEAN : sole <=> user[task[t].target].roles = {"owner"}
    OBVIOUS
  <2>3. PICK h : h = [task[t] EXCEPT !.pc = "roleDelete", !.sole = sole]
    OBVIOUS
  <2>4. Goto(t, h)
    BY <2>1, <2>2, <2>3
  <2>5. /\ h \in TaskState /\ h.pc = "roleDelete" /\ h.target = task[t].target
        /\ h.invitation = task[t].invitation /\ h.sole = sole /\ h.role = task[t].role
    BY <1>1, <2>3 DEF TaskState
  <2>6. sole => task[t].role = "owner"
    BY <2>1, <2>2 DEF PrimaryRoleSlugs
  <2>7. task[t].pc = "slug"
    BY <1>4 DEF ReadSlug
  <2>8. HandlerFits(h)
    BY <1>1, <2>5, <2>6, <2>7 DEF HandlerFits, Granting
  <2>9. QED
    BY <1>1, <2>4, <2>5, <2>7, <2>8, OneTask, OwnerConstants DEF rows, history, Granting
<1>5. CASE RoleDelete(t)
  <2>1. PICK seen \in SUBSET Slug : seen = user[task[t].target].roles
    BY <1>1, <1>5 DEF RoleDelete, HandlerFits, Granting, OwnerIInv, OwnerTypeOK, UserRow
  <2>2. PICK h : h = [task[t] EXCEPT !.pc = "roleCommit", !.seen = seen]
    OBVIOUS
  <2>3. Goto(t, h)
    BY <1>5, <2>1, <2>2 DEF RoleDelete
  <2>4. /\ h \in TaskState /\ h.pc = "roleCommit" /\ h.target = task[t].target
        /\ h.invitation = task[t].invitation /\ h.sole = task[t].sole /\ h.role = task[t].role
    BY <1>1, <2>2 DEF TaskState
  <2>5. task[t].pc = "roleDelete"
    BY <1>5 DEF RoleDelete
  <2>6. HandlerFits(h)
    BY <1>1, <2>4, <2>5 DEF HandlerFits, Granting
  <2>7. QED
    BY <1>1, <2>3, <2>4, <2>5, <2>6, OneTask, OwnerConstants DEF rows, history, Granting
<1>6. CASE (CheckVacancy(t) \/ CheckEmail(t) \/ UpdateName(t)) /\ ~Ends(t)
  <2>1. \E h \in TaskState : Goes(h)
    BY <1>3, <1>6 DEF CheckVacancy, CheckEmail, UpdateName
  <2>2. QED
    BY <1>1, <2>1, OneTask, OwnerConstants DEF rows, history
<1>7. QED
  BY <1>2, <1>4, <1>5, <1>6

\* A row that becomes an account, and what is then assigned to it.
LEMMA AccountKeeps ==
  ASSUME OwnerIInv, NEW t \in Task,
         \/ CreateOwner(t)
         \/ \E e \in Email, u \in User : SignUp(t, e, u) \/ MakeOwner(t, e, u)
  PROVE  OwnerIInv'
<1>1. /\ UNCHANGED <<invitation, history>> /\ started' \in 0..MaxTasks
      /\ task[t] \in TaskState /\ HandlerFits(task[t])
  BY TaskTyped, OwnerConstants DEF CreateOwner, SignUp, MakeOwner, Starts
<1>2. ASSUME user' \in [User -> UserRow], Ends(t)
      PROVE  OwnerIInv'
  BY <1>1, <1>2, IdleFits, OneTask, OwnerConstants DEF Ends, history, Granting
<1>3. ASSUME user' \in [User -> UserRow], NEW h \in TaskState, h.invitation = NoInvitation,
             NEW u \in User, NEW role \in Slug, Goto(t, Assigning(h, u, role))
      PROVE  OwnerIInv'
  <2>1. PICK s \in TaskState : /\ s = Assigning(h, u, role) /\ s.pc = "slug" /\ s.target = u
                               /\ s.invitation = NoInvitation
    BY <1>3, Assigns
  <2>2. HandlerFits(s)
    BY <2>1 DEF HandlerFits, Granting
  <2>3. Goto(t, s)
    BY <1>3, <2>1
  <2>4. QED
    BY <1>1, <1>3, <2>1, <2>2, <2>3, OneTask, OwnerConstants DEF history
<1>4. ASSUME CreateOwner(t)
      PROVE  OwnerIInv'
  <2>1. task[t].pc = "createOwner" /\ task[t].invitation = NoInvitation
    BY <1>1, <1>4 DEF CreateOwner, HandlerFits, Granting
  <2>2. CASE Ends(t) /\ UNCHANGED user
    BY <1>2, <2>2, OwnerConstants
  <2>3. ASSUME NEW u \in User, user' = [user EXCEPT ![u] = NewUser(task[t].email)],
               Goto(t, Assigning([task[t] EXCEPT !.allowOwnerAssignment = TRUE], u, "owner"))
        PROVE  OwnerIInv'
    <3>1. NewUser(task[t].email) \in UserRow
      BY <1>1 DEF NewUser, NoRow, UserRow, TaskState
    <3>2. user' \in [User -> UserRow]
      BY <2>3, <3>1, OwnerConstants
    <3>3. PICK h : h = [task[t] EXCEPT !.allowOwnerAssignment = TRUE]
      OBVIOUS
    <3>4. h \in TaskState /\ h.invitation = NoInvitation
      BY <1>1, <2>1, <3>3 DEF TaskState
    <3>5. Goto(t, Assigning(h, u, "owner")) /\ "owner" \in Slug
      BY <2>3, <3>3 DEF Slug
    <3>6. QED
      BY <1>3, <3>2, <3>4, <3>5
  <2>4. QED
    BY <1>4, <2>2, <2>3 DEF CreateOwner
<1>5. ASSUME NEW e \in Email, NEW u \in User, SignUp(t, e, u)
      PROVE  OwnerIInv'
  <2>1. user' \in [User -> UserRow]
    BY <1>5, NewRows, OwnerConstants DEF SignUp
  <2>2. Goto(t, Assigning(Idle, u, "user")) /\ "user" \in Slug
    BY <1>5 DEF SignUp, Slug
  <2>3. QED
    BY <1>3, <2>1, <2>2, IdleFits
<1>6. ASSUME NEW e \in Email, NEW u \in User, MakeOwner(t, e, u)
      PROVE  OwnerIInv'
  <2>1. user' \in [User -> UserRow]
    <3>1. CASE user' = [user EXCEPT ![u] = NewUser(e)]
      BY <3>1, NewRows, OwnerConstants
    <3>2. CASE user' = [user EXCEPT ![u].banned = FALSE, ![u].archived = FALSE]
      <4>1. [user[u] EXCEPT !.banned = FALSE, !.archived = FALSE] \in UserRow
        BY OwnerConstants DEF UserRow
      <4>2. QED
        BY <3>2, <4>1, OwnerConstants
    <3>3. QED
      BY <1>6, <3>1, <3>2 DEF MakeOwner
  <2>2. CASE Ends(t)
    BY <1>2, <2>1, <2>2
  <2>3. CASE Goto(t, Assigning([Idle EXCEPT !.allowOwnerAssignment = TRUE], u, "owner"))
    <3>1. PICK h : h = [Idle EXCEPT !.allowOwnerAssignment = TRUE]
      OBVIOUS
    <3>2. h \in TaskState /\ h.invitation = NoInvitation
      BY <3>1, IdleFits DEF TaskState
    <3>3. Goto(t, Assigning(h, u, "owner")) /\ "owner" \in Slug
      BY <2>3, <3>1 DEF Slug
    <3>4. QED
      BY <1>3, <2>1, <3>2, <3>3
  <2>4. QED
    BY <1>6, <2>2, <2>3 DEF MakeOwner
<1>7. QED
  BY <1>4, <1>5, <1>6

\* Handlers stay or end while the invitations that had been accepted remain so.
LEMMA RowsKeep ==
  ASSUME OwnerIInv,
         task' \in [Task -> TaskState],
         \A s \in Task : task'[s] \in {task[s], Idle},
         \A i \in Invitation : invitation[i].status \in Past => invitation'[i].status \in Past,
         UNCHANGED grants
  PROVE  TasksFit' /\ InvitationGrantsOnce'
<1>1. ASSUME NEW s \in Task
      PROVE  HandlerFits(task[s])'
  <2>1. CASE task'[s] = Idle
    BY <2>1, IdleFits DEF HandlerFits, Granting
  <2>2. CASE task'[s] = task[s]
    <3>1. task[s] \in TaskState /\ HandlerFits(task[s])
      BY TaskTyped
    <3>2. QED
      BY <2>2, <3>1 DEF HandlerFits, TaskState
  <2>3. QED
    BY <2>1, <2>2
<1>2. \A s \in Task, i \in Invitation :
        task'[s].pc \in Granting /\ task'[s].invitation = i
          => task[s].pc \in Granting /\ task[s].invitation = i
  BY IdleFits
<1>3. InvitationGrantsOnce'
  BY <1>2 DEF OwnerIInv, InvitationGrantsOnce, Granting, Past
<1>4. QED
  BY <1>1, <1>3 DEF TasksFit

\* Rows change; at most one handler ends.
LEMMA RowKeeps ==
  ASSUME OwnerIInv,
         \/ \E t \in Task : Disable(t) \/ Abort(t)
         \/ \E t \in Task, a, u \in User : Enable(t, a, u)
         \/ \E t \in Task, a \in User, i \in Invitation, e \in Email, r \in Slug :
              InviteUser(t, a, i, e, r)
         \/ \E i \in Invitation : Expire(i)
  PROVE  OwnerIInv'
<1>1. UNCHANGED grants /\ started' \in 0..MaxTasks /\ cut' \subseteq Invitation
  <2>1. \A t \in Task : task[t].invitation \in Invitation \union {NoInvitation}
    BY TaskTyped DEF TaskState
  <2>2. QED
    BY <2>1, OwnerConstants DEF Disable, Abort, Enable, InviteUser, Expire, Starts, history
<1>2. task' \in [Task -> TaskState] /\ \A s \in Task : task'[s] \in {task[s], Idle}
  BY IdleFits DEF Disable, Abort, Enable, InviteUser, Expire, Ends, Goto, OwnerIInv, OwnerTypeOK
<1>3. /\ user' \in [User -> UserRow]
      /\ invitation' \in [Invitation -> InvitationRow]
      /\ \A i \in Invitation : invitation[i].status \in Past => invitation'[i].status \in Past
  <2> DEFINE RowsFine ==
        /\ user' \in [User -> UserRow]
        /\ invitation' \in [Invitation -> InvitationRow]
        /\ \A i \in Invitation : invitation[i].status \in Past => invitation'[i].status \in Past
  <2> USE OwnerConstants
  <2>1. invitation \in [Invitation -> InvitationRow]
    BY DEF OwnerIInv, OwnerTypeOK
  <2>2. ASSUME NEW u \in User, Deleted(u)
        PROVE  RowsFine
    <3>1. [NoRow EXCEPT !.state = "deleted"] \in UserRow
      BY DEF NoRow, UserRow
    <3>2. user' \in [User -> UserRow]
      BY <2>2, <3>1 DEF Deleted
    <3>3. \A i \in Invitation :
            /\ [invitation[i] EXCEPT !.status = "deleted"] \in InvitationRow
            /\ [invitation[i] EXCEPT !.status = "deleted"].status = "deleted"
      BY <2>1 DEF InvitationRow
    <3>4. QED
      BY <2>1, <2>2, <3>2, <3>3 DEF Deleted, Past
  <2>3. ASSUME NEW u \in User, UNCHANGED invitation,
               \/ user' = [user EXCEPT ![u].banned = TRUE]
               \/ user' = [user EXCEPT ![u].banned = FALSE]
               \/ user' = [user EXCEPT ![u].archived = TRUE]
               \/ user' = [user EXCEPT ![u].archived = FALSE]
        PROVE  RowsFine
    <3>1. PICK row \in UserRow : user' = [user EXCEPT ![u] = row]
      <4>1. /\ [user[u] EXCEPT !.banned = TRUE] \in UserRow
            /\ [user[u] EXCEPT !.banned = FALSE] \in UserRow
            /\ [user[u] EXCEPT !.archived = TRUE] \in UserRow
            /\ [user[u] EXCEPT !.archived = FALSE] \in UserRow
        BY DEF UserRow
      <4>2. QED
        BY <2>3, <4>1
    <3>2. QED
      BY <2>1, <2>3, <3>1
  <2>4. ASSUME NEW t \in Task, Disable(t)
        PROVE  RowsFine
    <3>1. task[t].target \in User
      BY <2>4, TaskTyped DEF Disable, HandlerFits
    <3>2. QED
      BY <2>1, <2>2, <2>3, <2>4, <3>1 DEF Disable
  <2>5. ASSUME NEW a \in User, NEW i \in Invitation, NEW e \in Email, NEW r \in Slug,
               NEW t \in Task, InviteUser(t, a, i, e, r)
        PROVE  RowsFine
    BY <2>1, <2>5 DEF InviteUser, InvitationRow, Past
  <2>6. ASSUME NEW i \in Invitation, Expire(i)
        PROVE  RowsFine
    <3>1. PICK row : row = [invitation[i] EXCEPT !.expired = TRUE]
      OBVIOUS
    <3>2. row \in InvitationRow /\ row.status = invitation[i].status
      BY <2>1, <3>1 DEF InvitationRow
    <3>3. invitation' = [invitation EXCEPT ![i] = row] /\ UNCHANGED user
      BY <2>6, <3>1 DEF Expire
    <3>4. QED
      BY <2>1, <3>2, <3>3
  <2>7. ASSUME NEW t \in Task, NEW a \in User, NEW u \in User, Enable(t, a, u)
        PROVE  RowsFine
    BY <2>3, <2>7 DEF Enable
  <2>8. ASSUME NEW t \in Task, Abort(t)
        PROVE  RowsFine
    BY <2>1, <2>8 DEF Abort
  <2>9. QED
    BY <2>4, <2>5, <2>6, <2>7, <2>8
<1>4. TasksFit' /\ InvitationGrantsOnce'
  BY <1>1, <1>2, <1>3, RowsKeep
<1>5. OwnerTypeOK'
  BY <1>1, <1>2, <1>3 DEF OwnerIInv, OwnerTypeOK
<1>6. QED
  BY <1>4, <1>5 DEF OwnerIInv

\* An invitation is marked as accepted in the step in which it was pending, so that
\* nobody else has been given its role, nor is about to be.
LEMMA AcceptKeeps ==
  ASSUME OwnerIInv, NEW t \in Task, Accept(t)
  PROVE  OwnerIInv'
<1>1. /\ task[t] \in TaskState /\ HandlerFits(task[t]) /\ task[t].pc = "accept"
      /\ UNCHANGED <<user, history, started>>
  BY TaskTyped DEF Accept
<1>2. PICK i \in Invitation : i = task[t].invitation
  BY <1>1 DEF HandlerFits
<1>3. CASE Ends(t) /\ UNCHANGED invitation
  BY <1>1, <1>3, IdleFits, OneTask, OwnerConstants DEF Ends, history, Granting
<1>4. CASE /\ invitation[i].status = "pending"
           /\ invitation' = [invitation EXCEPT ![i].status = "accepted"]
           /\ Goto(t, [task[t] EXCEPT !.pc = "slug"])
  <2>1. "slug" \in Pc
    BY DEF Pc
  <2>2. PICK h \in TaskState :
          /\ h = [task[t] EXCEPT !.pc = "slug"] /\ h.pc = "slug"
          /\ h.target = task[t].target /\ h.invitation = i
    BY <1>1, <1>2, <2>1, Steps
  <2>3. /\ task' \in [Task -> TaskState]
        /\ \A s \in Task : task'[s] = IF s = t THEN h ELSE task[s]
    BY <1>4, <2>2 DEF Goto, OwnerIInv, OwnerTypeOK
  <2>4. /\ invitation' \in [Invitation -> InvitationRow]
        /\ \A j \in Invitation :
             invitation'[j].status = IF j = i THEN "accepted" ELSE invitation[j].status
    BY <1>4 DEF OwnerIInv, OwnerTypeOK, InvitationRow
  <2>5. OwnerTypeOK'
    BY <1>1, <2>3, <2>4 DEF history, OwnerIInv, OwnerTypeOK
  <2>6. HandlerFits(h)'
    BY <1>1, <2>2, <2>4 DEF HandlerFits, Granting, Past
  <2>7. ASSUME NEW s \in Task
        PROVE  HandlerFits(task[s])'
    <3>1. task[s] \in TaskState /\ HandlerFits(task[s])
      BY TaskTyped
    <3>2. QED
      BY <2>3, <2>4, <2>6, <3>1 DEF HandlerFits, TaskState, Past
  <2>8. grants[i] = 0 /\ \A s \in Task : task[s].pc \in Granting => task[s].invitation # i
    <3>1. \A s \in Task : task[s].pc \in Granting => task[s].invitation # i
      BY <1>4, TaskTyped DEF HandlerFits, Past
    <3>2. grants[i] \in Nat
      BY DEF OwnerIInv, OwnerTypeOK
    <3>3. grants[i] <= 1 /\ grants[i] # 1
      BY <1>4 DEF OwnerIInv, InvitationGrantsOnce
    <3>4. QED
      BY <3>1, <3>2, <3>3
  <2>9. UNCHANGED grants
    BY <1>1 DEF history
  <2>10. ASSUME NEW j \in Invitation
         PROVE  /\ grants'[j] <= 1
                /\ grants'[j] = 1 => invitation'[j].status \in {"accepted", "deleted"}
                /\ \A s, r \in Task :
                     /\ {task'[s].pc, task'[r].pc} \subseteq {"slug", "roleDelete", "roleCommit"}
                     /\ task'[s].invitation = j /\ task'[r].invitation = j
                     => s = r /\ grants'[j] = 0
    <3>1. CASE j = i
      <4>1. \A s \in Task :
              task'[s].pc \in {"slug", "roleDelete", "roleCommit"} /\ task'[s].invitation = i
                => s = t
        BY <2>3, <2>8 DEF Granting
      <4>2. QED
        BY <2>4, <2>8, <2>9, <3>1, <4>1
    <3>2. CASE j # i
      <4>1. \A s \in Task : task'[s].invitation = j => task'[s] = task[s]
        BY <2>2, <2>3, <3>2
      <4>2. invitation'[j].status = invitation[j].status
        BY <2>4, <3>2
      <4>3. QED
        BY <2>9, <4>1, <4>2 DEF OwnerIInv, InvitationGrantsOnce
    <3>3. QED
      BY <3>1, <3>2
  <2>11. QED
    BY <2>5, <2>7, <2>10 DEF OwnerIInv, TasksFit, InvitationGrantsOnce
<1>5. QED
  BY <1>2, <1>3, <1>4 DEF Accept

\* The role is given, and the handler that gave it ends; others at the same account
\* find fewer rows to delete.
LEMMA CommitKeeps ==
  ASSUME OwnerIInv, NEW t \in Task, RoleCommit(t)
  PROVE  OwnerIInv'
<1>1. /\ task[t] \in TaskState /\ HandlerFits(task[t]) /\ task[t].pc = "roleCommit"
      /\ UNCHANGED started /\ task[t].target \in User
  BY TaskTyped DEF RoleCommit, HandlerFits, Granting
<1>2. CASE Ends(t) /\ UNCHANGED rows
  BY <1>1, <1>2, IdleFits, OneTask, OwnerConstants DEF Ends, rows, history, Granting
<1>3. CASE ~(Ends(t) /\ UNCHANGED rows)
  <2>1. PICK u \in User, seen \in SUBSET Slug, role \in Slug :
          u = task[t].target /\ seen = task[t].seen /\ role = task[t].role
    BY <1>1 DEF TaskState
  <2>2. /\ user' = [user EXCEPT ![u].roles = (user[u].roles \ seen) \union {role}]
        /\ task' = [s \in Task |->
             IF s = t THEN Idle
             ELSE IF task[s].pc = "roleCommit" /\ task[s].target = u
             THEN [task[s] EXCEPT !.seen = @ \ seen] ELSE task[s]]
        /\ grants' = [i \in Invitation |->
             IF i = task[t].invitation THEN grants[i] + 1 ELSE grants[i]]
        /\ UNCHANGED <<invitation, cut>>
    BY <1>3, <2>1 DEF RoleCommit
  <2>3. user' \in [User -> UserRow]
    <3>1. PICK given \in SUBSET Slug : given = (user[u].roles \ seen) \union {role}
      BY OwnerConstants DEF UserRow
    <3>2. [user[u] EXCEPT !.roles = given] \in UserRow
      BY OwnerConstants DEF UserRow
    <3>3. user' = [user EXCEPT ![u] = [user[u] EXCEPT !.roles = given]]
      BY <2>2, <3>1
    <3>4. QED
      BY <3>2, <3>3, OwnerConstants
  <2>4. ASSUME NEW s \in Task
        PROVE  /\ task'[s] \in TaskState /\ HandlerFits(task[s])'
               /\ \/ s = t /\ task'[s].pc = "idle"
                  \/ /\ s # t /\ task'[s].pc = task[s].pc
                     /\ task'[s].invitation = task[s].invitation
    <3>1. CASE s = t
      <4>1. task'[s] = Idle
        BY <2>2, <3>1
      <4>2. QED
        BY <3>1, <4>1, IdleFits DEF HandlerFits, Granting
    <3>2. CASE s # t
      <4>1. task[s] \in TaskState /\ HandlerFits(task[s])
        BY TaskTyped
      <4>2. PICK less \in SUBSET Slug : less = task[s].seen \ seen
        BY <4>1 DEF TaskState
      <4>3. PICK h : h = [task[s] EXCEPT !.seen = less]
        OBVIOUS
      <4>4. /\ h \in TaskState /\ h.pc = task[s].pc /\ h.target = task[s].target
            /\ h.invitation = task[s].invitation /\ h.sole = task[s].sole
            /\ h.role = task[s].role
        BY <4>1, <4>3 DEF TaskState
      <4>5. HandlerFits(h)'
        BY <2>2, <4>1, <4>4 DEF HandlerFits
      <4>6. task'[s] \in {h, task[s]}
        BY <2>2, <3>2, <4>2, <4>3
      <4>7. QED
        BY <2>2, <3>2, <4>1, <4>4, <4>5, <4>6 DEF HandlerFits
    <3>3. QED
      BY <3>1, <3>2
  <2>5. grants \in [Invitation -> Nat] /\ cut \subseteq Invitation
    BY DEF OwnerIInv, OwnerTypeOK
  <2>6. OwnerTypeOK'
    BY <1>1, <2>2, <2>3, <2>4, <2>5 DEF OwnerIInv, OwnerTypeOK
  <2>7. ASSUME NEW i \in Invitation
        PROVE  /\ grants'[i] <= 1
               /\ grants'[i] = 1 => invitation'[i].status \in {"accepted", "deleted"}
               /\ \A s, r \in Task :
                    /\ {task'[s].pc, task'[r].pc} \subseteq {"slug", "roleDelete", "roleCommit"}
                    /\ task'[s].invitation = i /\ task'[r].invitation = i
                    => s = r /\ grants'[i] = 0
    <3>1. CASE i = task[t].invitation
      <4>1. invitation[i].status \in Past
        BY <1>1, <3>1 DEF HandlerFits, Granting
      <4>2. grants[i] = 0
        BY <1>1, <3>1 DEF OwnerIInv, InvitationGrantsOnce
      <4>3. \A s \in Task : s # t /\ task[s].invitation = i => task[s].pc \notin Granting
        BY <1>1, <3>1 DEF OwnerIInv, InvitationGrantsOnce, Granting
      <4>4. \A s \in Task : task'[s].invitation = i => task'[s].pc \notin Granting
        BY <2>4, <4>3 DEF Granting
      <4>5. QED
        BY <2>2, <3>1, <4>1, <4>2, <4>4 DEF Granting, Past
    <3>2. CASE i # task[t].invitation
      <4>1. grants'[i] = grants[i] /\ UNCHANGED invitation
        BY <2>2, <3>2
      <4>2. QED
        BY <2>4, <4>1 DEF OwnerIInv, InvitationGrantsOnce
    <3>3. QED
      BY <3>1, <3>2
  <2>8. QED
    BY <2>4, <2>6, <2>7 DEF OwnerIInv, TasksFit, InvitationGrantsOnce
<1>4. QED
  BY <1>2, <1>3

LEMMA OwnerStepInv == OwnerIInv /\ [Next]_vars => OwnerIInv'
<1> SUFFICES ASSUME OwnerIInv, [Next]_vars
             PROVE  OwnerIInv'
  OBVIOUS
<1>1. ASSUME NEW t \in Task, TaskBegins(t) \/ TaskStep(t) \/ Abort(t)
      PROVE  OwnerIInv'
  <2>1. CASE TaskBegins(t)
    BY <2>1, BeginKeeps, AccountKeeps, RowKeeps DEF TaskBegins
  <2>2. CASE TaskStep(t)
    BY <2>2, ReadKeeps, AccountKeeps, RowKeeps, AcceptKeeps, CommitKeeps DEF TaskStep
  <2>3. QED
    BY <1>1, <2>1, <2>2, RowKeeps
<1>2. CASE Next
  BY <1>1, <1>2, RowKeeps DEF Next
<1>3. CASE UNCHANGED vars
  BY <1>3 DEF vars, history, OwnerIInv, OwnerTypeOK, TasksFit, HandlerFits, InvitationGrantsOnce
<1>4. QED
  BY <1>2, <1>3

\* Accounts, invitations and tasks stay as OwnerIInv says, crashes included.
THEOREM OwnerInvariance == Spec => []OwnerIInv
  BY OwnerInitInv, OwnerStepInv, PTL DEF Spec

\* The rows of users and invitations and the locals of handlers keep their types.
THEOREM OwnerTypeCorrect == Spec => []OwnerTypeOK
<1>1. OwnerIInv => OwnerTypeOK
  BY DEF OwnerIInv
<1>2. QED
  BY <1>1, OwnerInvariance, PTL

\* However often and by whatever handlers an invitation is accepted, its role is
\* assigned once, and only after it has been marked as accepted.
THEOREM OwnerInvitationGrantsOnce == Spec => []InvitationGrantsOnce
<1>1. OwnerIInv => InvitationGrantsOnce
  BY DEF OwnerIInv
<1>2. QED
  BY <1>1, OwnerInvariance, PTL

-----------------------------------------------------------------------------
(***************************************************************************)
(* Owners fall only to handlers that were overtaken.                       *)
(***************************************************************************)

\* Opening an account, or lifting a ban or an archival, takes nothing from an owner.
LEMMA OwnerKept ==
  ASSUME OwnerIInv, NEW u \in User, IsOwner(u), NEW v \in User,
         \/ UNCHANGED user
         \/ user[v].state = "unused" /\ \E e \in Email : user' = [user EXCEPT ![v] = NewUser(e)]
         \/ user' = [user EXCEPT ![v].banned = FALSE]
         \/ user' = [user EXCEPT ![v].archived = FALSE]
         \/ user' = [user EXCEPT ![v].banned = FALSE, ![v].archived = FALSE]
  PROVE  IsOwner(u)'
<1>1. user \in [User -> UserRow] /\ user[u].state = "live" /\ "owner" \in user[u].roles
      /\ ~user[u].banned /\ ~user[u].archived
  BY DEF IsOwner, Live, OwnerIInv, OwnerTypeOK
<1>2. CASE UNCHANGED user
  BY <1>1, <1>2 DEF IsOwner, Live
<1>3. CASE user[v].state = "unused" /\ \E e \in Email : user' = [user EXCEPT ![v] = NewUser(e)]
  <2>1. u # v
    BY <1>1, <1>3
  <2>2. user'[u] = user[u]
    BY <1>1, <1>3, <2>1
  <2>3. QED
    BY <1>1, <2>2 DEF IsOwner, Live
<1>4. CASE \/ user' = [user EXCEPT ![v].banned = FALSE]
           \/ user' = [user EXCEPT ![v].archived = FALSE]
           \/ user' = [user EXCEPT ![v].banned = FALSE, ![v].archived = FALSE]
  <2>1. /\ user'[u].state = user[u].state /\ user'[u].roles = user[u].roles
        /\ ~user'[u].banned /\ ~user'[u].archived
    BY <1>1, <1>4 DEF UserRow
  <2>2. QED
    BY <1>1, <2>1 DEF IsOwner, Live
<1>5. QED
  BY <1>2, <1>3, <1>4

\* The commit of an assignment takes owner from an account only if it gives it
\* something else, and then the handler had not read that owner was its only role.
LEMMA CommitOvertaken ==
  ASSUME OwnerIInv, NEW t \in Task, RoleCommit(t), NEW u \in User,
         IsOwner(u), ~IsOwner(u)'
  PROVE  /\ task[t].target = u /\ task[t].pc # "idle" /\ ~task[t].sole
         /\ task'[t] # task[t]
<1>1. /\ task[t].pc = "roleCommit" /\ task[t].target \in User
      /\ task[t].sole => task[t].role = "owner"
      /\ user \in [User -> UserRow] /\ task \in [Task -> TaskState]
  BY TaskTyped DEF RoleCommit, HandlerFits, Granting, OwnerIInv, OwnerTypeOK
<1>2. ~UNCHANGED user
  BY OwnerKept
<1>3. PICK given : given = (user[task[t].target].roles \ task[t].seen) \union {task[t].role}
  OBVIOUS
<1>4. user' = [user EXCEPT ![task[t].target].roles = given] /\ task'[t] = Idle
  BY <1>2, <1>3 DEF RoleCommit, rows
<1>5. task[t].target = u
  <2>1. SUFFICES ASSUME task[t].target # u PROVE user'[u] = user[u]
    BY DEF IsOwner, Live
  <2>2. QED
    BY <1>1, <1>4, <2>1
<1>6. ~task[t].sole
  <2>1. SUFFICES ASSUME task[t].sole PROVE IsOwner(u)'
    OBVIOUS
  <2>2. "owner" \in given
    BY <1>1, <1>3, <2>1
  <2>3. /\ user'[u].roles = given /\ user'[u].state = user[u].state
        /\ user'[u].banned = user[u].banned /\ user'[u].archived = user[u].archived
    BY <1>1, <1>4, <1>5 DEF UserRow
  <2>4. QED
    BY <2>2, <2>3 DEF IsOwner, Live
<1>7. task'[t] # task[t]
  BY <1>1, <1>4, IdleFits
<1>8. QED
  BY <1>1, <1>5, <1>6, <1>7

\* Bans, archivals and deletions are not begun at an account whose only role was owner.
LEMMA DisableOvertaken ==
  ASSUME OwnerIInv, NEW t \in Task, Disable(t), NEW u \in User,
         IsOwner(u), ~IsOwner(u)'
  PROVE  /\ task[t].target = u /\ task[t].pc # "idle" /\ ~task[t].sole
         /\ task'[t] # task[t]
<1>1. /\ task[t].pc = "write" /\ task[t].target \in User /\ ~task[t].sole
      /\ user \in [User -> UserRow] /\ task \in [Task -> TaskState]
  BY TaskTyped DEF Disable, HandlerFits, OwnerIInv, OwnerTypeOK
<1>2. task'[t] = Idle
  BY <1>1 DEF Disable, Ends, Goto
<1>3. task[t].target = u
  <2>1. SUFFICES ASSUME task[t].target # u PROVE user'[u] = user[u]
    BY DEF IsOwner, Live
  <2>2. QED
    BY <1>1, <2>1 DEF Disable, Deleted
<1>4. QED
  BY <1>1, <1>2, <1>3, IdleFits

LEMMA OwnerFalls ==
  ASSUME OwnerIInv, [Next]_vars, NEW u \in User, IsOwner(u), ~IsOwner(u)'
  PROVE  \E t \in Task : /\ task[t].target = u /\ task[t].pc # "idle" /\ ~task[t].sole
                         /\ task'[t] # task[t]
<1>1. ~UNCHANGED user
  BY OwnerKept
<1>2. \A v \in User, e \in Email, t \in Task : ~SignUp(t, e, v) /\ ~MakeOwner(t, e, v)
  BY OwnerKept DEF SignUp, MakeOwner
<1>3. \A a, v \in User, t \in Task : ~Enable(t, a, v)
  BY OwnerKept DEF Enable
<1>4. \A t \in Task : ~CreateOwner(t)
  <2>1. SUFFICES ASSUME NEW t \in Task, CreateOwner(t) PROVE FALSE
    OBVIOUS
  <2>2. PICK v \in User : /\ user[v].state = "unused" /\ task[t].pc = "createOwner"
                          /\ user' = [user EXCEPT ![v] = NewUser(task[t].email)]
    BY <1>1, <2>1 DEF CreateOwner
  <2>3. user'[u] = user[u]
    BY <2>2 DEF IsOwner, Live, OwnerIInv, OwnerTypeOK
  <2>4. QED
    BY <2>3 DEF IsOwner, Live
<1>5. PICK t \in Task : RoleCommit(t) \/ Disable(t)
  <2>1. ASSUME NEW t \in Task, TaskBegins(t)
        PROVE  FALSE
    BY <1>1, <1>2, <1>3, <2>1
       DEF TaskBegins, BeginSetup, BeginUpdate, BeginDisable, InviteUser, BeginAccept, rows
  <2>2. ASSUME NEW t \in Task, TaskStep(t)
        PROVE  RoleCommit(t) \/ Disable(t)
    BY <1>1, <1>4, <2>2
       DEF TaskStep, CheckVacancy, CheckEmail, UpdateName, Accept, ReadSlug, RoleDelete, rows
  <2>3. ~UNCHANGED vars
    BY <1>1 DEF vars
  <2>4. \A t \in Task : ~Abort(t)
    BY <1>1 DEF Abort
  <2>5. \A i \in Invitation : ~Expire(i)
    BY <1>1 DEF Expire
  <2>6. QED
    BY <2>1, <2>2, <2>3, <2>4, <2>5 DEF Next
<1>6. QED
  BY <1>5, CommitOvertaken, DisableOvertaken

\* An account whose only role is owner loses its standing to no handler that read
\* that role: what takes it away was overtaken between its check and its write.
THEOREM OwnerFallsOvertaken == Spec => OwnersFallToOvertakenOnly
<1>1. OwnerIInv /\ [Next]_vars
        => [\A u \in User :
              IsOwner(u) /\ ~IsOwner(u)'
                => \E t \in Task : task[t].target = u /\ task[t].pc # "idle" /\ ~task[t].sole
                                     /\ task'[t] # task[t]]_vars
  BY OwnerFalls
<1>2. QED
  BY <1>1, OwnerInvariance, PTL DEF Spec, OwnersFallToOvertakenOnly
=============================================================================
