----------------------------- MODULE OwnerAccounts -----------------------------
(***************************************************************************)
(* User accounts, their platform roles and their invitations: owner setup, *)
(* sign-up, the make-owner script, user administration and accepting an    *)
(* invitation, all of which read a role or a row before they write.        *)
(*                                                                         *)
(* The three system roles are never deleted.  The permissions of an actor  *)
(* are those of his roles when the handler begins (RbacCache has what may  *)
(* be stale about them).                                                   *)
(***************************************************************************)
EXTENDS Naturals, FiniteSets

CONSTANTS
  User,          \* primary keys of user rows
  Email,
  Invitation,    \* primary keys of invitation rows
  Task,          \* handlers, hooks and scripts in flight
  MaxTasks,      \* bound: handlers started
  Kinds,         \* bound: the kinds of handler of this instance
  NoUser, NoEmail, NoInvitation

Kind == {"setup", "signup", "script", "update", "disable", "enable", "invite", "accept"}
Slug == {"owner", "admin", "user"}
Disabling == {"ban", "archive", "delete"}

ASSUME OwnerAssumption ==
  /\ MaxTasks \in Nat /\ Kinds \subseteq Kind
  /\ NoUser \notin User /\ NoEmail \notin Email /\ NoInvitation \notin Invitation

VARIABLES
  user,        \* user rows with their rbac_user_role rows
  invitation,  \* invitation rows
  task,        \* the handlers
  started,     \* handlers started so far
  grants,      \* history: how often each invitation's role was assigned
  cut          \* history: invitations whose acceptance died half-way

history == <<grants, cut>>
vars == <<user, invitation, task, started, history>>
rows == <<user, invitation, history>>

UserRow ==
  [state : {"unused", "live", "deleted"}, email : Email \union {NoEmail},
   roles : SUBSET Slug, banned : BOOLEAN, archived : BOOLEAN]

InvitationRow ==
  [status : {"unused", "pending", "accepted", "deleted"}, email : Email \union {NoEmail},
   role : Slug, inviter : User \union {NoUser}, expired : BOOLEAN]

TaskState ==
  [pc      : {"idle", "vacancy", "email", "createOwner", "name", "write", "accept",
              "slug", "roleDelete", "roleCommit"},
   target  : User \union {NoUser},
   email   : Email \union {NoEmail},
   role    : Slug,                       \* the role to assign
   allowOwnerAssignment : BOOLEAN,
   action  : Disabling,
   invitation : Invitation \union {NoInvitation},
   seen    : SUBSET Slug,                \* rows the transaction will delete
   sole    : BOOLEAN]                    \* history: the role read last was "owner" alone

NoRow == [state |-> "unused", email |-> NoEmail, roles |-> {}, banned |-> FALSE,
          archived |-> FALSE]
NewUser(e) == [NoRow EXCEPT !.state = "live", !.email = e]
Idle == [pc |-> "idle", target |-> NoUser, email |-> NoEmail, role |-> "user",
         allowOwnerAssignment |-> FALSE, action |-> "ban", invitation |-> NoInvitation,
         seen |-> {}, sole |-> FALSE]

Init ==
  /\ user = [u \in User |-> NoRow]
  /\ invitation = [i \in Invitation |->
       [status |-> "unused", email |-> NoEmail, role |-> "user", inviter |-> NoUser,
        expired |-> FALSE]]
  /\ task = [t \in Task |-> Idle]
  /\ started = 0
  /\ grants = [i \in Invitation |-> 0]
  /\ cut = {}

Live(u) == user[u].state = "live"
EmailTaken(e) == \E u \in User : Live(u) /\ user[u].email = e

IsOwner(u) ==
  Live(u) /\ ~user[u].banned /\ ~user[u].archived /\ "owner" \in user[u].roles
HasPlatformOwner == \E u \in User : IsOwner(u)

\* One row of possibly several, in no order; "user" if there is none.
PrimaryRoleSlugs(u) == IF user[u].roles = {} THEN {"user"} ELSE user[u].roles

\* Admins have every permission of owners but the one to manage admins and owners.
MayAdminister(a) ==
  /\ Live(a) /\ ~user[a].banned /\ ~user[a].archived
  /\ user[a].roles \intersect {"owner", "admin"} # {}
CanManageOwners(a) == "owner" \in user[a].roles

\* The rules on a new role, and on bans, archivals and deletions.
MayGive(a, u, role) ==
  PrimaryRoleSlugs(u) # {"owner"} /\ (role = "admin" => CanManageOwners(a))
MayDisable(a, u) ==
  /\ a # u
  /\ \E slug \in PrimaryRoleSlugs(u) :
       slug # "owner" /\ (slug = "admin" => CanManageOwners(a))

Starts(t, kind) ==
  /\ task[t].pc = "idle"
  /\ kind \in Kinds
  /\ started < MaxTasks
  /\ started' = started + 1

Goto(t, state) == task' = [task EXCEPT ![t] = state]
Ends(t) == Goto(t, Idle)
Assigning(h, u, role) == [h EXCEPT !.pc = "slug", !.target = u, !.role = role]

-----------------------------------------------------------------------------
(***************************************************************************)
(* assignUserRole: the owner rules, then one transaction (READ COMMITTED)  *)
(* that deletes the rows it finds and inserts one.                         *)
(***************************************************************************)
\* Mutant: the rule that protects owners is lost.
ReadSlugUnruled(t) ==
  LET h == task[t]
  IN  /\ h.pc = "slug"
      /\ Goto(t, [h EXCEPT !.pc = "roleDelete", !.sole = (user[h.target].roles = {"owner"})])
      /\ UNCHANGED <<rows, started>>

ReadSlug(t) ==
  LET h == task[t]
  IN  /\ h.pc = "slug"
      /\ \E slug \in PrimaryRoleSlugs(h.target) :
           IF \/ slug = "owner" /\ h.role # "owner"
              \/ h.role = "owner" /\ ~h.allowOwnerAssignment
           THEN Ends(t)
           ELSE Goto(t, [h EXCEPT !.pc = "roleDelete",
                                  !.sole = (user[h.target].roles = {"owner"})])
      /\ UNCHANGED <<rows, started>>

RoleDelete(t) ==
  /\ task[t].pc = "roleDelete"
  /\ Goto(t, [task[t] EXCEPT !.pc = "roleCommit", !.seen = user[task[t].target].roles])
  /\ UNCHANGED <<rows, started>>

\* A row deleted by this commit is no longer there for another's to delete.
RoleCommit(t) ==
  LET h == task[t]
      kept == user[h.target].roles \ h.seen
  IN  /\ h.pc = "roleCommit"
      /\ IF Live(h.target) /\ h.role \notin kept
         THEN /\ user' = [user EXCEPT ![h.target].roles = kept \union {h.role}]
              /\ task' = [s \in Task |->
                   IF s = t THEN Idle
                   ELSE IF task[s].pc = "roleCommit" /\ task[s].target = h.target
                   THEN [task[s] EXCEPT !.seen = @ \ h.seen] ELSE task[s]]
              /\ grants' = [i \in Invitation |->
                   IF i = h.invitation THEN grants[i] + 1 ELSE grants[i]]
              /\ UNCHANGED <<invitation, cut>>
         ELSE Ends(t) /\ UNCHANGED rows
      /\ UNCHANGED started

-----------------------------------------------------------------------------
(***************************************************************************)
(* Ways to become an account.                                              *)
(***************************************************************************)
\* POST /owner/setup: the controller looks for an owner, and so does the service.
BeginSetup(t, e) ==
  /\ ~HasPlatformOwner
  /\ Starts(t, "setup")
  /\ Goto(t, [Idle EXCEPT !.pc = "vacancy", !.email = e])
  /\ UNCHANGED rows

CheckVacancy(t) ==
  /\ task[t].pc = "vacancy"
  /\ IF HasPlatformOwner THEN Ends(t) ELSE Goto(t, [task[t] EXCEPT !.pc = "email"])
  /\ UNCHANGED <<rows, started>>

CheckEmail(t) ==
  /\ task[t].pc = "email"
  /\ IF EmailTaken(task[t].email) THEN Ends(t)
     ELSE Goto(t, [task[t] EXCEPT !.pc = "createOwner"])
  /\ UNCHANGED <<rows, started>>

CreateOwner(t) ==
  /\ task[t].pc = "createOwner"
  /\ \/ /\ EmailTaken(task[t].email)
        /\ Ends(t)
        /\ UNCHANGED user
     \/ /\ ~EmailTaken(task[t].email)
        /\ \E u \in User :
             /\ user[u].state = "unused"
             /\ user' = [user EXCEPT ![u] = NewUser(task[t].email)]
             /\ Goto(t, Assigning([task[t] EXCEPT !.allowOwnerAssignment = TRUE], u, "owner"))
  /\ UNCHANGED <<invitation, history, started>>

\* A first magic link creates the row, and a hook assigns the default role.
SignUp(t, e, u) ==
  /\ ~EmailTaken(e) /\ user[u].state = "unused"
  /\ Starts(t, "signup")
  /\ user' = [user EXCEPT ![u] = NewUser(e)]
  /\ Goto(t, Assigning(Idle, u, "user"))
  /\ UNCHANGED <<invitation, history>>

\* make-owner: the row is inserted or re-enabled, then made owner if it is not.
MakeOwner(t, e, u) ==
  /\ Starts(t, "script")
  /\ \/ /\ ~EmailTaken(e) /\ user[u].state = "unused"
        /\ user' = [user EXCEPT ![u] = NewUser(e)]
     \/ /\ Live(u) /\ user[u].email = e
        /\ user' = [user EXCEPT ![u].banned = FALSE, ![u].archived = FALSE]
  /\ \E slug \in PrimaryRoleSlugs(u) :
       IF slug = "owner" THEN Ends(t)
       ELSE Goto(t, Assigning([Idle EXCEPT !.allowOwnerAssignment = TRUE], u, "owner"))
  /\ UNCHANGED <<invitation, history>>

-----------------------------------------------------------------------------
(***************************************************************************)
(* UsersService.                                                           *)
(***************************************************************************)
\* updateUser with a role: the policies on what was read, the row, the role.
BeginUpdate(t, actor, u, role) ==
  /\ MayAdminister(actor) /\ Live(u)
  /\ role \in {"admin", "user"}
  /\ MayGive(actor, u, role)
  /\ Starts(t, "update")
  /\ Goto(t, [Assigning(Idle, u, role) EXCEPT !.pc = "name"])
  /\ UNCHANGED rows

UpdateName(t) ==
  /\ task[t].pc = "name"
  /\ IF Live(task[t].target) THEN Goto(t, [task[t] EXCEPT !.pc = "slug"]) ELSE Ends(t)
  /\ UNCHANGED <<rows, started>>

\* banUser, archiveUser, deleteUserPermanent: assertCanUseDestructiveAction first.
BeginDisable(t, actor, u, action) ==
  /\ MayAdminister(actor) /\ Live(u) /\ MayDisable(actor, u)
  /\ Starts(t, "disable")
  /\ Goto(t, [Idle EXCEPT !.pc = "write", !.target = u, !.action = action,
                          !.sole = (user[u].roles = {"owner"})])
  /\ UNCHANGED rows

Deleted(u) ==
  /\ user' = [user EXCEPT ![u] = [NoRow EXCEPT !.state = "deleted"]]
  /\ invitation' = [i \in Invitation |->
       IF invitation[i].inviter = u THEN [invitation[i] EXCEPT !.status = "deleted"]
       ELSE invitation[i]]

Disable(t) ==
  LET u == task[t].target
  IN  /\ task[t].pc = "write"
      /\ \/ /\ ~Live(u)
            /\ UNCHANGED <<user, invitation>>
         \/ /\ Live(u) /\ task[t].action = "ban"
            /\ user' = [user EXCEPT ![u].banned = TRUE]
            /\ UNCHANGED invitation
         \/ /\ Live(u) /\ task[t].action = "archive"
            /\ user' = [user EXCEPT ![u].archived = TRUE]
            /\ UNCHANGED invitation
         \/ Live(u) /\ task[t].action = "delete" /\ Deleted(u)
      /\ Ends(t)
      /\ UNCHANGED <<history, started>>

\* unbanUser and restoreUser are one statement.
Enable(t, actor, u) ==
  /\ MayAdminister(actor) /\ Live(u)
  /\ Starts(t, "enable")
  /\ \/ user' = [user EXCEPT ![u].banned = FALSE]
     \/ user' = [user EXCEPT ![u].archived = FALSE]
  /\ UNCHANGED <<task, invitation, history>>

InviteUser(t, actor, i, e, role) ==
  /\ MayAdminister(actor)
  /\ role # "owner" /\ ~EmailTaken(e)
  /\ invitation[i].status = "unused"
  /\ Starts(t, "invite")
  /\ invitation' = [invitation EXCEPT ![i] =
       [status |-> "pending", email |-> e, role |-> role, inviter |-> actor,
        expired |-> FALSE]]
  /\ UNCHANGED <<user, task, history>>

-----------------------------------------------------------------------------
(***************************************************************************)
(* Accepting an invitation: the lookup, the transaction that marks it, and *)
(* only then, outside the transaction, the role.                           *)
(***************************************************************************)
Expire(i) ==
  /\ invitation[i].status = "pending" /\ ~invitation[i].expired
  /\ invitation' = [invitation EXCEPT ![i].expired = TRUE]
  /\ UNCHANGED <<user, task, started, history>>

BeginAccept(t, i, u) ==
  /\ Live(u)
  /\ invitation[i].status = "pending" /\ ~invitation[i].expired
  /\ invitation[i].email = user[u].email
  /\ Starts(t, "accept")
  /\ Goto(t, [Assigning(Idle, u, invitation[i].role) EXCEPT !.pc = "accept",
                                                             !.invitation = i])
  /\ UNCHANGED rows

\* Mutant: the update does not ask for "pending".
AcceptTwice(t) ==
  LET i == task[t].invitation
  IN  /\ task[t].pc = "accept"
      /\ IF Live(task[t].target) /\ invitation[i].status # "deleted"
         THEN /\ invitation' = [invitation EXCEPT ![i].status = "accepted"]
              /\ Goto(t, [task[t] EXCEPT !.pc = "slug"])
         ELSE Ends(t) /\ UNCHANGED invitation
      /\ UNCHANGED <<user, history, started>>

\* Mutant: the role is left to somebody else.
AcceptOnly(t) ==
  LET i == task[t].invitation
  IN  /\ task[t].pc = "accept"
      /\ IF Live(task[t].target) /\ invitation[i].status = "pending"
         THEN invitation' = [invitation EXCEPT ![i].status = "accepted"]
         ELSE UNCHANGED invitation
      /\ Ends(t)
      /\ UNCHANGED <<user, history, started>>

Accept(t) ==
  LET i == task[t].invitation
  IN  /\ task[t].pc = "accept"
      /\ IF Live(task[t].target) /\ invitation[i].status = "pending"
         THEN /\ invitation' = [invitation EXCEPT ![i].status = "accepted"]
              /\ Goto(t, [task[t] EXCEPT !.pc = "slug"])
         ELSE Ends(t) /\ UNCHANGED invitation
      /\ UNCHANGED <<user, history, started>>

\* A statement throws, or the process dies.
Abort(t) ==
  /\ task[t].pc # "idle"
  /\ cut' = cut \union ({task[t].invitation} \ {NoInvitation})
  /\ Ends(t)
  /\ UNCHANGED <<user, invitation, grants, started>>

-----------------------------------------------------------------------------
TaskStep(t) ==
  \/ CheckVacancy(t) \/ CheckEmail(t) \/ CreateOwner(t)
  \/ UpdateName(t) \/ Disable(t) \/ Accept(t)
  \/ ReadSlug(t) \/ RoleDelete(t) \/ RoleCommit(t)

TaskBegins(t) ==
  \/ \E e \in Email : BeginSetup(t, e)
  \/ \E e \in Email, u \in User : SignUp(t, e, u) \/ MakeOwner(t, e, u)
  \/ \E a, u \in User, r \in Slug : BeginUpdate(t, a, u, r)
  \/ \E a, u \in User, x \in Disabling : BeginDisable(t, a, u, x)
  \/ \E a, u \in User : Enable(t, a, u)
  \/ \E a \in User, i \in Invitation, e \in Email, r \in Slug : InviteUser(t, a, i, e, r)
  \/ \E i \in Invitation, u \in User : BeginAccept(t, i, u)

Next ==
  \/ \E t \in Task : TaskBegins(t) \/ TaskStep(t) \/ Abort(t)
  \/ \E i \in Invitation : Expire(i)

Spec == Init /\ [][Next]_vars

\* Database calls are answered and the event loop resumes the handler.
FairSpec == Spec /\ \A t \in Task : WF_vars(TaskStep(t))

-----------------------------------------------------------------------------
(***************************************************************************)
(* Properties.                                                             *)
(***************************************************************************)

\* Rows and handler locals have the types of the schema and the code.
OwnerTypeOK ==
  /\ user \in [User -> UserRow]
  /\ invitation \in [Invitation -> InvitationRow]
  /\ task \in [Task -> TaskState]
  /\ started \in 0..MaxTasks
  /\ grants \in [Invitation -> Nat] /\ cut \subseteq Invitation

\* However often and by whatever handlers an invitation is accepted, its role
\* is assigned once, and only after it has been marked as accepted.
InvitationGrantsOnce ==
  \A i \in Invitation :
    /\ grants[i] <= 1
    /\ grants[i] = 1 => invitation[i].status \in {"accepted", "deleted"}
    /\ \A s, t \in Task :
         /\ {task[s].pc, task[t].pc} \subseteq {"slug", "roleDelete", "roleCommit"}
         /\ task[s].invitation = i /\ task[t].invitation = i
         => s = t /\ grants[i] = 0

\* An account whose only role is owner loses its standing to no handler that
\* read that role: bans, deletions, updates, invitations and sign-up hooks all
\* notice, so that an owner can fall only to one that was overtaken.
OwnersFallToOvertakenOnly ==
  [][\A u \in User :
       IsOwner(u) /\ ~IsOwner(u)'
         => \E t \in Task : task[t].target = u /\ task[t].pc # "idle" /\ ~task[t].sole
                              /\ task'[t] # task[t]]_vars

\* A pending invitation that is being accepted ends with its role given to the
\* invited account, if only until the next change, unless that is deleted, or an
\* owner's, or the invitation goes with the inviter, or its acceptance dies.
AcceptedGetsRole ==
  \A i \in Invitation, u \in User :
    (/\ invitation[i].status = "pending"
     /\ \E t \in Task : task[t].pc = "accept" /\ task[t].invitation = i /\ task[t].target = u)
      ~> \/ grants[i] = 1
         \/ invitation[i].status = "deleted"
         \/ ~Live(u) \/ i \in cut
         \/ user[u].roles \intersect {"owner", invitation[i].role} # {}

\* Setup makes one owner: it is accessible only if no owner exists.
SetupMakesOneOwner == Cardinality({u \in User : IsOwner(u)}) <= 1

\* Owner accounts are not banned, archived, deleted or given another role.
OwnersStay == [][\A u \in User : IsOwner(u) => IsOwner(u)']_vars
=============================================================================
