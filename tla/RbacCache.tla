------------------------------- MODULE RbacCache -------------------------------
(***************************************************************************)
(* Roles, their permissions, the roles and overrides of users, and the     *)
(* effective permissions cached in Redis: getUserSessionRbac against the   *)
(* operations that change what it computes and then invalidate it          *)
(* (assignUserRole, the overrides, RolesService).                          *)
(*                                                                         *)
(* A prisma.$transaction runs at READ COMMITTED: its deleteMany sees the   *)
(* rows committed when it starts, and the rest becomes visible at commit.  *)
(* A row deleted by two transactions is deleted by the first to commit.    *)
(***************************************************************************)
EXTENDS Naturals, FiniteSets

CONSTANTS
  User, Permission,
  Role,                \* primary keys of rbac_role rows
  SystemRole,          \* roles that exist from the start and have defaults
  ProtectedRole,       \* system roles nobody edits, resets or is moved to
  Defaults,            \* RolePermissionMap
  RoleAtStart,         \* the role each user starts with
  Reader,              \* calls of getUserSessionRbac in flight
  Admin,               \* mutating handlers in flight
  MaxChanges,          \* bound: mutating handlers started
  Operations,          \* bound: the mutating operations of this instance
  Crashes,             \* whether handlers may fail half-way
  NoUser, NoRole, NoEntry

Operation == {"assign", "override", "replace", "reset", "rename", "create", "delete"}
Effect == {"grant", "deny"}

ASSUME RbacAssumption ==
  /\ ProtectedRole \subseteq SystemRole /\ SystemRole \subseteq Role
  /\ Defaults \in [SystemRole -> SUBSET Permission]
  /\ RoleAtStart \in [User -> SystemRole]
  /\ MaxChanges \in Nat
  /\ Operations \subseteq Operation
  /\ Crashes \in BOOLEAN
  /\ NoUser \notin User /\ NoRole \notin Role

VARIABLES
  roles,      \* the rbac_role rows with their permissions
  userRoles,  \* the rbac_user_role rows
  overrides,  \* the rbac_user_permission_override rows
  cache,      \* Redis: rbac:effective:<user>
  reader,     \* the calls of getUserSessionRbac
  admin,      \* the mutating handlers
  changes     \* mutating handlers started so far

rbacVars == <<roles, userRoles, overrides, cache, reader, admin, changes>>
tables == <<roles, userRoles, overrides>>

RoleRow == [state : {"unused", "live", "deleted"}, perms : SUBSET Permission]

\* "late" is a history flag: the invalidation that should have removed this
\* payload came before it was stored, or will never come.
Entry == [roles : SUBSET Role, perms : SUBSET Permission, late : BOOLEAN]

ReaderState ==
  [pc : {"idle", "load", "store"}, user : User \union {NoUser},
   entry : Entry \union {NoEntry}]

AdminState ==
  [op     : Operation \union {"idle"},
   pc     : {"idle", "roleDelete", "roleCommit", "overrideDelete", "overrideCommit",
             "permsDelete", "permsCommit", "resetDelete", "resetCreate",
             "users", "invalidate", "next", "deleteRow"},
   user   : User \union {NoUser},    \* user being assigned a role or an override
   role   : Role \union {NoRole},    \* role being administered
   target : Role \union {NoRole},    \* role being assigned
   perms  : SUBSET Permission,       \* the permissions to write
   effect : Effect,
   seen   : SUBSET (Role \union Permission \union Effect),
   todo   : SUBSET User,             \* users still to be invalidated
   users  : SUBSET User,             \* users deleteRole has yet to move
   force  : BOOLEAN]

IdleReader == [pc |-> "idle", user |-> NoUser, entry |-> NoEntry]
IdleAdmin ==
  [op |-> "idle", pc |-> "idle", user |-> NoUser, role |-> NoRole, target |-> NoRole,
   perms |-> {}, effect |-> "deny", seen |-> {}, todo |-> {}, users |-> {}, force |-> FALSE]

LiveRole(r) == roles[r].state = "live"
AdminAt(a, pc) == admin[a].pc = pc
Holders(r) == {u \in User : r \in userRoles[u]}

RbacInit ==
  /\ roles = [r \in Role |-> IF r \in SystemRole
                             THEN [state |-> "live", perms |-> Defaults[r]]
                             ELSE [state |-> "unused", perms |-> {}]]
  /\ userRoles = [u \in User |-> {RoleAtStart[u]}]
  /\ overrides = [u \in User |-> {}]
  /\ cache = [u \in User |-> NoEntry]
  /\ reader = [q \in Reader |-> IdleReader]
  /\ admin = [a \in Admin |-> IdleAdmin]
  /\ changes = 0

-----------------------------------------------------------------------------
(***************************************************************************)
(* Reading.  A hit changes nothing; a miss loads a snapshot, in one SQL    *)
(* statement, and stores it after another await (the catalog version,      *)
(* which no reader compares).                                              *)
(***************************************************************************)
\* buildEffectiveSet: the permissions of the roles and the grants, less the denials.
Effective(u) ==
  ((UNION {roles[r].perms : r \in userRoles[u]}) \union
   {p \in Permission : <<p, "grant">> \in overrides[u]})
    \ {p \in Permission : <<p, "deny">> \in overrides[u]}

BeginRead(q, u) ==
  /\ reader[q].pc = "idle"
  /\ cache[u] = NoEntry
  /\ reader' = [reader EXCEPT ![q] = [IdleReader EXCEPT !.pc = "load", !.user = u]]
  /\ UNCHANGED <<tables, cache, admin, changes>>

LoadSnapshot(q) ==
  LET u == reader[q].user
  IN  /\ reader[q].pc = "load"
      /\ reader' = [reader EXCEPT ![q].pc = "store",
           ![q].entry = [roles |-> userRoles[u], perms |-> Effective(u), late |-> FALSE]]
      /\ UNCHANGED <<tables, cache, admin, changes>>

Store(q) ==
  /\ reader[q].pc = "store"
  /\ cache' = [cache EXCEPT ![reader[q].user] = reader[q].entry]
  /\ reader' = [reader EXCEPT ![q] = IdleReader]
  /\ UNCHANGED <<tables, admin, changes>>

\* A Redis or database call throws, or the process dies.
AbortRead(q) ==
  /\ Crashes
  /\ reader[q].pc # "idle"
  /\ reader' = [reader EXCEPT ![q] = IdleReader]
  /\ UNCHANGED <<tables, cache, admin, changes>>

\* EFFECTIVE_PERMISSIONS_TTL_SECONDS have passed.
Expire(u) ==
  /\ cache[u] # NoEntry
  /\ cache' = [cache EXCEPT ![u] = NoEntry]
  /\ UNCHANGED <<tables, reader, admin, changes>>

-----------------------------------------------------------------------------
(***************************************************************************)
(* Invalidation.                                                           *)
(***************************************************************************)
MarkReadersLate(late) ==
  reader' = [q \in Reader |-> IF reader[q].pc = "store" /\ reader[q].user \in late
                              THEN [reader[q] EXCEPT !.entry.late = TRUE]
                              ELSE reader[q]]

\* The invalidation that users in "late" were owed will not come.
NeverInvalidated(late) ==
  /\ MarkReadersLate(late)
  /\ cache' = [u \in User |-> IF u \in late /\ cache[u] # NoEntry
                              THEN [cache[u] EXCEPT !.late = TRUE] ELSE cache[u]]

\* Where a handler goes on after its invalidations.
Invalidating(h, todo) ==
  IF todo # {} THEN [h EXCEPT !.pc = "invalidate", !.todo = todo]
  ELSE IF h.op = "delete" THEN [h EXCEPT !.pc = "next", !.todo = {}]
  ELSE IdleAdmin

\* Mutant: the loop ends after the first user.
InvalidateFirstUser(a, u) ==
  /\ AdminAt(a, "invalidate")
  /\ u \in admin[a].todo
  /\ cache' = [cache EXCEPT ![u] = NoEntry]
  /\ MarkReadersLate({u})
  /\ admin' = [admin EXCEPT ![a] = Invalidating(@, {})]
  /\ UNCHANGED <<tables, changes>>

InvalidateUser(a, u) ==
  /\ AdminAt(a, "invalidate")
  /\ u \in admin[a].todo
  /\ cache' = [cache EXCEPT ![u] = NoEntry]
  /\ MarkReadersLate({u})
  /\ admin' = [admin EXCEPT ![a] = Invalidating(@, @.todo \ {u})]
  /\ UNCHANGED <<tables, changes>>

\* refreshRolePermissionCache: the users of the role are read, then invalidated
\* one by one.  (Nothing reads the cached permissions of the role itself.)
TakeUsers(a) ==
  /\ AdminAt(a, "users")
  /\ admin' = [admin EXCEPT ![a] = Invalidating(@, Holders(@.role))]
  /\ UNCHANGED <<tables, cache, reader, changes>>

Begins(a, op) ==
  /\ AdminAt(a, "idle")
  /\ op \in Operations
  /\ changes < MaxChanges
  /\ changes' = changes + 1

Begin(a, h) ==
  /\ Begins(a, h.op)
  /\ admin' = [admin EXCEPT ![a] = h]
  /\ UNCHANGED <<tables, cache, reader>>

\* Rows that are gone cannot be deleted again by the transactions in "others".
Committed(a, h, gone, others) ==
  admin' = [b \in Admin |->
    IF b = a THEN h
    ELSE IF b \in others THEN [admin[b] EXCEPT !.seen = @ \ gone]
    ELSE admin[b]]

Fails(a) ==
  /\ admin' = [admin EXCEPT ![a] = IdleAdmin]
  /\ UNCHANGED tables

-----------------------------------------------------------------------------
(***************************************************************************)
(* assignUserRole: the role is looked up, then one transaction replaces    *)
(* the user's roles by it.  The composite key refuses the same row twice,  *)
(* the foreign key a deleted role.  Owner rules are in OwnerAccounts.      *)
(***************************************************************************)
Assigning(h, u, t) == [h EXCEPT !.pc = "roleDelete", !.user = u, !.target = t]

BeginAssign(a, u, t) ==
  /\ LiveRole(t)
  /\ Begin(a, Assigning([IdleAdmin EXCEPT !.op = "assign"], u, t))

\* Mutant: the two statements are not one transaction.
RoleDeleteAtOnce(a) ==
  /\ AdminAt(a, "roleDelete")
  /\ userRoles' = [userRoles EXCEPT ![admin[a].user] = {}]
  /\ admin' = [admin EXCEPT ![a].pc = "roleCommit"]
  /\ UNCHANGED <<roles, overrides, cache, reader, changes>>

RoleDelete(a) ==
  /\ AdminAt(a, "roleDelete")
  /\ admin' = [admin EXCEPT ![a].pc = "roleCommit", ![a].seen = userRoles[admin[a].user]]
  /\ UNCHANGED <<tables, cache, reader, changes>>

RoleCommit(a) ==
  LET h == admin[a]
      kept == userRoles[h.user] \ h.seen
      SameUser == {b \in Admin : AdminAt(b, "roleCommit") /\ admin[b].user = h.user}
  IN  /\ AdminAt(a, "roleCommit")
      /\ \/ /\ LiveRole(h.target) /\ h.target \notin kept
            /\ userRoles' = [userRoles EXCEPT ![h.user] = kept \union {h.target}]
            /\ Committed(a, Invalidating(h, {h.user}), h.seen, SameUser)
            /\ UNCHANGED <<roles, overrides>>
         \/ /\ ~LiveRole(h.target) \/ h.target \in kept
            /\ Fails(a)
      /\ UNCHANGED <<cache, reader, changes>>

(***************************************************************************)
(* setUserPermissionOverride and clearUserPermissionOverride.  The key     *)
(* holds the effect, so that a grant and a denial may stand side by side.  *)
(***************************************************************************)
BeginOverride(a, u, p, e) ==
  Begin(a, [IdleAdmin EXCEPT !.op = "override", !.pc = "overrideDelete",
                             !.user = u, !.perms = {p}, !.effect = e])

EffectsOf(u, p) == {e \in Effect : <<p, e>> \in overrides[u]}

Overriding(u, p) ==
  {b \in Admin : AdminAt(b, "overrideCommit") /\ admin[b].user = u /\ admin[b].perms = {p}}

OverrideDelete(a) ==
  /\ AdminAt(a, "overrideDelete")
  /\ \E p \in admin[a].perms :
       admin' = [admin EXCEPT ![a].pc = "overrideCommit",
                              ![a].seen = EffectsOf(admin[a].user, p)]
  /\ UNCHANGED <<tables, cache, reader, changes>>

OverrideCommit(a) ==
  /\ AdminAt(a, "overrideCommit")
  /\ \E p \in admin[a].perms :
       LET h == admin[a]
           kept == EffectsOf(h.user, p) \ h.seen
       IN  \/ /\ h.effect \notin kept
              /\ overrides' = [overrides EXCEPT ![h.user] =
                   (@ \ ({p} \X h.seen)) \union {<<p, h.effect>>}]
              /\ Committed(a, Invalidating(h, {h.user}), h.seen, Overriding(h.user, p))
              /\ UNCHANGED <<roles, userRoles>>
           \/ /\ h.effect \in kept
              /\ Fails(a)
  /\ UNCHANGED <<cache, reader, changes>>

ClearOverride(a, u, p) ==
  /\ Begins(a, "override")
  /\ overrides' = [overrides EXCEPT ![u] = @ \ ({p} \X Effect)]
  /\ Committed(a, Invalidating([IdleAdmin EXCEPT !.op = "override"], {u}),
               EffectsOf(u, p), Overriding(u, p))
  /\ UNCHANGED <<roles, userRoles, cache, reader>>

-----------------------------------------------------------------------------
(***************************************************************************)
(* RolesService: what the actor may do was checked when the handler began. *)
(***************************************************************************)
Editable(r) == LiveRole(r) /\ r \notin ProtectedRole
Resettable(r) == r \in SystemRole \ ProtectedRole
Deletable(r) == LiveRole(r) /\ r \notin SystemRole
ReassignTarget(r, t) == t # r /\ Editable(t)

BeginReplace(a, r, perms) ==
  /\ Editable(r)
  /\ Begin(a, [IdleAdmin EXCEPT !.op = "replace", !.pc = "permsDelete",
                                !.role = r, !.perms = perms])

PermsDelete(a) ==
  /\ AdminAt(a, "permsDelete")
  /\ admin' = [admin EXCEPT ![a].pc = "permsCommit", ![a].seen = roles[admin[a].role].perms]
  /\ UNCHANGED <<tables, cache, reader, changes>>

Replacing(r) == {b \in Admin : AdminAt(b, "permsCommit") /\ admin[b].role = r}

PermsCommit(a) ==
  LET h == admin[a]
  IN  /\ AdminAt(a, "permsCommit")
      /\ \/ /\ LiveRole(h.role)
            /\ roles' = [roles EXCEPT ![h.role].perms = (@ \ h.seen) \union h.perms]
            /\ Committed(a, [h EXCEPT !.pc = "users"], h.seen, Replacing(h.role))
            /\ UNCHANGED <<userRoles, overrides>>
         \/ /\ ~LiveRole(h.role)
            /\ Fails(a)
      /\ UNCHANGED <<cache, reader, changes>>

\* resetRole: syncRolePermissionsForSlug with force, outside any transaction.
BeginReset(a, r) ==
  /\ Resettable(r)
  /\ Begin(a, [IdleAdmin EXCEPT !.op = "reset", !.pc = "resetDelete", !.role = r])

ResetDelete(a) ==
  LET r == admin[a].role
  IN  /\ AdminAt(a, "resetDelete")
      /\ roles' = [roles EXCEPT ![r].perms = {}]
      /\ Committed(a, [admin[a] EXCEPT !.pc = "resetCreate"], roles[r].perms, Replacing(r))
      /\ UNCHANGED <<userRoles, overrides, cache, reader, changes>>

ResetCreate(a) ==
  LET r == admin[a].role
  IN  /\ AdminAt(a, "resetCreate")
      /\ roles' = [roles EXCEPT ![r].perms = @ \union Defaults[r]]
      /\ admin' = [admin EXCEPT ![a].pc = "users"]
      /\ UNCHANGED <<userRoles, overrides, cache, reader, changes>>

\* updateRoleMetadata renames a custom role; createRole inserts one.
BeginRename(a, r) ==
  /\ LiveRole(r) /\ r \notin SystemRole
  /\ Begin(a, [IdleAdmin EXCEPT !.op = "rename", !.pc = "users", !.role = r])

CreateRole(a, r, perms) ==
  /\ roles[r].state = "unused"
  /\ Begins(a, "create")
  /\ roles' = [roles EXCEPT ![r] = [state |-> "live", perms |-> perms]]
  /\ admin' = [admin EXCEPT ![a] = [IdleAdmin EXCEPT !.op = "create", !.pc = "users",
                                                    !.role = r]]
  /\ UNCHANGED <<userRoles, overrides, cache, reader>>

(***************************************************************************)
(* deleteRole: the users of the role, read once, are moved to the target   *)
(* one by one; then the role is deleted, with the rows that refer to it.   *)
(***************************************************************************)
BeginDelete(a, r, t) ==
  /\ Deletable(r)
  /\ Holders(r) # {} => ReassignTarget(r, t)
  /\ Begin(a, [IdleAdmin EXCEPT !.op = "delete", !.pc = "next", !.role = r, !.target = t,
                                !.users = Holders(r), !.force = (Holders(r) # {})])

\* getRoleIdBySlug of each assignUserRole may find the target gone.
MoveUser(a, u) ==
  LET h == admin[a]
  IN  /\ AdminAt(a, "next")
      /\ u \in h.users
      /\ admin' = [admin EXCEPT ![a] =
           IF LiveRole(h.target)
           THEN Assigning([h EXCEPT !.users = @ \ {u}], u, h.target)
           ELSE IdleAdmin]
      /\ UNCHANGED <<tables, cache, reader, changes>>

\* deleteCustomRole refuses a role with users unless deleteRole has moved some.
CheckUnused(a) ==
  LET h == admin[a]
  IN  /\ AdminAt(a, "next")
      /\ h.users = {}
      /\ admin' = [admin EXCEPT ![a] =
           IF LiveRole(h.role) /\ (h.force \/ Holders(h.role) = {})
           THEN [h EXCEPT !.pc = "deleteRow"] ELSE IdleAdmin]
      /\ UNCHANGED <<tables, cache, reader, changes>>

DeleteRow(a) ==
  LET r == admin[a].role
  IN  /\ AdminAt(a, "deleteRow")
      /\ admin' = [admin EXCEPT ![a] = IdleAdmin]
      /\ roles' = [roles EXCEPT ![r] = [state |-> "deleted", perms |-> {}]]
      /\ userRoles' = [u \in User |-> userRoles[u] \ {r}]
      /\ NeverInvalidated(Holders(r))
      /\ UNCHANGED <<overrides, changes>>

\* The users whose invalidation a handler in flight still owes.
Owed(h) ==
  IF h.pc = "invalidate" THEN h.todo
  ELSE IF h.pc \in {"resetCreate", "users"} THEN Holders(h.role) ELSE {}

AbortAdmin(a) ==
  /\ Crashes
  /\ ~AdminAt(a, "idle")
  /\ admin' = [admin EXCEPT ![a] = IdleAdmin]
  /\ NeverInvalidated(Owed(admin[a]))
  /\ UNCHANGED <<tables, changes>>

-----------------------------------------------------------------------------
ReaderStep(q) == LoadSnapshot(q) \/ Store(q)

AdminStep(a) ==
  \/ RoleDelete(a) \/ RoleCommit(a)
  \/ OverrideDelete(a) \/ OverrideCommit(a)
  \/ PermsDelete(a) \/ PermsCommit(a)
  \/ ResetDelete(a) \/ ResetCreate(a)
  \/ TakeUsers(a)
  \/ \E u \in User : InvalidateUser(a, u) \/ MoveUser(a, u)
  \/ CheckUnused(a) \/ DeleteRow(a)

AdminBegins(a) ==
  \/ \E u \in User, t \in Role : BeginAssign(a, u, t)
  \/ \E u \in User, p \in Permission, e \in Effect : BeginOverride(a, u, p, e)
  \/ \E u \in User, p \in Permission : ClearOverride(a, u, p)
  \/ \E r \in Role, perms \in SUBSET Permission :
       BeginReplace(a, r, perms) \/ CreateRole(a, r, perms)
  \/ \E r \in Role : BeginReset(a, r) \/ BeginRename(a, r)
  \/ \E r, t \in Role : BeginDelete(a, r, t)

RbacNext ==
  \/ \E q \in Reader, u \in User : BeginRead(q, u)
  \/ \E q \in Reader : ReaderStep(q) \/ AbortRead(q)
  \/ \E u \in User : Expire(u)
  \/ \E a \in Admin : AdminBegins(a) \/ AdminStep(a) \/ AbortAdmin(a)

RbacSpec == RbacInit /\ [][RbacNext]_rbacVars

-----------------------------------------------------------------------------
(***************************************************************************)
(* Properties.                                                             *)
(***************************************************************************)

\* Rows, entries and handler locals have the types of the schema and the code.
RbacTypeOK ==
  /\ roles \in [Role -> RoleRow]
  /\ userRoles \in [User -> SUBSET Role]
  /\ overrides \in [User -> SUBSET (Permission \X Effect)]
  /\ cache \in [User -> Entry \union {NoEntry}]
  /\ reader \in [Reader -> ReaderState]
  /\ admin \in [Admin -> AdminState]
  /\ changes \in 0..MaxChanges

Stale(u) ==
  /\ cache[u] # NoEntry
  /\ \/ cache[u].roles # userRoles[u]
     \/ cache[u].perms # Effective(u)

\* Every change invalidates everyone it concerns, whatever roles users change
\* to while it runs: an entry that is out of date is about to be removed by a
\* handler in flight, unless it was stored late by a slow reader, or its
\* invalidation was lost in a crash or with a deleted role.
StaleIsOwedOrLate ==
  \A u \in User :
    Stale(u) => cache[u].late \/ \E a \in Admin : u \in Owed(admin[a])

\* Concurrent assignments never leave a user without the role either of them
\* gave: only the deletion of a role takes a user's last one.
AssignmentsNeverStrip ==
  [][\A u \in User :
       userRoles[u] # {} /\ userRoles'[u] = {}
         => \E r \in userRoles[u] : LiveRole(r) /\ ~LiveRole(r)']_rbacVars

\* With no mutating handler in flight, and none ever cut short, what is cached
\* is what the tables say.
QuietCacheIsFresh ==
  (\A a \in Admin : AdminAt(a, "idle")) => \A u \in User : ~Stale(u)

\* A role that is assigned to users is not deleted.
AssignedRolesAreKept ==
  [][\A r \in Role : LiveRole(r) /\ ~LiveRole(r)' => Holders(r) = {}]_rbacVars
=============================================================================
