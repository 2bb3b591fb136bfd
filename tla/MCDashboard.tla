------------------------------ MODULE MCDashboard ------------------------------
(***************************************************************************)
(* The pages of the dashboard and the server behind them, in one small     *)
(* instance: paged lists, a form several admins edit, screens that show    *)
(* what one has done, the bell.  They share no state, so each is explored  *)
(* with the others at rest, in one of their initial states.                *)
(***************************************************************************)
EXTENDS PagedLists, RoleEditor, QueryCache, Notifications

VARIABLE component

DashboardInit ==
  /\ ListInit /\ EditorInit /\ QueryInit /\ NoteInit
  /\ component \in {"lists", "editor", "screens", "bell"}
  /\ component # "lists" => list.server = ActivityList
  /\ component # "editor" => form = RolePage /\ role.perms = {}
  /\ component # "screens" => screen = DomainScreen
  /\ component # "bell" => admins = Admin

DashboardNext ==
  /\ UNCHANGED component
  /\ \/ component = "lists" /\ ListNext /\ UNCHANGED <<editorVars, queryVars, noteVars>>
     \/ component = "editor" /\ EditorNext /\ UNCHANGED <<listVars, queryVars, noteVars>>
     \/ component = "screens" /\ QueryNext /\ UNCHANGED <<listVars, editorVars, noteVars>>
     \/ component = "bell" /\ NoteNext /\ UNCHANGED <<listVars, editorVars, queryVars>>

DashboardSpec ==
  DashboardInit /\ [][DashboardNext]_<<listVars, editorVars, queryVars, noteVars, component>>
=============================================================================
