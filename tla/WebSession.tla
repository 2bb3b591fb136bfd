------------------------------ MODULE WebSession ------------------------------
(***************************************************************************)
(* The tabs of one browser: which page each displays, for whom, and how it *)
(* got there.  The route tree nests a page in its parents, each of which   *)
(* must render an Outlet for it; the guards of the routes (beforeLoad, the *)
(* admin middleware) ask the server for the session; the root route loads  *)
(* the session that the headers, menus and forms of a tab display, once,   *)
(* and again only after router.invalidate.  People sign in by magic link.  *)
(*                                                                         *)
(* External: TanStack Router (the guards of a navigation run first, then   *)
(* loaders; a layout that stays has cause "stay"; an invalidated match is  *)
(* loaded again; a redirect goes on from its target) and Better Auth (the  *)
(* links, and the cookie of the session, which carries its user).          *)
(***************************************************************************)
EXTENDS Integers, FiniteSets

CONSTANTS
  Person,      \* addresses
  Staff,       \* those whose role grants admin:access
  Member,      \* those with an account at first
  Tab,
  Typed,       \* pages opened by their address
  HasOwner,    \* the answer of the setup status: somebody owns the platform
  MaxLinks,    \* bound: magic links sent
  MaxMoves,    \* bound: pages that are opened
  MaxOutages, \* bound: requests that fail
  Nobody       \* no session

ASSUME WebAssumption ==
  /\ Staff \subseteq Person /\ Member \subseteq Person /\ Nobody \notin Person
  /\ HasOwner \in BOOLEAN
  /\ {MaxLinks, MaxMoves, MaxOutages} \subseteq Nat

VARIABLES
  account,     \* user rows
  onboarded,   \* those with onboardingComplete
  links,       \* magic links not used yet: for whom, and the callback
  cookie,      \* the session cookie of the browser
  snapshot,    \* onboardingComplete in it: the cookie cache holds a copy of the user
  tab,
  outages, moves, sent  \* bounds

webVars == <<account, onboarded, links, cookie, snapshot, tab, outages, moves, sent>>

-----------------------------------------------------------------------------
(***************************************************************************)
(* The route tree.                                                         *)
(***************************************************************************)
ProtectedPages == {"/dashboard", "/domains", "/mailboxes", "/inbox", "/emails",
                   "/api-keys", "/account", "/send-test"}
AdminPages == {"/admin/overview", "/admin/users", "/admin/roles", "/admin/feedback",
               "/admin/rate-limits", "/admin/visitors", "/admin/activity", "/admin/mail",
               "/admin/webhooks"}
DetailParent ==
  [page \in {"/domains/$domainId", "/inbox/$emailId", "/emails/$emailId",
             "/admin/roles/$roleId"} |->
     CASE page = "/domains/$domainId" -> "/domains"
       [] page = "/inbox/$emailId" -> "/inbox"
       [] page = "/emails/$emailId" -> "/emails"
       [] page = "/admin/roles/$roleId" -> "/admin/roles"]
Details == DOMAIN DetailParent
OpenPages == {"/", "/login", "/signup", "/onboarding", "/setup", "/accept-invitation",
              "/payment/success"}
Page == ProtectedPages \union AdminPages \union Details \union OpenPages \union {"/admin"}

ASSUME TypedAssumption == Typed \subseteq Page

ParentOf(page) ==
  IF page \in Details THEN DetailParent[page]
  ELSE IF page \in ProtectedPages THEN "_protected"
  ELSE IF page \in AdminPages THEN "/admin"
  ELSE "root"

\* The components that render an Outlet.
Outlets == {"root", "_protected", "/admin"}

\* What a tab at a page displays: the page, or its parent without a place for it.
Displayed(page) == IF ParentOf(page) \in Outlets THEN page ELSE ParentOf(page)

Under(layout, page) ==
  \/ ParentOf(page) = layout
  \/ page \in Details /\ ParentOf(DetailParent[page]) = layout

-----------------------------------------------------------------------------
(***************************************************************************)
(* A tab.  goal: the page it is going to; document: by a request for a     *)
(* document, which runs the middleware and loads the root afresh; from: the*)
(* page it leaves; asking: a guard has let it in and asks for the payment;   *)
(* root: the session loaded by the root; invalid: to be loaded again; then:*)
(* what the handler that started the navigation does after it.             *)
(***************************************************************************)
None == "none"
Stale == "not loaded"

Blank == [page |-> None, goal |-> None, document |-> FALSE, root |-> Stale,
          invalid |-> FALSE, asking |-> FALSE, then |-> None,
          outrun |-> FALSE, failed |-> FALSE]

WebInit ==
  /\ account = Member /\ onboarded \in {{}, Member}
  /\ links = {} /\ cookie = Nobody /\ snapshot = FALSE
  /\ tab = [t \in Tab |-> Blank]
  /\ outages = 0 /\ moves = 0 /\ sent = 0

Going(t) == tab[t].goal # None
Loading(t) == tab[t].page # None /\ (tab[t].root = Stale \/ tab[t].invalid)
AtRest(t) == tab[t].page # None /\ ~Going(t) /\ ~Loading(t) /\ tab[t].then = None

\* A document forgets what the tab had loaded.
Document(t, page) ==
  [Blank EXCEPT !.goal = page, !.document = TRUE]

Open(t, page) ==
  /\ moves < MaxMoves /\ ~Going(t)
  /\ moves' = moves + 1
  /\ tab' = [tab EXCEPT ![t] = Document(t, page)]
  /\ UNCHANGED <<account, onboarded, links, cookie, snapshot, outages, sent>>

HasMenu(page) == page = "/" \/ Under("_protected", page) \/ Under("/admin", page)

\* The user menu, by what the tab takes its session for, and some of the links of
\* a page and its sidebar, one of each kind.
LinksOf(t) ==
  LET page == tab[t].page
  IN  (IF ~HasMenu(page) THEN {}
       ELSE IF tab[t].root = Nobody THEN {"/login"}
       ELSE {"/account"} \union (IF tab[t].root \in Staff THEN {"/admin/overview"} ELSE {}))
      \union
      (CASE page = "/login" -> {"/signup"}
         [] page = "/signup" -> {"/login"}
         [] page = "/emails" -> {"/emails/$emailId"}
         [] Under("_protected", page) /\ page # "/emails" -> {"/emails"}
         [] OTHER -> {})

Follow(t, page) ==
  /\ moves < MaxMoves /\ AtRest(t)
  /\ moves' = moves + 1
  /\ tab' = [tab EXCEPT ![t].goal = page, ![t].document = FALSE]
  /\ UNCHANGED <<account, onboarded, links, cookie, snapshot, outages, sent>>

-----------------------------------------------------------------------------
(***************************************************************************)
(* The guards.  getRootSession answers null when its request fails.        *)
(***************************************************************************)
Answers == {[who |-> cookie, complete |-> snapshot, failed |-> FALSE]} \union
  (IF outages < MaxOutages /\ cookie # Nobody
   THEN {[who |-> Nobody, complete |-> FALSE, failed |-> TRUE]} ELSE {})

\* Mutant: the layout goes by the session that the root has loaded.
ProtectedGuardLoaded(t, session) ==
  IF tab[t].root = Stale THEN tab[t].goal
  ELSE IF tab[t].root = Nobody THEN "/login" ELSE tab[t].goal

\* beforeLoad of the protected layout, once: while one stays below it, it returns.
ProtectedGuard(t, session) ==
  IF ~tab[t].document /\ Under("_protected", tab[t].page) THEN tab[t].goal
  ELSE IF session.who = Nobody THEN "/login" ELSE tab[t].goal

\* adminMiddleware: a middleware of the server, which a document goes through.
AdminGuard(t, session) ==
  IF ~tab[t].document THEN tab[t].goal
  ELSE IF session.who = Nobody THEN "/login"
  ELSE IF session.who \notin Staff THEN "/dashboard" ELSE tab[t].goal

OnboardingGuard(session) ==
  IF session.who = Nobody THEN "/login"
  ELSE IF session.who \in Staff \/ session.complete THEN "/dashboard"
  ELSE "/onboarding"

\* Where the guards of the goal send a tab.
Guarded(t, session) ==
  LET goal == tab[t].goal
  IN  CASE goal \in {"/login", "/signup"} ->
             IF session.who # Nobody THEN "/dashboard" ELSE goal
        [] Under("_protected", goal) -> ProtectedGuard(t, session)
        [] Under("/admin", goal) -> AdminGuard(t, session)
        [] goal = "/admin" ->
             IF AdminGuard(t, session) = goal THEN "/admin/overview" ELSE AdminGuard(t, session)
        [] goal = "/onboarding" -> OnboardingGuard(session)
        [] goal = "/payment/success" -> IF session.who = Nobody THEN "/login" ELSE goal
        [] goal = "/setup" -> IF HasOwner THEN "/" ELSE goal
        [] goal \in {"/", "/accept-invitation"} -> goal

Arrive(t, page) == [tab EXCEPT ![t].goal = None, ![t].page = page, ![t].asking = FALSE]

Enters(t) == Under("_protected", tab[t].goal) /\ (tab[t].document \/ ~Under("_protected", tab[t].page))

\* A tab that the protected layout lets in asks for the state of the customer next.
Guard(t) ==
  /\ Going(t) /\ ~tab[t].asking
  /\ \E session \in Answers :
       LET to == Guarded(t, session)
       IN  /\ tab' = CASE to # tab[t].goal -> [tab EXCEPT ![t].goal = to]
                       [] to = tab[t].goal /\ Enters(t) -> [tab EXCEPT ![t].asking = TRUE]
                       [] to = tab[t].goal /\ ~Enters(t) -> Arrive(t, to)
           /\ outages' = outages + (IF session.failed THEN 1 ELSE 0)
  /\ UNCHANGED <<account, onboarded, links, cookie, snapshot, moves, sent>>

\* getPayment: authMiddleware asks for the session again, and throws without one.
GetPayment(t) ==
  /\ tab[t].asking
  /\ \E session \in Answers :
       /\ tab' = Arrive(t, IF session.who = Nobody THEN "error" ELSE tab[t].goal)
       /\ outages' = outages + (IF session.failed THEN 1 ELSE 0)
  /\ UNCHANGED <<account, onboarded, links, cookie, snapshot, moves, sent>>

\* The loader of the root.
LoadRoot(t) ==
  /\ ~Going(t) /\ Loading(t)
  /\ \E session \in Answers :
       /\ tab' = [tab EXCEPT ![t].root = session.who, ![t].invalid = FALSE,
                             ![t].outrun = FALSE,
                             ![t].failed = session.failed]
       /\ outages' = outages + (IF session.failed THEN 1 ELSE 0)
  /\ UNCHANGED <<account, onboarded, links, cookie, snapshot, moves, sent>>

\* What a handler does when the navigation it awaited has ended.  An invalidation
\* runs the guards of the page again, also of one that ended in an error.
GoOn(t) ==
  /\ ~Going(t) /\ tab[t].then # None
  /\ tab' = [tab EXCEPT ![t] =
       CASE @.then = "invalidate" -> [@ EXCEPT !.invalid = TRUE, !.then = None]
         [] @.then = "dashboard" -> [@ EXCEPT !.goal = "/dashboard", !.document = FALSE,
                                              !.then = "refresh"]
         [] @.then = "refresh" ->
              [@ EXCEPT !.goal = IF tab[t].page = "error" THEN "/dashboard" ELSE tab[t].page,
                        !.document = FALSE, !.invalid = TRUE, !.then = "reload"]
         [] @.then = "reload" -> Document(t, "/dashboard")]
  /\ UNCHANGED <<account, onboarded, links, cookie, snapshot, outages, moves, sent>>

-----------------------------------------------------------------------------
(***************************************************************************)
(* Signing in and out.  The cookie is the browser's: the other tabs have   *)
(* loaded the session of the one before.                                   *)
(***************************************************************************)
Outrun(t, tabs) == [u \in Tab |-> [tabs[u] EXCEPT !.outrun = @ \/ (u # t /\ tabs[u].page # None)]]

\* The forms of /login and /signup and the page of an invitation, which asks
\* first whether the address has an account.
SendLink(t, p) ==
  /\ AtRest(t) /\ sent < MaxLinks
  /\ \/ tab[t].page = "/login" /\ p \in account
     \/ tab[t].page = "/signup" /\ p \notin account
     \/ tab[t].page = "/accept-invitation" /\ tab[t].root = Nobody
  /\ sent' = sent + 1
  /\ links' = links \union
       {[who |-> p, to |-> IF tab[t].page = "/accept-invitation"
                           THEN "/accept-invitation" ELSE "/"]}
  /\ UNCHANGED <<account, onboarded, cookie, snapshot, tab, outages, moves>>

\* A link is used once; it makes the account if there is none.
UseLink(t, l) ==
  /\ l \in links /\ ~Going(t)
  /\ links' = links \ {l}
  /\ account' = account \union {l.who}
  /\ cookie' = l.who /\ snapshot' = (l.who \in onboarded)
  /\ tab' = Outrun(t, [tab EXCEPT ![t] = Document(t, l.to)])
  /\ UNCHANGED <<onboarded, outages, moves, sent>>

\* Mutant: nothing is loaded again after signing out.
SignOutKeeping(t) ==
  /\ AtRest(t) /\ HasMenu(tab[t].page) /\ tab[t].root \in Person
  /\ cookie' = Nobody /\ snapshot' = FALSE
  /\ tab' = Outrun(t, [tab EXCEPT ![t].goal = "/", ![t].document = FALSE])
  /\ UNCHANGED <<account, onboarded, links, outages, moves, sent>>

\* The menu: sign out, then home, then invalidate.
SignOut(t) ==
  /\ AtRest(t) /\ HasMenu(tab[t].page) /\ tab[t].root \in Person
  /\ cookie' = Nobody /\ snapshot' = FALSE
  /\ tab' = Outrun(t, [tab EXCEPT ![t].goal = "/", ![t].document = FALSE,
                                  ![t].then = "invalidate"])
  /\ UNCHANGED <<account, onboarded, links, outages, moves, sent>>

\* Signing out fails: the cookies are expired by script, which http-only cookies
\* do not follow, and the home page is loaded.
SignOutFails(t) ==
  /\ AtRest(t) /\ HasMenu(tab[t].page) /\ tab[t].root \in Person
  /\ outages < MaxOutages
  /\ outages' = outages + 1
  /\ tab' = [tab EXCEPT ![t] = Document(t, "/")]
  /\ UNCHANGED <<account, onboarded, links, cookie, snapshot, moves, sent>>

-----------------------------------------------------------------------------
(***************************************************************************)
(* Onboarding and invitations.                                             *)
(***************************************************************************)
\* handleComplete: the update of the user of the cookie - an error of it is not
\* looked at -, an invalidation, on which the guard of /onboarding runs again,
\* the dashboard, another invalidation, and a document.
CompleteOnboarding(t) ==
  /\ AtRest(t) /\ tab[t].page = "/onboarding"
  /\ \E done \in BOOLEAN :
       /\ done => cookie # Nobody
       /\ ~done => cookie = Nobody \/ outages < MaxOutages
       /\ onboarded' = IF done THEN onboarded \union {cookie} ELSE onboarded
       /\ snapshot' = (snapshot \/ done)
       /\ outages' = IF ~done /\ cookie # Nobody THEN outages + 1 ELSE outages
  /\ tab' = [tab EXCEPT ![t].goal = "/onboarding", ![t].document = FALSE,
                        ![t].invalid = TRUE, ![t].then = "dashboard"]
  /\ UNCHANGED <<account, links, cookie, moves, sent>>

\* The invitation is for the person of the cookie, or refused; the answer says
\* where to go.
Accept(t) ==
  /\ AtRest(t) /\ tab[t].page = "/accept-invitation" /\ tab[t].root \in Person
  /\ cookie \in account /\ moves < MaxMoves
  /\ moves' = moves + 1
  /\ tab' = [tab EXCEPT ![t] =
       Document(t, IF cookie \in onboarded THEN "/dashboard" ELSE "/onboarding")]
  /\ UNCHANGED <<account, onboarded, links, cookie, snapshot, outages, sent>>

-----------------------------------------------------------------------------
Visit(t) ==
  \/ \E page \in Typed : Open(t, page)
  \/ \E page \in LinksOf(t) : Follow(t, page)
  \/ \E p \in Person : SendLink(t, p)
  \/ \E l \in links : UseLink(t, l)
  \/ SignOut(t) \/ SignOutFails(t) \/ CompleteOnboarding(t) \/ Accept(t)

Route(t) == Guard(t) \/ GetPayment(t) \/ LoadRoot(t) \/ GoOn(t)

WebNext == \E t \in Tab : Visit(t) \/ Route(t)

\* The browser goes on with what it has begun.
WebSpec == WebInit /\ [][WebNext]_webVars /\ \A t \in Tab : WF_webVars(Route(t))

-----------------------------------------------------------------------------
(***************************************************************************)
(* Properties.                                                             *)
(***************************************************************************)
WebTypeOK ==
  /\ onboarded \subseteq account /\ account \subseteq Person
  /\ cookie \in account \union {Nobody}
  /\ \A t \in Tab : /\ tab[t].page \in Page \union {None, "error"}
                    /\ tab[t].goal \in Page \union {None}
                    /\ tab[t].root \in Person \union {Nobody, Stale}

\* A tab at rest displays the account that its requests are made for: only what
\* another tab did to the cookie since, or a session request that failed, which
\* is taken for no session and kept, makes it display another one.
HeaderIsOwn ==
  \A t \in Tab :
    (AtRest(t) /\ ~tab[t].outrun /\ ~tab[t].failed) => tab[t].root = cookie

\* The guards of the routes send nobody round in circles, whatever the sessions
\* they are answered: each navigation ends on a page.
NavigationEnds == \A t \in Tab : Going(t) ~> ~Going(t)

\* Documented (docs/progress-todo.md:25, "Add email detail view", done): at the
\* address of an email, its detail view is what the tab displays.
EmailDetailIsShown ==
  \A t \in Tab :
    (AtRest(t) /\ tab[t].page = "/emails/$emailId") => Displayed(tab[t].page) = tab[t].page
=============================================================================
