----------------------------- MODULE MCEventually -----------------------------
(***************************************************************************)
(* What the system owes: mail that arrives, events that are handled, pages *)
(* that load.  Three components that share nothing, in one small instance: *)
(* each is explored with the others at rest, and only its steps are fair.  *)
(***************************************************************************)
EXTENDS InboundSync, PolarWebhook, WebSession

CONSTANTS m1, m2, d1

VARIABLE component

SameDomain == (m1 :> d1) @@ (m2 :> d1)

EventuallyInit ==
  /\ SyncInit /\ PolarInit /\ WebInit
  /\ component \in {"sync", "polar", "web"}
  \* The tabs at rest are in one of their initial states.
  /\ component # "web" => onboarded = {}

\* Requests create, disable and enable mailboxes here, and leave syncing to the worker.
OnlyWorkerSyncs == \A h \in Request : handler'[h].queue = <<>>

Fetching(A) == component = "sync" /\ A /\ OnlyWorkerSyncs /\ UNCHANGED <<polarVars, webVars, component>>
Working(A) == component = "polar" /\ A /\ UNCHANGED <<syncVars, webVars, component>>
Browsing(A) == component = "web" /\ A /\ UNCHANGED <<syncVars, polarVars, component>>

EventuallyNext == Fetching(SyncNext) \/ Working(PolarNext) \/ Browsing(WebNext)

allVars == <<syncVars, polarVars, webVars, component>>

\* The fairness of SyncFairSpec, PolarFairSpec and WebSpec.
EventuallySpec ==
  /\ EventuallyInit /\ [][EventuallyNext]_allVars
  /\ \A h \in Run : WF_allVars(Fetching(WorkerTick(h)))
  /\ \A h \in Handler : WF_allVars(Fetching(HandlerStep(h)))
  /\ \A d \in Delivery : WF_allVars(Working(DeliveryStep(d)))
  /\ \A e \in Event : WF_allVars(Working(\E d \in Delivery : Post(d, e)))
  /\ \A t \in Tab : WF_allVars(Browsing(Route(t)))
=============================================================================
