------------------------------ MODULE PolarWebhook ------------------------------
(***************************************************************************)
(* processPolarWebhookOnce: an event is claimed by inserting its row, or   *)
(* by taking over a row whose processing failed or is overdue; then it is  *)
(* handled, and its outcome written.  Polar (external) delivers an event   *)
(* again until it is answered with a 2xx status.                           *)
(***************************************************************************)
EXTENDS Naturals, FiniteSets

CONSTANTS
  Event,          \* webhook-id of events
  Delivery,       \* requests in flight
  MaxDeliveries,  \* bound: requests sent for an event
  MaxFailures,    \* bound: calls of the handler that throw
  NoEvent

ASSUME PolarAssumption ==
  /\ MaxDeliveries \in Nat \ {0} /\ MaxFailures \in Nat
  /\ NoEvent \notin Event

VARIABLES
  event,      \* the webhook_event rows
  delivery,   \* the requests
  polar,      \* what Polar knows: requests sent, whether one was answered with 2xx
  failures,   \* handler calls that threw
  handled,    \* history: handler calls that succeeded, for each event
  lapsed,     \* history: events whose processing has failed or been overdue
  disturbed   \* history: events whose deliveries overlapped, died or could not write

polarVars == <<event, delivery, polar, failures, handled, lapsed, disturbed>>

Row ==
  [status    : {"none", "processing", "processed", "failed"},
   processed : BOOLEAN,   \* processedAt is set
   attempts  : Nat,
   overdue   : BOOLEAN]   \* updatedAt is more than PROCESSING_TIMEOUT_MS ago

Claimed == {"handle", "markProcessed", "markFailed"}
DeliveryState ==
  [pc : {"idle", "find", "reclaim"} \union Claimed, event : Event \union {NoEvent}]

Idle == [pc |-> "idle", event |-> NoEvent]

PolarInit ==
  /\ event = [e \in Event |->
       [status |-> "none", processed |-> FALSE, attempts |-> 0, overdue |-> FALSE]]
  /\ delivery = [d \in Delivery |-> Idle]
  /\ polar = [e \in Event |-> [sent |-> 0, acked |-> FALSE]]
  /\ failures = 0
  /\ handled = [e \in Event |-> 0]
  /\ lapsed = {} /\ disturbed = {}

Goto(d, pc) == delivery' = [delivery EXCEPT ![d].pc = pc]
Answered(d, ok) ==
  /\ delivery' = [delivery EXCEPT ![d] = Idle]
  /\ polar' = [polar EXCEPT ![delivery[d].event].acked = @ \/ ok]

-----------------------------------------------------------------------------
\* POST /polar/webhooks, to the insert that claims the event or finds it claimed.
Post(d, e) ==
  /\ delivery[d].pc = "idle"
  /\ ~polar[e].acked /\ polar[e].sent < MaxDeliveries
  /\ polar' = [polar EXCEPT ![e].sent = @ + 1]
  /\ disturbed' = IF \E c \in Delivery : delivery[c].event = e
                  THEN disturbed \union {e} ELSE disturbed
  /\ \/ /\ event[e].status = "none"
        /\ event' = [event EXCEPT ![e].status = "processing", ![e].attempts = 1]
        /\ delivery' = [delivery EXCEPT ![d] = [pc |-> "handle", event |-> e]]
     \/ /\ event[e].status # "none"
        /\ delivery' = [delivery EXCEPT ![d] = [pc |-> "find", event |-> e]]
        /\ UNCHANGED event
  /\ UNCHANGED <<failures, handled, lapsed>>

\* Mutant: whoever is processing is overruled.
RetakableAlways(row) == row.status # "processed"

Retakable(row) == row.status = "failed" \/ (row.status = "processing" /\ row.overdue)

\* A duplicate is answered like a success.
Find(d) ==
  /\ delivery[d].pc = "find"
  /\ IF Retakable(event[delivery[d].event])
     THEN Goto(d, "reclaim") /\ UNCHANGED polar
     ELSE Answered(d, TRUE)
  /\ UNCHANGED <<event, failures, handled, lapsed, disturbed>>

\* The update does not ask for the status that was read.
Reclaim(d) ==
  /\ delivery[d].pc = "reclaim"
  /\ LET e == delivery[d].event
     IN  event' = [event EXCEPT ![e].status = "processing", ![e].overdue = FALSE,
                                ![e].attempts = @ + 1]
  /\ Goto(d, "handle")
  /\ UNCHANGED <<polar, failures, handled, lapsed, disturbed>>

HandlerThrows(d) ==
  /\ delivery[d].pc = "handle"
  /\ failures < MaxFailures
  /\ failures' = failures + 1
  /\ Goto(d, "markFailed")
  /\ UNCHANGED <<event, polar, handled, lapsed, disturbed>>

HandlerReturns(d) ==
  /\ delivery[d].pc = "handle"
  /\ handled' = [handled EXCEPT ![delivery[d].event] = @ + 1]
  /\ Goto(d, "markProcessed")
  /\ UNCHANGED <<event, polar, failures, lapsed, disturbed>>

MarkProcessed(d) ==
  /\ delivery[d].pc = "markProcessed"
  /\ event' = [event EXCEPT ![delivery[d].event] =
       [@ EXCEPT !.status = "processed", !.processed = TRUE, !.overdue = FALSE]]
  /\ Answered(d, TRUE)
  /\ UNCHANGED <<failures, handled, lapsed, disturbed>>

\* The update throws, inside the try block of the handler.
MarkProcessedThrows(d) ==
  /\ delivery[d].pc = "markProcessed"
  /\ Goto(d, "markFailed")
  /\ disturbed' = disturbed \union {delivery[d].event}
  /\ UNCHANGED <<event, polar, failures, handled, lapsed>>

\* Mutant: the failure is answered, but not recorded.
MarkFailedForgets(d) ==
  /\ delivery[d].pc = "markFailed"
  /\ Answered(d, FALSE)
  /\ UNCHANGED <<event, failures, handled, lapsed, disturbed>>

MarkFailed(d) ==
  LET e == delivery[d].event
  IN  /\ delivery[d].pc = "markFailed"
      /\ event' = [event EXCEPT ![e].status = "failed", ![e].overdue = FALSE]
      /\ lapsed' = lapsed \union {e}
      /\ Answered(d, FALSE)
      /\ UNCHANGED <<failures, handled, disturbed>>

\* The process dies or the database is gone: no answer, or 500.
Abort(d) ==
  /\ delivery[d].pc # "idle"
  /\ disturbed' = disturbed \union {delivery[d].event}
  /\ Answered(d, FALSE)
  /\ UNCHANGED <<event, failures, handled, lapsed>>

\* Ten minutes pass without an update of a row in processing.
Overdue(e) ==
  /\ event[e].status = "processing" /\ ~event[e].overdue
  /\ event' = [event EXCEPT ![e].overdue = TRUE]
  /\ lapsed' = lapsed \union {e}
  /\ UNCHANGED <<delivery, polar, failures, handled, disturbed>>

-----------------------------------------------------------------------------
DeliveryStep(d) ==
  \/ Find(d) \/ Reclaim(d)
  \/ HandlerThrows(d) \/ HandlerReturns(d)
  \/ MarkProcessed(d) \/ MarkProcessedThrows(d) \/ MarkFailed(d)

PolarNext ==
  \/ \E d \in Delivery : DeliveryStep(d) \/ Abort(d)
  \/ \E d \in Delivery, e \in Event : Post(d, e)
  \/ \E e \in Event : Overdue(e)

PolarSpec == PolarInit /\ [][PolarNext]_polarVars

\* Polar delivers again until it is answered with 2xx; awaits are answered.
PolarFairSpec ==
  /\ PolarSpec
  /\ \A d \in Delivery : WF_polarVars(DeliveryStep(d))
  /\ \A e \in Event : WF_polarVars(\E d \in Delivery : Post(d, e))

-----------------------------------------------------------------------------
(***************************************************************************)
(* Properties.                                                             *)
(***************************************************************************)

\* Rows have the statuses of the code; requests are in a step of the code.
PolarTypeOK ==
  /\ event \in [Event -> Row]
  /\ delivery \in [Delivery -> DeliveryState]
  /\ polar \in [Event -> [sent : 0..MaxDeliveries, acked : BOOLEAN]]
  /\ failures \in 0..MaxFailures
  /\ handled \in [Event -> Nat]
  /\ lapsed \subseteq Event

Handling(e) == {d \in Delivery : delivery[d].event = e /\ delivery[d].pc \in Claimed}
Running(e) == {d \in Handling(e) : delivery[d].pc = "handle"}

\* However deliveries overlap, take over from each other, fail and die, events are
\* handled as the EventLog promises: once, and again only after a failure or a
\* timeout, with every call of the handler counted in attemptCount.
Log == INSTANCE EventLog WITH
  Worker <- Delivery,
  status <- [e \in Event |-> event[e].status],
  attempts <- [e \in Event |-> event[e].attempts],
  running <- [e \in Event |-> Running(e)],
  owing <- [e \in Event |-> Handling(e) \ Running(e)],
  done <- handled
EventLogKept == Log!LogSpec

\* An event whose deliveries do not overlap, and whose outcomes get written, is
\* retried until it is processed: every one that arrives is, however often its
\* handler throws and whatever happens to the other events.
FailedIsRetried ==
  \A e \in Event :
    polar[e].sent > 0 ~> event[e].status = "processed" \/ e \in disturbed

\* A duplicate of an event that was processed is skipped.
ProcessedIsSkipped ==
  [][\A e \in Event, d \in Delivery :
       event[e].processed /\ d \notin Handling(e) => d \notin Handling(e)']_polarVars
=============================================================================
