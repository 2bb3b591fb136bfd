------------------------------- MODULE EventLog -------------------------------
(***************************************************************************)
(* What the table of webhook events promises, whoever delivers an event and*)
(* however often: its handler is called once, and again only after the     *)
(* event lapsed - its processing failed or was given up -; every call is   *)
(* counted, and has one outcome at most; an event is "processed" only after*)
(* a call returned.                                                        *)
(***************************************************************************)
EXTENDS Naturals

CONSTANTS
  Event,
  Worker      \* those who may call the handler of an event

VARIABLES
  status,     \* of each event
  attempts,   \* calls of its handler that were begun
  running,    \* the workers in a call
  owing,      \* the workers whose call has ended, and who are to record how
  done,       \* calls that returned
  lapsed      \* the events another call may be made for

logVars == <<status, attempts, running, owing, done, lapsed>>

LogInit ==
  /\ status = [e \in Event |-> "none"]
  /\ attempts = [e \in Event |-> 0]
  /\ running = [e \in Event |-> {}] /\ owing = [e \in Event |-> {}]
  /\ done = [e \in Event |-> 0]
  /\ lapsed = {}

\* A call begins: the first, or one after a lapse.
Call(e, w) ==
  /\ status[e] = "none" \/ e \in lapsed
  /\ w \notin running[e] \union owing[e]
  /\ status' = [status EXCEPT ![e] = "processing"]
  /\ attempts' = [attempts EXCEPT ![e] = @ + 1]
  /\ running' = [running EXCEPT ![e] = @ \union {w}]
  /\ UNCHANGED <<owing, done, lapsed>>

\* A call returns or throws.
Return(e, w) ==
  /\ w \in running[e]
  /\ running' = [running EXCEPT ![e] = @ \ {w}]
  /\ owing' = [owing EXCEPT ![e] = @ \union {w}]
  /\ done' \in {done, [done EXCEPT ![e] = @ + 1]}
  /\ UNCHANGED <<status, attempts, lapsed>>

Record(e, w, outcome) ==
  /\ w \in owing[e]
  /\ owing' = [owing EXCEPT ![e] = @ \ {w}]
  /\ status' = [status EXCEPT ![e] = outcome]
  /\ UNCHANGED <<attempts, running, done>>

RecordSuccess(e, w) == done[e] > 0 /\ Record(e, w, "processed") /\ UNCHANGED lapsed
RecordFailure(e, w) == Record(e, w, "failed") /\ lapsed' = lapsed \union {e}

\* A worker dies.
Die(e, w) ==
  /\ w \in running[e] \union owing[e]
  /\ running' = [running EXCEPT ![e] = @ \ {w}]
  /\ owing' = [owing EXCEPT ![e] = @ \ {w}]
  /\ UNCHANGED <<status, attempts, done, lapsed>>

GiveUp(e) ==
  /\ status[e] = "processing"
  /\ lapsed' = lapsed \union {e}
  /\ UNCHANGED <<status, attempts, running, owing, done>>

LogNext ==
  \E e \in Event :
    \/ GiveUp(e)
    \/ \E w \in Worker :
         Call(e, w) \/ Return(e, w) \/ RecordSuccess(e, w) \/ RecordFailure(e, w) \/ Die(e, w)

LogSpec == LogInit /\ [][LogNext]_logVars

\* What follows for the handler: until an event lapses it is called for it once at
\* most, and an event that is processed has had a call that returned.
HandledOnce ==
  \A e \in Event :
    /\ e \notin lapsed => attempts[e] <= 1 /\ done[e] <= 1
    /\ status[e] = "processed" => done[e] > 0
=============================================================================
