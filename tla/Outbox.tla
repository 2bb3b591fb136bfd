-------------------------------- MODULE Outbox --------------------------------
(***************************************************************************)
(* What sending promises of each message, whatever else goes on: it is in  *)
(* the hands of the handler that queued it until that handler records an   *)
(* outcome; the SMTP server gets it once at most, and while it is in hand; *)
(* it is "sent" only if the server took it; once it is out of hand, nothing*)
(* happens to it any more.                                                 *)
(***************************************************************************)
EXTENDS Naturals

CONSTANTS
  Message, Handler,
  Careful      \* no handler dies or fails to record an outcome

VARIABLES
  status,      \* of each message
  taken,       \* how often the server took it
  hands        \* the handlers that work on it

outVars == <<status, taken, hands>>

OutInit ==
  /\ status = [m \in Message |-> "none"]
  /\ taken = [m \in Message |-> 0]
  /\ hands = [m \in Message |-> {}]

Queue(m, h) ==
  /\ status[m] = "none"
  /\ status' = [status EXCEPT ![m] = "queued"]
  /\ hands' = [hands EXCEPT ![m] = {h}]
  /\ UNCHANGED taken

Take(m, h) ==
  /\ h \in hands[m] /\ status[m] = "queued" /\ taken[m] = 0
  /\ taken' = [taken EXCEPT ![m] = 1]
  /\ UNCHANGED <<status, hands>>

\* The record may be made and its answer lost: the handler goes on.
RecordSent(m, h) ==
  /\ h \in hands[m] /\ status[m] = "queued" /\ taken[m] = 1
  /\ status' = [status EXCEPT ![m] = "sent"]
  /\ \/ hands' = [hands EXCEPT ![m] = {}]
     \/ ~Careful /\ UNCHANGED hands
  /\ UNCHANGED taken

RecordFailed(m, h) ==
  /\ h \in hands[m] /\ (Careful => status[m] = "queued")
  /\ status' = [status EXCEPT ![m] = "failed"]
  /\ hands' = [hands EXCEPT ![m] = {}]
  /\ UNCHANGED taken

LetGo(m, h) ==
  /\ ~Careful /\ h \in hands[m]
  /\ hands' = [hands EXCEPT ![m] = {}]
  /\ UNCHANGED <<status, taken>>

OutNext ==
  \E m \in Message, h \in Handler :
    Queue(m, h) \/ Take(m, h) \/ RecordSent(m, h) \/ RecordFailed(m, h) \/ LetGo(m, h)

OutSpec == OutInit /\ [][OutNext]_outVars

\* What follows for who sends and who receives mail: no message reaches the server
\* twice, one that is "sent" has reached it, and, while no handler dies, one that is
\* "queued" is not forgotten.
SentOnce ==
  \A m \in Message :
    /\ taken[m] <= 1
    /\ status[m] = "sent" => taken[m] = 1
    /\ Careful /\ status[m] = "queued" => hands[m] # {}
=============================================================================
