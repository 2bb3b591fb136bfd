------------------------------ MODULE MailArchive ------------------------------
(***************************************************************************)
(* What receiving mail promises, whoever syncs a mailbox and however many  *)
(* do at once: messages are imported without a gap and once each, a row    *)
(* changes afterwards only because its user files it, a cursor - a sync's  *)
(* or the stored one - never stands behind a message that has no row, and  *)
(* nothing is written for a mailbox that does not exist.  A stored cursor  *)
(* may go back: of two syncs the older may report last.                    *)
(***************************************************************************)
EXTENDS Naturals

CONSTANTS
  Mailbox, NoMailbox,
  Uid,        \* of the messages of one INBOX, from 1
  Sync        \* those who may sync a mailbox

VARIABLES
  state,      \* of each mailbox: "unused", "live" or "deleted"
  inbox,      \* the messages of each mailbox: "none" yet, "mail" or "gone"
  row,        \* what is kept of each message: "none" or the status it has
  cursor,     \* of each mailbox: where the next sync starts
  sync        \* of each sync: its mailbox and its cursor

archiveVars == <<state, inbox, row, cursor, sync>>

Status == {"unread", "read", "archived", "deleted"}
NoSync == [mailbox |-> NoMailbox, upTo |-> 0]

ArchiveInit ==
  /\ state = [m \in Mailbox |-> "unused"]
  /\ inbox = [m \in Mailbox |-> [u \in Uid |-> "none"]]
  /\ row = [m \in Mailbox |-> [u \in Uid |-> "none"]]
  /\ cursor = [m \in Mailbox |-> 0]
  /\ sync = [s \in Sync |-> NoSync]

-----------------------------------------------------------------------------
(***************************************************************************)
(* Mailboxes and their messages, while no sync moves.                      *)
(***************************************************************************)
Open(m) ==
  /\ state[m] = "unused"
  /\ state' = [state EXCEPT ![m] = "live"]
  /\ UNCHANGED <<inbox, row, cursor>>

\* The mailboxes of a domain go together; what was imported stays.
Close(M) ==
  /\ \A m \in M : state[m] = "live"
  /\ state' = [m \in Mailbox |-> IF m \in M THEN "deleted" ELSE state[m]]
  /\ cursor' = [m \in Mailbox |-> IF m \in M THEN 0 ELSE cursor[m]]
  /\ UNCHANGED <<inbox, row>>

Arrive(m, u) ==
  /\ inbox[m][u] = "none"
  /\ \A v \in Uid : v < u => inbox[m][v] # "none"
  /\ inbox' = [inbox EXCEPT ![m][u] = "mail"]
  /\ UNCHANGED <<state, row, cursor>>

Vanish(m, u) ==
  /\ inbox[m][u] = "mail"
  /\ inbox' = [inbox EXCEPT ![m][u] = "gone"]
  /\ UNCHANGED <<state, row, cursor>>

\* The user files a message.
File(m, u, status) ==
  /\ row[m][u] # "none"
  /\ row' = [row EXCEPT ![m][u] = status]
  /\ UNCHANGED <<state, inbox, cursor>>

MailboxNext ==
  /\ UNCHANGED sync
  /\ \/ \E M \in SUBSET Mailbox : Close(M)
     \/ \E m \in Mailbox : Open(m)
     \/ \E m \in Mailbox, u \in Uid :
          Arrive(m, u) \/ Vanish(m, u) \/ \E status \in Status : File(m, u, status)

-----------------------------------------------------------------------------
(***************************************************************************)
(* Syncs.                                                                  *)
(***************************************************************************)
Begin(s, m) ==
  /\ state[m] = "live" /\ sync[s] = NoSync
  /\ sync' = [sync EXCEPT ![s] = [mailbox |-> m, upTo |-> cursor[m]]]
  /\ UNCHANGED <<row, cursor>>

CompleteBefore(m, u) ==
  \A v \in Uid : v < u /\ inbox[m][v] = "mail" => row[m][v] # "none"

\* A message gets a row, or has one, which stays as it is; so have all before it.
Import(s, m, u) ==
  /\ sync[s].mailbox = m /\ state[m] = "live"
  /\ inbox[m][u] # "none" /\ u > sync[s].upTo
  /\ CompleteBefore(m, u)
  /\ \/ /\ row[m][u] = "none"
        /\ \E status \in {"unread", "read"} : row' = [row EXCEPT ![m][u] = status]
     \/ /\ row[m][u] # "none"
        /\ UNCHANGED row
  /\ sync' = [sync EXCEPT ![s].upTo = u]
  /\ UNCHANGED cursor

Report(s, m) ==
  /\ sync[s].mailbox = m /\ state[m] = "live"
  /\ cursor' = [cursor EXCEPT ![m] = sync[s].upTo]
  /\ sync' = [sync EXCEPT ![s] = NoSync]
  /\ UNCHANGED row

\* A sync fails, or all die: what they imported stays.
End(S) ==
  /\ sync' = [s \in Sync |-> IF s \in S THEN NoSync ELSE sync[s]]
  /\ UNCHANGED <<row, cursor>>

SyncsNext ==
  /\ UNCHANGED <<state, inbox>>
  /\ \/ \E s \in Sync : End({s})
     \/ End(Sync)
     \/ \E s \in Sync, m \in Mailbox :
          Begin(s, m) \/ Report(s, m) \/ \E u \in Uid : Import(s, m, u)

ArchiveNext == MailboxNext \/ SyncsNext

ArchiveSpec == ArchiveInit /\ [][ArchiveNext]_archiveVars

\* What follows for who reads the mail: no message lies behind a cursor, stored or
\* carried by a sync, without a row, unless it has left the inbox.
ImportedUpTo(m, upTo) ==
  \A u \in Uid : u <= upTo /\ inbox[m][u] = "mail" => row[m][u] # "none"

NoGap ==
  /\ \A m \in Mailbox : ImportedUpTo(m, cursor[m])
  /\ \A s \in Sync, m \in Mailbox : sync[s].mailbox = m => ImportedUpTo(m, sync[s].upTo)
=============================================================================
