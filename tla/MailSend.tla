------------------------------- MODULE MailSend -------------------------------
(***************************************************************************)
(* The outbound path: MailService.sendWithApiKey, replyToInboundEmail (for *)
(* a session and for an API key), authenticateApiKey, createApiKey,        *)
(* revokeApiKey and enforceSendRateLimit, on top of the domain lifecycle.  *)
(*                                                                         *)
(* A send is a handler: authenticate, pass the rate limit, look the sender *)
(* domain up, insert the EmailMessage row as "queued", hand the message to *)
(* the SMTP server (external), record the outcome.  The domain, its gate   *)
(* and the API key may change between any two of these steps.              *)
(***************************************************************************)
EXTENDS DomainLifecycle, Sequences

CONSTANTS
  ApiKey, KeyOwner,        \* API keys and the user each belongs to
  Inbound, InboundDomain,  \* inbound mail that may be replied to, its domain
  Send,                    \* send and reply handlers in flight together
  EmailId,                 \* primary keys of EmailMessage rows
  SendLimit,               \* MAIL_ENGINE_SEND_RATE_LIMIT_PER_MINUTE
  Faults,                  \* the faults this instance suffers
  NoKey, NoInbound, NoEmail

ASSUME SendAssumption ==
  /\ User # {} /\ Name # {}
  /\ KeyOwner \in [ApiKey -> User]
  /\ InboundDomain \in [Inbound -> DomainId]
  /\ SendLimit \in Nat \ {0}
  /\ Faults \subseteq {"database", "smtpAnswer", "crash"}
  /\ NoKey \notin ApiKey /\ NoInbound \notin Inbound /\ NoEmail \notin EmailId

VARIABLES
  apiKey,    \* the state of each api_key row
  hits,      \* Redis: the counter mail:send:<key>:<bucket> of the current minute
  admitted,  \* history: sends the limiter let through in the current minute
  send,      \* the send handlers in flight
  email,     \* the email_message rows with their email_log rows
  accepted   \* external: how often the SMTP server has accepted each message

sendVars == <<apiKey, hits, admitted, send, email, accepted>>
mailVars == <<domainVars, sendVars>>

NoMessage ==
  [status |-> "none", log |-> <<>>, user |-> CHOOSE u \in User : TRUE,
   from |-> CHOOSE n \in Name : TRUE, domain |-> NoDomain]

EmailRow ==
  [status : {"none", "queued", "sent", "failed"},
   log    : Seq({"queued", "sent", "failed"}),
   user   : User,
   from   : Name,                        \* domain part of the from address
   domain : DomainId \union {NoDomain}]  \* set to null when the domain goes

\* Local variables of a handler; a reply has an inbound mail, a session no key.
SendState ==
  [pc      : {"idle", "limit", "inbound", "lookup", "create", "smtp",
              "markSent", "markFailed"},
   key     : ApiKey \union {NoKey},
   user    : User,
   from    : Name,
   inbound : Inbound \union {NoInbound},
   domain  : DomainId \union {NoDomain},
   email   : EmailId \union {NoEmail}]

IdleSend ==
  [pc |-> "idle", key |-> NoKey, user |-> NoMessage.user, from |-> NoMessage.from,
   inbound |-> NoInbound, domain |-> NoDomain, email |-> NoEmail]

SendAt(s, pc) == send[s].pc = pc

MailInit ==
  /\ DomainInit
  /\ apiKey = [k \in ApiKey |-> "none"]
  /\ hits = [k \in ApiKey |-> 0]
  /\ admitted = [k \in ApiKey |-> 0]
  /\ send = [s \in Send |-> IdleSend]
  /\ email = [e \in EmailId |-> NoMessage]
  /\ accepted = [e \in EmailId |-> 0]

-----------------------------------------------------------------------------
(***************************************************************************)
(* API keys.                                                               *)
(***************************************************************************)
CreateApiKey(k) ==
  /\ apiKey[k] = "none"
  /\ apiKey' = [apiKey EXCEPT ![k] = "active"]
  /\ UNCHANGED <<domainVars, hits, admitted, send, email, accepted>>

RevokeApiKey(k) ==
  /\ apiKey[k] # "none"
  /\ apiKey' = [apiKey EXCEPT ![k] = "revoked"]
  /\ UNCHANGED <<domainVars, hits, admitted, send, email, accepted>>

\* authenticateApiKey lets a request in only with a key that exists and is not
\* revoked; the lastUsedAt stamp it then writes is not kept.
Authenticated(k) == apiKey[k] = "active"

\* A handler begins with a valid body; every refusal leaves the state alone.
BeginHandler(s, h) ==
  /\ SendAt(s, "idle")
  /\ send' = [send EXCEPT ![s] = h]
  /\ UNCHANGED <<domainVars, apiKey, hits, admitted, email, accepted>>

BeginSend(s, k, n) ==
  /\ Authenticated(k)
  /\ BeginHandler(s, [IdleSend EXCEPT !.pc = "limit", !.key = k,
                                      !.user = KeyOwner[k], !.from = n])

BeginReply(s, u, i, n) ==
  BeginHandler(s, [IdleSend EXCEPT !.pc = "inbound", !.user = u, !.from = n,
                                   !.inbound = i])

BeginReplyWithApiKey(s, k, i, n) ==
  /\ Authenticated(k)
  /\ BeginHandler(s, [IdleSend EXCEPT !.pc = "inbound", !.key = k,
                                      !.user = KeyOwner[k], !.from = n, !.inbound = i])

-----------------------------------------------------------------------------
\* Mutant: one send too many.
OverLimitByOne(count) == count > SendLimit + 1

\* A count at which the limiter answers 429.
OverLimit(count) == count > SendLimit

(***************************************************************************)
(* enforceSendRateLimit: one atomic INCR of the bucket's counter.  The     *)
(* counter is kept up to SendLimit + 1, beyond which nothing distinguishes *)
(* its values; EXPIRE only bounds Redis' memory, as a bucket's key is      *)
(* never used again once its minute is over.                               *)
(***************************************************************************)
PassRateLimit(s) ==
  LET k == send[s].key
      count == IF hits[k] > SendLimit THEN hits[k] ELSE hits[k] + 1
  IN  /\ SendAt(s, "limit")
      /\ hits' = [hits EXCEPT ![k] = count]
      /\ \/ /\ OverLimit(count)
            /\ send' = [send EXCEPT ![s] = IdleSend]
            /\ UNCHANGED admitted
         \/ /\ ~OverLimit(count)
            /\ send' = [send EXCEPT ![s].pc = "lookup"]
            /\ admitted' = [admitted EXCEPT ![k] = @ + 1]
      /\ UNCHANGED <<domainVars, apiKey, email, accepted>>

\* The next minute: requests count in a new bucket.
NextMinute ==
  /\ \E k \in ApiKey : hits[k] # 0
  /\ hits' = [k \in ApiKey |-> 0]
  /\ admitted' = [k \in ApiKey |-> 0]
  /\ UNCHANGED <<domainVars, apiKey, send, email, accepted>>

\* Mutant: only a suspension refuses a sender.
SenderRefusalSuspendedOnly(row) ==
  IF row.suspendedAt THEN "Sender domain is suspended" ELSE "none"

\* The sender checks of sendWithApiKey, in their order.
SenderRefusal(row) ==
  IF row.status # "verified" \/ ~row.sendingEnabled
  THEN "Sender domain is not verified for sending"
  ELSE IF row.suspendedAt THEN "Sender domain is suspended" ELSE "none"

\* Mutant: the domain is looked up by name alone.
SenderDomainByName(s) == {d \in DomainId : Live(d) /\ NameOf[d] = send[s].from}

\* The domain row sendWithApiKey finds by (userId, name).
SenderDomain(s) ==
  {d \in DomainId : Live(d) /\ OwnerOf[d] = send[s].user /\ NameOf[d] = send[s].from}

\* Mutant: a reply does not look at the gate.
ReplyDomainUngated(s) ==
  {d \in DomainId :
     /\ d = InboundDomain[send[s].inbound]
     /\ Live(d)
     /\ OwnerOf[d] = send[s].user
     /\ NameOf[d] = send[s].from}

\* The domain a reply may use: the inbound mail is the user's, its domain still
\* exists, is the sender's, and its gate is open.
ReplyDomain(s) ==
  {d \in DomainId :
     /\ d = InboundDomain[send[s].inbound]
     /\ Live(d)
     /\ OwnerOf[d] = send[s].user
     /\ NameOf[d] = send[s].from
     /\ domain[d].status = "verified"
     /\ domain[d].sendingEnabled
     /\ ~domain[d].suspendedAt}

\* Go on with the domain found, or refuse (403, 404) if there is none.
ContinueWith(s, found) ==
  /\ send' = IF found = {}
             THEN [send EXCEPT ![s] = IdleSend]
             ELSE [send EXCEPT ![s].pc = "create",
                               ![s].domain = CHOOSE d \in found : TRUE]
  /\ UNCHANGED <<domainVars, apiKey, hits, admitted, email, accepted>>

LookUpSender(s) ==
  /\ SendAt(s, "lookup")
  /\ ContinueWith(s, {d \in SenderDomain(s) : SenderRefusal(domain[d]) = "none"})

LookUpInbound(s) ==
  /\ SendAt(s, "inbound")
  /\ ContinueWith(s, ReplyDomain(s))

\* The row is inserted as queued, with its first event.  The foreign key refuses
\* it when the domain was deleted since the lookup.
CreateEmail(s) ==
  /\ SendAt(s, "create")
  /\ \/ /\ Live(send[s].domain)
        /\ \E e \in EmailId :
             /\ email[e].status = "none"
             /\ email' = [email EXCEPT ![e] =
                  [status |-> "queued", log |-> <<"queued">>, user |-> send[s].user,
                   from |-> send[s].from, domain |-> send[s].domain]]
             /\ send' = [send EXCEPT ![s].pc = "smtp", ![s].email = e]
     \/ /\ ~Live(send[s].domain)
        /\ send' = [send EXCEPT ![s] = IdleSend]
        /\ UNCHANGED email
  /\ UNCHANGED <<domainVars, apiKey, hits, admitted, accepted>>

-----------------------------------------------------------------------------
(***************************************************************************)
(* sendEmail and the recording of its outcome.  The catch covers both the  *)
(* SMTP call and the update to "sent".                                     *)
(***************************************************************************)
HandToSmtp(s) ==
  /\ SendAt(s, "smtp")
  /\ \/ /\ accepted' = [accepted EXCEPT ![send[s].email] = @ + 1]
        /\ send' = [send EXCEPT ![s].pc = "markSent"]
     \/ /\ send' = [send EXCEPT ![s].pc = "markFailed"]
        /\ UNCHANGED accepted
     \/ /\ "smtpAnswer" \in Faults   \* accepted, but the answer is lost
        /\ accepted' = [accepted EXCEPT ![send[s].email] = @ + 1]
        /\ send' = [send EXCEPT ![s].pc = "markFailed"]
  /\ UNCHANGED <<domainVars, apiKey, hits, admitted, email>>

\* One update sets the status and adds the event of the same name.
Recorded(e, status) ==
  [email EXCEPT ![e].status = status, ![e].log = Append(@, status)]

\* Mutant: a failed update is retried from the SMTP call.
MarkSentResends(s) ==
  /\ SendAt(s, "markSent")
  /\ \/ /\ email' = Recorded(send[s].email, "sent")
        /\ send' = [send EXCEPT ![s] = IdleSend]
     \/ /\ "database" \in Faults
        /\ send' = [send EXCEPT ![s].pc = "smtp"]
        /\ UNCHANGED email
  /\ UNCHANGED <<domainVars, apiKey, hits, admitted, accepted>>

MarkSent(s) ==
  /\ SendAt(s, "markSent")
  /\ \/ /\ email' = Recorded(send[s].email, "sent")
        /\ send' = [send EXCEPT ![s] = IdleSend]
     \/ /\ "database" \in Faults     \* throws, with or without having committed
        /\ email' \in {email, Recorded(send[s].email, "sent")}
        /\ send' = [send EXCEPT ![s].pc = "markFailed"]
  /\ UNCHANGED <<domainVars, apiKey, hits, admitted, accepted>>

\* Mutant: the catch block only logs.
MarkFailedOnlyLogs(s) ==
  /\ SendAt(s, "markFailed")
  /\ send' = [send EXCEPT ![s] = IdleSend]
  /\ UNCHANGED <<domainVars, apiKey, hits, admitted, email, accepted>>

MarkFailed(s) ==
  /\ SendAt(s, "markFailed")
  /\ \/ email' = Recorded(send[s].email, "failed")
     \/ "database" \in Faults /\ UNCHANGED email
  /\ send' = [send EXCEPT ![s] = IdleSend]
  /\ UNCHANGED <<domainVars, apiKey, hits, admitted, accepted>>

\* Before the try block any call may throw; a crash ends the handler anywhere.
AbortSend(s) ==
  /\ \/ send[s].pc \in {"limit", "inbound", "lookup", "create"}
     \/ "crash" \in Faults /\ ~SendAt(s, "idle")
  /\ send' = [send EXCEPT ![s] = IdleSend]
  /\ UNCHANGED <<domainVars, apiKey, hits, admitted, email, accepted>>

-----------------------------------------------------------------------------
\* Deleting a domain sets the domainId of its messages to null.
Detached(d) ==
  [e \in EmailId |-> IF email[e].domain = d
                     THEN [email[e] EXCEPT !.domain = NoDomain] ELSE email[e]]

DomainDeleted(d) ==
  /\ DeleteDomain(d)
  /\ email' = Detached(d)
  /\ UNCHANGED <<apiKey, hits, admitted, send, accepted>>

\* The other domain operations do not touch the outbound tables.
DomainSide ==
  /\ \/ \E r \in Request, d \in DomainId : RequestBegins(r, d)
     \/ \E r \in Request : RequestStep(r) \/ AbortRequest(r)
     \/ \E d \in DomainId : SuspendDomain(d)
     \/ \E n \in Name, p \in Purpose : PublishRecord(n, p)
  /\ UNCHANGED sendVars

SendStep(s) ==
  \/ PassRateLimit(s)
  \/ LookUpSender(s)
  \/ LookUpInbound(s)
  \/ CreateEmail(s)
  \/ HandToSmtp(s)
  \/ MarkSent(s)
  \/ MarkFailed(s)

SendBegins(s) ==
  \/ \E k \in ApiKey, n \in Name : BeginSend(s, k, n)
  \/ \E u \in User, i \in Inbound, n \in Name : BeginReply(s, u, i, n)
  \/ \E k \in ApiKey, i \in Inbound, n \in Name : BeginReplyWithApiKey(s, k, i, n)

MailNext ==
  \/ DomainSide
  \/ \E d \in DomainId : DomainDeleted(d)
  \/ \E k \in ApiKey : CreateApiKey(k) \/ RevokeApiKey(k)
  \/ NextMinute
  \/ \E s \in Send : SendBegins(s) \/ SendStep(s) \/ AbortSend(s)

MailSpec == MailInit /\ [][MailNext]_mailVars

-----------------------------------------------------------------------------
(***************************************************************************)
(* Properties.                                                             *)
(***************************************************************************)

\* Rows, counters and handler locals have the types of the schema and the code.
MailTypeOK ==
  /\ DomainTypeOK
  /\ apiKey \in [ApiKey -> {"none", "active", "revoked"}]
  /\ hits \in [ApiKey -> Nat]
  /\ admitted \in [ApiKey -> Nat]
  /\ send \in [Send -> SendState]
  /\ email \in [EmailId -> EmailRow]
  /\ accepted \in [EmailId -> Nat]

\* No mail is ever accepted in the name of a domain whose required DNS records
\* were never all published, whatever verification, suspension, deletion and
\* re-creation of the domain run beside the send.
MailOnlyFromPublishedNames ==
  \A e \in EmailId :
    email[e].status # "none" => published[email[e].from] = Purpose

\* A message belongs to the user who owns its domain, and is sent in that
\* domain's name: no key or session sends through another user's domain.
SenderOwnsDomain ==
  \A e \in EmailId :
    email[e].domain # NoDomain =>
      /\ OwnerOf[email[e].domain] = email[e].user
      /\ NameOf[email[e].domain] = email[e].from

\* Each message is dealt with as the Outbox promises, in the hands of one handler,
\* handed to the SMTP server once at most, "sent" only if the server took it, and,
\* without crashes and database failures, never left behind as "queued".
Contract == INSTANCE Outbox WITH
  Message <- EmailId, Handler <- Send,
  Careful <- (Faults \intersect {"database", "crash"} = {}),
  status <- [e \in EmailId |-> email[e].status],
  taken <- accepted,
  hands <- [e \in EmailId |-> {s \in Send : send[s].email = e}]
OutboxKept == Contract!OutSpec

\* Closing takes hold.  Once a key is revoked, or the gate of a domain closed, and
\* the handlers that had got past the check have ended, nothing more is done in
\* the name of the key, or sent from the domain before its gate opens again.
ClosingTakesHold ==
  [][/\ \A k \in ApiKey :
          apiKey[k] = "revoked" /\ (\A s \in Send : send[s].key # k)
            => apiKey'[k] = "revoked" /\ \A s \in Send : send'[s].key # k
     /\ \A d \in DomainId :
          /\ ~domain[d].sendingEnabled /\ ~domain'[d].sendingEnabled
          /\ \A s \in Send : send[s].domain # d
          => \A s \in Send : send'[s].domain # d]_mailVars

\* Concurrent sends of one key never get more than SendLimit through in a minute.
WindowLimit == \A k \in ApiKey : admitted[k] <= SendLimit

\* The error docs/api.md lists for a suspended sender domain.
SuspendedSenderIsToldSo ==
  \A d \in DomainId :
    Live(d) /\ domain[d].status = "suspended"
      => SenderRefusal(domain[d]) = "Sender domain is suspended"
=============================================================================
