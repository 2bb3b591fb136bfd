---------------------------- MODULE MailSendProofs ----------------------------
(***************************************************************************)
(* Machine-checked proofs about MailSend, for every set of users, domains, *)
(* keys, handlers and messages, every limit and every set of faults.  The  *)
(* domain part of a step is a step of DomainLifecycle, so its invariant is *)
(* inherited; MailIInv adds what the handlers and the rows of the outbound *)
(* path keep, and OutboxKept is the refinement of Outbox.                  *)
(***************************************************************************)
EXTENDS MailSend, DomainLifecycleProofs

AfterLookup == {"create", "smtp", "markSent", "markFailed"}
WithMessage == {"smtp", "markSent", "markFailed"}

\* What a handler has established before the step it is at.
HandlerFits(h) ==
  /\ h.pc = "limit" => h.key \in ApiKey
  /\ h.pc = "inbound" => h.inbound \in Inbound
  /\ h.email # NoEmail <=> h.pc \in WithMessage
  /\ h.pc \in AfterLookup =>
       /\ h.domain \in DomainId
       /\ OwnerOf[h.domain] = h.user /\ NameOf[h.domain] = h.from
       /\ published[h.from] = Purpose

\* The state of the message a handler has in hand.
InHand(h) ==
  /\ h.pc = "smtp" => email[h.email].status = "queued" /\ accepted[h.email] = 0
  /\ h.pc = "markSent" => email[h.email].status = "queued" /\ accepted[h.email] = 1
  /\ h.pc = "markFailed" =>
       \/ email[h.email].status = "queued"
       \/ "database" \in Faults /\ email[h.email].status = "sent"

\* A message row, written once by the handler that found its domain.
RowFits(e) ==
  /\ email[e].status = "none" =>
       accepted[e] = 0 /\ \A s \in Send : send[s].email # e
  /\ email[e].status # "none" => published[email[e].from] = Purpose
  /\ email[e].domain # NoDomain =>
       /\ OwnerOf[email[e].domain] = email[e].user
       /\ NameOf[email[e].domain] = email[e].from

\* Two handlers never hold one message.
OneHand ==
  \A s, t \in Send : s # t /\ send[s].email = send[t].email => send[s].email = NoEmail

\* The history of the window never runs ahead of its counter.
CountersAgree ==
  \A k \in ApiKey : admitted[k] <= SendLimit /\ admitted[k] <= hits[k]

HandlersFit == \A s \in Send : HandlerFits(send[s])
HandsHold   == \A s \in Send : InHand(send[s])
RowsFit     == \A e \in EmailId : RowFits(e)

MailIInv ==
  /\ MailTypeOK
  /\ CountersAgree
  /\ HandlersFit
  /\ HandsHold
  /\ RowsFit
  /\ OneHand

USE DomainAssumption, SendAssumption

-----------------------------------------------------------------------------
\* A step of the outbound path is a step of the domain lifecycle or leaves the
\* domains alone.
LEMMA MailStepIsDomainStep == [MailNext]_mailVars => [DomainNext]_domainVars
<1>1. DomainSide => DomainNext
  BY DEF DomainSide, DomainNext
<1>2. ASSUME NEW d \in DomainId, DomainDeleted(d)
      PROVE  DomainNext
  BY <1>2 DEF DomainDeleted, DomainNext
<1>3. ASSUME NEW s \in Send, SendBegins(s) \/ SendStep(s) \/ AbortSend(s)
      PROVE  UNCHANGED domainVars
  BY <1>3 DEF SendBegins, BeginSend, BeginReply, BeginReplyWithApiKey, BeginHandler,
              SendStep, PassRateLimit, LookUpSender, LookUpInbound, ContinueWith,
              CreateEmail, HandToSmtp, MarkSent, MarkFailed, AbortSend
<1>4. ASSUME NEW k \in ApiKey, CreateApiKey(k) \/ RevokeApiKey(k)
      PROVE  UNCHANGED domainVars
  BY <1>4 DEF CreateApiKey, RevokeApiKey
<1>5. NextMinute => UNCHANGED domainVars
  BY DEF NextMinute
<1>6. MailNext => DomainNext \/ UNCHANGED domainVars
  BY <1>1, <1>2, <1>3, <1>4, <1>5 DEF MailNext
<1>7. QED
  BY <1>6 DEF mailVars

\* The domains of a mail system are those of DomainLifecycle: what is proved of
\* them there holds here.
THEOREM MailImplementsDomains == MailSpec => DomainSpec
<1>1. MailInit => DomainInit
  BY DEF MailInit
<1> QED BY <1>1, MailStepIsDomainStep, PTL DEF MailSpec, DomainSpec

LEMMA MailDomains == MailSpec => []DomainIInv
  BY MailImplementsDomains, DomainInvariance, PTL

\* Records are put up, never taken down: a complete name stays complete.
LEMMA CompleteStaysComplete ==
  ASSUME DomainTypeOK, [DomainNext]_domainVars,
         NEW n \in Name, published[n] = Purpose
  PROVE  published'[n] = Purpose
<1>1. ASSUME NEW m \in Name, NEW p \in Purpose, PublishRecord(m, p)
      PROVE  published'[n] = Purpose
  BY <1>1 DEF PublishRecord, DomainTypeOK
<1>2. ASSUME NEW r \in Request, NEW d \in DomainId, RequestBegins(r, d)
      PROVE  published' = published
  BY <1>2 DEF RequestBegins, BeginCreate, BeginVerify, BeginUnsuspend, BeginProvision, Begin
<1>3. ASSUME NEW r \in Request, RequestStep(r) \/ AbortRequest(r)
      PROVE  published' = published
  BY <1>3 DEF RequestStep, AbortRequest, ResolveDns, ProvisionEngine, WriteRecord,
              RecordThrows, RecordsWritten, FinishCreate, FinishVerify, FinishUnsuspend,
              FinishProvision, Finish
<1>4. ASSUME NEW d \in DomainId, SuspendDomain(d) \/ DeleteDomain(d)
      PROVE  published' = published
  BY <1>4 DEF SuspendDomain, DeleteDomain
<1>5. QED
  BY <1>1, <1>2, <1>3, <1>4 DEF DomainNext, domainVars

-----------------------------------------------------------------------------
\* An idle handler holds nothing.
LEMMA IdleHolds ==
  /\ IdleSend \in SendState
  /\ IdleSend.pc = "idle" /\ IdleSend.key = NoKey
  /\ IdleSend.email = NoEmail /\ IdleSend.domain = NoDomain
BY DEF IdleSend, SendState, NoMessage

\* No row, no handler, no count: the invariant holds at the start.
LEMMA MailInitInv == MailInit => MailIInv
<1> SUFFICES ASSUME MailInit
             PROVE  MailIInv
  OBVIOUS
<1>1. NoMessage \in EmailRow /\ NoMessage.status = "none" /\ NoMessage.domain = NoDomain
  BY DEF NoMessage, EmailRow
<1>2. DomainTypeOK
  BY DomainInitInv DEF MailInit, DomainIInv
<1>3. MailTypeOK
  BY <1>1, <1>2, IdleHolds DEF MailInit, MailTypeOK
<1>4. CountersAgree
  BY DEF MailInit, CountersAgree
<1>5. HandlersFit /\ HandsHold /\ OneHand
  BY IdleHolds DEF MailInit, HandlersFit, HandlerFits, HandsHold, InHand, OneHand,
                   AfterLookup, WithMessage
<1>6. RowsFit
  BY <1>1, IdleHolds DEF MailInit, RowsFit, RowFits
<1>7. QED
  BY <1>3, <1>4, <1>5, <1>6 DEF MailIInv

\* A handler goes from one state to another, and the messages it held or now
\* holds are written: what has to be shown of them, and of nothing else.
LEMMA HandlerMoves ==
  ASSUME MailIInv, UNCHANGED domainVars,
         NEW s \in Send, NEW h \in SendState,
         send' = [send EXCEPT ![s] = h],
         \A e \in EmailId \ {h.email, send[s].email} :
           email'[e] = email[e] /\ accepted'[e] = accepted[e],
         \A e \in EmailId \intersect {h.email, send[s].email} : RowFits(e)',
         h.email = NoEmail \/ \A t \in Send \ {s} : send[t].email # h.email,
         HandlerFits(h), InHand(h)'
  PROVE  HandlersFit' /\ HandsHold' /\ RowsFit' /\ OneHand'
<1>1. send'[s] = h /\ \A t \in Send \ {s} : send'[t] = send[t]
  BY DEF MailIInv, MailTypeOK
<1>2. UNCHANGED published
  BY DEF domainVars
<1>3. HandlersFit'
  BY <1>1, <1>2 DEF MailIInv, HandlersFit, HandlerFits
<1>4. ASSUME NEW t \in Send
      PROVE  InHand(send[t])'
  <2>1. CASE t = s
    BY <1>1, <2>1 DEF InHand
  <2>2. CASE t # s /\ send[t].pc \in WithMessage
    <3>1. send[t].email \in EmailId /\ send[t].email # NoEmail
      BY <2>2 DEF MailIInv, MailTypeOK, SendState, HandlersFit, HandlerFits
    <3>2. send[t].email \notin {h.email, send[s].email}
      BY <2>2, <3>1 DEF MailIInv, OneHand
    <3>3. QED
      BY <1>1, <2>2, <3>1, <3>2 DEF MailIInv, HandsHold, InHand
  <2>3. CASE t # s /\ send[t].pc \notin WithMessage
    BY <1>1, <2>3 DEF InHand, WithMessage
  <2>4. QED
    BY <2>1, <2>2, <2>3
<1>5. ASSUME NEW e \in EmailId
      PROVE  RowFits(e)'
  <2>1. CASE e \in {h.email, send[s].email}
    BY <2>1
  <2>2. CASE e \notin {h.email, send[s].email}
    BY <1>1, <1>2, <2>2 DEF MailIInv, RowsFit, RowFits
  <2>3. QED
    BY <2>1, <2>2
<1>6. OneHand'
  BY <1>1 DEF MailIInv, OneHand
<1>7. QED
  BY <1>3, <1>4, <1>5, <1>6 DEF HandsHold, RowsFit

\* The same for a step that writes no message: the handler keeps the one it has,
\* or lets it go.
LEMMA HandlerMovesOn ==
  ASSUME MailIInv, UNCHANGED <<domainVars, email, accepted>>,
         NEW s \in Send, NEW h \in SendState,
         send' = [send EXCEPT ![s] = h],
         h.email \in {NoEmail, send[s].email},
         HandlerFits(h), InHand(h)
  PROVE  HandlersFit' /\ HandsHold' /\ RowsFit' /\ OneHand'
<1>1. send'[s] = h /\ \A t \in Send \ {s} : send'[t] = send[t]
  BY DEF MailIInv, MailTypeOK
<1>2. ASSUME NEW e \in EmailId
      PROVE  RowFits(e)'
  BY <1>1 DEF MailIInv, RowsFit, RowFits, domainVars
<1>3. InHand(h)'
  BY DEF InHand
<1>4. h.email = NoEmail \/ \A t \in Send \ {s} : send[t].email # h.email
  BY DEF MailIInv, OneHand
<1>5. QED
  BY <1>2, <1>3, <1>4, HandlerMoves

\* A handler that ends, in whatever state it is.
LEMMA HandlerEnds ==
  ASSUME MailIInv, UNCHANGED <<domainVars, email, accepted>>,
         NEW s \in Send, send' = [send EXCEPT ![s] = IdleSend]
  PROVE  HandlersFit' /\ HandsHold' /\ RowsFit' /\ OneHand'
<1>1. HandlerFits(IdleSend) /\ InHand(IdleSend)
  BY IdleHolds DEF HandlerFits, InHand, AfterLookup, WithMessage
<1>2. QED
  BY <1>1, IdleHolds, HandlerMovesOn

-----------------------------------------------------------------------------
\* The domain operations, a new minute and the calls on API keys touch neither
\* handlers nor messages.
LEMMA OutboundUntouched ==
  ASSUME MailIInv, DomainTypeOK', UNCHANGED <<send, email, accepted>>,
         \A n \in Name : published[n] = Purpose => published'[n] = Purpose
  PROVE  HandlersFit' /\ HandsHold' /\ RowsFit' /\ OneHand'
<1>1. \A s \in Send : send[s].from \in Name
  BY DEF MailIInv, MailTypeOK, SendState
<1>2. \A e \in EmailId : email[e].from \in Name
  BY DEF MailIInv, MailTypeOK, EmailRow
<1>3. HandlersFit'
  BY <1>1 DEF MailIInv, HandlersFit, HandlerFits
<1>4. RowsFit'
  BY <1>2 DEF MailIInv, RowsFit, RowFits
<1>5. HandsHold' /\ OneHand'
  BY DEF MailIInv, HandsHold, InHand, OneHand
<1>6. QED
  BY <1>3, <1>4, <1>5

LEMMA DomainSideKeeps ==
  ASSUME MailIInv, DomainTypeOK', DomainSide
  PROVE  MailIInv'
<1>1. [DomainNext]_domainVars
  BY DEF DomainSide, DomainNext
<1>2. \A n \in Name : published[n] = Purpose => published'[n] = Purpose
  BY <1>1, CompleteStaysComplete DEF MailIInv, MailTypeOK
<1>3. MailTypeOK' /\ CountersAgree'
  BY DEF DomainSide, sendVars, MailIInv, MailTypeOK, CountersAgree
<1>4. QED
  BY <1>2, <1>3, OutboundUntouched DEF DomainSide, sendVars, MailIInv

\* createApiKey and revokeApiKey write one key row.
LEMMA KeyCallsKeep ==
  ASSUME MailIInv, DomainTypeOK', NEW k \in ApiKey, CreateApiKey(k) \/ RevokeApiKey(k)
  PROVE  MailIInv'
<1>1. UNCHANGED <<domainVars, hits, admitted, send, email, accepted>>
  BY DEF CreateApiKey, RevokeApiKey
<1>2. apiKey' \in [ApiKey -> {"none", "active", "revoked"}]
  BY DEF CreateApiKey, RevokeApiKey, MailIInv, MailTypeOK
<1>3. MailTypeOK' /\ CountersAgree'
  BY <1>1, <1>2 DEF MailIInv, MailTypeOK, CountersAgree
<1>4. QED
  BY <1>1, <1>3, OutboundUntouched DEF MailIInv, domainVars

LEMMA NextMinuteKeeps ==
  ASSUME MailIInv, DomainTypeOK', NextMinute
  PROVE  MailIInv'
<1>1. MailTypeOK'
  BY DEF NextMinute, MailIInv, MailTypeOK
<1>2. CountersAgree'
  BY DEF NextMinute, CountersAgree
<1>3. QED
  BY <1>1, <1>2, OutboundUntouched DEF NextMinute, MailIInv, domainVars

\* Deleting a domain detaches its messages, and changes nothing else of them.
LEMMA DomainDeletedKeeps ==
  ASSUME MailIInv, DomainTypeOK', NEW d \in DomainId, DomainDeleted(d)
  PROVE  MailIInv'
<1>1. UNCHANGED <<published, apiKey, hits, admitted, send, accepted>>
  BY DEF DomainDeleted, DeleteDomain
<1>2. ASSUME NEW e \in EmailId
      PROVE  /\ email'[e].status = email[e].status /\ email'[e].from = email[e].from
             /\ email'[e].user = email[e].user
             /\ email'[e].domain \in {email[e].domain, NoDomain}
             /\ email'[e] \in EmailRow
  <2>1. email[e] \in EmailRow
    BY DEF MailIInv, MailTypeOK
  <2>2. email'[e] \in {email[e], [email[e] EXCEPT !.domain = NoDomain]}
    BY DEF DomainDeleted, Detached
  <2>3. QED
    BY <2>1, <2>2 DEF EmailRow
<1>3. email' \in [EmailId -> EmailRow]
  BY <1>2 DEF DomainDeleted, Detached
<1>4. MailTypeOK' /\ CountersAgree'
  BY <1>1, <1>3 DEF MailIInv, MailTypeOK, CountersAgree
<1>5. HandlersFit' /\ OneHand'
  BY <1>1 DEF MailIInv, HandlersFit, HandlerFits, OneHand
<1>6. ASSUME NEW s \in Send
      PROVE  InHand(send[s])'
  <2>1. CASE send[s].pc \in WithMessage
    <3>1. send[s].email \in EmailId
      BY <2>1 DEF MailIInv, MailTypeOK, SendState, HandlersFit, HandlerFits
    <3>2. QED
      BY <1>1, <1>2, <3>1 DEF MailIInv, HandsHold, InHand
  <2>2. CASE send[s].pc \notin WithMessage
    BY <1>1, <2>2 DEF InHand, WithMessage
  <2>3. QED
    BY <2>1, <2>2
<1>7. ASSUME NEW e \in EmailId
      PROVE  RowFits(e)'
  BY <1>1, <1>2 DEF MailIInv, RowsFit, RowFits
<1>8. QED
  BY <1>4, <1>5, <1>6, <1>7 DEF MailIInv, HandsHold, RowsFit

-----------------------------------------------------------------------------
\* A handler starts: with a key that is active, or with a session.
LEMMA SendBeginsKeeps ==
  ASSUME MailIInv, DomainTypeOK', NEW s \in Send, SendBegins(s)
  PROVE  MailIInv'
<1>1. PICK h \in SendState :
        /\ BeginHandler(s, h)
        /\ HandlerFits(h) /\ InHand(h) /\ h.email = NoEmail
  <2>1. ASSUME NEW k \in ApiKey, NEW n \in Name, BeginSend(s, k, n)
        PROVE  \E h \in SendState :
                 BeginHandler(s, h) /\ HandlerFits(h) /\ InHand(h) /\ h.email = NoEmail
    <3> DEFINE h == [IdleSend EXCEPT !.pc = "limit", !.key = k,
                                     !.user = KeyOwner[k], !.from = n]
    <3>1. h \in SendState /\ h.pc = "limit" /\ h.key = k /\ h.email = NoEmail
      BY IdleHolds DEF SendState
    <3>2. HandlerFits(h) /\ InHand(h)
      BY <3>1 DEF HandlerFits, InHand, AfterLookup, WithMessage
    <3>3. BeginHandler(s, h)
      BY <2>1 DEF BeginSend
    <3> HIDE DEF h
    <3>4. QED
      BY <3>1, <3>2, <3>3
  <2>2. ASSUME NEW h \in SendState, h.pc = "inbound", h.inbound \in Inbound, h.email = NoEmail
        PROVE  HandlerFits(h) /\ InHand(h)
    BY <2>2 DEF HandlerFits, InHand, AfterLookup, WithMessage
  <2>3. ASSUME NEW u \in User, NEW i \in Inbound, NEW n \in Name, BeginReply(s, u, i, n)
        PROVE  \E h \in SendState :
                 BeginHandler(s, h) /\ HandlerFits(h) /\ InHand(h) /\ h.email = NoEmail
    <3> DEFINE h == [IdleSend EXCEPT !.pc = "inbound", !.user = u, !.from = n, !.inbound = i]
    <3>1. h \in SendState /\ h.pc = "inbound" /\ h.inbound = i /\ h.email = NoEmail
      BY IdleHolds DEF SendState
    <3>2. BeginHandler(s, h)
      BY <2>3 DEF BeginReply
    <3> HIDE DEF h
    <3>3. QED
      BY <2>2, <3>1, <3>2
  <2>4. ASSUME NEW k \in ApiKey, NEW i \in Inbound, NEW n \in Name,
               BeginReplyWithApiKey(s, k, i, n)
        PROVE  \E h \in SendState :
                 BeginHandler(s, h) /\ HandlerFits(h) /\ InHand(h) /\ h.email = NoEmail
    <3> DEFINE h == [IdleSend EXCEPT !.pc = "inbound", !.key = k, !.user = KeyOwner[k],
                                     !.from = n, !.inbound = i]
    <3>1. h \in SendState /\ h.pc = "inbound" /\ h.inbound = i /\ h.email = NoEmail
      BY IdleHolds DEF SendState
    <3>2. BeginHandler(s, h)
      BY <2>4 DEF BeginReplyWithApiKey
    <3> HIDE DEF h
    <3>3. QED
      BY <2>2, <3>1, <3>2
  <2>5. QED
    BY <2>1, <2>3, <2>4 DEF SendBegins
<1>2. MailTypeOK' /\ CountersAgree'
  BY <1>1 DEF BeginHandler, MailIInv, MailTypeOK, CountersAgree
<1>3. QED
  BY <1>1, <1>2, HandlerMovesOn DEF BeginHandler, MailIInv

\* The limiter counts, and lets through only up to the limit.
LEMMA PassRateLimitKeeps ==
  ASSUME MailIInv, DomainTypeOK', NEW s \in Send, PassRateLimit(s)
  PROVE  MailIInv'
<1> DEFINE k == send[s].key
           count == IF hits[k] > SendLimit THEN hits[k] ELSE hits[k] + 1
<1>1. /\ send[s] \in SendState /\ send[s].pc = "limit" /\ k \in ApiKey
      /\ send[s].email = NoEmail
  BY DEF PassRateLimit, SendAt, MailIInv, MailTypeOK, HandlersFit, HandlerFits, WithMessage
<1>2. hits[k] \in Nat /\ admitted[k] \in Nat /\ count \in Nat /\ hits[k] <= count
  BY <1>1 DEF MailIInv, MailTypeOK
<1>3. hits' = [hits EXCEPT ![k] = count] /\ UNCHANGED <<domainVars, apiKey, email, accepted>>
  BY DEF PassRateLimit
<1>4. CASE send' = [send EXCEPT ![s] = IdleSend] /\ UNCHANGED admitted
  <2>1. MailTypeOK'
    BY <1>2, <1>3, <1>4, IdleHolds DEF MailIInv, MailTypeOK
  <2>2. CountersAgree'
    <3>1. ASSUME NEW l \in ApiKey
          PROVE  admitted'[l] <= SendLimit /\ admitted'[l] <= hits'[l]
      <4>1. hits[l] \in Nat /\ admitted[l] \in Nat /\ admitted[l] <= SendLimit /\ admitted[l] <= hits[l]
        BY DEF MailIInv, MailTypeOK, CountersAgree
      <4>2. hits'[l] \in Nat /\ hits[l] <= hits'[l]
        BY <1>2, <1>3, <4>1 DEF MailIInv, MailTypeOK
      <4>3. QED
        BY <1>4, <4>1, <4>2
    <3>2. QED
      BY <3>1 DEF CountersAgree
  <2>3. QED
    BY <1>3, <1>4, <2>1, <2>2, HandlerEnds DEF MailIInv
<1>5. CASE /\ ~OverLimit(count)
           /\ send' = [send EXCEPT ![s].pc = "lookup"]
           /\ admitted' = [admitted EXCEPT ![k] = @ + 1]
  <2> DEFINE h == [send[s] EXCEPT !.pc = "lookup"]
  <2>1. h \in SendState /\ h.pc = "lookup" /\ h.email = NoEmail
    BY <1>1 DEF SendState
  <2>2. HandlerFits(h) /\ InHand(h)
    BY <2>1 DEF HandlerFits, InHand, AfterLookup, WithMessage
  <2>3. send' = [send EXCEPT ![s] = h]
    BY <1>5
  <2>4. count = hits[k] + 1 /\ count <= SendLimit
    BY <1>2, <1>5 DEF OverLimit
  <2>5. MailTypeOK'
    BY <1>1, <1>2, <1>3, <1>5, <2>1, <2>3 DEF MailIInv, MailTypeOK
  <2>6. CountersAgree'
    <3>1. ASSUME NEW l \in ApiKey
          PROVE  admitted'[l] <= SendLimit /\ admitted'[l] <= hits'[l]
      <4>1. hits[l] \in Nat /\ admitted[l] \in Nat /\ admitted[l] <= SendLimit /\ admitted[l] <= hits[l]
        BY DEF MailIInv, MailTypeOK, CountersAgree
      <4>2. CASE l = k
        <5>1. hits'[l] = hits[l] + 1 /\ admitted'[l] = admitted[l] + 1
          BY <1>1, <1>3, <1>5, <2>4, <4>2 DEF MailIInv, MailTypeOK
        <5>2. QED
          BY <2>4, <4>1, <4>2, <5>1
      <4>3. CASE l # k
        BY <1>3, <1>5, <4>1, <4>3 DEF MailIInv, MailTypeOK
      <4>4. QED
        BY <4>2, <4>3
    <3>2. QED
      BY <3>1 DEF CountersAgree
  <2> HIDE DEF h
  <2>7. QED
    BY <1>3, <2>1, <2>2, <2>3, <2>5, <2>6, HandlerMovesOn DEF MailIInv
<1>6. QED
  BY <1>4, <1>5 DEF PassRateLimit

\* Looking up a domain: what the lookup finds is the sender's, with an open gate.
LEMMA ContinueWithKeeps ==
  ASSUME MailIInv, DomainTypeOK', NEW s \in Send, send[s].email = NoEmail,
         NEW found \in SUBSET DomainId, ContinueWith(s, found),
         \A d \in found : /\ OwnerOf[d] = send[s].user /\ NameOf[d] = send[s].from
                          /\ published[NameOf[d]] = Purpose
  PROVE  MailIInv'
<1>1. send[s] \in SendState /\ UNCHANGED <<domainVars, apiKey, hits, admitted, email, accepted>>
  BY DEF ContinueWith, MailIInv, MailTypeOK
<1>2. CASE found = {}
  <2>1. send' = [send EXCEPT ![s] = IdleSend]
    BY <1>2 DEF ContinueWith
  <2>2. MailTypeOK' /\ CountersAgree'
    BY <1>1, <2>1, IdleHolds DEF MailIInv, MailTypeOK, CountersAgree
  <2>3. QED
    BY <1>1, <2>1, <2>2, HandlerEnds DEF MailIInv
<1>3. CASE found # {}
  <2> DEFINE d == CHOOSE e \in found : TRUE
             h == [send[s] EXCEPT !.pc = "create", !.domain = d]
  <2>1. d \in found
    BY <1>3
  <2>2. send' = [send EXCEPT ![s] = h]
    BY <1>3 DEF ContinueWith
  <2> HIDE DEF d
  <2>3. /\ h \in SendState /\ h.pc = "create" /\ h.email = NoEmail /\ h.domain = d
        /\ h.user = send[s].user /\ h.from = send[s].from
    BY <1>1, <2>1 DEF SendState
  <2>4. HandlerFits(h) /\ InHand(h)
    BY <2>1, <2>3 DEF HandlerFits, InHand, WithMessage
  <2>5. MailTypeOK' /\ CountersAgree'
    BY <1>1, <2>2, <2>3 DEF MailIInv, MailTypeOK, CountersAgree
  <2> HIDE DEF h
  <2>6. QED
    BY <1>1, <2>2, <2>3, <2>4, <2>5, HandlerMovesOn DEF MailIInv
<1>4. QED
  BY <1>2, <1>3

\* A domain whose gate is open, or whose status is "verified", has all its records.
LEMMA OpenGateIsPublished ==
  ASSUME DomainIInv, NEW d \in DomainId,
         domain[d].status = "verified" \/ domain[d].sendingEnabled
  PROVE  published[NameOf[d]] = Purpose
BY DEF DomainIInv, RowsGood, RowGood

LEMMA LookUpSenderKeeps ==
  ASSUME MailIInv, DomainIInv, DomainTypeOK', NEW s \in Send, LookUpSender(s)
  PROVE  MailIInv'
<1> DEFINE found == {d \in SenderDomain(s) : SenderRefusal(domain[d]) = "none"}
<1>1. send[s].email = NoEmail
  BY DEF LookUpSender, SendAt, MailIInv, HandlersFit, HandlerFits, WithMessage
<1>2. ASSUME NEW d \in found
      PROVE  /\ d \in DomainId
             /\ OwnerOf[d] = send[s].user /\ NameOf[d] = send[s].from
             /\ published[NameOf[d]] = Purpose
  <2>1. d \in DomainId /\ OwnerOf[d] = send[s].user /\ NameOf[d] = send[s].from
    BY DEF SenderDomain
  <2>2. domain[d].status = "verified"
    BY DEF SenderRefusal
  <2>3. QED
    BY <2>1, <2>2, OpenGateIsPublished
<1>3. ContinueWith(s, found)
  BY DEF LookUpSender
<1> HIDE DEF found
<1>4. QED
  BY <1>1, <1>2, <1>3, ContinueWithKeeps

LEMMA LookUpInboundKeeps ==
  ASSUME MailIInv, DomainIInv, DomainTypeOK', NEW s \in Send, LookUpInbound(s)
  PROVE  MailIInv'
<1> DEFINE found == ReplyDomain(s)
<1>1. send[s].email = NoEmail
  BY DEF LookUpInbound, SendAt, MailIInv, HandlersFit, HandlerFits, WithMessage
<1>2. ASSUME NEW d \in found
      PROVE  /\ d \in DomainId
             /\ OwnerOf[d] = send[s].user /\ NameOf[d] = send[s].from
             /\ published[NameOf[d]] = Purpose
  BY <1>2, OpenGateIsPublished DEF ReplyDomain
<1>3. ContinueWith(s, found)
  BY DEF LookUpInbound
<1> HIDE DEF found
<1>4. QED
  BY <1>1, <1>2, <1>3, ContinueWithKeeps

-----------------------------------------------------------------------------
\* The row is inserted under a key nobody has used; the handler takes it in hand.
LEMMA CreateEmailKeeps ==
  ASSUME MailIInv, DomainTypeOK', NEW s \in Send, CreateEmail(s)
  PROVE  MailIInv'
<1>1. /\ send[s] \in SendState /\ send[s].pc = "create" /\ send[s].email = NoEmail
      /\ send[s].domain \in DomainId
      /\ OwnerOf[send[s].domain] = send[s].user /\ NameOf[send[s].domain] = send[s].from
      /\ published[send[s].from] = Purpose
  BY DEF CreateEmail, SendAt, MailIInv, MailTypeOK, HandlersFit, HandlerFits,
         AfterLookup, WithMessage
<1>2. UNCHANGED <<domainVars, apiKey, hits, admitted, accepted>>
  BY DEF CreateEmail
<1>3. CASE send' = [send EXCEPT ![s] = IdleSend] /\ UNCHANGED email
  <2>1. MailTypeOK' /\ CountersAgree'
    BY <1>2, <1>3, IdleHolds DEF MailIInv, MailTypeOK, CountersAgree
  <2>2. QED
    BY <1>2, <1>3, <2>1, HandlerEnds DEF MailIInv
<1>4. ASSUME NEW e \in EmailId, email[e].status = "none",
             email' = [email EXCEPT ![e] =
               [status |-> "queued", log |-> <<"queued">>, user |-> send[s].user,
                from |-> send[s].from, domain |-> send[s].domain]],
             send' = [send EXCEPT ![s].pc = "smtp", ![s].email = e]
      PROVE  MailIInv'
  <2> DEFINE row == [status |-> "queued", log |-> <<"queued">>, user |-> send[s].user,
                     from |-> send[s].from, domain |-> send[s].domain]
  <2>0. [send[s] EXCEPT !.pc = "smtp", !.email = e] \in SendState
    BY <1>1 DEF SendState
  <2>1. PICK h \in SendState :
          /\ h = [send[s] EXCEPT !.pc = "smtp", !.email = e]
          /\ h.pc = "smtp" /\ h.email = e
          /\ h.domain = send[s].domain /\ h.user = send[s].user /\ h.from = send[s].from
    BY <1>1, <2>0 DEF SendState
  <2>2. send' = [send EXCEPT ![s] = h]
    BY <1>4, <2>1
  <2>3. row \in EmailRow
    BY <1>1 DEF EmailRow, SendState
  <2>4. email'[e] = row /\ \A f \in EmailId \ {e} : email'[f] = email[f]
    BY <1>4 DEF MailIInv, MailTypeOK
  <2>5. accepted[e] = 0 /\ \A t \in Send : send[t].email # e
    BY <1>4 DEF MailIInv, RowsFit, RowFits
  <2>6. MailTypeOK' /\ CountersAgree'
    BY <1>2, <1>4, <2>1, <2>2, <2>3 DEF MailIInv, MailTypeOK, CountersAgree
  <2>7. HandlerFits(h)
    BY <1>1, <2>1 DEF HandlerFits, AfterLookup, WithMessage
  <2>8. InHand(h)'
    BY <1>2, <2>1, <2>4, <2>5 DEF InHand
  <2>9. \A f \in EmailId \intersect {h.email, send[s].email} : RowFits(f)'
    BY <1>1, <1>2, <2>1, <2>4 DEF RowFits, domainVars
  <2>10. /\ \A f \in EmailId \ {h.email, send[s].email} :
                email'[f] = email[f] /\ accepted'[f] = accepted[f]
         /\ \A t \in Send \ {s} : send[t].email # h.email
    BY <1>2, <2>1, <2>4, <2>5
  <2>11. HandlersFit' /\ HandsHold' /\ RowsFit' /\ OneHand'
    BY <1>2, <2>2, <2>7, <2>8, <2>9, <2>10, HandlerMoves
  <2>12. QED
    BY <2>6, <2>11 DEF MailIInv
<1>5. QED
  BY <1>3, <1>4 DEF CreateEmail

\* What a handler at or after the SMTP call has in hand.
LEMMA HolderHasMessage ==
  ASSUME MailIInv, NEW s \in Send, send[s].pc \in WithMessage
  PROVE  /\ send[s] \in SendState
         /\ send[s].email \in EmailId /\ send[s].email # NoEmail
         /\ email[send[s].email] \in EmailRow
         /\ email[send[s].email].status # "none"
         /\ accepted[send[s].email] \in Nat
         /\ \A t \in Send \ {s} : send[t].email # send[s].email
         /\ InHand(send[s])
<1>1. send[s] \in SendState /\ send[s].email # NoEmail /\ send[s].email \in EmailId
  BY DEF MailIInv, MailTypeOK, SendState, HandlersFit, HandlerFits
<1>2. InHand(send[s])
  BY DEF MailIInv, HandsHold
<1>3. QED
  BY <1>1, <1>2 DEF MailIInv, MailTypeOK, OneHand, InHand, WithMessage

\* The SMTP server takes the message once, and the handler knows or does not.
LEMMA HandToSmtpKeeps ==
  ASSUME MailIInv, DomainTypeOK', NEW s \in Send, HandToSmtp(s)
  PROVE  MailIInv'
<1>1. PICK e \in EmailId :
        /\ send[s] \in SendState /\ send[s].pc = "smtp"
        /\ e = send[s].email /\ e # NoEmail
        /\ email[e] \in EmailRow /\ email[e].status = "queued" /\ accepted[e] = 0
        /\ \A t \in Send \ {s} : send[t].email # e
  BY HolderHasMessage DEF HandToSmtp, SendAt, WithMessage, InHand
<1>2. UNCHANGED <<domainVars, apiKey, hits, admitted, email>>
  BY DEF HandToSmtp
<1>3. PICK pc \in {"markSent", "markFailed"} :
        /\ send' = [send EXCEPT ![s].pc = pc]
        /\ accepted' \in {accepted, [accepted EXCEPT ![e] = @ + 1]}
        /\ pc = "markSent" => accepted' = [accepted EXCEPT ![e] = @ + 1]
  BY <1>1 DEF HandToSmtp
<1>4. PICK h \in SendState :
        /\ send' = [send EXCEPT ![s] = h]
        /\ h.pc = pc /\ h.email = e
        /\ h.domain = send[s].domain /\ h.user = send[s].user /\ h.from = send[s].from
  <2>1. [send[s] EXCEPT !.pc = pc] \in SendState
    BY <1>1 DEF SendState
  <2>2. QED
    BY <1>1, <1>3, <2>1 DEF SendState
<1>6. /\ accepted' \in [EmailId -> Nat]
      /\ \A f \in EmailId \ {e} : accepted'[f] = accepted[f]
      /\ pc = "markSent" => accepted'[e] = 1
  BY <1>1, <1>3 DEF MailIInv, MailTypeOK
<1>7. MailTypeOK' /\ CountersAgree'
  BY <1>2, <1>4, <1>6 DEF MailIInv, MailTypeOK, CountersAgree
<1>8. HandlerFits(h)
  BY <1>1, <1>4 DEF MailIInv, HandlersFit, HandlerFits, AfterLookup, WithMessage
<1>9. InHand(h)'
  BY <1>1, <1>2, <1>4, <1>6 DEF InHand
<1>10. \A f \in EmailId \intersect {h.email, send[s].email} : RowFits(f)'
  BY <1>1, <1>2, <1>4 DEF MailIInv, RowsFit, RowFits, domainVars
<1>11. /\ UNCHANGED domainVars
       /\ \A f \in EmailId \ {h.email, send[s].email} :
            email'[f] = email[f] /\ accepted'[f] = accepted[f]
       /\ \A t \in Send \ {s} : send[t].email # h.email
  BY <1>1, <1>2, <1>4, <1>6
<1>12. HandlersFit' /\ HandsHold' /\ RowsFit' /\ OneHand'
  BY <1>4, <1>8, <1>9, <1>10, <1>11, HandlerMoves
<1>13. QED
  BY <1>7, <1>12 DEF MailIInv

\* The update that records an outcome: the row it leaves, and no other row.
LEMMA RecordedRow ==
  ASSUME MailIInv, NEW e \in EmailId, NEW status \in {"sent", "failed"}
  PROVE  /\ Recorded(e, status) \in [EmailId -> EmailRow]
         /\ Recorded(e, status)[e].status = status
         /\ Recorded(e, status)[e].from = email[e].from
         /\ Recorded(e, status)[e].user = email[e].user
         /\ Recorded(e, status)[e].domain = email[e].domain
         /\ \A f \in EmailId \ {e} : Recorded(e, status)[f] = email[f]
<1>1. email \in [EmailId -> EmailRow] /\ email[e] \in EmailRow
  BY DEF MailIInv, MailTypeOK
<1>2. Append(email[e].log, status) \in Seq({"queued", "sent", "failed"})
  BY <1>1 DEF EmailRow
<1>3. PICK log \in Seq({"queued", "sent", "failed"}) :
        Recorded(e, status) = [email EXCEPT ![e].status = status, ![e].log = log]
  BY <1>2 DEF Recorded
<1>4. [email[e] EXCEPT !.status = status, !.log = log] \in EmailRow
  BY <1>1 DEF EmailRow
<1>5. QED
  BY <1>1, <1>3, <1>4 DEF EmailRow

\* A handler writes, or fails to write, the outcome of its message, and keeps the
\* message or lets it go.
LEMMA RecordingKeeps ==
  ASSUME MailIInv, DomainTypeOK', UNCHANGED <<domainVars, apiKey, hits, admitted, accepted>>,
         NEW s \in Send, send[s].pc \in WithMessage, NEW h \in SendState,
         send' = [send EXCEPT ![s] = h],
         NEW status \in {"sent", "failed"},
         email' \in {email, Recorded(send[s].email, status)},
         h.email \in {NoEmail, send[s].email},
         HandlerFits(h), InHand(h)'
  PROVE  MailIInv'
<1>1. PICK e \in EmailId :
        /\ e = send[s].email /\ e # NoEmail /\ email[e].status # "none"
        /\ \A t \in Send \ {s} : send[t].email # e
  BY HolderHasMessage
<1>2. /\ email' \in [EmailId -> EmailRow]
      /\ email'[e].status # "none"
      /\ email'[e].from = email[e].from /\ email'[e].user = email[e].user
      /\ email'[e].domain = email[e].domain
      /\ \A f \in EmailId \ {e} : email'[f] = email[f]
  <2>1. CASE email' = email
    BY <1>1, <2>1 DEF MailIInv, MailTypeOK
  <2>2. CASE email' = Recorded(e, status)
    BY <2>2, RecordedRow
  <2>3. QED
    BY <1>1, <2>1, <2>2
<1>3. MailTypeOK' /\ CountersAgree'
  BY <1>2 DEF MailIInv, MailTypeOK, CountersAgree
<1>4. \A f \in EmailId \intersect {h.email, send[s].email} : RowFits(f)'
  BY <1>1, <1>2 DEF MailIInv, RowsFit, RowFits, domainVars
<1>5. /\ \A f \in EmailId \ {h.email, send[s].email} :
           email'[f] = email[f] /\ accepted'[f] = accepted[f]
      /\ h.email = NoEmail \/ \A t \in Send \ {s} : send[t].email # h.email
  BY <1>1, <1>2
<1>6. UNCHANGED domainVars
  OBVIOUS
<1>7. HandlersFit' /\ HandsHold' /\ RowsFit' /\ OneHand'
  BY <1>4, <1>5, <1>6, HandlerMoves
<1>8. QED
  BY <1>3, <1>7 DEF MailIInv

LEMMA MarkSentKeeps ==
  ASSUME MailIInv, DomainTypeOK', NEW s \in Send, MarkSent(s)
  PROVE  MailIInv'
<1>1. /\ send[s] \in SendState /\ send[s].pc = "markSent" /\ send[s].pc \in WithMessage
      /\ send[s].email \in EmailId /\ send[s].email # NoEmail
      /\ email[send[s].email].status = "queued"
  BY HolderHasMessage DEF MarkSent, SendAt, WithMessage, InHand
<1>2. UNCHANGED <<domainVars, apiKey, hits, admitted, accepted>>
  BY DEF MarkSent
<1>3. CASE email' = Recorded(send[s].email, "sent") /\ send' = [send EXCEPT ![s] = IdleSend]
  <2>1. HandlerFits(IdleSend) /\ InHand(IdleSend)'
    BY IdleHolds DEF HandlerFits, InHand, AfterLookup, WithMessage
  <2>2. QED
    BY <1>1, <1>2, <1>3, <2>1, IdleHolds, RecordingKeeps
<1>4. CASE /\ "database" \in Faults
           /\ email' \in {email, Recorded(send[s].email, "sent")}
           /\ send' = [send EXCEPT ![s].pc = "markFailed"]
  <2>1. PICK h \in SendState :
          /\ send' = [send EXCEPT ![s] = h]
          /\ h.pc = "markFailed" /\ h.email = send[s].email
          /\ h.domain = send[s].domain /\ h.user = send[s].user /\ h.from = send[s].from
    <3>1. [send[s] EXCEPT !.pc = "markFailed"] \in SendState
      BY <1>1 DEF SendState
    <3>2. QED
      BY <1>1, <1>4, <3>1 DEF SendState
  <2>2. HandlerFits(h)
    BY <1>1, <2>1 DEF MailIInv, HandlersFit, HandlerFits, AfterLookup, WithMessage
  <2>3. email'[send[s].email].status \in {"queued", "sent"}
    BY <1>1, <1>4, RecordedRow
  <2>4. InHand(h)'
    BY <1>4, <2>1, <2>3 DEF InHand
  <2>5. QED
    BY <1>1, <1>2, <1>4, <2>1, <2>2, <2>4, RecordingKeeps
<1>5. QED
  BY <1>3, <1>4 DEF MarkSent

LEMMA MarkFailedKeeps ==
  ASSUME MailIInv, DomainTypeOK', NEW s \in Send, MarkFailed(s)
  PROVE  MailIInv'
<1>1. send[s].pc \in WithMessage
  BY DEF MarkFailed, SendAt, WithMessage
<1>2. /\ UNCHANGED <<domainVars, apiKey, hits, admitted, accepted>>
      /\ send' = [send EXCEPT ![s] = IdleSend]
      /\ email' \in {email, Recorded(send[s].email, "failed")}
  BY DEF MarkFailed
<1>3. HandlerFits(IdleSend) /\ InHand(IdleSend)'
  BY IdleHolds DEF HandlerFits, InHand, AfterLookup, WithMessage
<1>4. QED
  BY <1>1, <1>2, <1>3, IdleHolds, RecordingKeeps

LEMMA AbortSendKeeps ==
  ASSUME MailIInv, DomainTypeOK', NEW s \in Send, AbortSend(s)
  PROVE  MailIInv'
<1>1. MailTypeOK' /\ CountersAgree'
  BY IdleHolds DEF AbortSend, MailIInv, MailTypeOK, CountersAgree
<1>2. QED
  BY <1>1, HandlerEnds DEF AbortSend, MailIInv

-----------------------------------------------------------------------------
\* Every step of the outbound path keeps its invariant.
LEMMA MailStepInv ==
  ASSUME MailIInv, DomainIInv, DomainTypeOK', [MailNext]_mailVars
  PROVE  MailIInv'
<1>1. CASE UNCHANGED mailVars
  <2>1. UNCHANGED <<domainVars, apiKey, hits, admitted, send, email, accepted>>
    BY <1>1 DEF mailVars, sendVars
  <2>2. MailTypeOK' /\ CountersAgree'
    BY <2>1 DEF MailIInv, MailTypeOK, CountersAgree
  <2>3. QED
    BY <2>1, <2>2, OutboundUntouched DEF MailIInv, domainVars
<1>2. ASSUME NEW s \in Send, SendStep(s)
      PROVE  MailIInv'
  BY <1>2, PassRateLimitKeeps, LookUpSenderKeeps, LookUpInboundKeeps, CreateEmailKeeps,
     HandToSmtpKeeps, MarkSentKeeps, MarkFailedKeeps DEF SendStep
<1>3. CASE MailNext
  BY <1>2, <1>3, DomainSideKeeps, DomainDeletedKeeps, KeyCallsKeep, NextMinuteKeeps,
     SendBeginsKeeps, AbortSendKeeps DEF MailNext
<1>4. QED
  BY <1>1, <1>3

\* The inductive invariant holds in every reachable state.
THEOREM MailInvariance == MailSpec => []MailIInv
<1>1. MailInit => MailIInv
  BY MailInitInv
<1>2. MailIInv /\ DomainIInv /\ DomainIInv' /\ [MailNext]_mailVars => MailIInv'
  BY MailStepInv DEF DomainIInv
<1>3. QED
  BY <1>1, <1>2, MailDomains, PTL DEF MailSpec

\* Rows, counters and handler locals keep their types.
THEOREM MailTypeCorrect == MailSpec => []MailTypeOK
<1>1. MailIInv => MailTypeOK
  BY DEF MailIInv
<1>2. QED
  BY <1>1, MailInvariance, PTL

\* However many sends of a key overlap, and whenever the minute ends between
\* two of their steps, no more than SendLimit are let through.
THEOREM MailWindowLimit == MailSpec => []WindowLimit
<1>1. MailIInv => WindowLimit
  BY DEF MailIInv, CountersAgree, WindowLimit
<1>2. QED
  BY <1>1, MailInvariance, PTL

\* No mail row exists in the name of a domain whose records were never complete,
\* whatever the domain handlers do between the steps of the send.
THEOREM MailNamesPublished == MailSpec => []MailOnlyFromPublishedNames
<1>1. MailIInv => MailOnlyFromPublishedNames
  BY DEF MailIInv, RowsFit, RowFits, MailOnlyFromPublishedNames
<1>2. QED
  BY <1>1, MailInvariance, PTL

\* No key, session or reply sends through a domain of another user.
THEOREM MailSenderOwnsDomain == MailSpec => []SenderOwnsDomain
<1>1. MailIInv => SenderOwnsDomain
  BY DEF MailIInv, RowsFit, RowFits, SenderOwnsDomain
<1>2. QED
  BY <1>1, MailInvariance, PTL

-----------------------------------------------------------------------------
\* What a step may put into a handler's hands: a key only while it is active, a
\* domain only while its gate is open.
LEMMA HandlerTakes ==
  ASSUME MailIInv, MailNext, NEW t \in Send
  PROVE  /\ \/ send'[t].key \in {send[t].key, NoKey}
            \/ send'[t].key \in ApiKey /\ Authenticated(send'[t].key)
         /\ \/ send'[t].domain \in {send[t].domain, NoDomain}
            \/ send'[t].domain \in DomainId /\ domain[send'[t].domain].sendingEnabled
<1>1. \A s \in Send : send[s] \in SendState
  BY DEF MailIInv, MailTypeOK
<1>2. ASSUME NEW s \in Send, SendBegins(s)
      PROVE  /\ \/ send'[t].key \in {send[t].key, NoKey}
                \/ send'[t].key \in ApiKey /\ Authenticated(send'[t].key)
             /\ send'[t].domain \in {send[t].domain, NoDomain}
  <2>1. ASSUME NEW h, BeginHandler(s, h), h.domain = NoDomain,
               h.key # NoKey => h.key \in ApiKey /\ Authenticated(h.key)
        PROVE  /\ \/ send'[t].key \in {send[t].key, NoKey}
                  \/ send'[t].key \in ApiKey /\ Authenticated(send'[t].key)
               /\ send'[t].domain \in {send[t].domain, NoDomain}
    BY <2>1 DEF BeginHandler, MailIInv, MailTypeOK
  <2>2. ASSUME NEW k \in ApiKey, NEW n \in Name, BeginSend(s, k, n)
        PROVE  /\ \/ send'[t].key \in {send[t].key, NoKey}
                  \/ send'[t].key \in ApiKey /\ Authenticated(send'[t].key)
               /\ send'[t].domain \in {send[t].domain, NoDomain}
    <3> DEFINE h == [IdleSend EXCEPT !.pc = "limit", !.key = k,
                                     !.user = KeyOwner[k], !.from = n]
    <3>1. BeginHandler(s, h) /\ Authenticated(k) /\ h.key = k /\ h.domain = NoDomain
      BY <2>2, IdleHolds DEF BeginSend, SendState
    <3> HIDE DEF h
    <3>2. QED
      BY <2>1, <3>1
  <2>3. ASSUME NEW u \in User, NEW i \in Inbound, NEW n \in Name, BeginReply(s, u, i, n)
        PROVE  /\ \/ send'[t].key \in {send[t].key, NoKey}
                  \/ send'[t].key \in ApiKey /\ Authenticated(send'[t].key)
               /\ send'[t].domain \in {send[t].domain, NoDomain}
    <3> DEFINE h == [IdleSend EXCEPT !.pc = "inbound", !.user = u, !.from = n, !.inbound = i]
    <3>1. BeginHandler(s, h) /\ h.key = NoKey /\ h.domain = NoDomain
      BY <2>3, IdleHolds DEF BeginReply, SendState
    <3> HIDE DEF h
    <3>2. QED
      BY <2>1, <3>1
  <2>4. ASSUME NEW k \in ApiKey, NEW i \in Inbound, NEW n \in Name,
               BeginReplyWithApiKey(s, k, i, n)
        PROVE  /\ \/ send'[t].key \in {send[t].key, NoKey}
                  \/ send'[t].key \in ApiKey /\ Authenticated(send'[t].key)
               /\ send'[t].domain \in {send[t].domain, NoDomain}
    <3> DEFINE h == [IdleSend EXCEPT !.pc = "inbound", !.key = k, !.user = KeyOwner[k],
                                     !.from = n, !.inbound = i]
    <3>1. BeginHandler(s, h) /\ Authenticated(k) /\ h.key = k /\ h.domain = NoDomain
      BY <2>4, IdleHolds DEF BeginReplyWithApiKey, SendState
    <3> HIDE DEF h
    <3>2. QED
      BY <2>1, <3>1
  <2>5. QED
    BY <1>2, <2>2, <2>3, <2>4 DEF SendBegins
<1>3. ASSUME NEW s \in Send, NEW found \in SUBSET DomainId, ContinueWith(s, found),
             \A d \in found : domain[d].sendingEnabled
      PROVE  /\ send'[t].key \in {send[t].key, NoKey}
             /\ \/ send'[t].domain \in {send[t].domain, NoDomain}
                \/ send'[t].domain \in DomainId /\ domain[send'[t].domain].sendingEnabled
  <2>1. CASE found = {}
    BY <1>3, <2>1, IdleHolds DEF ContinueWith, MailIInv, MailTypeOK
  <2>2. CASE found # {}
    <3>1. PICK d \in found :
            send' = [send EXCEPT ![s].pc = "create", ![s].domain = d]
      BY <1>3, <2>2 DEF ContinueWith
    <3>2. t # s => send'[t] = send[t]
      BY <3>1 DEF MailIInv, MailTypeOK
    <3>3. t = s => send'[t].key = send[t].key /\ send'[t].domain = d
      BY <1>1, <3>1 DEF MailIInv, MailTypeOK, SendState
    <3>4. QED
      BY <1>3, <3>2, <3>3
  <2>3. QED
    BY <2>1, <2>2
<1>4. ASSUME NEW s \in Send, LookUpSender(s)
      PROVE  /\ send'[t].key \in {send[t].key, NoKey}
             /\ \/ send'[t].domain \in {send[t].domain, NoDomain}
                \/ send'[t].domain \in DomainId /\ domain[send'[t].domain].sendingEnabled
  <2> DEFINE found == {d \in SenderDomain(s) : SenderRefusal(domain[d]) = "none"}
  <2>1. ContinueWith(s, found) /\ found \subseteq DomainId
    BY <1>4 DEF LookUpSender, SenderDomain
  <2>2. \A d \in found : domain[d].sendingEnabled
    BY DEF SenderRefusal
  <2> HIDE DEF found
  <2>3. QED
    BY <1>3, <2>1, <2>2
<1>5. ASSUME NEW s \in Send, LookUpInbound(s)
      PROVE  /\ send'[t].key \in {send[t].key, NoKey}
             /\ \/ send'[t].domain \in {send[t].domain, NoDomain}
                \/ send'[t].domain \in DomainId /\ domain[send'[t].domain].sendingEnabled
  <2>1. /\ ContinueWith(s, ReplyDomain(s)) /\ ReplyDomain(s) \subseteq DomainId
        /\ \A d \in ReplyDomain(s) : domain[d].sendingEnabled
    BY <1>5 DEF LookUpInbound, ReplyDomain
  <2>2. QED
    BY <1>3, <2>1
<1>6. ASSUME NEW s \in Send,
             \/ PassRateLimit(s) \/ CreateEmail(s) \/ HandToSmtp(s)
             \/ MarkSent(s) \/ MarkFailed(s) \/ AbortSend(s)
      PROVE  /\ send'[t].key \in {send[t].key, NoKey}
             /\ send'[t].domain \in {send[t].domain, NoDomain}
  <2>1. \/ send' = [send EXCEPT ![s] = IdleSend]
        \/ \E pc : send' = [send EXCEPT ![s].pc = pc]
        \/ \E pc, e : send' = [send EXCEPT ![s].pc = pc, ![s].email = e]
    BY <1>6 DEF PassRateLimit, CreateEmail, HandToSmtp, MarkSent, MarkFailed, AbortSend
  <2>2. CASE send' = [send EXCEPT ![s] = IdleSend]
    BY <2>2, IdleHolds DEF MailIInv, MailTypeOK
  <2>3. ASSUME NEW pc, send' = [send EXCEPT ![s].pc = pc]
        PROVE  send'[t].key = send[t].key /\ send'[t].domain = send[t].domain
    BY <1>1, <2>3 DEF MailIInv, MailTypeOK, SendState
  <2>4. ASSUME NEW pc, NEW e, send' = [send EXCEPT ![s].pc = pc, ![s].email = e]
        PROVE  send'[t].key = send[t].key /\ send'[t].domain = send[t].domain
    BY <1>1, <2>4 DEF MailIInv, MailTypeOK, SendState
  <2>5. QED
    BY <2>1, <2>2, <2>3, <2>4
<1>7. CASE \/ DomainSide \/ NextMinute
           \/ \E d \in DomainId : DomainDeleted(d)
           \/ \E k \in ApiKey : CreateApiKey(k) \/ RevokeApiKey(k)
  BY <1>7 DEF DomainSide, sendVars, NextMinute, DomainDeleted, CreateApiKey, RevokeApiKey
<1>8. QED
  BY <1>2, <1>4, <1>5, <1>6, <1>7 DEF MailNext, SendStep

\* A revoked key stays revoked.
LEMMA RevokedStays ==
  ASSUME MailIInv, MailNext, NEW k \in ApiKey, apiKey[k] = "revoked"
  PROVE  apiKey'[k] = "revoked"
<1>1. ASSUME NEW s \in Send, SendBegins(s) \/ SendStep(s) \/ AbortSend(s)
      PROVE  apiKey' = apiKey
  BY <1>1 DEF SendBegins, BeginSend, BeginReply, BeginReplyWithApiKey, BeginHandler,
              SendStep, PassRateLimit, LookUpSender, LookUpInbound, ContinueWith,
              CreateEmail, HandToSmtp, MarkSent, MarkFailed, AbortSend
<1>2. ASSUME NEW l \in ApiKey, CreateApiKey(l) \/ RevokeApiKey(l)
      PROVE  apiKey'[k] = "revoked"
  BY <1>2 DEF CreateApiKey, RevokeApiKey, MailIInv, MailTypeOK
<1>3. CASE DomainSide \/ NextMinute \/ \E d \in DomainId : DomainDeleted(d)
  BY <1>3 DEF DomainSide, sendVars, NextMinute, DomainDeleted
<1>4. QED
  BY <1>1, <1>2, <1>3 DEF MailNext

\* Revoking a key and closing a domain's gate take hold as soon as the handlers
\* that were past the check have ended: no later step acts for the key, or sends
\* from the domain before its gate opens again.
THEOREM MailClosingTakesHold == MailSpec => ClosingTakesHold
<1> DEFINE Held ==
      /\ \A k \in ApiKey :
           apiKey[k] = "revoked" /\ (\A s \in Send : send[s].key # k)
             => apiKey'[k] = "revoked" /\ \A s \in Send : send'[s].key # k
      /\ \A d \in DomainId :
           /\ ~domain[d].sendingEnabled /\ ~domain'[d].sendingEnabled
           /\ \A s \in Send : send[s].domain # d
           => \A s \in Send : send'[s].domain # d
<1>1. ASSUME MailIInv, MailNext
      PROVE  Held
  <2>1. ASSUME NEW k \in ApiKey, apiKey[k] = "revoked", \A s \in Send : send[s].key # k
        PROVE  apiKey'[k] = "revoked" /\ \A s \in Send : send'[s].key # k
    BY <1>1, <2>1, HandlerTakes, RevokedStays DEF Authenticated
  <2>2. ASSUME NEW d \in DomainId, ~domain[d].sendingEnabled,
               \A s \in Send : send[s].domain # d
        PROVE  \A s \in Send : send'[s].domain # d
    BY <1>1, <2>2, HandlerTakes
  <2>3. QED
    BY <2>1, <2>2
<1>2. MailIInv /\ [MailNext]_mailVars => [Held]_mailVars
  BY <1>1
<1>3. QED
  BY <1>2, MailInvariance, PTL DEF MailSpec, ClosingTakesHold

-----------------------------------------------------------------------------
(***************************************************************************)
(* MailSend implements Outbox.  The refinement mapping is that of Contract *)
(* in MailSend: the status of each row, how often the server took it, and  *)
(* the handlers that hold it.                                              *)
(***************************************************************************)
Status  == [e \in EmailId |-> email[e].status]
Hands   == [e \in EmailId |-> {s \in Send : send[s].email = e}]
Trusted == Faults \intersect {"database", "crash"} = {}

\* A step that leaves statuses, the server and every handler's message alone.
LEMMA OutboxStutters ==
  ASSUME \A e \in EmailId : email'[e].status = email[e].status,
         \A s \in Send : send'[s].email = send[s].email,
         accepted' = accepted
  PROVE  UNCHANGED Contract!outVars
<1>1. Hands' = Hands
  BY DEF Hands
<1>2. Status' = Status
  BY DEF Status
<1>3. QED
  BY <1>1, <1>2 DEF Status, Hands, Contract!outVars

\* The handler of a message lets go of it.
LEMMA HandEmpties ==
  ASSUME MailIInv, NEW s \in Send, send[s].pc \in WithMessage,
         NEW h, h.email = NoEmail, send' = [send EXCEPT ![s] = h]
  PROVE  /\ send[s].email \in EmailId /\ s \in Hands[send[s].email]
         /\ Hands' = [Hands EXCEPT ![send[s].email] = {}]
<1>1. PICK e \in EmailId : e = send[s].email /\ e # NoEmail /\ \A t \in Send \ {s} : send[t].email # e
  BY HolderHasMessage
<1>2. send'[s] = h /\ \A t \in Send \ {s} : send'[t] = send[t]
  BY DEF MailIInv, MailTypeOK
<1>3. ASSUME NEW f \in EmailId
      PROVE  {t \in Send : send'[t].email = f} = IF f = e THEN {} ELSE {t \in Send : send[t].email = f}
  BY <1>1, <1>2
<1>4. Hands' = [f \in EmailId |-> IF f = e THEN {} ELSE {t \in Send : send[t].email = f}]
  BY <1>3 DEF Hands
<1>5. Hands' = [Hands EXCEPT ![e] = {}]
  BY <1>4 DEF Hands
<1>6. QED
  BY <1>1, <1>5 DEF Hands

\* A handler goes on with its message.
LEMMA HandStays ==
  ASSUME MailIInv, NEW s \in Send, NEW pc, send' = [send EXCEPT ![s].pc = pc]
  PROVE  /\ \A t \in Send : send'[t].email = send[t].email
         /\ Hands' = Hands
<1>1. \A t \in Send : send[t] \in SendState
  BY DEF MailIInv, MailTypeOK
<1>2. \A t \in Send : send'[t].email = send[t].email
  BY <1>1 DEF MailIInv, MailTypeOK, SendState
<1>3. QED
  BY <1>2 DEF Hands

\* The status of a row that was recorded.
LEMMA StatusRecorded ==
  ASSUME MailIInv, NEW e \in EmailId, NEW status \in {"sent", "failed"},
         email' = Recorded(e, status)
  PROVE  Status' = [Status EXCEPT ![e] = status]
<1>1. email'[e].status = status /\ \A f \in EmailId \ {e} : email'[f] = email[f]
  BY RecordedRow
<1>2. \A f \in EmailId : email'[f].status = IF f = e THEN status ELSE email[f].status
  BY <1>1
<1>3. Status' = [f \in EmailId |-> IF f = e THEN status ELSE email[f].status]
  BY <1>2 DEF Status
<1>4. QED
  BY <1>3 DEF Status

\* How the steps of a handler map to steps of the outbox.
LEMMA CreateIsQueue ==
  ASSUME MailIInv, NEW s \in Send, CreateEmail(s)
  PROVE  [Contract!OutNext]_(Contract!outVars)
<1>1. send[s] \in SendState /\ send[s].email = NoEmail /\ accepted' = accepted
  BY DEF CreateEmail, SendAt, MailIInv, MailTypeOK, HandlersFit, HandlerFits, WithMessage
<1>2. CASE send' = [send EXCEPT ![s] = IdleSend] /\ UNCHANGED email
  <2>1. \A t \in Send : send'[t].email = send[t].email
    BY <1>1, <1>2, IdleHolds DEF MailIInv, MailTypeOK
  <2>2. QED
    BY <1>1, <1>2, <2>1, OutboxStutters
<1>3. ASSUME NEW e \in EmailId, email[e].status = "none",
             email' = [email EXCEPT ![e] =
               [status |-> "queued", log |-> <<"queued">>, user |-> send[s].user,
                from |-> send[s].from, domain |-> send[s].domain]],
             send' = [send EXCEPT ![s].pc = "smtp", ![s].email = e]
      PROVE  Contract!OutNext
  <2>1. Status[e] = "none" /\ Status' = [Status EXCEPT ![e] = "queued"]
    BY <1>3 DEF Status, MailIInv, MailTypeOK
  <2>2. \A t \in Send : send[t].email # e
    BY <1>3 DEF MailIInv, RowsFit, RowFits
  <2>3. send'[s].email = e /\ \A t \in Send \ {s} : send'[t].email = send[t].email
    BY <1>1, <1>3 DEF MailIInv, MailTypeOK, SendState
  <2>4. ASSUME NEW f \in EmailId
        PROVE  {t \in Send : send'[t].email = f} = IF f = e THEN {s} ELSE {t \in Send : send[t].email = f}
    BY <1>1, <2>2, <2>3
  <2>5. Hands' = [f \in EmailId |-> IF f = e THEN {s} ELSE {t \in Send : send[t].email = f}]
    BY <2>4 DEF Hands
  <2>6. Hands' = [Hands EXCEPT ![e] = {s}]
    BY <2>5 DEF Hands
  <2>7. Contract!Queue(e, s)
    BY <1>1, <2>1, <2>6 DEF Contract!Queue, Status, Hands
  <2>8. QED
    BY <2>7 DEF Contract!OutNext
<1>4. QED
  BY <1>2, <1>3 DEF CreateEmail

LEMMA SmtpIsTake ==
  ASSUME MailIInv, NEW s \in Send, HandToSmtp(s)
  PROVE  [Contract!OutNext]_(Contract!outVars)
<1>1. PICK e \in EmailId :
        /\ e = send[s].email /\ email[e].status = "queued" /\ accepted[e] = 0
  BY HolderHasMessage DEF HandToSmtp, SendAt, WithMessage, InHand
<1>2. UNCHANGED email /\ Status' = Status
  BY DEF HandToSmtp, Status
<1>3. /\ \A t \in Send : send'[t].email = send[t].email
      /\ Hands' = Hands
  BY HandStays DEF HandToSmtp
<1>4. CASE accepted' = accepted
  BY <1>2, <1>3, <1>4, OutboxStutters
<1>5. CASE accepted' = [accepted EXCEPT ![e] = @ + 1]
  <2>1. accepted' = [accepted EXCEPT ![e] = 1]
    BY <1>1, <1>5
  <2>2. s \in Hands[e] /\ Status[e] = "queued"
    BY <1>1 DEF Hands, Status
  <2>3. Contract!Take(e, s)
    BY <1>1, <1>2, <1>3, <2>1, <2>2 DEF Contract!Take, Status, Hands
  <2>4. QED
    BY <2>3 DEF Contract!OutNext
<1>6. QED
  BY <1>1, <1>4, <1>5 DEF HandToSmtp

LEMMA MarkSentIsRecordSent ==
  ASSUME MailIInv, NEW s \in Send, MarkSent(s)
  PROVE  [Contract!OutNext]_(Contract!outVars)
<1>1. PICK e \in EmailId :
        /\ e = send[s].email /\ email[e].status = "queued" /\ accepted[e] = 1
        /\ send[s].pc \in WithMessage
  BY HolderHasMessage DEF MarkSent, SendAt, WithMessage, InHand
<1>2. s \in Hands[e] /\ Status[e] = "queued" /\ accepted' = accepted
  BY <1>1 DEF Hands, Status, MarkSent
<1>3. CASE email' = Recorded(e, "sent") /\ send' = [send EXCEPT ![s] = IdleSend]
  <2>1. Hands' = [Hands EXCEPT ![e] = {}]
    BY <1>1, <1>3, HandEmpties, IdleHolds
  <2>2. Status' = [Status EXCEPT ![e] = "sent"]
    BY <1>3, StatusRecorded
  <2>3. Contract!RecordSent(e, s)
    BY <1>1, <1>2, <2>1, <2>2 DEF Contract!RecordSent, Status, Hands
  <2>4. QED
    BY <2>3 DEF Contract!OutNext
<1>4. CASE /\ "database" \in Faults
           /\ email' = Recorded(e, "sent")
           /\ send' = [send EXCEPT ![s].pc = "markFailed"]
  <2>1. Hands' = Hands
    BY <1>4, HandStays
  <2>2. Status' = [Status EXCEPT ![e] = "sent"]
    BY <1>4, StatusRecorded
  <2>3. ~Trusted
    BY <1>4 DEF Trusted
  <2>4. Contract!RecordSent(e, s)
    BY <1>1, <1>2, <2>1, <2>2, <2>3 DEF Contract!RecordSent, Status, Hands, Trusted
  <2>5. QED
    BY <2>4 DEF Contract!OutNext
<1>5. CASE email' = email /\ send' = [send EXCEPT ![s].pc = "markFailed"]
  BY <1>2, <1>5, HandStays, OutboxStutters
<1>6. QED
  BY <1>1, <1>3, <1>4, <1>5 DEF MarkSent

LEMMA MarkFailedIsRecordFailed ==
  ASSUME MailIInv, NEW s \in Send, MarkFailed(s)
  PROVE  [Contract!OutNext]_(Contract!outVars)
<1>1. PICK e \in EmailId :
        /\ e = send[s].email /\ send[s].pc \in WithMessage
        /\ email[e].status = "queued" \/ "database" \in Faults
  BY HolderHasMessage DEF MarkFailed, SendAt, WithMessage, InHand
<1>2. s \in Hands[e] /\ accepted' = accepted
  BY <1>1 DEF Hands, MarkFailed
<1>3. Hands' = [Hands EXCEPT ![e] = {}]
  BY <1>1, HandEmpties, IdleHolds DEF MarkFailed
<1>4. Trusted => Status[e] = "queued"
  BY <1>1 DEF Trusted, Status
<1>5. CASE email' = Recorded(e, "failed")
  <2>1. Status' = [Status EXCEPT ![e] = "failed"]
    BY <1>5, StatusRecorded
  <2>2. Contract!RecordFailed(e, s)
    BY <1>2, <1>3, <1>4, <2>1 DEF Contract!RecordFailed, Status, Hands, Trusted
  <2>3. QED
    BY <2>2 DEF Contract!OutNext
<1>6. CASE "database" \in Faults /\ UNCHANGED email
  <2>1. ~Trusted /\ Status' = Status
    BY <1>6 DEF Trusted, Status
  <2>2. Contract!LetGo(e, s)
    BY <1>2, <1>3, <2>1 DEF Contract!LetGo, Status, Hands, Trusted
  <2>3. QED
    BY <2>2 DEF Contract!OutNext
<1>7. QED
  BY <1>1, <1>5, <1>6 DEF MarkFailed

\* A handler that dies lets go of its message, if it has one.
LEMMA AbortIsLetGo ==
  ASSUME MailIInv, NEW s \in Send, AbortSend(s)
  PROVE  [Contract!OutNext]_(Contract!outVars)
<1>1. UNCHANGED <<email, accepted>> /\ send' = [send EXCEPT ![s] = IdleSend]
  BY DEF AbortSend
<1>2. CASE send[s].pc \in WithMessage
  <2>1. PICK e \in EmailId : e = send[s].email
    BY <1>2, HolderHasMessage
  <2>2. s \in Hands[e] /\ Hands' = [Hands EXCEPT ![e] = {}]
    BY <1>1, <1>2, <2>1, HandEmpties, IdleHolds
  <2>3. ~Trusted /\ Status' = Status
    BY <1>1, <1>2 DEF AbortSend, WithMessage, Trusted, Status
  <2>4. Contract!LetGo(e, s)
    BY <1>1, <2>2, <2>3 DEF Contract!LetGo, Status, Hands, Trusted
  <2>5. QED
    BY <2>4 DEF Contract!OutNext
<1>3. CASE send[s].pc \notin WithMessage
  <2>1. send[s].email = NoEmail
    BY <1>3 DEF MailIInv, HandlersFit, HandlerFits
  <2>2. \A t \in Send : send'[t].email = send[t].email
    BY <1>1, <2>1, IdleHolds DEF MailIInv, MailTypeOK
  <2>3. QED
    BY <1>1, <2>2, OutboxStutters
<1>4. QED
  BY <1>2, <1>3

\* No other step touches statuses, the server, or what a handler has in hand.
LEMMA OthersStutter ==
  ASSUME MailIInv,
         \/ DomainSide \/ NextMinute
         \/ \E d \in DomainId : DomainDeleted(d)
         \/ \E k \in ApiKey : CreateApiKey(k) \/ RevokeApiKey(k)
         \/ \E s \in Send : SendBegins(s) \/ PassRateLimit(s) \/ LookUpSender(s)
                              \/ LookUpInbound(s)
  PROVE  UNCHANGED Contract!outVars
<1>1. \A t \in Send : send[t] \in SendState
  BY DEF MailIInv, MailTypeOK
<1>2. CASE \/ DomainSide \/ NextMinute
           \/ \E k \in ApiKey : CreateApiKey(k) \/ RevokeApiKey(k)
  BY <1>2, OutboxStutters DEF DomainSide, sendVars, NextMinute, CreateApiKey, RevokeApiKey
<1>3. ASSUME NEW d \in DomainId, DomainDeleted(d)
      PROVE  UNCHANGED Contract!outVars
  <2>1. ASSUME NEW e \in EmailId
        PROVE  email'[e].status = email[e].status
    <3>1. email[e] \in EmailRow
      BY DEF MailIInv, MailTypeOK
    <3>2. email'[e] \in {email[e], [email[e] EXCEPT !.domain = NoDomain]}
      BY <1>3 DEF DomainDeleted, Detached
    <3>3. QED
      BY <3>1, <3>2 DEF EmailRow
  <2>2. UNCHANGED <<send, accepted>>
    BY <1>3 DEF DomainDeleted
  <2>3. QED
    BY <2>1, <2>2, OutboxStutters
<1>4. ASSUME NEW s \in Send, send[s].email = NoEmail, UNCHANGED <<email, accepted>>,
             NEW h, h.email = NoEmail, send' = [send EXCEPT ![s] = h]
      PROVE  UNCHANGED Contract!outVars
  <2>1. \A t \in Send : send'[t].email = send[t].email
    BY <1>4 DEF MailIInv, MailTypeOK
  <2>2. QED
    BY <1>4, <2>1, OutboxStutters
<1>5. ASSUME NEW s \in Send, SendBegins(s)
      PROVE  UNCHANGED Contract!outVars
  <2>1. ASSUME NEW h, BeginHandler(s, h), h.email = NoEmail
        PROVE  UNCHANGED Contract!outVars
    <3>1. send[s].email = NoEmail
      BY <2>1 DEF BeginHandler, SendAt, MailIInv, HandlersFit, HandlerFits, WithMessage
    <3>2. QED
      BY <1>4, <2>1, <3>1 DEF BeginHandler
  <2>2. ASSUME NEW k \in ApiKey, NEW n \in Name, BeginSend(s, k, n)
        PROVE  UNCHANGED Contract!outVars
    <3> DEFINE h == [IdleSend EXCEPT !.pc = "limit", !.key = k,
                                     !.user = KeyOwner[k], !.from = n]
    <3>1. BeginHandler(s, h) /\ h.email = NoEmail
      BY <2>2, IdleHolds DEF BeginSend, SendState
    <3> HIDE DEF h
    <3>2. QED
      BY <2>1, <3>1
  <2>3. ASSUME NEW u \in User, NEW i \in Inbound, NEW n \in Name, BeginReply(s, u, i, n)
        PROVE  UNCHANGED Contract!outVars
    <3> DEFINE h == [IdleSend EXCEPT !.pc = "inbound", !.user = u, !.from = n, !.inbound = i]
    <3>1. BeginHandler(s, h) /\ h.email = NoEmail
      BY <2>3, IdleHolds DEF BeginReply, SendState
    <3> HIDE DEF h
    <3>2. QED
      BY <2>1, <3>1
  <2>4. ASSUME NEW k \in ApiKey, NEW i \in Inbound, NEW n \in Name,
               BeginReplyWithApiKey(s, k, i, n)
        PROVE  UNCHANGED Contract!outVars
    <3> DEFINE h == [IdleSend EXCEPT !.pc = "inbound", !.key = k, !.user = KeyOwner[k],
                                     !.from = n, !.inbound = i]
    <3>1. BeginHandler(s, h) /\ h.email = NoEmail
      BY <2>4, IdleHolds DEF BeginReplyWithApiKey, SendState
    <3> HIDE DEF h
    <3>2. QED
      BY <2>1, <3>1
  <2>5. QED
    BY <1>5, <2>2, <2>3, <2>4 DEF SendBegins
<1>6. ASSUME NEW s \in Send, PassRateLimit(s) \/ LookUpSender(s) \/ LookUpInbound(s)
      PROVE  UNCHANGED Contract!outVars
  <2>1. send[s].email = NoEmail
    BY <1>6 DEF PassRateLimit, LookUpSender, LookUpInbound, SendAt, MailIInv, HandlersFit,
                HandlerFits, WithMessage
  <2>2. /\ UNCHANGED <<email, accepted>>
        /\ \/ send' = [send EXCEPT ![s] = IdleSend]
           \/ \E pc : send' = [send EXCEPT ![s].pc = pc]
           \/ \E pc, d : send' = [send EXCEPT ![s].pc = pc, ![s].domain = d]
    BY <1>6 DEF PassRateLimit, LookUpSender, LookUpInbound, ContinueWith
  <2>3. CASE send' = [send EXCEPT ![s] = IdleSend]
    BY <1>4, <2>1, <2>2, <2>3, IdleHolds
  <2>4. ASSUME NEW pc, send' = [send EXCEPT ![s].pc = pc]
        PROVE  UNCHANGED Contract!outVars
    BY <2>2, <2>4, HandStays, OutboxStutters
  <2>5. ASSUME NEW pc, NEW d, send' = [send EXCEPT ![s].pc = pc, ![s].domain = d]
        PROVE  UNCHANGED Contract!outVars
    <3>1. \A t \in Send : send'[t].email = send[t].email
      BY <1>1, <2>5 DEF MailIInv, MailTypeOK, SendState
    <3>2. QED
      BY <2>2, <3>1, OutboxStutters
  <2>6. QED
    BY <2>2, <2>3, <2>4, <2>5
<1>7. QED
  BY <1>2, <1>3, <1>5, <1>6

\* Sending keeps the promises of Outbox: a message stays in the hands of the one
\* handler that queued it, reaches the SMTP server once at most, is "sent" only
\* if the server took it and, while neither the process nor the database fails,
\* never leaves those hands without an outcome.
THEOREM MailImplementsOutbox == MailSpec => OutboxKept
<1>1. MailInit => Contract!OutInit
  <2> SUFFICES ASSUME MailInit
               PROVE  Contract!OutInit
    OBVIOUS
  <2>1. \A e \in EmailId : email[e].status = "none" /\ {s \in Send : send[s].email = e} = {}
    BY IdleHolds DEF MailInit, NoMessage
  <2>2. QED
    BY <2>1 DEF MailInit, Contract!OutInit
<1>2. MailIInv /\ [MailNext]_mailVars => [Contract!OutNext]_(Contract!outVars)
  <2> SUFFICES ASSUME MailIInv, [MailNext]_mailVars
               PROVE  [Contract!OutNext]_(Contract!outVars)
    OBVIOUS
  <2>1. ASSUME NEW s \in Send, SendStep(s) \/ AbortSend(s)
        PROVE  [Contract!OutNext]_(Contract!outVars)
    BY <2>1, OthersStutter, CreateIsQueue, SmtpIsTake, MarkSentIsRecordSent,
       MarkFailedIsRecordFailed, AbortIsLetGo DEF SendStep
  <2>2. CASE MailNext
    BY <2>1, <2>2, OthersStutter DEF MailNext
  <2>3. CASE UNCHANGED mailVars
    BY <2>3, OutboxStutters DEF mailVars, sendVars
  <2>4. QED
    BY <2>2, <2>3
<1>3. QED
  BY <1>1, <1>2, MailInvariance, PTL DEF MailSpec, OutboxKept, Contract!OutSpec

\* Whoever keeps the promises of Outbox, and be it not MailSend, sends no message
\* twice, calls none "sent" that the server does not have, and forgets none while
\* no handler dies.
THEOREM OutboxSendsOnce == OutboxKept => []Contract!SentOnce
<1> DEFINE careful == Faults \intersect {"database", "crash"} = {}
           status == [e \in EmailId |-> email[e].status]
           hands == [e \in EmailId |-> {s \in Send : send[s].email = e}]
           Fits == /\ accepted \in [EmailId -> {0, 1}]
                   /\ \A e \in EmailId : /\ status[e] = "sent" => accepted[e] = 1
                                         /\ careful /\ status[e] = "queued" => hands[e] # {}
<1>0. careful' = careful
  OBVIOUS
<1>1. Contract!OutInit => Fits
  BY DEF Contract!OutInit
<1>2. Fits /\ [Contract!OutNext]_(Contract!outVars) => Fits'
  <2> SUFFICES ASSUME Fits, [Contract!OutNext]_(Contract!outVars)
               PROVE  Fits'
    OBVIOUS
  <2>1. ASSUME NEW e \in EmailId, NEW s \in Send, Contract!Queue(e, s)
        PROVE  Fits'
    <3>1. /\ \A f \in EmailId : status'[f] = IF f = e THEN "queued" ELSE status[f]
          /\ \A f \in EmailId : hands'[f] = IF f = e THEN {s} ELSE hands[f]
          /\ UNCHANGED accepted
      BY <2>1 DEF Contract!Queue
    <3> HIDE DEF status, hands, careful
    <3> QED BY <1>0, <3>1
  <2>2. ASSUME NEW e \in EmailId, NEW s \in Send, Contract!Take(e, s)
        PROVE  Fits'
    <3>1. /\ accepted' = [accepted EXCEPT ![e] = 1]
          /\ UNCHANGED <<status, hands>>
      BY <2>2 DEF Contract!Take
    <3> HIDE DEF status, hands, careful
    <3> QED BY <1>0, <3>1
  <2>3. ASSUME NEW e \in EmailId, NEW s \in Send, Contract!RecordSent(e, s)
        PROVE  Fits'
    <3>1. /\ \A f \in EmailId : status'[f] = IF f = e THEN "sent" ELSE status[f]
          /\ accepted[e] = 1
          /\ \A f \in EmailId \ {e} : hands'[f] = hands[f]
          /\ UNCHANGED accepted
      BY <2>3 DEF Contract!RecordSent
    <3> HIDE DEF status, hands, careful
    <3> QED BY <1>0, <3>1
  <2>4. ASSUME NEW e \in EmailId, NEW s \in Send, Contract!RecordFailed(e, s)
        PROVE  Fits'
    <3>1. /\ \A f \in EmailId : status'[f] = IF f = e THEN "failed" ELSE status[f]
          /\ \A f \in EmailId \ {e} : hands'[f] = hands[f]
          /\ UNCHANGED accepted
      BY <2>4 DEF Contract!RecordFailed
    <3> HIDE DEF status, hands, careful
    <3> QED BY <1>0, <3>1
  <2>5. ASSUME NEW e \in EmailId, NEW s \in Send, Contract!LetGo(e, s)
        PROVE  Fits'
    <3>1. ~careful /\ UNCHANGED <<status, accepted>>
      BY <2>5 DEF Contract!LetGo
    <3> HIDE DEF status, hands, careful
    <3> QED BY <1>0, <3>1
  <2>6. CASE UNCHANGED Contract!outVars
    <3>1. UNCHANGED <<status, hands, accepted>>
      BY <2>6 DEF Contract!outVars
    <3> HIDE DEF status, hands, careful
    <3> QED BY <1>0, <3>1
  <2> QED BY <2>1, <2>2, <2>3, <2>4, <2>5, <2>6 DEF Contract!OutNext
<1>3. Fits => Contract!SentOnce
  BY DEF Contract!SentOnce
<1> HIDE DEF Fits
<1> QED BY <1>1, <1>2, <1>3, PTL DEF OutboxKept, Contract!OutSpec
=============================================================================
