--------------------------- MODULE DomainLifecycle ---------------------------
(***************************************************************************)
(* The lifecycle of a sending domain: MailService.createDomain,            *)
(* deleteDomain, verifyDomain (for the user and for the admin),            *)
(* suspendDomain, unsuspendDomain and provisionDomainForAdmin, with the    *)
(* mail engine (Mailu) and the public DNS as external parties.             *)
(*                                                                         *)
(* Every HTTP handler runs as a request: its awaits (DNS, engine, each     *)
(* database statement) are separate steps, so handlers interleave exactly  *)
(* where the event loop lets them.  A single database statement is atomic. *)
(***************************************************************************)
EXTENDS Naturals, FiniteSets

CONSTANTS
  User,              \* tenants
  Name,              \* domain names
  DomainId,          \* primary keys of domain rows; a key is used once
  OwnerOf,           \* the user a domain row is created for
  NameOf,            \* the name a domain row is created with
  Request,           \* handler activations that may be in flight together
  Purpose,           \* REQUIRED_DNS_PURPOSES: the records verification needs
  EngineConfigured,  \* configuredForMailu()
  NoDomain           \* the domain of an idle request

ASSUME DomainAssumption ==
  /\ OwnerOf \in [DomainId -> User]
  /\ NameOf \in [DomainId -> Name]
  /\ EngineConfigured \in BOOLEAN
  /\ NoDomain \notin DomainId

VARIABLES
  domain,     \* the domain rows, with the dns_record rows they own
  request,    \* the domain handlers in flight
  published,  \* external: the required DNS records each name's owner has put up
  mailu       \* external: the domain names the mail engine knows

domainVars == <<domain, request, published, mailu>>

VerificationStatus == {"pending", "verified", "failed"}
DomainStatus == VerificationStatus \union {"suspended"}
EngineStatus == {"manual", "provisioned", "failed"}

(***************************************************************************)
(* suspendedAt is kept as "is it set"; times, errors and engine ids are    *)
(* dropped.  The dkim record is left out: it is created "pending" and only *)
(* ever written "pending".                                                 *)
(***************************************************************************)
DomainRow ==
  [state              : {"unused", "live", "deleted"},
   status             : DomainStatus,
   verificationStatus : VerificationStatus,
   sendingEnabled     : BOOLEAN,
   suspendedAt        : BOOLEAN,
   engineStatus       : EngineStatus,
   dns                : [Purpose -> VerificationStatus]]

NewRow(state, engineStatus) ==
  [state |-> state, status |-> "pending", verificationStatus |-> "pending",
   sendingEnabled |-> FALSE, suspendedAt |-> FALSE,
   engineStatus |-> engineStatus, dns |-> [p \in Purpose |-> "pending"]]

Operation == {"idle", "create", "verify", "unsuspend", "provision"}

\* What a handler holds in its local variables across its awaits.
RequestState ==
  [op     : Operation,
   pc     : {"idle", "dns", "engine", "records", "stray", "write"},
   id     : DomainId \union {NoDomain},
   ok     : SUBSET Purpose,        \* the result of verifyDns
   engine : EngineStatus,          \* the status of the engine call
   todo   : SUBSET Purpose,        \* updateMany calls of Promise.all not done
   seen   : VerificationStatus]    \* verificationStatus read by unsuspend

Idle ==
  [op |-> "idle", pc |-> "idle", id |-> NoDomain, ok |-> {},
   engine |-> "manual", todo |-> {}, seen |-> "pending"]

Live(d) == domain[d].state = "live"

At(r, pc) == request[r].pc = pc

DomainInit ==
  /\ domain = [d \in DomainId |-> NewRow("unused", "manual")]
  /\ request = [r \in Request |-> Idle]
  /\ published = [n \in Name |-> {}]
  /\ mailu = {}

-----------------------------------------------------------------------------
(***************************************************************************)
(* Handlers start.  A handler that finds no row answers 404 and changes    *)
(* nothing, so only the successful reads are actions.                      *)
(***************************************************************************)
Begin(r, op, pc, d, seen) ==
  /\ At(r, "idle")
  /\ request' = [request EXCEPT ![r] =
                   [Idle EXCEPT !.op = op, !.pc = pc, !.id = d, !.seen = seen]]
  /\ UNCHANGED <<domain, published, mailu>>

\* createDomain: the engine is called before the row (and its fresh id) exists.
BeginCreate(r, d) ==
  /\ domain[d].state = "unused"
  /\ \A q \in Request : request[q].id # d
  /\ Begin(r, "create", "engine", d, "pending")

BeginVerify(r, d)    == Live(d) /\ Begin(r, "verify", "dns", d, "pending")
BeginProvision(r, d) == Live(d) /\ Begin(r, "provision", "engine", d, "pending")

\* Only unsuspendDomain uses a value of the row it has read.
BeginUnsuspend(r, d) ==
  Live(d) /\ Begin(r, "unsuspend", "write", d, domain[d].verificationStatus)

(***************************************************************************)
(* verifyDns: three lookups, one after the other; one that throws counts   *)
(* as a missing record.  A lookup can succeed only for a record the owner  *)
(* has put up; it may fail at any time (not propagated, removed, timeout). *)
(***************************************************************************)
ResolveDns(r) ==
  /\ At(r, "dns")
  /\ \E ok \in SUBSET published[NameOf[request[r].id]] :
       request' = [request EXCEPT ![r].ok = ok, ![r].pc = "engine"]
  /\ UNCHANGED <<domain, published, mailu>>

(***************************************************************************)
(* MailEngineService.provisionDomain never throws: an unconfigured engine  *)
(* is "manual", an error is "failed".  A failed call may have reached the  *)
(* engine (its answer was lost) or not.                                    *)
(***************************************************************************)
EngineAnswers(status, name) ==
  \/ /\ ~EngineConfigured
     /\ status = "manual"
     /\ UNCHANGED mailu
  \/ /\ EngineConfigured
     /\ status = "provisioned"
     /\ mailu' = mailu \union {name}
  \/ /\ EngineConfigured
     /\ status = "failed"
     /\ mailu' \in {mailu, mailu \union {name}}

ProvisionEngine(r) ==
  /\ At(r, "engine")
  /\ \E status \in EngineStatus :
       /\ EngineAnswers(status, NameOf[request[r].id])
       /\ request' = [request EXCEPT
            ![r].engine = status,
            ![r].pc   = IF request[r].op = "verify" THEN "records" ELSE "write",
            ![r].todo = IF request[r].op = "verify" THEN Purpose ELSE {}]
  /\ UNCHANGED <<domain, published>>

\* Mutant: any record found counts for every record.
RecordResultAny(ok, p) == IF ok # {} THEN "verified" ELSE "failed"

\* The status verifyDomain gives one record.
RecordResult(ok, p) == IF p \in ok THEN "verified" ELSE "failed"

\* The updateMany calls of Promise.all are under way, also after one has thrown.
WritingRecords(r) == At(r, "records") \/ At(r, "stray")

\* One of the parallel updateMany calls; it matches nothing once the row is gone.
WriteRecord(r, p) ==
  /\ WritingRecords(r)
  /\ p \in request[r].todo
  /\ request' = [request EXCEPT ![r].todo = @ \ {p}]
  /\ domain' = IF Live(request[r].id)
               THEN [domain EXCEPT ![request[r].id].dns[p] = RecordResult(request[r].ok, p)]
               ELSE domain
  /\ UNCHANGED <<published, mailu>>

\* One throws: the handler answers with the error, the others go on without it.
RecordThrows(r, p) ==
  /\ WritingRecords(r)
  /\ p \in request[r].todo
  /\ request' = [request EXCEPT ![r].todo = @ \ {p}, ![r].pc = "stray"]
  /\ UNCHANGED <<domain, published, mailu>>

RecordsWritten(r) ==
  /\ WritingRecords(r)
  /\ request[r].todo = {}
  /\ request' = IF At(r, "stray") THEN [request EXCEPT ![r] = Idle]
                ELSE [request EXCEPT ![r].pc = "write"]
  /\ UNCHANGED <<domain, published, mailu>>

-----------------------------------------------------------------------------
(***************************************************************************)
(* The last statement of each handler.  update() on a deleted row throws   *)
(* P2025 and writes nothing; either way the handler ends.                  *)
(***************************************************************************)
\* Mutant: upsert where the code has update.
FinishUpserts(r, op, row) ==
  /\ At(r, "write")
  /\ request[r].op = op
  /\ request' = [request EXCEPT ![r] = Idle]
  /\ domain' = [domain EXCEPT ![request[r].id] = [row EXCEPT !.state = "live"]]
  /\ UNCHANGED <<published, mailu>>

Finish(r, op, row) ==
  /\ At(r, "write")
  /\ request[r].op = op
  /\ request' = [request EXCEPT ![r] = Idle]
  /\ domain' = IF Live(request[r].id)
               THEN [domain EXCEPT ![request[r].id] = row]
               ELSE domain
  /\ UNCHANGED <<published, mailu>>

SameOwnerAndName(d, e) == OwnerOf[d] = OwnerOf[e] /\ NameOf[d] = NameOf[e]

\* The unique index on (userId, name).
Taken(d) == \E e \in DomainId : Live(e) /\ SameOwnerAndName(d, e)

\* prisma.domain.create: the unique index refuses a second row.
FinishCreate(r) ==
  LET d == request[r].id
  IN  /\ At(r, "write")
      /\ request[r].op = "create"
      /\ request' = [request EXCEPT ![r] = Idle]
      /\ domain' = IF Taken(d) THEN domain
                   ELSE [domain EXCEPT ![d] = NewRow("live", request[r].engine)]
      /\ UNCHANGED <<published, mailu>>

RequiredVerified(ok) == Purpose \subseteq ok

\* Mutant: a failed verification leaves the gate as it was.
VerifyWritesGateKept(row, ok, engine) ==
  LET outcome == IF RequiredVerified(ok) THEN "verified" ELSE "failed"
  IN  [row EXCEPT !.status = outcome,
                  !.verificationStatus = outcome,
                  !.sendingEnabled = @ \/ RequiredVerified(ok),
                  !.engineStatus = engine]

\* The update verifyDomain writes: a failed verification leaves suspendedAt.
VerifyWrites(row, ok, engine) ==
  LET outcome == IF RequiredVerified(ok) THEN "verified" ELSE "failed"
  IN  [row EXCEPT !.status = outcome,
                  !.verificationStatus = outcome,
                  !.sendingEnabled = RequiredVerified(ok),
                  !.suspendedAt = @ /\ ~RequiredVerified(ok),
                  !.engineStatus = engine]

FinishVerify(r) ==
  Finish(r, "verify", VerifyWrites(domain[request[r].id], request[r].ok,
                                   request[r].engine))

\* Mutant: lifting a suspension opens the gate whatever verification says.
UnsuspendWritesOpenGate(row, seen) ==
  [row EXCEPT !.status = "verified", !.sendingEnabled = TRUE, !.suspendedAt = FALSE]

\* The update unsuspendDomain writes from the verificationStatus it has read.
UnsuspendWrites(row, seen) ==
  [row EXCEPT !.status = seen,
              !.sendingEnabled = (seen = "verified"),
              !.suspendedAt = FALSE]

FinishUnsuspend(r) ==
  Finish(r, "unsuspend", UnsuspendWrites(domain[request[r].id], request[r].seen))

\* Mutant: a failed engine call is written down as provisioned.
FinishProvisionOptimist(r) ==
  Finish(r, "provision",
    [domain[request[r].id] EXCEPT
       !.engineStatus = IF request[r].engine = "failed" THEN "provisioned"
                        ELSE request[r].engine])

FinishProvision(r) ==
  Finish(r, "provision",
    [domain[request[r].id] EXCEPT !.engineStatus = request[r].engine])

\* suspendDomain and deleteDomain are one statement each.
SuspendDomain(d) ==
  /\ Live(d)
  /\ domain' = [domain EXCEPT ![d].status = "suspended",
                              ![d].sendingEnabled = FALSE,
                              ![d].suspendedAt = TRUE]
  /\ UNCHANGED <<request, published, mailu>>

DeleteDomain(d) ==
  /\ Live(d)
  /\ domain' = [domain EXCEPT ![d] = NewRow("deleted", "manual")]
  /\ UNCHANGED <<request, published, mailu>>

(***************************************************************************)
(* Another database call throws, or the server process dies: the handler   *)
(* ends where it is and what it has written stays.                         *)
(***************************************************************************)
AbortRequest(r) ==
  /\ ~At(r, "idle")
  /\ request' = [request EXCEPT ![r] = Idle]
  /\ UNCHANGED <<domain, published, mailu>>

\* External: the owner of a name puts up a DNS record Mail Kit asks for.
PublishRecord(n, p) ==
  /\ p \notin published[n]
  /\ published' = [published EXCEPT ![n] = @ \union {p}]
  /\ UNCHANGED <<domain, request, mailu>>

-----------------------------------------------------------------------------
\* The steps a handler in flight takes without any new input.
RequestStep(r) ==
  \/ ResolveDns(r)
  \/ ProvisionEngine(r)
  \/ \E p \in Purpose : WriteRecord(r, p) \/ RecordThrows(r, p)
  \/ RecordsWritten(r)
  \/ FinishCreate(r)
  \/ FinishVerify(r)
  \/ FinishUnsuspend(r)
  \/ FinishProvision(r)

RequestBegins(r, d) ==
  \/ BeginCreate(r, d)
  \/ BeginVerify(r, d)
  \/ BeginUnsuspend(r, d)
  \/ BeginProvision(r, d)

DomainNext ==
  \/ \E r \in Request, d \in DomainId : RequestBegins(r, d)
  \/ \E r \in Request : RequestStep(r)
  \/ \E r \in Request : AbortRequest(r)
  \/ \E d \in DomainId : SuspendDomain(d)
  \/ \E d \in DomainId : DeleteDomain(d)
  \/ \E n \in Name, p \in Purpose : PublishRecord(n, p)

DomainSpec == DomainInit /\ [][DomainNext]_domainVars

-----------------------------------------------------------------------------
(***************************************************************************)
(* Properties.                                                             *)
(***************************************************************************)

\* Rows and handler locals have the types of the schema and of the code.
DomainTypeOK ==
  /\ domain \in [DomainId -> DomainRow]
  /\ request \in [Request -> RequestState]
  /\ published \in [Name -> SUBSET Purpose]
  /\ mailu \subseteq Name

\* The four writers of a row (verify, suspend, unsuspend, create) keep its
\* sending gate consistent however they interleave: status "verified" goes with
\* sendingEnabled, and a row with suspendedAt set never has either.
GateConsistent ==
  \A d \in DomainId :
    /\ domain[d].status = "verified" <=> domain[d].sendingEnabled
    /\ domain[d].status = "suspended" => domain[d].suspendedAt
    /\ domain[d].suspendedAt => ~domain[d].sendingEnabled

\* A domain may send only if some verification found every required record:
\* no lost update, stale read or suspension cycle opens the gate without one.
SendingNeedsPublishedDns ==
  \A d \in DomainId :
    domain[d].sendingEnabled => published[NameOf[d]] = Purpose

\* What the DNS screen calls verified was really found, also when two
\* verifications of one domain mix their record updates.
RecordsTruthful ==
  \A d \in DomainId, p \in Purpose :
    domain[d].dns[p] = "verified" => p \in published[NameOf[d]]

\* A row marked provisioned names a domain the engine really holds, whatever
\* order the answers of overlapping provisioning calls are written in.
EngineTruth ==
  \A d \in DomainId :
    domain[d].engineStatus = "provisioned" => NameOf[d] \in mailu

\* Two overlapping createDomain calls of one user leave one row for a name.
OneRowPerName ==
  \A d, e \in DomainId :
    Live(d) /\ Live(e) /\ SameOwnerAndName(d, e) => d = e

\* A handler that was awaiting while its domain was deleted does not bring
\* the row back (update, not upsert).
DeletedStaysDeleted ==
  [][\A d \in DomainId :
       domain[d].state = "deleted" => domain'[d].state = "deleted"]_domainVars

\* A verification status "verified" was earned by published records.
VerifiedWasEarned ==
  \A d \in DomainId :
    domain[d].verificationStatus = "verified" => published[NameOf[d]] = Purpose

\* What a handler in flight holds is never ahead of the world: the DNS and
\* engine answers are real, the status unsuspend has read was earned.
HandlerHoldsTruth(h) ==
  /\ h.op = "verify" => h.ok \subseteq published[NameOf[h.id]]
  /\ h.op # "idle" /\ h.engine = "provisioned" => NameOf[h.id] \in mailu
  /\ h.op = "unsuspend" /\ h.seen = "verified" => published[NameOf[h.id]] = Purpose

\* Which step a handler is at fits the operation it runs and the row it works on.
HandlerAtItsStep(h) ==
  /\ h.id = NoDomain <=> h.pc = "idle"
  /\ h.op = "idle" <=> h.pc = "idle"
  /\ h.pc \in {"dns", "records", "stray"} => h.op = "verify"
  /\ h.op = "create" => domain[h.id].state = "unused"
  /\ h.op \notin {"idle", "create"} => domain[h.id].state # "unused"

\* A fresh id is held by the handler that creates it alone.
FreshIdsUnshared ==
  \A r, q \in Request :
    q # r /\ request[r].op = "create" => request[q].id # request[r].id

\* The strengthening the proofs rest on.
HandlerInv ==
  /\ VerifiedWasEarned
  /\ \A r \in Request : HandlerHoldsTruth(request[r])
  /\ \A r \in Request : HandlerAtItsStep(request[r])
  /\ FreshIdsUnshared

\* What unsuspendDomain computes from its read, taken as a property of the
\* row: a domain may send only while its verification status is "verified".
SendingMatchesVerification ==
  \A d \in DomainId :
    domain[d].sendingEnabled => domain[d].verificationStatus = "verified"
=============================================================================
