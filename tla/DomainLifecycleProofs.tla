------------------------ MODULE DomainLifecycleProofs ------------------------
(***************************************************************************)
(* Machine-checked proofs about DomainLifecycle, for every set of users,   *)
(* names, ids, handlers and required records.  The inductive invariant is  *)
(* DomainIInv; each named safety property is one of its conjuncts.         *)
(***************************************************************************)
EXTENDS DomainLifecycle, TLAPS

RowGood(row, d) ==
  /\ row.status = "verified" <=> row.sendingEnabled
  /\ row.status = "suspended" => row.suspendedAt
  /\ row.suspendedAt => ~row.sendingEnabled
  /\ row.sendingEnabled => published[NameOf[d]] = Purpose
  /\ \A p \in Purpose : row.dns[p] = "verified" => p \in published[NameOf[d]]
  /\ row.engineStatus = "provisioned" => NameOf[d] \in mailu

RowsGood == \A d \in DomainId : RowGood(domain[d], d)

DomainIInv ==
  /\ DomainTypeOK
  /\ HandlerInv
  /\ RowsGood
  /\ OneRowPerName

USE DomainAssumption

\* The initial rows, handlers and external parties satisfy the invariant.
LEMMA DomainInitInv == DomainInit => DomainIInv
  BY DEF DomainInit, DomainIInv, DomainTypeOK, HandlerInv, VerifiedWasEarned,
         HandlerHoldsTruth, HandlerAtItsStep, FreshIdsUnshared, RowsGood, RowGood, OneRowPerName,
         NewRow, Idle, DomainRow, RequestState, Operation, Live,
         VerificationStatus, DomainStatus, EngineStatus

\* A handler started by Begin is well typed.
LEMMA BeginType ==
  ASSUME DomainTypeOK, NEW r \in Request, NEW op \in Operation,
         NEW pc \in {"idle", "dns", "engine", "records", "write"},
         NEW d \in DomainId, NEW seen \in VerificationStatus,
         Begin(r, op, pc, d, seen)
  PROVE  DomainTypeOK'
<1>1. [Idle EXCEPT !.op = op, !.pc = pc, !.id = d, !.seen = seen] \in RequestState
  BY DEF Idle, RequestState, VerificationStatus, EngineStatus, Operation
<1>2. request' \in [Request -> RequestState]
  BY <1>1 DEF Begin, DomainTypeOK
<1>3. QED
  BY <1>2 DEF Begin, DomainTypeOK

\* The row a verification writes: what it keeps, and when it opens the gate.
LEMMA VerifyWritesRow ==
  ASSUME NEW row \in DomainRow, NEW ok \in SUBSET Purpose, NEW engine \in EngineStatus
  PROVE  LET new == VerifyWrites(row, ok, engine)
             outcome == IF ok = Purpose THEN "verified" ELSE "failed"
         IN  /\ new \in DomainRow
             /\ new.state = row.state /\ new.dns = row.dns
             /\ new.status = outcome /\ new.verificationStatus = outcome
             /\ new.sendingEnabled <=> ok = Purpose
             /\ new.suspendedAt <=> row.suspendedAt /\ ok # Purpose
             /\ new.engineStatus = engine
<1>1. Purpose \subseteq ok <=> ok = Purpose
  OBVIOUS
<1> DEFINE new == VerifyWrites(row, ok, engine)
           outcome == IF ok = Purpose THEN "verified" ELSE "failed"
<1>2. new = [row EXCEPT !.status = outcome, !.verificationStatus = outcome,
                        !.sendingEnabled = (ok = Purpose),
                        !.suspendedAt = @ /\ ok # Purpose, !.engineStatus = engine]
  BY <1>1 DEF VerifyWrites, RequiredVerified
<1>3. outcome \in VerificationStatus /\ outcome \in DomainStatus
  BY DEF VerificationStatus, DomainStatus
<1> HIDE DEF outcome
<1>4. PICK sends, suspended \in BOOLEAN :
        (sends <=> ok = Purpose) /\ (suspended <=> row.suspendedAt /\ ok # Purpose)
  BY DEF DomainRow
<1>5. new = [row EXCEPT !.status = outcome, !.verificationStatus = outcome,
                        !.sendingEnabled = sends, !.suspendedAt = suspended,
                        !.engineStatus = engine]
  BY <1>2, <1>4 DEF DomainRow
<1> HIDE DEF new
<1>6. QED
  BY <1>3, <1>4, <1>5 DEF DomainRow, new, outcome

\* The row unsuspendDomain writes.
LEMMA UnsuspendWritesRow ==
  ASSUME NEW row \in DomainRow, NEW seen \in VerificationStatus
  PROVE  LET new == UnsuspendWrites(row, seen)
         IN  /\ new \in DomainRow
             /\ new.state = row.state /\ new.dns = row.dns
             /\ new.status = seen
             /\ new.verificationStatus = row.verificationStatus
             /\ new.sendingEnabled <=> seen = "verified"
             /\ ~new.suspendedAt
             /\ new.engineStatus = row.engineStatus
BY DEF UnsuspendWrites, DomainRow, VerificationStatus, DomainStatus, EngineStatus

\* The row provisionDomainForAdmin writes.
LEMMA ProvisionWritesRow ==
  ASSUME NEW row \in DomainRow, NEW engine \in EngineStatus
  PROVE  LET new == [row EXCEPT !.engineStatus = engine]
         IN  /\ new \in DomainRow
             /\ new.engineStatus = engine
             /\ \A f \in DOMAIN row \ {"engineStatus"} : new[f] = row[f]
BY DEF DomainRow, VerificationStatus, DomainStatus, EngineStatus

\* So is a row rewritten by the last statement of a handler.
LEMMA FinishType ==
  ASSUME DomainTypeOK, NEW r \in Request, NEW op, NEW row \in DomainRow,
         Finish(r, op, row)
  PROVE  DomainTypeOK'
<1>1. Idle \in RequestState
  BY DEF Idle, RequestState, VerificationStatus, EngineStatus, Operation
<1>2. request' \in [Request -> RequestState]
  BY <1>1 DEF Finish, DomainTypeOK
<1>3. domain' \in [DomainId -> DomainRow]
  BY DEF Finish, DomainTypeOK
<1>4. QED
  BY <1>2, <1>3 DEF Finish, DomainTypeOK

\* What the last statement of a handler does, row by row.
LEMMA FinishEffect ==
  ASSUME DomainTypeOK, NEW r \in Request, NEW op, NEW row, Finish(r, op, row)
  PROVE  /\ request[r].op = op /\ request[r].pc = "write"
         /\ request' = [request EXCEPT ![r] = Idle]
         /\ UNCHANGED <<published, mailu>>
         /\ \A d \in DomainId :
              domain'[d] = IF d = request[r].id /\ Live(d) THEN row ELSE domain[d]
BY DEF Finish, At, DomainTypeOK, Live

\* A handler about to write holds the id of a row.
LEMMA WriterHasRow ==
  ASSUME DomainTypeOK, HandlerInv, NEW r \in Request, ~At(r, "idle")
  PROVE  /\ request[r] \in RequestState
         /\ request[r].id \in DomainId
         /\ domain[request[r].id] \in DomainRow
BY DEF DomainTypeOK, HandlerInv, HandlerAtItsStep, RequestState, At

\* Every step keeps the types.
LEMMA DomainTypeStep ==
  ASSUME DomainTypeOK, HandlerInv, [DomainNext]_domainVars
  PROVE  DomainTypeOK'
<1> USE DEF VerificationStatus, DomainStatus, EngineStatus, Operation
<1>1. ASSUME NEW r \in Request, NEW d \in DomainId, RequestBegins(r, d)
      PROVE  DomainTypeOK'
  <2>1. domain[d].verificationStatus \in VerificationStatus
    BY DEF DomainTypeOK, DomainRow
  <2>2. QED
    BY <1>1, <2>1, BeginType
    DEF RequestBegins, BeginCreate, BeginVerify, BeginUnsuspend, BeginProvision
<1>2. ASSUME NEW r \in Request, ResolveDns(r)
      PROVE  DomainTypeOK'
  <2>1. request[r] \in RequestState /\ request[r].id \in DomainId
    BY <1>2, WriterHasRow DEF ResolveDns, At
  <2>2. published[NameOf[request[r].id]] \subseteq Purpose
    BY <2>1 DEF DomainTypeOK
  <2>3. PICK ok \in SUBSET published[NameOf[request[r].id]] :
          request' = [request EXCEPT ![r].ok = ok, ![r].pc = "engine"]
    BY <1>2 DEF ResolveDns
  <2>4. [request[r] EXCEPT !.ok = ok, !.pc = "engine"] \in RequestState
    BY <2>1, <2>2, <2>3 DEF RequestState
  <2>5. request' \in [Request -> RequestState]
    BY <2>3, <2>4 DEF DomainTypeOK
  <2>6. QED
    BY <1>2, <2>5 DEF ResolveDns, DomainTypeOK
<1>3. ASSUME NEW r \in Request, ProvisionEngine(r)
      PROVE  DomainTypeOK'
  <2>1. request[r] \in RequestState /\ request[r].id \in DomainId
    BY <1>3, WriterHasRow DEF ProvisionEngine, At
  <2>2. PICK status \in EngineStatus, pc \in {"records", "write"},
             todo \in SUBSET Purpose :
          /\ EngineAnswers(status, NameOf[request[r].id])
          /\ request' = [request EXCEPT ![r].engine = status, ![r].pc = pc,
                                        ![r].todo = todo]
    <3>1. PICK pc, todo : /\ pc = IF request[r].op = "verify" THEN "records" ELSE "write"
                          /\ todo = IF request[r].op = "verify" THEN Purpose ELSE {}
      OBVIOUS
    <3>2. pc \in {"records", "write"} /\ todo \in SUBSET Purpose
      BY <3>1
    <3>3. \E status \in EngineStatus :
            /\ EngineAnswers(status, NameOf[request[r].id])
            /\ request' = [request EXCEPT ![r].engine = status, ![r].pc = pc,
                                          ![r].todo = todo]
      BY <1>3, <3>1 DEF ProvisionEngine
    <3>4. QED
      BY <3>2, <3>3
  <2>3. [request[r] EXCEPT !.engine = status, !.pc = pc, !.todo = todo]
          \in RequestState
    BY <2>1 DEF RequestState
  <2>4. request' \in [Request -> RequestState]
    BY <2>2, <2>3 DEF DomainTypeOK
  <2>5. mailu' \subseteq Name
    BY <2>1, <2>2 DEF EngineAnswers, DomainTypeOK
  <2>6. QED
    BY <1>3, <2>4, <2>5 DEF ProvisionEngine, DomainTypeOK
<1>4. ASSUME NEW r \in Request, NEW p \in Purpose, WriteRecord(r, p)
      PROVE  DomainTypeOK'
  <2>1. /\ request[r] \in RequestState
        /\ request[r].id \in DomainId
        /\ domain[request[r].id] \in DomainRow
    BY <1>4, WriterHasRow DEF WriteRecord, WritingRecords, At
  <2>2. request' \in [Request -> RequestState]
    BY <1>4, <2>1 DEF WriteRecord, RecordResult, DomainTypeOK, RequestState
  <2>3. domain' \in [DomainId -> DomainRow]
    BY <1>4, <2>1 DEF WriteRecord, RecordResult, DomainTypeOK, DomainRow
  <2>4. QED
    BY <1>4, <2>2, <2>3 DEF WriteRecord, RecordResult, DomainTypeOK
<1>4a. ASSUME NEW r \in Request, NEW p \in Purpose, RecordThrows(r, p)
       PROVE  DomainTypeOK'
  <2>1. request[r] \in RequestState /\ request[r].todo \ {p} \in SUBSET Purpose
    BY DEF DomainTypeOK, RequestState
  <2>2. \A todo \in SUBSET Purpose :
          [request[r] EXCEPT !.todo = todo, !.pc = "stray"] \in RequestState
    BY <2>1 DEF RequestState
  <2>3. request' = [request EXCEPT ![r] =
                      [request[r] EXCEPT !.todo = request[r].todo \ {p}, !.pc = "stray"]]
    BY <1>4a DEF RecordThrows
  <2>4. request' \in [Request -> RequestState]
    BY <2>1, <2>2, <2>3 DEF DomainTypeOK
  <2>5. QED
    BY <1>4a, <2>4 DEF RecordThrows, DomainTypeOK
<1>5. ASSUME NEW r \in Request, RecordsWritten(r)
      PROVE  DomainTypeOK'
  <2>1. Idle \in RequestState
    BY DEF Idle, RequestState
  <2>2. request' \in [Request -> RequestState]
    BY <1>5, <2>1 DEF RecordsWritten, DomainTypeOK, RequestState
  <2>3. QED
    BY <1>5, <2>2 DEF RecordsWritten, DomainTypeOK
<1>6. ASSUME NEW r \in Request, FinishCreate(r)
      PROVE  DomainTypeOK'
  <2>1. request[r] \in RequestState /\ request[r].id \in DomainId
    BY <1>6, WriterHasRow DEF FinishCreate, At
  <2>2. NewRow("live", request[r].engine) \in DomainRow
    BY <2>1 DEF NewRow, DomainRow, RequestState
  <2>3. Idle \in RequestState
    BY DEF Idle, RequestState
  <2>4. QED
    BY <1>6, <2>1, <2>2, <2>3 DEF FinishCreate, Taken, DomainTypeOK
<1>7. ASSUME NEW r \in Request, FinishVerify(r)
      PROVE  DomainTypeOK'
  <2>1. request[r] \in RequestState /\ domain[request[r].id] \in DomainRow
    BY <1>7, WriterHasRow DEF FinishVerify, Finish, At
  <2>2. PICK row \in DomainRow : Finish(r, "verify", row)
    BY <1>7, <2>1, VerifyWritesRow DEF FinishVerify, RequestState
  <2>3. QED
    BY <2>2, FinishType
<1>8. ASSUME NEW r \in Request, FinishUnsuspend(r)
      PROVE  DomainTypeOK'
  <2>1. request[r] \in RequestState /\ domain[request[r].id] \in DomainRow
    BY <1>8, WriterHasRow DEF FinishUnsuspend, Finish, At
  <2>2. PICK row \in DomainRow : Finish(r, "unsuspend", row)
    BY <1>8, <2>1, UnsuspendWritesRow DEF FinishUnsuspend, RequestState
  <2>3. QED
    BY <2>2, FinishType
<1>9. ASSUME NEW r \in Request, FinishProvision(r)
      PROVE  DomainTypeOK'
  <2>1. request[r] \in RequestState /\ domain[request[r].id] \in DomainRow
    BY <1>9, WriterHasRow DEF FinishProvision, Finish, At
  <2>2. QED
    BY <1>9, <2>1, FinishType DEF FinishProvision, DomainRow, RequestState
<1>10. ASSUME NEW r \in Request, AbortRequest(r)
       PROVE  DomainTypeOK'
  <2>1. Idle \in RequestState
    BY DEF Idle, RequestState
  <2>2. QED
    BY <1>10, <2>1 DEF AbortRequest, DomainTypeOK
<1>11. ASSUME NEW d \in DomainId, SuspendDomain(d)
       PROVE  DomainTypeOK'
  <2>1. domain[d] \in DomainRow
    BY DEF DomainTypeOK
  <2>2. [domain[d] EXCEPT !.status = "suspended", !.sendingEnabled = FALSE,
                          !.suspendedAt = TRUE] \in DomainRow
    BY <2>1 DEF DomainRow
  <2>3. QED
    BY <1>11, <2>2 DEF SuspendDomain, DomainTypeOK
<1>12. ASSUME NEW d \in DomainId, DeleteDomain(d)
       PROVE  DomainTypeOK'
  BY <1>12 DEF DeleteDomain, DomainTypeOK, DomainRow, NewRow
<1>13. ASSUME NEW n \in Name, NEW p \in Purpose, PublishRecord(n, p)
       PROVE  DomainTypeOK'
  BY <1>13 DEF PublishRecord, DomainTypeOK
<1>14. CASE UNCHANGED domainVars
  BY <1>14 DEF domainVars, DomainTypeOK
<1>15. CASE \E r \in Request : RequestStep(r)
  BY <1>15, <1>2, <1>3, <1>4, <1>4a, <1>5, <1>6, <1>7, <1>8, <1>9 DEF RequestStep
<1>16. CASE DomainNext
  BY <1>16, <1>1, <1>10, <1>11, <1>12, <1>13, <1>15 DEF DomainNext
<1>17. QED
  BY <1>14, <1>16

-----------------------------------------------------------------------------
\* A handler that goes on to its next step, with true answers and the same row,
\* keeps the handlers' invariant.
LEMMA HandlerAdvances ==
  ASSUME HandlerInv, NEW r \in Request,
         \A q \in Request \ {r} : request'[q] = request[q],
         request'[r].op = request[r].op, request'[r].id = request[r].id,
         request'[r].seen = request[r].seen,
         request[r].pc # "idle", request'[r].pc # "idle",
         request'[r].pc \in {"dns", "records", "stray"} => request[r].op = "verify",
         request[r].op = "verify" => request'[r].ok \subseteq published[NameOf[request[r].id]],
         request'[r].engine = "provisioned" => NameOf[request[r].id] \in mailu',
         published' = published, mailu \subseteq mailu',
         \A d : /\ domain'[d].state = domain[d].state
               /\ domain'[d].verificationStatus = domain[d].verificationStatus
  PROVE  HandlerInv'
<1>1. VerifiedWasEarned'
  BY DEF HandlerInv, VerifiedWasEarned
<1>2. ASSUME NEW q \in Request
      PROVE  HandlerHoldsTruth(request[q])'
  <2>1. CASE q = r
    BY <2>1 DEF HandlerInv, HandlerHoldsTruth
  <2>2. CASE q # r
    BY <2>2 DEF HandlerInv, HandlerHoldsTruth
  <2>3. QED
    BY <2>1, <2>2
<1>3. ASSUME NEW q \in Request
      PROVE  HandlerAtItsStep(request[q])'
  <2>1. CASE q = r
    BY <2>1 DEF HandlerInv, HandlerAtItsStep
  <2>2. CASE q # r
    BY <2>2 DEF HandlerInv, HandlerAtItsStep
  <2>3. QED
    BY <2>1, <2>2
<1>4. FreshIdsUnshared'
  <2>1. \A q \in Request : request'[q].id = request[q].id /\ request'[q].op = request[q].op
    OBVIOUS
  <2>2. QED
    BY <2>1 DEF HandlerInv, FreshIdsUnshared
<1>5. QED
  BY <1>1, <1>2, <1>3, <1>4 DEF HandlerInv

\* Every step keeps what handlers in flight hold true.
LEMMA HandlerStep ==
  ASSUME DomainTypeOK, HandlerInv, [DomainNext]_domainVars
  PROVE  HandlerInv'
<1> USE DEF VerificationStatus, EngineStatus, At, Live, HandlerInv,
            VerifiedWasEarned, HandlerHoldsTruth, HandlerAtItsStep, FreshIdsUnshared
<1>1. ASSUME NEW r \in Request, NEW d \in DomainId, RequestBegins(r, d)
      PROVE  HandlerInv'
  <2>1. PICK op \in {"create", "verify", "unsuspend", "provision"},
             pc \in {"engine", "dns", "write"},
             seen \in VerificationStatus :
          /\ Begin(r, op, pc, d, seen)
          /\ op = "create" => /\ domain[d].state = "unused"
                             /\ \A q \in Request : request[q].id # d
          /\ op # "create" => domain[d].state = "live"
          /\ pc = "dns" => op = "verify"
          /\ op = "unsuspend" => seen = domain[d].verificationStatus
    <3>1. domain[d].verificationStatus \in VerificationStatus
      BY DEF DomainTypeOK, DomainRow
    <3>2. CASE BeginCreate(r, d)
      BY <3>1, <3>2 DEF BeginCreate
    <3>3. CASE BeginVerify(r, d)
      BY <3>1, <3>3 DEF BeginVerify
    <3>4. CASE BeginUnsuspend(r, d)
      BY <3>1, <3>4 DEF BeginUnsuspend
    <3>5. CASE BeginProvision(r, d)
      BY <3>1, <3>5 DEF BeginProvision
    <3>6. QED
      BY <1>1, <3>2, <3>3, <3>4, <3>5 DEF RequestBegins
  <2>2. /\ request'[r] = [Idle EXCEPT !.op = op, !.pc = pc, !.id = d, !.seen = seen]
        /\ \A q \in Request \ {r} : request'[q] = request[q]
        /\ UNCHANGED <<domain, published, mailu>>
    BY <2>1 DEF Begin, DomainTypeOK
  <2>3. /\ request'[r].op = op /\ request'[r].pc = pc /\ request'[r].id = d
        /\ request'[r].seen = seen /\ request'[r].ok = {}
        /\ request'[r].engine = "manual" /\ request'[r].todo = {}
    BY <2>2 DEF Idle
  <2>4. ASSUME NEW q \in Request
        PROVE  HandlerHoldsTruth(request[q])' /\ HandlerAtItsStep(request[q])'
    <3>1. CASE q = r
      <4>1. HandlerHoldsTruth(request[r])'
        BY <2>1, <2>2, <2>3
      <4>2. (request'[r].id = NoDomain <=> request'[r].pc = "idle")
        BY <2>1, <2>2, <2>3
      <4>3. (request'[r].op = "idle" <=> request'[r].pc = "idle")
        BY <2>1, <2>2, <2>3
      <4>4. request'[r].pc \in {"dns", "records", "stray"} => request'[r].op = "verify"
        BY <2>1, <2>2, <2>3
      <4>5. request'[r].op = "create" => domain'[request'[r].id].state = "unused"
        BY <2>1, <2>2, <2>3
      <4>6. request'[r].op \notin {"idle", "create"} => domain'[request'[r].id].state # "unused"
        BY <2>1, <2>2, <2>3
      <4>7. QED
        BY <4>1, <4>2, <4>3, <4>4, <4>5, <4>6, <3>1
    <3>2. CASE q # r
      BY <2>2, <3>2
    <3>3. QED
      BY <3>1, <3>2
  <2>5. ASSUME NEW p \in Request, NEW q \in Request, q # p, request'[p].op = "create"
        PROVE  request'[q].id # request'[p].id
    <3> HIDE DEF HandlerInv
    <3>1. CASE p = r
      <4>1. \A a \in Request : request[a].id # d
        BY <2>1, <2>3, <2>5, <3>1
      <4>2. request'[q] = request[q] /\ request'[p].id = d
        BY <2>2, <2>3, <2>5, <3>1
      <4>3. QED
        BY <2>5, <4>1, <4>2
    <3>2. CASE q = r
      <4>1. request'[p] = request[p] /\ request'[q].id = d
        BY <2>2, <2>3, <2>5, <3>2
      <4>2. request[p].id \in DomainId /\ domain[request[p].id].state = "unused"
        BY <2>5, <4>1, WriterHasRow DEF HandlerInv
      <4>3. QED
        BY <2>1, <2>5, <4>1, <4>2
    <3>3. CASE p # r /\ q # r
      BY <2>2, <2>5, <3>3 DEF HandlerInv
    <3>4. QED
      BY <3>1, <3>2, <3>3
  <2>6. VerifiedWasEarned'
    BY <2>2
  <2>7. QED
    BY <2>4, <2>5, <2>6
<1>2. ASSUME NEW r \in Request, ResolveDns(r)
      PROVE  HandlerInv'
  <2> HIDE DEF HandlerInv, VerifiedWasEarned, HandlerHoldsTruth, HandlerAtItsStep, FreshIdsUnshared
  <2>1. PICK ok \in SUBSET published[NameOf[request[r].id]] :
          request' = [request EXCEPT ![r].ok = ok, ![r].pc = "engine"]
    BY <1>2 DEF ResolveDns
  <2>2. request'[r] = [request[r] EXCEPT !.ok = ok, !.pc = "engine"]
    BY <2>1 DEF DomainTypeOK
  <2>3. /\ \A q \in Request \ {r} : request'[q] = request[q]
        /\ request'[r].op = request[r].op /\ request'[r].id = request[r].id
        /\ request'[r].seen = request[r].seen /\ request'[r].engine = request[r].engine
        /\ request'[r].ok = ok /\ request'[r].pc = "engine"
    BY <2>1, <2>2 DEF DomainTypeOK, RequestState
  <2>4. request[r].op # "idle"
    BY <1>2 DEF ResolveDns, HandlerInv, HandlerAtItsStep
  <2>5. request[r].engine = "provisioned" => NameOf[request[r].id] \in mailu
    BY <2>4 DEF HandlerInv, HandlerHoldsTruth
  <2>6. QED
    BY <1>2, <2>3, <2>5, HandlerAdvances DEF ResolveDns
<1>3. ASSUME NEW r \in Request, ProvisionEngine(r)
      PROVE  HandlerInv'
  <2> HIDE DEF HandlerInv, VerifiedWasEarned, HandlerHoldsTruth, HandlerAtItsStep, FreshIdsUnshared
  <2> DEFINE pc == IF request[r].op = "verify" THEN "records" ELSE "write"
             todo == IF request[r].op = "verify" THEN Purpose ELSE {}
  <2>1. PICK status \in EngineStatus :
          /\ EngineAnswers(status, NameOf[request[r].id])
          /\ request' = [request EXCEPT ![r].engine = status, ![r].pc = pc, ![r].todo = todo]
    BY <1>3 DEF ProvisionEngine
  <2>2. request'[r] = [request[r] EXCEPT !.engine = status, !.pc = pc, !.todo = todo]
    BY <2>1 DEF DomainTypeOK
  <2>3. /\ \A q \in Request \ {r} : request'[q] = request[q]
        /\ request'[r].op = request[r].op /\ request'[r].id = request[r].id
        /\ request'[r].seen = request[r].seen /\ request'[r].ok = request[r].ok
        /\ request'[r].engine = status /\ request'[r].pc = pc
    BY <2>1, <2>2 DEF DomainTypeOK, RequestState
  <2>4. /\ mailu \subseteq mailu'
        /\ status = "provisioned" => NameOf[request[r].id] \in mailu'
    BY <2>1 DEF EngineAnswers
  <2>5. request[r].op = "verify" => request[r].ok \subseteq published[NameOf[request[r].id]]
    BY DEF HandlerInv, HandlerHoldsTruth
  <2>6. QED
    BY <1>3, <2>3, <2>4, <2>5, HandlerAdvances DEF ProvisionEngine
<1>4. ASSUME NEW r \in Request, NEW p \in Purpose, WriteRecord(r, p)
      PROVE  HandlerInv'
  <2> HIDE DEF HandlerInv, VerifiedWasEarned, HandlerHoldsTruth, HandlerAtItsStep, FreshIdsUnshared
  <2>1. request'[r] = [request[r] EXCEPT !.todo = @ \ {p}]
    BY <1>4 DEF WriteRecord, DomainTypeOK
  <2>2. /\ \A q \in Request \ {r} : request'[q] = request[q]
        /\ request'[r].op = request[r].op /\ request'[r].id = request[r].id
        /\ request'[r].seen = request[r].seen /\ request'[r].ok = request[r].ok
        /\ request'[r].engine = request[r].engine /\ request'[r].pc = request[r].pc
    BY <1>4, <2>1 DEF WriteRecord, DomainTypeOK, RequestState
  <2>3. \A d : /\ domain'[d].state = domain[d].state
              /\ domain'[d].verificationStatus = domain[d].verificationStatus
    BY <1>4 DEF WriteRecord, DomainTypeOK, DomainRow
  <2>4. request[r].op = "verify" /\ request[r].pc # "idle"
    BY <1>4 DEF WriteRecord, WritingRecords, HandlerInv, HandlerAtItsStep
  <2>5. /\ request[r].ok \subseteq published[NameOf[request[r].id]]
        /\ request[r].engine = "provisioned" => NameOf[request[r].id] \in mailu
    BY <2>4 DEF HandlerInv, HandlerHoldsTruth
  <2>6. QED
    BY <1>4, <2>2, <2>3, <2>4, <2>5, HandlerAdvances DEF WriteRecord
<1>4a. ASSUME NEW r \in Request, NEW p \in Purpose, RecordThrows(r, p)
       PROVE  HandlerInv'
  <2> HIDE DEF HandlerInv, VerifiedWasEarned, HandlerHoldsTruth, HandlerAtItsStep, FreshIdsUnshared
  <2>1. request'[r] = [request[r] EXCEPT !.todo = @ \ {p}, !.pc = "stray"]
    BY <1>4a DEF RecordThrows, DomainTypeOK
  <2>2. /\ \A q \in Request \ {r} : request'[q] = request[q]
        /\ request'[r].op = request[r].op /\ request'[r].id = request[r].id
        /\ request'[r].seen = request[r].seen /\ request'[r].ok = request[r].ok
        /\ request'[r].engine = request[r].engine /\ request'[r].pc = "stray"
    BY <1>4a, <2>1 DEF RecordThrows, DomainTypeOK, RequestState
  <2>3. request[r].op = "verify" /\ request[r].pc # "idle"
    BY <1>4a DEF RecordThrows, WritingRecords, HandlerInv, HandlerAtItsStep
  <2>4. /\ request[r].ok \subseteq published[NameOf[request[r].id]]
        /\ request[r].engine = "provisioned" => NameOf[request[r].id] \in mailu
    BY <2>3 DEF HandlerInv, HandlerHoldsTruth
  <2>5. QED
    BY <1>4a, <2>2, <2>3, <2>4, HandlerAdvances DEF RecordThrows
<1>5. ASSUME NEW r \in Request, RecordsWritten(r)
      PROVE  HandlerInv'
  <2>1. CASE At(r, "stray")
    BY <1>5, <2>1 DEF RecordsWritten, Idle, DomainTypeOK, RequestState
  <2>2. CASE ~At(r, "stray")
    <3> HIDE DEF HandlerInv, VerifiedWasEarned, HandlerHoldsTruth, HandlerAtItsStep, FreshIdsUnshared
    <3>1. request'[r] = [request[r] EXCEPT !.pc = "write"]
      BY <1>5, <2>2 DEF RecordsWritten, DomainTypeOK
    <3>2. /\ \A q \in Request \ {r} : request'[q] = request[q]
          /\ request'[r].op = request[r].op /\ request'[r].id = request[r].id
          /\ request'[r].seen = request[r].seen /\ request'[r].ok = request[r].ok
          /\ request'[r].engine = request[r].engine /\ request'[r].pc = "write"
      BY <1>5, <2>2, <3>1 DEF RecordsWritten, DomainTypeOK, RequestState
    <3>3. request[r].op = "verify" /\ request[r].pc # "idle"
      BY <1>5 DEF RecordsWritten, WritingRecords, HandlerInv, HandlerAtItsStep
    <3>4. /\ request[r].ok \subseteq published[NameOf[request[r].id]]
          /\ request[r].engine = "provisioned" => NameOf[request[r].id] \in mailu
      BY <3>3 DEF HandlerInv, HandlerHoldsTruth
    <3>5. QED
      BY <1>5, <3>2, <3>3, <3>4, HandlerAdvances DEF RecordsWritten
  <2>3. QED
    BY <2>1, <2>2
<1>6. ASSUME NEW r \in Request, FinishCreate(r)
      PROVE  HandlerInv'
  BY <1>6 DEF FinishCreate, Taken, NewRow, Idle, DomainTypeOK, RequestState, DomainRow
<1>7. ASSUME NEW r \in Request, FinishVerify(r)
      PROVE  HandlerInv'
  <2> DEFINE d == request[r].id
  <2>1. d \in DomainId /\ domain[d] \in DomainRow /\ request[r] \in RequestState
    BY <1>7, WriterHasRow DEF FinishVerify, Finish
  <2> DEFINE row == VerifyWrites(domain[d], request[r].ok, request[r].engine)
  <2>2. Finish(r, "verify", row)
    BY <1>7 DEF FinishVerify
  <2>3. row.state = domain[d].state /\ (row.verificationStatus = "verified" => request[r].ok = Purpose)
    BY <2>1, VerifyWritesRow DEF RequestState
  <2> HIDE DEF row
  <2>4. /\ request[r].op = "verify"
        /\ request' = [request EXCEPT ![r] = Idle]
        /\ UNCHANGED <<published, mailu>>
        /\ \A e \in DomainId : domain'[e].state = domain[e].state
        /\ \A e \in DomainId : domain'[e] = domain[e] \/ (e = d /\ domain'[e] = row)
    BY <2>2, <2>3, FinishEffect
  <2>5. row.verificationStatus = "verified" => published[NameOf[d]] = Purpose
    <3>1. published[NameOf[d]] \subseteq Purpose
      BY <2>1 DEF DomainTypeOK
    <3>2. request[r].ok \subseteq published[NameOf[d]]
      BY <2>4
    <3>3. QED
      BY <2>3, <3>1, <3>2
  <2>6. VerifiedWasEarned'
    BY <2>4, <2>5
  <2>7. QED
    BY <2>1, <2>4, <2>6 DEF Idle, DomainTypeOK, RequestState
<1>8. ASSUME NEW r \in Request, FinishUnsuspend(r)
      PROVE  HandlerInv'
  <2> DEFINE d == request[r].id
  <2>1. d \in DomainId /\ domain[d] \in DomainRow /\ request[r] \in RequestState
    BY <1>8, WriterHasRow DEF FinishUnsuspend, Finish
  <2> DEFINE row == UnsuspendWrites(domain[d], request[r].seen)
  <2>2. Finish(r, "unsuspend", row)
    BY <1>8 DEF FinishUnsuspend
  <2>3. row.state = domain[d].state /\ (row.verificationStatus = "verified" => domain[d].verificationStatus = "verified")
    BY <2>1, UnsuspendWritesRow DEF RequestState
  <2> HIDE DEF row
  <2>4. /\ request[r].op = "unsuspend"
        /\ request' = [request EXCEPT ![r] = Idle]
        /\ UNCHANGED <<published, mailu>>
        /\ \A e \in DomainId : domain'[e].state = domain[e].state
        /\ \A e \in DomainId : domain'[e] = domain[e] \/ (e = d /\ domain'[e] = row)
    BY <2>2, <2>3, FinishEffect
  <2>5. row.verificationStatus = "verified" => published[NameOf[d]] = Purpose
    BY <2>1, <2>3, <2>4 DEF DomainTypeOK, RequestState
  <2>6. VerifiedWasEarned'
    BY <2>4, <2>5
  <2> HIDE DEF d
  <2>7. \A e \in DomainId : domain'[e].state = domain[e].state
    BY <2>4
  <2>8. QED
    BY <2>1, <2>4, <2>6, <2>7 DEF Idle, DomainTypeOK, RequestState
<1>9. ASSUME NEW r \in Request, FinishProvision(r)
      PROVE  HandlerInv'
  <2> DEFINE d == request[r].id
  <2>1. d \in DomainId /\ domain[d] \in DomainRow /\ request[r] \in RequestState
    BY <1>9, WriterHasRow DEF FinishProvision, Finish
  <2> DEFINE row == [domain[d] EXCEPT !.engineStatus = request[r].engine]
  <2>2. Finish(r, "provision", row)
    BY <1>9 DEF FinishProvision
  <2>3. row.state = domain[d].state /\ (row.verificationStatus = "verified" => domain[d].verificationStatus = "verified")
    BY <2>1, ProvisionWritesRow DEF RequestState, DomainRow
  <2> HIDE DEF row
  <2>4. /\ request[r].op = "provision"
        /\ request' = [request EXCEPT ![r] = Idle]
        /\ UNCHANGED <<published, mailu>>
        /\ \A e \in DomainId : domain'[e].state = domain[e].state
        /\ \A e \in DomainId : domain'[e] = domain[e] \/ (e = d /\ domain'[e] = row)
    BY <2>2, <2>3, FinishEffect
  <2>5. row.verificationStatus = "verified" => published[NameOf[d]] = Purpose
    BY <2>1, <2>3, <2>4 DEF DomainTypeOK, RequestState
  <2>6. VerifiedWasEarned'
    BY <2>4, <2>5
  <2>7. QED
    BY <2>1, <2>4, <2>6 DEF Idle, DomainTypeOK, RequestState
<1>10. ASSUME NEW r \in Request, AbortRequest(r)
      PROVE  HandlerInv'
  BY <1>10 DEF AbortRequest, Idle, DomainTypeOK, RequestState
<1>11. ASSUME NEW d \in DomainId, SuspendDomain(d)
      PROVE  HandlerInv'
  <2>1. /\ UNCHANGED <<request, published, mailu>>
        /\ \A e \in DomainId :
             /\ domain'[e].state = domain[e].state
             /\ domain'[e].verificationStatus = domain[e].verificationStatus
    <3>1. \A e \in DomainId : domain[e] \in DomainRow
      BY DEF DomainTypeOK
    <3>2. QED
      BY <1>11, <3>1 DEF SuspendDomain, DomainTypeOK, DomainRow
  <2>2. \A r \in Request : request[r].id \in DomainId \union {NoDomain}
    BY DEF DomainTypeOK, RequestState
  <2>3. QED
    BY <2>1, <2>2
<1>12. ASSUME NEW d \in DomainId, DeleteDomain(d)
      PROVE  HandlerInv'
  BY <1>12 DEF DeleteDomain, NewRow, DomainTypeOK, DomainRow
<1>13. ASSUME NEW n \in Name, NEW p \in Purpose, PublishRecord(n, p)
      PROVE  HandlerInv'
  BY <1>13 DEF PublishRecord, DomainTypeOK, RequestState
<1>14. CASE UNCHANGED domainVars
  BY <1>14 DEF domainVars
<1>15. CASE \E r \in Request : RequestStep(r)
  <2> USE DEF RequestStep
  <2> HIDE DEF HandlerInv
  <2>1. QED
    BY <1>15, <1>2, <1>3, <1>4, <1>4a, <1>5, <1>6, <1>7, <1>8, <1>9
<1>16. CASE DomainNext
  <2> HIDE DEF HandlerInv
  <2>1. QED
    BY <1>16, <1>1, <1>10, <1>11, <1>12, <1>13, <1>15 DEF DomainNext
<1>17. QED
  BY <1>14, <1>16

-----------------------------------------------------------------------------
\* Replacing the row of d by a good one keeps all rows good, as DNS records and
\* engine domains are only ever added.
LEMMA RowReplaced ==
  ASSUME DomainTypeOK, RowsGood, NEW d \in DomainId, NEW row, RowGood(row, d),
         \A e \in DomainId : domain'[e] = domain[e] \/ (e = d /\ domain'[e] = row),
         UNCHANGED <<published, mailu>>
  PROVE  RowsGood'
BY DEF RowsGood, RowGood

\* A step that changes no row keeps all rows good.
LEMMA RowsUnchanged ==
  ASSUME DomainTypeOK, RowsGood, domain' = domain, mailu \subseteq mailu',
         \A n \in Name : published[n] \subseteq published'[n] /\ published'[n] \subseteq Purpose
  PROVE  RowsGood'
<1> SUFFICES ASSUME NEW d \in DomainId PROVE RowGood(domain[d], d)'
  BY DEF RowsGood
<1>1. NameOf[d] \in Name
  OBVIOUS
<1>2. RowGood(domain[d], d)
  BY DEF RowsGood
<1>3. QED
  BY <1>1, <1>2 DEF RowGood, DomainTypeOK

\* Every step keeps the rows good.
LEMMA RowStep ==
  ASSUME DomainTypeOK, HandlerInv, RowsGood, [DomainNext]_domainVars
  PROVE  RowsGood'
<1> USE DEF At, Live
<1>1. ASSUME NEW r \in Request, NEW d \in DomainId, RequestBegins(r, d)
      PROVE  RowsGood'
  <2>1. UNCHANGED <<domain, published, mailu>>
    BY <1>1 DEF RequestBegins, BeginCreate, BeginVerify, BeginUnsuspend,
                BeginProvision, Begin
  <2>2. QED
    BY <2>1, RowsUnchanged DEF DomainTypeOK
<1>2. ASSUME NEW r \in Request,
             \/ ResolveDns(r) \/ RecordsWritten(r) \/ AbortRequest(r)
             \/ \E p \in Purpose : RecordThrows(r, p)
      PROVE  RowsGood'
  <2>1. UNCHANGED <<domain, published, mailu>>
    BY <1>2 DEF ResolveDns, RecordThrows, RecordsWritten, AbortRequest
  <2>2. QED
    BY <2>1, RowsUnchanged DEF DomainTypeOK
<1>3. ASSUME NEW r \in Request, ProvisionEngine(r)
      PROVE  RowsGood'
  <2>1. domain' = domain /\ published' = published /\ mailu \subseteq mailu'
    BY <1>3 DEF ProvisionEngine, EngineAnswers
  <2>2. QED
    BY <2>1, RowsUnchanged DEF DomainTypeOK
<1>4. ASSUME NEW r \in Request, NEW p \in Purpose, WriteRecord(r, p)
      PROVE  RowsGood'
  <2> DEFINE d == request[r].id
             new == IF p \in request[r].ok THEN "verified" ELSE "failed"
             row == [domain[d] EXCEPT !.dns[p] = new]
  <2>1. d \in DomainId /\ domain[d] \in DomainRow
    BY <1>4, WriterHasRow DEF WriteRecord, WritingRecords, RecordResult
  <2>2. p \in request[r].ok => p \in published[NameOf[d]]
    BY <1>4 DEF WriteRecord, WritingRecords, RecordResult, HandlerInv, HandlerHoldsTruth,
                HandlerAtItsStep
  <2>3. RowGood(domain[d], d)
    BY <2>1 DEF RowsGood
  <2>4. RowGood(row, d)
    BY <2>1, <2>2, <2>3 DEF RowGood, DomainRow
  <2>5. /\ UNCHANGED <<published, mailu>>
        /\ \A e \in DomainId : domain'[e] = domain[e] \/ (e = d /\ domain'[e] = row)
    BY <1>4, <2>1 DEF WriteRecord, RecordResult, DomainTypeOK
  <2>6. QED
    BY <2>1, <2>4, <2>5, RowReplaced
<1>5. ASSUME NEW r \in Request, FinishCreate(r)
      PROVE  RowsGood'
  <2> DEFINE d == request[r].id
             row == NewRow("live", request[r].engine)
  <2>1. d \in DomainId
    BY <1>5, WriterHasRow DEF FinishCreate
  <2>2. request[r].engine = "provisioned" => NameOf[d] \in mailu
    BY <1>5 DEF FinishCreate, HandlerInv, HandlerHoldsTruth
  <2>3. RowGood(row, d)
    BY <2>2 DEF RowGood, NewRow
  <2>4. /\ UNCHANGED <<published, mailu>>
        /\ \A e \in DomainId : domain'[e] = domain[e] \/ (e = d /\ domain'[e] = row)
    BY <1>5, <2>1 DEF FinishCreate, DomainTypeOK
  <2>5. QED
    BY <2>1, <2>3, <2>4, RowReplaced
<1>6. ASSUME NEW r \in Request, FinishVerify(r)
      PROVE  RowsGood'
  <2> DEFINE d == request[r].id
             row == VerifyWrites(domain[d], request[r].ok, request[r].engine)
  <2>1. /\ d \in DomainId /\ domain[d] \in DomainRow /\ request[r] \in RequestState
        /\ RowGood(domain[d], d)
    BY <1>6, WriterHasRow DEF FinishVerify, Finish, RowsGood
  <2>2. Finish(r, "verify", row)
    BY <1>6 DEF FinishVerify
  <2>3. /\ request[r].ok \subseteq published[NameOf[d]]
        /\ published[NameOf[d]] \subseteq Purpose
        /\ request[r].engine = "provisioned" => NameOf[d] \in mailu
    BY <2>1, <2>2 DEF Finish, HandlerInv, HandlerHoldsTruth, DomainTypeOK
  <2>4. RowGood(row, d)
    <3>1. request[r].ok = Purpose => published[NameOf[d]] = Purpose
      BY <2>3
    <3>2. request[r].ok \in SUBSET Purpose /\ request[r].engine \in EngineStatus
      BY <2>1 DEF RequestState
    <3> HIDE DEF row
    <3>3. /\ row.dns = domain[d].dns
          /\ row.status = IF request[r].ok = Purpose THEN "verified" ELSE "failed"
          /\ row.sendingEnabled <=> request[r].ok = Purpose
          /\ row.suspendedAt <=> domain[d].suspendedAt /\ request[r].ok # Purpose
          /\ row.engineStatus = request[r].engine
      BY <2>1, <3>2, VerifyWritesRow DEF row
    <3>4. QED
      BY <2>1, <2>3, <3>1, <3>3 DEF RowGood
  <2>5. QED
    BY <2>1, <2>2, <2>4, FinishEffect, RowReplaced
<1>7. ASSUME NEW r \in Request, FinishUnsuspend(r)
      PROVE  RowsGood'
  <2> DEFINE d == request[r].id
             row == UnsuspendWrites(domain[d], request[r].seen)
  <2>1. /\ d \in DomainId /\ domain[d] \in DomainRow /\ request[r] \in RequestState
        /\ RowGood(domain[d], d)
    BY <1>7, WriterHasRow DEF FinishUnsuspend, Finish, RowsGood
  <2>2. Finish(r, "unsuspend", row)
    BY <1>7 DEF FinishUnsuspend
  <2>3. request[r].seen = "verified" => published[NameOf[d]] = Purpose
    BY <2>2 DEF Finish, HandlerInv, HandlerHoldsTruth
  <2>4. request[r].seen # "suspended"
    BY <2>1 DEF RequestState, VerificationStatus
  <2>5. RowGood(row, d)
    BY <2>1, <2>3, <2>4, UnsuspendWritesRow DEF RowGood, RequestState
  <2>6. QED
    BY <2>1, <2>2, <2>5, FinishEffect, RowReplaced
<1>8. ASSUME NEW r \in Request, FinishProvision(r)
      PROVE  RowsGood'
  <2> DEFINE d == request[r].id
             row == [domain[d] EXCEPT !.engineStatus = request[r].engine]
  <2>1. /\ d \in DomainId /\ domain[d] \in DomainRow /\ request[r] \in RequestState
        /\ RowGood(domain[d], d)
    BY <1>8, WriterHasRow DEF FinishProvision, Finish, RowsGood
  <2>2. Finish(r, "provision", row)
    BY <1>8 DEF FinishProvision
  <2>3. request[r].engine = "provisioned" => NameOf[d] \in mailu
    BY <2>2 DEF Finish, HandlerInv, HandlerHoldsTruth
  <2>4. RowGood(row, d)
    BY <2>1, <2>3 DEF RowGood, DomainRow
  <2>5. QED
    BY <2>1, <2>2, <2>4, FinishEffect, RowReplaced
<1>9. ASSUME NEW d \in DomainId, SuspendDomain(d)
      PROVE  RowsGood'
  <2> DEFINE row == [domain[d] EXCEPT !.status = "suspended",
                       !.sendingEnabled = FALSE, !.suspendedAt = TRUE]
  <2>1. domain[d] \in DomainRow /\ RowGood(domain[d], d)
    BY DEF DomainTypeOK, RowsGood
  <2>2. RowGood(row, d)
    BY <2>1 DEF RowGood, DomainRow
  <2>3. /\ UNCHANGED <<published, mailu>>
        /\ \A e \in DomainId : domain'[e] = domain[e] \/ (e = d /\ domain'[e] = row)
    BY <1>9 DEF SuspendDomain, DomainTypeOK
  <2>4. QED
    BY <2>2, <2>3, RowReplaced
<1>10. ASSUME NEW d \in DomainId, DeleteDomain(d)
       PROVE  RowsGood'
  <2> DEFINE row == NewRow("deleted", "manual")
  <2>1. RowGood(row, d)
    BY DEF RowGood, NewRow
  <2>2. /\ UNCHANGED <<published, mailu>>
        /\ \A e \in DomainId : domain'[e] = domain[e] \/ (e = d /\ domain'[e] = row)
    BY <1>10 DEF DeleteDomain, DomainTypeOK
  <2>3. QED
    BY <2>1, <2>2, RowReplaced
<1>11. ASSUME NEW n \in Name, NEW p \in Purpose, PublishRecord(n, p)
       PROVE  RowsGood'
  <2>1. /\ domain' = domain /\ mailu' = mailu
        /\ \A m \in Name : published[m] \subseteq published'[m] /\ published'[m] \subseteq Purpose
    BY <1>11 DEF PublishRecord, DomainTypeOK
  <2>2. QED
    BY <2>1, RowsUnchanged
<1>12. CASE UNCHANGED domainVars
  BY <1>12, RowsUnchanged DEF domainVars, DomainTypeOK
<1>13. CASE \E r \in Request : RequestStep(r)
  BY <1>13, <1>2, <1>3, <1>4, <1>5, <1>6, <1>7, <1>8 DEF RequestStep
<1>14. CASE DomainNext
  BY <1>14, <1>1, <1>2, <1>9, <1>10, <1>11, <1>13 DEF DomainNext
<1>15. QED
  BY <1>12, <1>14

-----------------------------------------------------------------------------
\* Only FinishCreate makes a row live, and the unique index guards it.
LEMMA UniqueStep ==
  ASSUME DomainTypeOK, HandlerInv, OneRowPerName, [DomainNext]_domainVars
  PROVE  OneRowPerName'
<1> USE DEF At
<1> DEFINE NoneBorn == \A d \in DomainId : Live(d)' => Live(d)
<1>1. NoneBorn => OneRowPerName'
  BY DEF OneRowPerName, SameOwnerAndName
<1>2. ASSUME NEW r \in Request, FinishCreate(r)
      PROVE  OneRowPerName'
  <2>1. request[r].id \in DomainId
    BY <1>2, WriterHasRow DEF FinishCreate, Taken
  <2>2. QED
    BY <1>2, <2>1 DEF FinishCreate, Taken, OneRowPerName, SameOwnerAndName, Live, DomainTypeOK
<1>3. ASSUME NEW r \in Request, FinishVerify(r) \/ FinishUnsuspend(r) \/ FinishProvision(r)
      PROVE  NoneBorn
  <2>1. PICK op, row : Finish(r, op, row)
    BY <1>3 DEF FinishVerify, FinishUnsuspend, FinishProvision
  <2>2. QED
    BY <2>1, FinishEffect DEF Live
<1>4. ASSUME NEW r \in Request, NEW p \in Purpose, WriteRecord(r, p)
      PROVE  NoneBorn
  BY <1>4 DEF WriteRecord, RecordResult, Live, DomainTypeOK, DomainRow
<1>5. ASSUME NEW r \in Request,
             \/ ResolveDns(r) \/ RecordsWritten(r) \/ AbortRequest(r) \/ ProvisionEngine(r)
             \/ \E p \in Purpose : RecordThrows(r, p)
             \/ \E d \in DomainId : RequestBegins(r, d)
      PROVE  NoneBorn
  BY <1>5 DEF ResolveDns, RecordThrows, RecordsWritten, AbortRequest, ProvisionEngine, Live,
              RequestBegins, BeginCreate, BeginVerify, BeginUnsuspend, BeginProvision, Begin
<1>6. ASSUME NEW d \in DomainId, SuspendDomain(d) \/ DeleteDomain(d)
      PROVE  NoneBorn
  BY <1>6 DEF SuspendDomain, DeleteDomain, NewRow, Live, DomainTypeOK, DomainRow
<1>7. ASSUME NEW n \in Name, NEW p \in Purpose, PublishRecord(n, p)
      PROVE  NoneBorn
  BY <1>7 DEF PublishRecord, Live
<1>8. CASE UNCHANGED domainVars
  BY <1>1, <1>8 DEF domainVars, Live
<1>9. CASE DomainNext
  <2> HIDE DEF NoneBorn
  <2>1. QED
    BY <1>1, <1>2, <1>3, <1>4, <1>5, <1>6, <1>7, <1>9 DEF DomainNext, RequestStep
<1>10. QED
  BY <1>8, <1>9

-----------------------------------------------------------------------------
\* The inductive invariant holds in every reachable state.
THEOREM DomainInvariance == DomainSpec => []DomainIInv
<1>1. DomainInit => DomainIInv
  BY DomainInitInv
<1>2. DomainIInv /\ [DomainNext]_domainVars => DomainIInv'
  BY DomainTypeStep, HandlerStep, RowStep, UniqueStep DEF DomainIInv
<1>3. QED
  BY <1>1, <1>2, PTL DEF DomainSpec

\* Rows and handler locals keep the types of the schema, whatever the handlers
\* of createDomain, verifyDomain, unsuspendDomain and the others interleave.
THEOREM DomainTypeCorrect == DomainSpec => []DomainTypeOK
<1>1. DomainIInv => DomainTypeOK
  BY DEF DomainIInv
<1>2. QED
  BY <1>1, DomainInvariance, PTL

\* status, sendingEnabled and suspendedAt of a domain never contradict each
\* other, for any number of handlers writing the row from stale reads.
THEOREM DomainGateConsistent == DomainSpec => []GateConsistent
<1>1. DomainIInv => GateConsistent
  BY DEF DomainIInv, RowsGood, RowGood, GateConsistent
<1>2. QED
  BY <1>1, DomainInvariance, PTL

\* No domain is opened for sending unless all its DNS records were published.
THEOREM DomainSendingNeedsDns == DomainSpec => []SendingNeedsPublishedDns
<1>1. DomainIInv => SendingNeedsPublishedDns
  BY DEF DomainIInv, RowsGood, RowGood, SendingNeedsPublishedDns
<1>2. QED
  BY <1>1, DomainInvariance, PTL

\* A dns_record row shown as verified belongs to a record that was published.
THEOREM DomainRecordsTruthful == DomainSpec => []RecordsTruthful
<1>1. DomainIInv => RecordsTruthful
  BY DEF DomainIInv, RowsGood, RowGood, RecordsTruthful
<1>2. QED
  BY <1>1, DomainInvariance, PTL

\* A row marked provisioned names a domain the mail engine holds.
THEOREM DomainEngineTruth == DomainSpec => []EngineTruth
<1>1. DomainIInv => EngineTruth
  BY DEF DomainIInv, RowsGood, RowGood, EngineTruth
<1>2. QED
  BY <1>1, DomainInvariance, PTL

\* Overlapping createDomain calls never leave two live rows for one user's name.
THEOREM DomainOneRowPerName == DomainSpec => []OneRowPerName
<1>1. DomainIInv => OneRowPerName
  BY DEF DomainIInv
<1>2. QED
  BY <1>1, DomainInvariance, PTL

\* What a handler holds across its awaits is never ahead of the world: the DNS
\* and engine answers are real, the status unsuspend has read was earned.
THEOREM DomainHandlersHoldTruth == DomainSpec => []HandlerInv
<1>1. DomainIInv => HandlerInv
  BY DEF DomainIInv
<1>2. QED
  BY <1>1, DomainInvariance, PTL

-----------------------------------------------------------------------------
\* No step brings a deleted row back: every write of a handler is an update,
\* and createDomain inserts under a fresh id.
LEMMA DeletedStep ==
  ASSUME DomainTypeOK, HandlerInv, DomainNext,
         NEW d \in DomainId, domain[d].state = "deleted"
  PROVE  domain'[d].state = "deleted"
<1>1. ~Live(d)
  BY DEF Live
<1>2. ASSUME NEW r \in Request, NEW op, NEW row, Finish(r, op, row)
      PROVE  domain'[d] = domain[d]
  BY <1>1, <1>2 DEF Finish, DomainTypeOK
<1>3. ASSUME NEW r \in Request, NEW e \in DomainId, RequestBegins(r, e)
      PROVE  domain' = domain
  BY <1>3 DEF RequestBegins, BeginCreate, BeginVerify, BeginUnsuspend, BeginProvision, Begin
<1>4. ASSUME NEW r \in Request, RequestStep(r)
      PROVE  domain'[d] = domain[d]
  <2>1. CASE \/ ResolveDns(r) \/ ProvisionEngine(r) \/ RecordsWritten(r)
             \/ \E p \in Purpose : RecordThrows(r, p)
    BY <2>1 DEF ResolveDns, ProvisionEngine, RecordThrows, RecordsWritten
  <2>2. ASSUME NEW p \in Purpose, WriteRecord(r, p)
        PROVE  domain'[d] = domain[d]
    BY <1>1, <2>2 DEF WriteRecord, DomainTypeOK
  <2>3. CASE FinishCreate(r)
    <3>1. request[r].id # d
      BY <2>3 DEF FinishCreate, HandlerInv, HandlerAtItsStep
    <3>2. QED
      BY <2>3, <3>1 DEF FinishCreate, DomainTypeOK
  <2>4. CASE FinishVerify(r) \/ FinishUnsuspend(r) \/ FinishProvision(r)
    BY <1>2, <2>4 DEF FinishVerify, FinishUnsuspend, FinishProvision
  <2>5. QED
    BY <1>4, <2>1, <2>2, <2>3, <2>4 DEF RequestStep
<1>5. ASSUME NEW r \in Request, AbortRequest(r)
      PROVE  domain' = domain
  BY <1>5 DEF AbortRequest
<1>6. ASSUME NEW e \in DomainId, SuspendDomain(e)
      PROVE  domain'[d] = domain[d]
  BY <1>1, <1>6 DEF SuspendDomain, DomainTypeOK
<1>7. ASSUME NEW e \in DomainId, DeleteDomain(e)
      PROVE  domain'[d] = domain[d]
  BY <1>1, <1>7 DEF DeleteDomain, DomainTypeOK
<1>8. ASSUME NEW n \in Name, NEW p \in Purpose, PublishRecord(n, p)
      PROVE  domain' = domain
  BY <1>8 DEF PublishRecord
<1>9. QED
  BY <1>3, <1>4, <1>5, <1>6, <1>7, <1>8 DEF DomainNext

\* A handler that awaited while its domain was deleted never brings the row back.
THEOREM DomainDeletedStaysDeleted == DomainSpec => DeletedStaysDeleted
<1>1. DomainIInv /\ [DomainNext]_domainVars =>
        [\A d \in DomainId :
           domain[d].state = "deleted" => domain'[d].state = "deleted"]_domainVars
  BY DeletedStep DEF DomainIInv
<1>2. QED
  BY <1>1, DomainInvariance, PTL DEF DomainSpec, DeletedStaysDeleted
=============================================================================
