---------------------------- MODULE WitnessService ----------------------------
(***************************************************************************)
(* The separately administered witness service at work on one              *)
(* installation: any number of service processes call the gate, the ledger *)
(* and the commit protocol at the same time, and any of them may raise or  *)
(* die between two of its steps.  The store, the ledger and the gate are   *)
(* in SQLite and survive; what a process has read does not.                *)
(*                                                                         *)
(* A process is idle or has a job: where it is in the method it called,    *)
(* the request, the row it read and the status it is about to write.  A    *)
(* step of a job is one transaction, one read or one external call.        *)
(***************************************************************************)
EXTENDS WriterQuiescence

CONSTANTS
  Proc,           \* service processes or threads
  Free,           \* a process with no job
  DirectLedger,   \* may a process call ledger.dispatch_once past the gate?
  OtherReceipts   \* receipts other administrators may commit meanwhile

ASSUME DeploymentAssumption ==
  /\ DirectLedger \in BOOLEAN
  /\ OtherReceipts \subseteq Receipt

VARIABLE job

service == <<head, attempts, ledger, gate>>
vars    == <<head, attempts, ledger, gate, job>>

\* Where a job can be, what it has read by then, and what it may write.
WriteAt == {"running", "claimed", "approved"}
GateAt  == {"dispatch", "stop", "certify", "joined"}

Job ==
       [at : WriteAt, req : Request, row : {NoRow}, to : {"undecided"}]
  \cup [at : GateAt, req : Request, row : GateRow, to : {"undecided"}]
  \cup [at : {"inspect"}, req : Request, row : FenceRow, to : {"undecided"}]
  \cup [at : {"inspected"}, req : Request, row : FenceRow, to : {PriorSigned, SuccSigned}]
  \cup [at : {"stopping"}, req : Request, row : GateRow, to : {Stopping, StoppingSent}]
  \cup [at : {"certified"}, req : Request, row : GateRow, to : Terminal]

ASSUME FreeAssumption == Free \notin Job

TypeOK ==
  /\ HeadTypeOK
  /\ FenceTypeOK
  /\ GateTypeOK
  /\ job \in [Proc -> Job \cup {Free}]

\* The chain may stand anywhere when the update begins; a revision counts the
\* commits since enrolment, as a generation does.
Init ==
  /\ head \in {[rev |-> Generation[r], sha |-> r] : r \in Receipt} \cup {NoHead}
  /\ attempts = 0
  /\ ledger = NoRow
  /\ gate = NoRow
  /\ job = [p \in Proc |-> Free]

At(p, where)      == job[p] # Free /\ job[p].at = where
Start(p, j)       == job[p] = Free /\ job' = [job EXCEPT ![p] = j]
Step(p, j)        == job' = [job EXCEPT ![p] = j]
Finish(p)         == job' = [job EXCEPT ![p] = Free]
Deciding(at, q, row, to) == [at |-> at, req |-> q, row |-> row, to |-> to]
Doing(at, q, row) == Deciding(at, q, row, "undecided")

\* An exception, a refused permission or approval, a lost signed reply, or the
\* death of the process: the method ends there and undoes nothing.
Fail(p) == job[p] # Free /\ Finish(p) /\ UNCHANGED service

-----------------------------------------------------------------------------
(* Single-transaction methods.                                             *)

ReserveRequest(q) == Reserve(q) /\ UNCHANGED <<head, attempts, gate, job>>

AdmitRequest(q) == Admit(q) /\ UNCHANGED <<head, attempts, ledger, job>>

CommitElsewhere(r) == OtherCommit(r) /\ UNCHANGED <<ledger, gate, job>>

-----------------------------------------------------------------------------
(* gate.dispatch_once, and ledger.dispatch_once inside it or on its own.   *)

DispatchReadsGate(p, q) ==
  /\ GateOf(q) /\ gate.st = Admitted
  /\ Start(p, Doing("dispatch", q, gate))
  /\ UNCHANGED service

DispatchMarksGate(p) ==
  /\ At(p, "dispatch")
  /\ Transition(job[p].row, InFlight)
  /\ Step(p, Doing("running", job[p].req, NoRow))
  /\ UNCHANGED <<head, attempts, ledger>>

DispatchClaims(p) ==
  /\ At(p, "running")
  /\ ClaimOnce(job[p].req)
  /\ Step(p, Doing("claimed", job[p].req, NoRow))
  /\ UNCHANGED <<head, attempts, gate>>

DirectDispatch(p, q) ==
  /\ DirectLedger
  /\ ClaimOnce(q)
  /\ Start(p, Doing("claimed", q, NoRow))
  /\ UNCHANGED <<head, attempts, gate>>

\* The predecessor must be the freshly signed head; then the independent
\* approval, which may refuse (Fail).
DispatchSeesPrior(p) ==
  /\ At(p, "claimed")
  /\ SignedPrior(job[p].req, head)
  /\ Step(p, Doing("approved", job[p].req, NoRow))
  /\ UNCHANGED service

DispatchCommits(p) ==
  /\ At(p, "approved")
  /\ AttemptCommit(job[p].req)
  /\ Finish(p)
  /\ UNCHANGED <<ledger, gate>>

-----------------------------------------------------------------------------
(* ledger.inspect_signed_head.                                             *)

InspectReadsRow(p, q) ==
  /\ Dispatched(q)
  /\ Start(p, Doing("inspect", q, ledger))
  /\ UNCHANGED service

InspectSeesHead(p) ==
  /\ At(p, "inspect")
  /\ MayRecord(job[p].req, job[p].row, head)
  /\ Step(p, Deciding("inspected", job[p].req, job[p].row, StatusFor(job[p].req, head)))
  /\ UNCHANGED service

InspectRecords(p) ==
  /\ At(p, "inspected")
  /\ RecordHead(job[p].row, job[p].to)
  /\ Finish(p)
  /\ UNCHANGED <<head, attempts, gate>>

-----------------------------------------------------------------------------
(* gate.request_stop.  A gate already stopping or stopped is returned as it *)
(* is, which changes nothing.                                               *)

StopReadsGate(p, q) ==
  /\ GateOf(q) /\ gate.st \in {Admitted, InFlight}
  /\ Start(p, IF gate.st = Admitted THEN Doing("stop", q, gate)
               ELSE Deciding("stopping", q, gate, StoppingSent))
  /\ UNCHANGED service

StopReadsFence(p) ==
  /\ At(p, "stop")
  /\ ledger = NoRow \/ FenceOf(job[p].req)
  /\ Step(p, Deciding("stopping", job[p].req, job[p].row, StopState(job[p].row, ledger)))
  /\ UNCHANGED service

StopMarksGate(p) ==
  /\ At(p, "stopping")
  /\ Transition(job[p].row, job[p].to)
  /\ Finish(p)
  /\ UNCHANGED <<head, attempts, ledger>>

-----------------------------------------------------------------------------
(* gate.certify_stopped_and_observe.                                       *)

\* A faulty variant: only a stop after a dispatch is ever certified.
CertifyReadsSent(p, q) ==
  /\ GateOf(q) /\ gate.st = StoppingSent
  /\ Start(p, Doing("certify", q, gate))
  /\ UNCHANGED service

CertifyReadsGate(p, q) ==
  /\ GateOf(q) /\ gate.st \in {Stopping, StoppingSent}
  /\ Start(p, Doing("certify", q, gate))
  /\ UNCHANGED service

\* A process inside ledger.dispatch_once, or about to enter it.
Writing(p) == job[p] # Free /\ job[p].at \in WriteAt

\* A faulty variant: the writers are not joined before the head is read.
CertifyAssumesStop(p) ==
  /\ At(p, "certify")
  /\ Step(p, Doing("joined", job[p].req, job[p].row))
  /\ UNCHANGED service

\* independently_verify_stopped answers True: every CAS writer admitted so far
\* has ended.  A dispatch that has only read the gate is not yet a writer.
CertifyVerifiesStop(p) ==
  /\ At(p, "certify")
  /\ \A w \in Proc : ~ Writing(w)
  /\ Step(p, Doing("joined", job[p].req, job[p].row))
  /\ UNCHANGED service

CertifySeesHead(p) ==
  /\ At(p, "joined")
  /\ Recognised(job[p].req, head)
  /\ Step(p, Deciding("certified", job[p].req, job[p].row, StoppedState(job[p].req, head)))
  /\ UNCHANGED service

CertifyMarksGate(p) ==
  /\ At(p, "certified")
  /\ Transition(job[p].row, job[p].to)
  /\ Finish(p)
  /\ UNCHANGED <<head, attempts, ledger>>

-----------------------------------------------------------------------------
DispatchNext(p) ==
  \/ \E q \in Request : DispatchReadsGate(p, q) \/ DirectDispatch(p, q)
  \/ DispatchMarksGate(p)
  \/ DispatchClaims(p)
  \/ DispatchSeesPrior(p)
  \/ DispatchCommits(p)

InspectNext(p) ==
  \/ \E q \in Request : InspectReadsRow(p, q)
  \/ InspectSeesHead(p)
  \/ InspectRecords(p)

StopNext(p) ==
  \/ \E q \in Request : StopReadsGate(p, q)
  \/ StopReadsFence(p)
  \/ StopMarksGate(p)

CertifyNext(p) ==
  \/ \E q \in Request : CertifyReadsGate(p, q)
  \/ CertifyVerifiesStop(p)
  \/ CertifySeesHead(p)
  \/ CertifyMarksGate(p)

Next ==
  \/ \E q \in Request : ReserveRequest(q) \/ AdmitRequest(q)
  \/ \E r \in OtherReceipts : CommitElsewhere(r)
  \/ \E p \in Proc : DispatchNext(p) \/ InspectNext(p) \/ StopNext(p)
                     \/ CertifyNext(p) \/ Fail(p)

Spec == Init /\ [][Next]_vars

\* The service's promises hold where every commit goes through the gate, which
\* the gate's own documentation asks of a deployment.
GateIsExclusive == ~ DirectLedger /\ OtherReceipts = {}

-----------------------------------------------------------------------------
(* Promises of every deployment.                                           *)

\* A fenced request reaches commit_receipt at most once, whatever crashes and
\* retries happen and even when some callers go past the gate: _claim_once is
\* spent before the witness is asked and never handed back.
AtMostOneAttempt == attempts <= 1

\* A commit attempt is on the durable record before it is made, so that a
\* service that restarts never finds PREPARED_NO_DISPATCH after one.
AttemptIsOnRecord ==
  attempts > 0 => ledger # NoRow /\ ledger.st # Prepared

\* Both: a service that dies around commit_receipt and comes back neither asks
\* the witness again nor believes that it never asked.
AttemptedOnce == AtMostOneAttempt /\ AttemptIsOnRecord

\* A ledger that names the successor as signed stands behind a head that has
\* reached it, though the head was read before the row was written and other
\* inspections and commits ran in between (inspect_signed_head).
SuccessorRecordIsTrue ==
  ledger # NoRow /\ ledger.st = SuccSigned => head # NoHead /\ head.rev > ledger.req.rev

\* No slower inspection that still saw the prior head takes a recorded
\* successor back: the row is compared with the one read first.
SuccessorRecordIsFinal ==
  [][ledger # NoRow /\ ledger.st = SuccSigned => ledger' = ledger]_vars

\* Both: a recorded successor is right, and stays on record.
SuccessorRecordStands == []SuccessorRecordIsTrue /\ SuccessorRecordIsFinal

(* Promises of a deployment whose gate is exclusive.                       *)

\* Once writers are certified stopped the head is the certified one for good:
\* no dispatch admitted before the stop can still land after a prior
\* certificate (certify_stopped_and_observe reads the head after the join).
CertificateHolds ==
  GateIsExclusive /\ gate # NoRow =>
    /\ gate.st = StoppedPrior => SignedPrior(gate.req, head)
    /\ gate.st = StoppedNext  => SignedSuccessor(gate.req, head)

\* A gate that says no dispatch has begun is right, and stays right once the
\* stop is requested: the ledger is still only prepared.
NoDispatchIsTrue ==
  GateIsExclusive /\ gate # NoRow /\ gate.st \in {Admitted, Stopping} =>
    ledger = [req |-> gate.req, st |-> Prepared] /\ attempts = 0

\* Both: whatever the gate says, before and after the stop, is so for good.
GateTellsTruth == CertificateHolds /\ NoDispatchIsTrue

\* A requested stop is in the end certified, whichever of its two states it
\* was recorded in, provided the admitted request fits the chain at all.
StopIsCertified ==
  (gate # NoRow /\ gate.st \in {Stopping, StoppingSent} /\ Recognised(gate.req, head))
    ~> (gate # NoRow /\ gate.st \in Terminal)

\* The comment on request_stop: a direct call of the ledger might already have
\* dispatched, and the gate must never understate that as "no dispatch".
StopNeverUnderstates ==
  [][gate # NoRow /\ gate.st = Admitted /\ gate'.st = Stopping
       => ledger # NoRow /\ ledger.st = Prepared]_vars

\* The service implements the one-shot compare-and-set.
phaseBar ==
  IF gate # NoRow /\ gate.st = StoppedPrior THEN "prior"
  ELSE IF gate # NoRow /\ gate.st = StoppedNext THEN "next"
  ELSE IF ledger.st = Prepared THEN "reserved" ELSE "possible"
updateBar ==
  IF ledger = NoRow THEN NoRow ELSE [req |-> ledger.req, phase |-> phaseBar]

\* An update is no row.
ASSUME NoUpdateAssumption ==
  NoRow \notin [req : Request, phase : {"reserved", "possible", "prior", "next"}]

Promise == INSTANCE OneShotCas WITH update <- updateBar, NoUpdate <- NoRow

\* Seen through the ledger and the gate, the processes of an exclusive gate do
\* nothing but reserve once, mark, land at most once and settle for good.
ImplementsOneShotCas == Promise!Spec
=============================================================================
