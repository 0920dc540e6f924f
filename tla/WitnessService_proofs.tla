------------------------- MODULE WitnessService_proofs -------------------------
(***************************************************************************)
(* Proofs about the witness service, for any receipts, requests and        *)
(* processes.  The promises of every deployment rest on AttemptInv and     *)
(* RecordInv, those of an exclusive gate on GateInv.                       *)
(***************************************************************************)
EXTENDS WitnessService, TLAPS

\* The actions of Next, one level of grouping removed.
LEMMA NextCases ==
  ASSUME Next
  PROVE  \/ \E q \in Request : ReserveRequest(q)
         \/ \E q \in Request : AdmitRequest(q)
         \/ \E r \in OtherReceipts : CommitElsewhere(r)
         \/ \E p \in Proc, q \in Request : DispatchReadsGate(p, q)
         \/ \E p \in Proc, q \in Request : DirectDispatch(p, q)
         \/ \E p \in Proc : DispatchMarksGate(p)
         \/ \E p \in Proc : DispatchClaims(p)
         \/ \E p \in Proc : DispatchSeesPrior(p)
         \/ \E p \in Proc : DispatchCommits(p)
         \/ \E p \in Proc, q \in Request : InspectReadsRow(p, q)
         \/ \E p \in Proc : InspectSeesHead(p)
         \/ \E p \in Proc : InspectRecords(p)
         \/ \E p \in Proc, q \in Request : StopReadsGate(p, q)
         \/ \E p \in Proc : StopReadsFence(p)
         \/ \E p \in Proc : StopMarksGate(p)
         \/ \E p \in Proc, q \in Request : CertifyReadsGate(p, q)
         \/ \E p \in Proc : CertifyVerifiesStop(p)
         \/ \E p \in Proc : CertifySeesHead(p)
         \/ \E p \in Proc : CertifyMarksGate(p)
         \/ \E p \in Proc : Fail(p)
BY DEF Next, DispatchNext, InspectNext, StopNext, CertifyNext

-----------------------------------------------------------------------------
(* Types.                                                                  *)

\* A committed receipt is a head.
LEMMA AppendedType ==
  ASSUME NEW h \in HeadRow \cup {NoHead}, NEW r \in Receipt
  PROVE  Appended(h, r) \in HeadRow
BY NoHeadAssumption DEF Appended, HeadRow

LEMMA RequestType ==
  \A q \in Request : q.pred \in Receipt /\ q.succ \in Receipt /\ q.rev \in Nat \ {0}
BY RequestAssumption

\* What the type of job says of one job.
LEMMA JobFields ==
  ASSUME TypeOK, NEW p \in Proc, job[p] # Free
  PROVE  /\ job[p].req \in Request
         /\ job[p].at \in WriteAt => job[p].row = NoRow
         /\ job[p].at \in GateAt \cup {"stopping", "certified"} => job[p].row \in GateRow
         /\ job[p].at \in {"inspect", "inspected"} => job[p].row \in FenceRow
         /\ job[p].at = "inspected" => job[p].to \in {PriorSigned, SuccSigned}
         /\ job[p].at = "stopping"  => job[p].to \in {Stopping, StoppingSent}
         /\ job[p].at = "certified" => job[p].to \in Terminal
<1>1. job[p] \in Job
  BY DEF TypeOK
<1> QED
  BY <1>1 DEF Job, WriteAt, GateAt

\* The jobs the steps build.
LEMMA JobTypes ==
  ASSUME NEW q \in Request
  PROVE  /\ \A at \in WriteAt : Doing(at, q, NoRow) \in Job
         /\ \A at \in GateAt, row \in GateRow : Doing(at, q, row) \in Job
         /\ \A row \in FenceRow : Doing("inspect", q, row) \in Job
         /\ \A row \in FenceRow, to \in {PriorSigned, SuccSigned} :
              Deciding("inspected", q, row, to) \in Job
         /\ \A row \in GateRow, to \in {Stopping, StoppingSent} :
              Deciding("stopping", q, row, to) \in Job
         /\ \A row \in GateRow, to \in Terminal :
              Deciding("certified", q, row, to) \in Job
BY DEF Doing, Deciding, Job

LEMMA JobUpdate ==
  ASSUME TypeOK, NEW p \in Proc, NEW j \in Job \cup {Free},
         job' = [job EXCEPT ![p] = j]
  PROVE  job' \in [Proc -> Job \cup {Free}]
BY DEF TypeOK

LEMMA TypeInit == Init => TypeOK
<1> SUFFICES ASSUME Init PROVE TypeOK
  OBVIOUS
<1>1. head \in HeadRow \cup {NoHead}
  BY ReceiptAssumption DEF Init, HeadRow
<1> QED
  BY <1>1 DEF Init, TypeOK, HeadTypeOK, FenceTypeOK, GateTypeOK

LEMMA TypeStep == TypeOK /\ [Next]_vars => TypeOK'
<1> SUFFICES ASSUME TypeOK, [Next]_vars PROVE TypeOK'
  OBVIOUS
<1> USE DEF HeadTypeOK, FenceTypeOK, GateTypeOK, service
<1>1. ASSUME NEW q \in Request, ReserveRequest(q) PROVE TypeOK'
  BY <1>1 DEF TypeOK, ReserveRequest, Reserve, FenceRow, FenceStatus
<1>2. ASSUME NEW q \in Request, AdmitRequest(q) PROVE TypeOK'
  BY <1>2 DEF TypeOK, AdmitRequest, Admit, GateRow, GateStatus
<1>3. ASSUME NEW r \in OtherReceipts, CommitElsewhere(r) PROVE TypeOK'
  BY <1>3, AppendedType, DeploymentAssumption
     DEF TypeOK, CommitElsewhere, OtherCommit
<1>4. ASSUME NEW p \in Proc, NEW q \in Request, DispatchReadsGate(p, q) PROVE TypeOK'
  <2>1. Doing("dispatch", q, gate) \in Job
    BY <1>4, JobTypes DEF TypeOK, DispatchReadsGate, GateOf, GateAt
  <2> QED
    BY <1>4, <2>1, JobUpdate DEF TypeOK, DispatchReadsGate, Start
<1>5. ASSUME NEW p \in Proc, NEW q \in Request, DirectDispatch(p, q) PROVE TypeOK'
  <2>1. ledger' \in FenceRow
    BY <1>5 DEF TypeOK, DirectDispatch, ClaimOnce, FenceOf, FenceRow, FenceStatus
  <2>2. Doing("claimed", q, NoRow) \in Job
    BY JobTypes DEF WriteAt
  <2> QED
    BY <1>5, <2>1, <2>2, JobUpdate DEF TypeOK, DirectDispatch, Start
<1>6. ASSUME NEW p \in Proc, DispatchMarksGate(p) PROVE TypeOK'
  <2>1. job[p].req \in Request /\ gate \in GateRow
    BY <1>6, JobFields DEF DispatchMarksGate, At, Transition, GateAt
  <2>2. Doing("running", job[p].req, NoRow) \in Job
    BY <2>1, JobTypes DEF WriteAt
  <2>3. gate' \in GateRow
    BY <1>6, <2>1 DEF DispatchMarksGate, Transition, GateRow, GateStatus
  <2> QED
    BY <1>6, <2>2, <2>3, JobUpdate DEF TypeOK, DispatchMarksGate, Step
<1>7. ASSUME NEW p \in Proc, DispatchClaims(p) PROVE TypeOK'
  <2>1. ledger' \in FenceRow
    BY <1>7 DEF TypeOK, DispatchClaims, ClaimOnce, FenceOf, FenceRow, FenceStatus
  <2>2. Doing("claimed", job[p].req, NoRow) \in Job
    BY <1>7, JobFields, JobTypes DEF DispatchClaims, At, WriteAt
  <2> QED
    BY <1>7, <2>1, <2>2, JobUpdate DEF TypeOK, DispatchClaims, Step
<1>8. ASSUME NEW p \in Proc, DispatchSeesPrior(p) PROVE TypeOK'
  <2>1. Doing("approved", job[p].req, NoRow) \in Job
    BY <1>8, JobFields, JobTypes DEF DispatchSeesPrior, At, WriteAt
  <2> QED
    BY <1>8, <2>1, JobUpdate DEF TypeOK, DispatchSeesPrior, Step
<1>9. ASSUME NEW p \in Proc, DispatchCommits(p) PROVE TypeOK'
  <2>1. job[p].req \in Request
    BY <1>9, JobFields DEF DispatchCommits, At
  <2>2. job' = [job EXCEPT ![p] = Free]
    BY <1>9 DEF DispatchCommits, Finish
  <2>3. attempts' \in Nat /\ head' \in HeadRow \cup {NoHead}
    BY <1>9, <2>1, AppendedType, RequestType DEF TypeOK, DispatchCommits, AttemptCommit
  <2> QED
    BY <1>9, <2>2, <2>3, JobUpdate DEF TypeOK, DispatchCommits
<1>10. ASSUME NEW p \in Proc, NEW q \in Request, InspectReadsRow(p, q) PROVE TypeOK'
  <2>1. Doing("inspect", q, ledger) \in Job
    BY <1>10, JobTypes DEF TypeOK, InspectReadsRow, Dispatched, FenceOf
  <2> QED
    BY <1>10, <2>1, JobUpdate DEF TypeOK, InspectReadsRow, Start
<1>11. ASSUME NEW p \in Proc, InspectSeesHead(p) PROVE TypeOK'
  <2>1. Deciding("inspected", job[p].req, job[p].row, StatusFor(job[p].req, head)) \in Job
    BY <1>11, JobFields, JobTypes DEF InspectSeesHead, At, StatusFor
  <2> QED
    BY <1>11, <2>1, JobUpdate DEF TypeOK, InspectSeesHead, Step
<1>12. ASSUME NEW p \in Proc, InspectRecords(p) PROVE TypeOK'
  <2>1. ledger' \in FenceRow
    BY <1>12, JobFields DEF InspectRecords, RecordHead, At, FenceRow, FenceStatus
  <2>2. job' = [job EXCEPT ![p] = Free]
    BY <1>12 DEF InspectRecords, Finish
  <2> QED
    BY <1>12, <2>1, <2>2, JobUpdate DEF TypeOK, InspectRecords
<1>13. ASSUME NEW p \in Proc, NEW q \in Request, StopReadsGate(p, q) PROVE TypeOK'
  <2>1. gate \in GateRow
    BY <1>13 DEF TypeOK, StopReadsGate, GateOf
  <2>2. /\ Doing("stop", q, gate) \in Job
        /\ Deciding("stopping", q, gate, StoppingSent) \in Job
    BY <2>1, JobTypes DEF GateAt
  <2> QED
    BY <1>13, <2>2, JobUpdate DEF TypeOK, StopReadsGate, Start
<1>14. ASSUME NEW p \in Proc, StopReadsFence(p) PROVE TypeOK'
  <2>1. Deciding("stopping", job[p].req, job[p].row, StopState(job[p].row, ledger)) \in Job
    BY <1>14, JobFields, JobTypes DEF StopReadsFence, At, GateAt, StopState
  <2> QED
    BY <1>14, <2>1, JobUpdate DEF TypeOK, StopReadsFence, Step
<1>15. ASSUME NEW p \in Proc, StopMarksGate(p) PROVE TypeOK'
  <2>1. gate' \in GateRow
    BY <1>15, JobFields DEF StopMarksGate, Transition, At, GateRow, GateStatus
  <2>2. job' = [job EXCEPT ![p] = Free]
    BY <1>15 DEF StopMarksGate, Finish
  <2> QED
    BY <1>15, <2>1, <2>2, JobUpdate DEF TypeOK, StopMarksGate
<1>16. ASSUME NEW p \in Proc, NEW q \in Request, CertifyReadsGate(p, q) PROVE TypeOK'
  <2>1. Doing("certify", q, gate) \in Job
    BY <1>16, JobTypes DEF TypeOK, CertifyReadsGate, GateOf, GateAt
  <2> QED
    BY <1>16, <2>1, JobUpdate DEF TypeOK, CertifyReadsGate, Start
<1>17. ASSUME NEW p \in Proc, CertifyVerifiesStop(p) PROVE TypeOK'
  <2>1. Doing("joined", job[p].req, job[p].row) \in Job
    BY <1>17, JobFields, JobTypes DEF CertifyVerifiesStop, At, GateAt
  <2> QED
    BY <1>17, <2>1, JobUpdate DEF TypeOK, CertifyVerifiesStop, Step
<1>18. ASSUME NEW p \in Proc, CertifySeesHead(p) PROVE TypeOK'
  <2>1. Deciding("certified", job[p].req, job[p].row, StoppedState(job[p].req, head)) \in Job
    BY <1>18, JobFields, JobTypes DEF CertifySeesHead, At, GateAt, StoppedState, Terminal
  <2> QED
    BY <1>18, <2>1, JobUpdate DEF TypeOK, CertifySeesHead, Step
<1>19. ASSUME NEW p \in Proc, CertifyMarksGate(p) PROVE TypeOK'
  <2>1. gate' \in GateRow
    BY <1>19, JobFields DEF CertifyMarksGate, Transition, At, GateRow, GateStatus
  <2>2. job' = [job EXCEPT ![p] = Free]
    BY <1>19 DEF CertifyMarksGate, Finish
  <2> QED
    BY <1>19, <2>1, <2>2, JobUpdate DEF TypeOK, CertifyMarksGate
<1>20. ASSUME NEW p \in Proc, Fail(p) PROVE TypeOK'
  BY <1>20, JobUpdate DEF TypeOK, Fail, Finish
<1>21. CASE UNCHANGED vars
  BY <1>21 DEF TypeOK, vars
<1> QED
  BY NextCases, <1>1, <1>2, <1>3, <1>4, <1>5, <1>6, <1>7, <1>8, <1>9, <1>10, <1>11,
     <1>12, <1>13, <1>14, <1>15, <1>16, <1>17, <1>18, <1>19, <1>20, <1>21

\* Every service process, database row and head keeps its type.
THEOREM TypeCorrect == Spec => []TypeOK
BY TypeInit, TypeStep, PTL DEF Spec

-----------------------------------------------------------------------------
(* At most one attempt, in every deployment.                               *)

\* A process past _claim_once, with the one right to call the witness.
HasClaim(p) == job[p] # Free /\ job[p].at \in {"claimed", "approved"}

\* The right is handed out once, leaves PREPARED behind and is gone when used.
\* AtMostOneAttempt alone is not inductive: a second process could already be
\* past its claim.  An inspector's snapshot matters because it writes the row.
AttemptInv ==
  /\ AtMostOneAttempt
  /\ AttemptIsOnRecord
  /\ \A p \in Proc : HasClaim(p) => attempts = 0 /\ ledger # NoRow /\ ledger.st # Prepared
  /\ \A p, r \in Proc : HasClaim(p) /\ HasClaim(r) => p = r

\* Neither a job's start nor its next step makes another process hold a claim.
LEMMA ClaimFrame ==
  ASSUME TypeOK, NEW p \in Proc, NEW j, job' = [job EXCEPT ![p] = j],
         j = Free \/ j.at \notin {"claimed", "approved"}
  PROVE  \A r \in Proc : HasClaim(r)' => HasClaim(r)
BY DEF TypeOK, HasClaim

LEMMA AttemptInit == Init => AttemptInv
BY DEF Init, AttemptInv, AtMostOneAttempt, AttemptIsOnRecord, HasClaim

LEMMA AttemptStep == TypeOK /\ AttemptInv /\ [Next]_vars => AttemptInv'
<1> SUFFICES ASSUME TypeOK, AttemptInv, [Next]_vars PROVE AttemptInv'
  OBVIOUS
<1> USE DEF AtMostOneAttempt, AttemptIsOnRecord
\* A step that starts no claim and leaves the counter and the ledger alone.
<1>q. ASSUME NEW p \in Proc, NEW j, job' = [job EXCEPT ![p] = j],
             j = Free \/ j.at \notin {"claimed", "approved"},
             attempts' = attempts, ledger' = ledger
      PROVE  AttemptInv'
  BY <1>q, ClaimFrame DEF AttemptInv
<1>1. ASSUME NEW q \in Request, ReserveRequest(q) PROVE AttemptInv'
  <2>1. attempts = 0 /\ \A p \in Proc : ~ HasClaim(p)
    BY <1>1 DEF AttemptInv, ReserveRequest, Reserve, TypeOK, HeadTypeOK
  <2> QED
    BY <1>1, <2>1 DEF AttemptInv, ReserveRequest, Reserve, HasClaim
<1>2. ASSUME NEW q \in Request, AdmitRequest(q) PROVE AttemptInv'
  BY <1>2 DEF AttemptInv, AdmitRequest, HasClaim
<1>3. ASSUME NEW r \in OtherReceipts, CommitElsewhere(r) PROVE AttemptInv'
  BY <1>3 DEF AttemptInv, CommitElsewhere, OtherCommit, HasClaim
<1>4. ASSUME NEW p \in Proc, NEW q \in Request, DispatchReadsGate(p, q) PROVE AttemptInv'
  BY <1>4, <1>q DEF DispatchReadsGate, Start, Doing, Deciding, service
\* Both claims start from a prepared ledger, hence from no claim at all.
<1>5. ASSUME NEW p \in Proc, NEW j, job' = [job EXCEPT ![p] = j],
             j = Free \/ j.at = "claimed", attempts' = attempts,
             ledger # NoRow, ledger.st = Prepared,
             ledger' = [ledger EXCEPT !.st = MayHaveSent]
      PROVE  AttemptInv'
  <2>1. attempts = 0 /\ \A r \in Proc : ~ HasClaim(r)
    BY <1>5 DEF AttemptInv, TypeOK, HeadTypeOK
  <2>2. ledger' # NoRow /\ ledger'.st # Prepared
    BY <1>5, NoRowAssumption
       DEF TypeOK, FenceTypeOK, FenceRow, FenceStatus, Prepared, MayHaveSent
  <2>3. \A r \in Proc : HasClaim(r)' => r = p
    BY <1>5, <2>1 DEF TypeOK, HasClaim
  <2> QED
    BY <1>5, <2>1, <2>2, <2>3 DEF AttemptInv
<1>6. ASSUME NEW p \in Proc, NEW q \in Request, DirectDispatch(p, q) PROVE AttemptInv'
  BY <1>6, <1>5 DEF DirectDispatch, ClaimOnce, FenceOf, Start, Doing, Deciding
<1>7. ASSUME NEW p \in Proc, DispatchMarksGate(p) PROVE AttemptInv'
  BY <1>7, <1>q DEF DispatchMarksGate, Step, Doing, Deciding
<1>8. ASSUME NEW p \in Proc, DispatchClaims(p) PROVE AttemptInv'
  BY <1>8, <1>5 DEF DispatchClaims, ClaimOnce, FenceOf, Step, Doing, Deciding
<1>9. ASSUME NEW p \in Proc, DispatchSeesPrior(p) PROVE AttemptInv'
  <2>1. \A r \in Proc : HasClaim(r)' => HasClaim(r)
    BY <1>9 DEF DispatchSeesPrior, At, Step, TypeOK, HasClaim
  <2> QED
    BY <1>9, <2>1 DEF AttemptInv, DispatchSeesPrior, service
<1>10. ASSUME NEW p \in Proc, DispatchCommits(p) PROVE AttemptInv'
  <2>1. HasClaim(p)
    BY <1>10 DEF DispatchCommits, At, HasClaim
  <2>2. \A r \in Proc : ~ HasClaim(r)'
    BY <1>10, <2>1 DEF DispatchCommits, Finish, AttemptInv, TypeOK, HasClaim
  <2> QED
    BY <1>10, <2>1, <2>2 DEF AttemptInv, DispatchCommits, AttemptCommit
<1>11. ASSUME NEW p \in Proc, NEW q \in Request, InspectReadsRow(p, q) PROVE AttemptInv'
  BY <1>11, <1>q DEF InspectReadsRow, Start, Doing, Deciding, service
<1>12. ASSUME NEW p \in Proc, InspectSeesHead(p) PROVE AttemptInv'
  BY <1>12, <1>q DEF InspectSeesHead, Step, Deciding, service
<1>13. ASSUME NEW p \in Proc, InspectRecords(p) PROVE AttemptInv'
  <2>1. ledger' # NoRow /\ ledger'.st # Prepared
    BY <1>13, JobFields, NoRowAssumption
       DEF InspectRecords, RecordHead, At, FenceRow, FenceStatus,
           Prepared, PriorSigned, SuccSigned
  <2>2. \A r \in Proc : HasClaim(r)' => HasClaim(r)
    BY <1>13, ClaimFrame DEF InspectRecords, Finish
  <2> QED
    BY <1>13, <2>1, <2>2 DEF AttemptInv, InspectRecords
<1>14. ASSUME NEW p \in Proc, NEW q \in Request, StopReadsGate(p, q) PROVE AttemptInv'
  BY <1>14, <1>q DEF StopReadsGate, Start, Doing, Deciding, service
<1>15. ASSUME NEW p \in Proc, StopReadsFence(p) PROVE AttemptInv'
  BY <1>15, <1>q DEF StopReadsFence, Step, Deciding, service
<1>16. ASSUME NEW p \in Proc, StopMarksGate(p) PROVE AttemptInv'
  BY <1>16, <1>q DEF StopMarksGate, Finish
<1>17. ASSUME NEW p \in Proc, NEW q \in Request, CertifyReadsGate(p, q) PROVE AttemptInv'
  BY <1>17, <1>q DEF CertifyReadsGate, Start, Doing, Deciding, service
<1>18. ASSUME NEW p \in Proc, CertifyVerifiesStop(p) PROVE AttemptInv'
  BY <1>18, <1>q DEF CertifyVerifiesStop, Step, Doing, Deciding, service
<1>19. ASSUME NEW p \in Proc, CertifySeesHead(p) PROVE AttemptInv'
  BY <1>19, <1>q DEF CertifySeesHead, Step, Deciding, service
<1>20. ASSUME NEW p \in Proc, CertifyMarksGate(p) PROVE AttemptInv'
  BY <1>20, <1>q DEF CertifyMarksGate, Finish
<1>21. ASSUME NEW p \in Proc, Fail(p) PROVE AttemptInv'
  BY <1>21, <1>q DEF Fail, Finish, service
<1>22. CASE UNCHANGED vars
  BY <1>22 DEF AttemptInv, HasClaim, vars
<1> QED
  BY NextCases, <1>1, <1>2, <1>3, <1>4, <1>6, <1>7, <1>8, <1>9, <1>10, <1>11, <1>12,
     <1>13, <1>14, <1>15, <1>16, <1>17, <1>18, <1>19, <1>20, <1>21, <1>22

\* A fenced request reaches the witness at most once, whoever goes past the
\* gate and whatever fails in between.
THEOREM OneAttempt == Spec => []AtMostOneAttempt
<1>1. AttemptInv => AtMostOneAttempt
  BY DEF AttemptInv
<1> QED
  BY TypeCorrect, AttemptInit, AttemptStep, <1>1, PTL DEF Spec

\* No attempt precedes its durable mark.
THEOREM AttemptRecorded == Spec => []AttemptIsOnRecord
<1>1. AttemptInv => AttemptIsOnRecord
  BY DEF AttemptInv
<1> QED
  BY TypeCorrect, AttemptInit, AttemptStep, <1>1, PTL DEF Spec

\* Both, for whoever restarts after a crash around the call.
THEOREM OnceAndRecorded == Spec => []AttemptedOnce
BY OneAttempt, AttemptRecorded, PTL DEF AttemptedOnce

-----------------------------------------------------------------------------
(* What the ledger records of the head, in every deployment.               *)

\* The head is past the prior of request q.
Reached(h, q) == h # NoHead /\ h.rev > q.rev

\* The status an inspection is about to write is true of the head it saw, and
\* of every later head, because heads only advance; and an inspection that
\* read a recorded successor is about to write a successor.
RecordInv ==
  /\ SuccessorRecordIsTrue
  /\ \A p \in Proc : job[p] # Free /\ job[p].at \in {"inspect", "inspected"}
       => job[p].row.req = job[p].req
  /\ \A p \in Proc : job[p] # Free /\ job[p].at = "inspected" =>
       /\ job[p].to = SuccSigned => Reached(head, job[p].req)
       /\ job[p].row.st = SuccSigned => job[p].to = SuccSigned

\* A head that is reached stays reached.
LEMMA HeadAdvances ==
  ASSUME TypeOK, [Next]_vars
  PROVE  \A q \in Request : Reached(head, q) => Reached(head', q)
<1>0. ASSUME NEW r \in Receipt, head' = Appended(head, r), NEW q \in Request, Reached(head, q)
      PROVE  Reached(head', q)
  <2>1. head \in HeadRow /\ head.rev \in Nat /\ q.rev \in Nat
    BY <1>0, RequestType DEF TypeOK, HeadTypeOK, Reached, HeadRow
  <2>2. head' \in HeadRow /\ head'.rev = head.rev + 1
    BY <1>0, <2>1, AppendedType DEF Reached, Appended
  <2> QED
    BY <1>0, <2>1, <2>2, NoHeadAssumption DEF Reached
<1>1. ASSUME NEW r \in OtherReceipts, CommitElsewhere(r), NEW q \in Request, Reached(head, q)
      PROVE  Reached(head', q)
  BY <1>0, <1>1, DeploymentAssumption DEF CommitElsewhere, OtherCommit
<1>2. ASSUME NEW p \in Proc, DispatchCommits(p), NEW q \in Request, Reached(head, q)
      PROVE  Reached(head', q)
  <2>1. job[p].req.succ \in Receipt
    BY <1>2, JobFields, RequestType DEF DispatchCommits, At
  <2> QED
    BY <1>0, <1>2, <2>1 DEF DispatchCommits, AttemptCommit, Reached
<1>3. head' = head \/ (\E r \in OtherReceipts : CommitElsewhere(r))
                   \/ (\E p \in Proc : DispatchCommits(p))
  BY NextCases
     DEF ReserveRequest, AdmitRequest, DispatchReadsGate, DirectDispatch, DispatchMarksGate,
         DispatchClaims, DispatchSeesPrior, InspectReadsRow, InspectSeesHead, InspectRecords,
         StopReadsGate, StopReadsFence, StopMarksGate, CertifyReadsGate, CertifyVerifiesStop,
         CertifySeesHead, CertifyMarksGate, Fail, service, vars
<1> QED
  BY <1>1, <1>2, <1>3 DEF Reached

LEMMA RecordInit == Init => RecordInv
BY DEF Init, RecordInv, SuccessorRecordIsTrue

\* The ledger moves only by reservation, claim and recorded inspection.
LEMMA LedgerMoves ==
  ASSUME [Next]_vars
  PROVE  \/ ledger' = ledger
         \/ ledger = NoRow /\ \E q \in Request : ledger' = [req |-> q, st |-> Prepared]
         \/ /\ ledger # NoRow /\ ledger.st = Prepared
            /\ ledger' = [ledger EXCEPT !.st = MayHaveSent]
         \/ \E p \in Proc : InspectRecords(p)
BY NextCases
   DEF ReserveRequest, Reserve, AdmitRequest, CommitElsewhere, DispatchReadsGate,
       DirectDispatch, DispatchMarksGate, DispatchClaims, ClaimOnce, FenceOf,
       DispatchSeesPrior, DispatchCommits, InspectReadsRow, InspectSeesHead,
       StopReadsGate, StopReadsFence, StopMarksGate, CertifyReadsGate, CertifyVerifiesStop,
       CertifySeesHead, CertifyMarksGate, Fail, service, vars

\* The inspections in progress after a step are those before it, one that has
\* just read the row, or one that has just seen the head.
LEMMA InspectMoves ==
  ASSUME TypeOK, [Next]_vars, NEW p \in Proc,
         job'[p] # Free, job'[p].at \in {"inspect", "inspected"}
  PROVE  \/ job'[p] = job[p]
         \/ \E q \in Request : Dispatched(q) /\ job'[p] = Doing("inspect", q, ledger)
         \/ InspectSeesHead(p)
<1> USE DEF TypeOK, Start, Step, Finish, Doing, Deciding
<1>1. ASSUME NEW r \in Proc, NEW j, job' = [job EXCEPT ![r] = j],
             j = Free \/ j.at \notin {"inspect", "inspected"}
      PROVE  job'[p] = job[p]
  BY <1>1
<1>2. ASSUME NEW r \in Proc, NEW q \in Request, InspectReadsRow(r, q)
      PROVE  job'[p] = job[p] \/ (Dispatched(q) /\ job'[p] = Doing("inspect", q, ledger))
  BY <1>2 DEF InspectReadsRow
<1>3. ASSUME NEW r \in Proc, InspectSeesHead(r)
      PROVE  job'[p] = job[p] \/ InspectSeesHead(p)
  BY <1>3 DEF InspectSeesHead
<1>4. ASSUME NEW r \in Proc, NEW q \in Request,
             \/ DispatchReadsGate(r, q) \/ DirectDispatch(r, q)
             \/ StopReadsGate(r, q) \/ CertifyReadsGate(r, q)
      PROVE  job'[p] = job[p]
  BY <1>4, <1>1 DEF DispatchReadsGate, DirectDispatch, StopReadsGate, CertifyReadsGate
<1>5. ASSUME NEW r \in Proc,
             \/ DispatchMarksGate(r) \/ DispatchClaims(r) \/ DispatchSeesPrior(r)
             \/ DispatchCommits(r) \/ InspectRecords(r) \/ StopReadsFence(r)
             \/ StopMarksGate(r) \/ CertifyVerifiesStop(r) \/ CertifySeesHead(r)
             \/ CertifyMarksGate(r) \/ Fail(r)
      PROVE  job'[p] = job[p]
  BY <1>5, <1>1
     DEF DispatchMarksGate, DispatchClaims, DispatchSeesPrior, DispatchCommits,
         InspectRecords, StopReadsFence, StopMarksGate, CertifyVerifiesStop,
         CertifySeesHead, CertifyMarksGate, Fail
<1>6. ASSUME NEW q \in Request, ReserveRequest(q) \/ AdmitRequest(q)
      PROVE  job'[p] = job[p]
  BY <1>6 DEF ReserveRequest, AdmitRequest
<1>7. ASSUME NEW r \in OtherReceipts, CommitElsewhere(r) PROVE job'[p] = job[p]
  BY <1>7 DEF CommitElsewhere
<1>8. CASE UNCHANGED vars
  BY <1>8 DEF vars
<1> QED
  BY NextCases, <1>2, <1>3, <1>4, <1>5, <1>6, <1>7, <1>8

LEMMA RecordStep == TypeOK /\ RecordInv /\ [Next]_vars => RecordInv'
<1> SUFFICES ASSUME TypeOK, RecordInv, [Next]_vars PROVE RecordInv'
  OBVIOUS
<1>1. SuccessorRecordIsTrue'
  <2>1. CASE ledger' = ledger
    BY <2>1, HeadAdvances
       DEF RecordInv, SuccessorRecordIsTrue, Reached, TypeOK, FenceTypeOK, FenceRow
  <2>2. CASE ledger'.st \in {Prepared, MayHaveSent}
    BY <2>2 DEF SuccessorRecordIsTrue, Prepared, MayHaveSent, SuccSigned
  <2>3. ASSUME NEW p \in Proc, InspectRecords(p) PROVE SuccessorRecordIsTrue'
    <3>1. /\ job[p] # Free /\ job[p].at = "inspected" /\ job[p].row \in FenceRow
          /\ job[p].req \in Request
      BY <2>3, JobFields DEF InspectRecords, At
    <3>2. ledger'.st = job[p].to /\ ledger'.req = job[p].req
      BY <2>3, <3>1 DEF InspectRecords, RecordHead, FenceRow, RecordInv
    <3>3. job[p].to = SuccSigned => Reached(head', job[p].req)
      BY <3>1, HeadAdvances DEF RecordInv
    <3> QED
      BY <3>2, <3>3 DEF SuccessorRecordIsTrue, Reached
  <2>4. \A q \in Request : [req |-> q, st |-> Prepared].st = Prepared
    OBVIOUS
  <2>5. ledger \in FenceRow => [ledger EXCEPT !.st = MayHaveSent].st = MayHaveSent
    BY DEF FenceRow
  <2> QED
    BY <2>1, <2>2, <2>3, <2>4, <2>5, LedgerMoves DEF TypeOK, FenceTypeOK
<1>2. ASSUME NEW p \in Proc, job'[p] # Free, job'[p].at \in {"inspect", "inspected"}
      PROVE  /\ job'[p].row.req = job'[p].req
             /\ job'[p].at = "inspected" =>
                  /\ job'[p].to = SuccSigned => Reached(head', job'[p].req)
                  /\ job'[p].row.st = SuccSigned => job'[p].to = SuccSigned
  <2>1. CASE job'[p] = job[p]
    <3>1. job[p].req \in Request
      BY <1>2, <2>1, JobFields
    <3> QED
      BY <1>2, <2>1, <3>1, HeadAdvances DEF RecordInv
  <2>2. ASSUME NEW q \in Request, Dispatched(q), job'[p] = Doing("inspect", q, ledger)
        PROVE  job'[p].row.req = job'[p].req /\ job'[p].at # "inspected"
    BY <2>2 DEF Doing, Deciding, Dispatched, FenceOf
  <2>3. CASE InspectSeesHead(p)
    <3>1. /\ job[p] # Free /\ job[p].at = "inspect" /\ job[p].req \in Request
          /\ job'[p] = Deciding("inspected", job[p].req, job[p].row, StatusFor(job[p].req, head))
          /\ MayRecord(job[p].req, job[p].row, head)
          /\ head' = head
      BY <2>3, JobFields DEF InspectSeesHead, At, Step, service, TypeOK
    <3>2. SignedSuccessor(job[p].req, head) => Reached(head, job[p].req)
      BY <3>1, RequestType, NoHeadAssumption
         DEF SignedSuccessor, SuccessorHead, Reached, TypeOK, HeadTypeOK, HeadRow
    <3>3. PriorSigned # SuccSigned
      BY DEF PriorSigned, SuccSigned
    <3> QED
      BY <3>1, <3>2, <3>3 DEF Deciding, StatusFor, MayRecord, RecordInv, Reached
  <2> QED
    BY <1>2, <2>1, <2>2, <2>3, InspectMoves
<1> QED
  BY <1>1, <1>2 DEF RecordInv

\* A ledger that records the successor stands behind a head past the prior.
THEOREM SuccessorRecordTrue == Spec => []SuccessorRecordIsTrue
<1>1. RecordInv => SuccessorRecordIsTrue
  BY DEF RecordInv
<1> QED
  BY TypeCorrect, RecordInit, RecordStep, <1>1, PTL DEF Spec

\* A recorded successor is never taken back.
THEOREM SuccessorRecordFinal == Spec => SuccessorRecordIsFinal
<1>1. ASSUME TypeOK, RecordInv, [Next]_vars
      PROVE  [ledger # NoRow /\ ledger.st = SuccSigned => ledger' = ledger]_vars
  <2>1. SUFFICES ASSUME ledger # NoRow, ledger.st = SuccSigned PROVE ledger' = ledger
    OBVIOUS
  <2>3. SuccSigned # Prepared
    BY DEF Prepared, SuccSigned
  <2>2. ASSUME NEW p \in Proc, InspectRecords(p) PROVE ledger' = ledger
    <3>1. job[p] # Free /\ job[p].at = "inspected" /\ ledger = job[p].row
      BY <2>2 DEF InspectRecords, RecordHead, At
    <3>2. job[p].to = SuccSigned
      BY <2>1, <3>1, <1>1 DEF RecordInv
    <3>3. ledger' = [ledger EXCEPT !.st = SuccSigned] /\ ledger \in FenceRow
      BY <2>2, <3>1, <3>2, <1>1, JobFields DEF InspectRecords, RecordHead
    <3> QED
      BY <2>1, <3>3 DEF FenceRow
  <2> QED
    BY <2>1, <2>2, <2>3, <1>1, LedgerMoves
<1> QED
  BY TypeCorrect, RecordInit, RecordStep, <1>1, PTL DEF Spec, SuccessorRecordIsFinal

\* Both: a recorded successor is right, and stays on record.
THEOREM SuccessorRecordRight == Spec => SuccessorRecordStands
BY SuccessorRecordTrue, SuccessorRecordFinal, PTL DEF SuccessorRecordStands

-----------------------------------------------------------------------------
(***************************************************************************)
(* A deployment whose gate is exclusive keeps its certificates and         *)
(* implements OneShotCas, for any receipts, requests and processes.        *)
(***************************************************************************)

Exclusive == GateIsExclusive

StopRequested == {Stopping, StoppingSent}
JobAt(p, places) == job[p] # Free /\ job[p].at \in places

\* What makes a certificate hold.  A certificate is true when written because
\* the head it rests on was read after the writers were joined (Joined), and
\* stays true because the gate lets no writer in once a stop is requested
\* (Writers); NoDispatchIsTrue rests on the same link between gate and ledger.
Linked ==
  gate # NoRow => ledger # NoRow /\ ledger.req = gate.req

Rows ==
  \A p \in Proc :
    /\ JobAt(p, {"dispatch"}) => job[p].row.st = Admitted /\ job[p].row.req = job[p].req
    /\ JobAt(p, {"stop"}) => job[p].row.st = Admitted
    /\ JobAt(p, {"stopping"}) =>
         /\ job[p].row.st \in {Admitted, InFlight}
         /\ job[p].to = Stopping => job[p].row.st = Admitted
    /\ JobAt(p, {"certify", "joined", "certified"}) =>
         /\ job[p].row.st \in StopRequested /\ job[p].row.req = job[p].req
         /\ gate # NoRow /\ gate.st \in StopRequested \cup Terminal
    /\ JobAt(p, {"inspect", "inspected"}) =>
         job[p].row.st # Prepared /\ job[p].row.req = job[p].req

Writers ==
  \A p \in Proc : Writing(p) =>
    gate # NoRow /\ gate.st \in {InFlight, StoppingSent} /\ gate.req = job[p].req

Joined ==
  \A p \in Proc :
    /\ JobAt(p, {"joined", "certified"}) => \A w \in Proc : ~ Writing(w)
    /\ JobAt(p, {"certified"}) =>
         \/ job[p].to = StoppedPrior /\ SignedPrior(job[p].req, head)
         \/ job[p].to = StoppedNext /\ SignedSuccessor(job[p].req, head)

\* The head an approved writer saw is still there when it calls the witness.
Approved ==
  \A p \in Proc : JobAt(p, {"approved"}) => SignedPrior(job[p].req, head)

Certificates ==
  gate # NoRow =>
    /\ gate.st = StoppedPrior => SignedPrior(gate.req, head)
    /\ gate.st = StoppedNext  => SignedSuccessor(gate.req, head)
    /\ gate.st \in {Admitted, Stopping} =>
         ledger = [req |-> gate.req, st |-> Prepared] /\ attempts = 0

GateInv == Linked /\ Rows /\ Writers /\ Joined /\ Approved /\ Certificates

LEMMA GateInit == Init => GateInv
BY DEF Init, GateInv, Linked, Rows, Writers, Joined, Approved, Certificates,
       JobAt, Writing

\* The statuses are different strings.
LEMMA Distinct ==
  /\ Admitted \notin StopRequested \cup Terminal /\ InFlight \notin StopRequested \cup Terminal
  /\ Stopping \notin Terminal /\ StoppingSent \notin Terminal /\ StoppedPrior # StoppedNext
  /\ Admitted # InFlight /\ Stopping # StoppingSent
  /\ Prepared # MayHaveSent /\ Prepared # PriorSigned /\ Prepared # SuccSigned
BY DEF Admitted, InFlight, Stopping, StoppingSent, StoppedPrior, StoppedNext, Terminal,
       StopRequested, Prepared, MayHaveSent, PriorSigned, SuccSigned

LEMMA GateStep == Exclusive /\ TypeOK /\ AttemptInv /\ GateInv /\ [Next]_vars => GateInv'
<1> SUFFICES ASSUME Exclusive, TypeOK, AttemptInv, GateInv, [Next]_vars PROVE GateInv'
  OBVIOUS
<1> USE Distinct DEF StopRequested
\* A step that only ends a job.
<1>q. ASSUME NEW p \in Proc, job' = [job EXCEPT ![p] = Free], UNCHANGED service
      PROVE  GateInv'
  BY <1>q DEF GateInv, Linked, Rows, Writers, Joined, Approved, Certificates,
              JobAt, Writing, WriteAt, TypeOK, service
<1>1. ASSUME NEW q \in Request, ReserveRequest(q) PROVE GateInv'
  BY <1>1 DEF ReserveRequest, Reserve, GateInv, Linked, Rows, Writers, Joined, Approved,
              Certificates, JobAt, Writing
<1>2. ASSUME NEW q \in Request, AdmitRequest(q) PROVE GateInv'
  <2>1. gate = NoRow /\ gate' = [req |-> q, st |-> Admitted] /\ gate' # NoRow
    BY <1>2, NoGateAssumption DEF AdmitRequest, Admit, GateRow, GateStatus
  <2>2. attempts = 0
    BY <1>2 DEF AdmitRequest, Admit, AttemptInv, AttemptIsOnRecord, TypeOK, HeadTypeOK
  <2>3. ledger = [req |-> q, st |-> Prepared]
    BY <1>2 DEF AdmitRequest, Admit, FenceOf, TypeOK, FenceTypeOK, FenceRow
  <2>4. UNCHANGED <<head, attempts, ledger, job>>
    BY <1>2 DEF AdmitRequest
  <2>5. \A w \in Proc : ~ JobAt(w, {"certify", "joined", "certified"}) /\ ~ Writing(w)
    BY <2>1 DEF GateInv, Rows, Writers, JobAt, Writing
  <2>6. Rows' /\ Writers' /\ Joined' /\ Approved'
    BY <2>4, <2>5 DEF GateInv, Rows, Writers, Joined, Approved, JobAt, Writing
  <2>7. Linked' /\ Certificates'
    BY <2>1, <2>2, <2>3, <2>4, NoRowAssumption
       DEF Linked, Certificates, Terminal, FenceRow, FenceStatus
  <2> QED
    BY <2>6, <2>7 DEF GateInv
<1>3. ASSUME NEW r \in OtherReceipts, CommitElsewhere(r) PROVE GateInv'
  BY <1>3 DEF Exclusive, GateIsExclusive
<1>4. ASSUME NEW p \in Proc, NEW q \in Request, DispatchReadsGate(p, q) PROVE GateInv'
  BY <1>4 DEF DispatchReadsGate, Start, Doing, Deciding, GateOf, service, GateInv, Linked,
              Rows, Writers, Joined, Approved, Certificates, JobAt, Writing, WriteAt, TypeOK
<1>5. ASSUME NEW p \in Proc, NEW q \in Request, DirectDispatch(p, q) PROVE GateInv'
  BY <1>5 DEF DirectDispatch, Exclusive, GateIsExclusive
<1>6. ASSUME NEW p \in Proc, DispatchMarksGate(p) PROVE GateInv'
  <2>1. gate \in GateRow /\ gate # NoRow /\ gate.st = Admitted /\ gate.req = job[p].req
    BY <1>6, JobFields, NoGateAssumption
       DEF DispatchMarksGate, At, Transition, GateAt, GateInv, Rows, JobAt
  <2>2. gate' # NoRow /\ gate'.st = InFlight /\ gate'.req = gate.req
    BY <1>6, <2>1, NoGateAssumption DEF DispatchMarksGate, Transition, GateRow, GateStatus
  <2>3. \A w \in Proc : ~ JobAt(w, {"certify", "joined", "certified"}) /\ ~ Writing(w)
    BY <2>1 DEF GateInv, Rows, Writers
  <2>4. \A w \in Proc : w # p => job'[w] = job[w]
    BY <1>6 DEF DispatchMarksGate, Step, TypeOK
  <2>5. job'[p] = Doing("running", job[p].req, NoRow)
    BY <1>6 DEF DispatchMarksGate, Step, TypeOK
  <2>6. Rows' /\ Writers' /\ Joined' /\ Approved'
    BY <2>1, <2>2, <2>3, <2>4, <2>5
       DEF Rows, Writers, Joined, Approved, JobAt, Writing, WriteAt, Doing, Deciding, GateInv
  <2> QED
    BY <1>6, <2>1, <2>2, <2>6 DEF DispatchMarksGate, GateInv, Linked, Certificates, Terminal
<1>7. ASSUME NEW p \in Proc, DispatchClaims(p) PROVE GateInv'
  <2>1. Writing(p)
    BY <1>7 DEF DispatchClaims, At, Writing, WriteAt
  <2>2. gate # NoRow /\ gate.st \in {InFlight, StoppingSent} /\ gate.req = job[p].req
    BY <2>1 DEF GateInv, Writers
  <2>3. ledger' # NoRow /\ ledger'.req = job[p].req
    BY <1>7, NoRowAssumption
       DEF DispatchClaims, ClaimOnce, FenceOf, TypeOK, FenceTypeOK, FenceRow, FenceStatus
  <2>4. \A w \in Proc : ~ JobAt(w, {"joined", "certified"})
    BY <2>1 DEF GateInv, Joined
  <2>5. job' = [job EXCEPT ![p] = Doing("claimed", job[p].req, NoRow)]
    BY <1>7 DEF DispatchClaims, Step
  <2>6. Rows' /\ Writers' /\ Joined' /\ Approved'
    BY <1>7, <2>1, <2>2, <2>4, <2>5
       DEF DispatchClaims, Rows, Writers, Joined, Approved, JobAt, Writing, WriteAt, Doing,
           Deciding, GateInv, TypeOK
  <2> QED
    BY <1>7, <2>2, <2>3, <2>6 DEF DispatchClaims, GateInv, Linked, Certificates, Terminal
<1>8. ASSUME NEW p \in Proc, DispatchSeesPrior(p) PROVE GateInv'
  <2>1. Writing(p)
    BY <1>8 DEF DispatchSeesPrior, At, Writing, WriteAt
  <2>2. job' = [job EXCEPT ![p] = Doing("approved", job[p].req, NoRow)]
    BY <1>8 DEF DispatchSeesPrior, Step
  <2> QED
    BY <1>8, <2>1, <2>2
       DEF DispatchSeesPrior, service, Rows, Writers, Joined, Approved, JobAt, Writing,
           WriteAt, Doing, Deciding, GateInv, TypeOK, Linked, Certificates
<1>9. ASSUME NEW p \in Proc, DispatchCommits(p) PROVE GateInv'
  <2>1. Writing(p) /\ HasClaim(p)
    BY <1>9 DEF DispatchCommits, At, Writing, WriteAt, HasClaim
  <2>2. gate # NoRow /\ gate.st \in {InFlight, StoppingSent} /\ gate.req = job[p].req
    BY <2>1 DEF GateInv, Writers
  <2>3. \A w \in Proc : ~ JobAt(w, {"joined", "certified"})
    BY <2>1 DEF GateInv, Joined
  <2>4. \A w \in Proc : HasClaim(w) => w = p
    BY <2>1 DEF AttemptInv
  <2>5. job' = [job EXCEPT ![p] = Free]
    BY <1>9 DEF DispatchCommits, Finish
  <2>6. Rows' /\ Writers' /\ Joined' /\ Approved'
    BY <1>9, <2>2, <2>3, <2>4, <2>5
       DEF DispatchCommits, Rows, Writers, Joined, Approved, JobAt, Writing, WriteAt,
           HasClaim, GateInv, TypeOK
  <2> QED
    BY <1>9, <2>2, <2>6 DEF DispatchCommits, GateInv, Linked, Certificates, Terminal
<1>10. ASSUME NEW p \in Proc, NEW q \in Request, InspectReadsRow(p, q) PROVE GateInv'
  BY <1>10 DEF InspectReadsRow, Dispatched, FenceOf, Start, Doing, Deciding, service, GateInv,
               Linked, Rows, Writers, Joined, Approved, Certificates, JobAt, Writing, WriteAt,
               TypeOK
<1>11. ASSUME NEW p \in Proc, InspectSeesHead(p) PROVE GateInv'
  BY <1>11 DEF InspectSeesHead, At, Step, Deciding, service, GateInv, Linked, Rows, Writers,
               Joined, Approved, Certificates, JobAt, Writing, WriteAt, TypeOK
<1>12. ASSUME NEW p \in Proc, InspectRecords(p) PROVE GateInv'
  <2>1. /\ ledger \in FenceRow /\ ledger.st # Prepared
        /\ ledger' = [ledger EXCEPT !.st = job[p].to]
    BY <1>12, JobFields DEF InspectRecords, RecordHead, At, GateInv, Rows, JobAt
  <2>2. ledger' # NoRow /\ ledger'.req = ledger.req /\ ledger # NoRow
    BY <1>12, <2>1, JobFields, NoRowAssumption
       DEF InspectRecords, At, FenceRow, FenceStatus
  <2>3. gate # NoRow => gate.st \notin {Admitted, Stopping}
    BY <2>1 DEF GateInv, Certificates
  <2>4. job' = [job EXCEPT ![p] = Free] /\ UNCHANGED <<head, attempts, gate>>
    BY <1>12 DEF InspectRecords, Finish
  <2>5. Rows' /\ Writers' /\ Joined' /\ Approved'
    BY <2>4 DEF GateInv, Rows, Writers, Joined, Approved, JobAt, Writing, TypeOK
  <2> QED
    BY <2>2, <2>3, <2>4, <2>5 DEF GateInv, Linked, Certificates
<1>13. ASSUME NEW p \in Proc, NEW q \in Request, StopReadsGate(p, q) PROVE GateInv'
  <2>1. CASE gate.st = Admitted
    <3>1. job' = [job EXCEPT ![p] = Doing("stop", q, gate)]
      BY <1>13, <2>1 DEF StopReadsGate, Start
    <3>2. UNCHANGED <<head, attempts, ledger, gate>>
      BY <1>13 DEF StopReadsGate, service
    <3> QED
      BY <2>1, <3>1, <3>2
         DEF Doing, Deciding, GateInv, Linked, Rows, Writers, Joined, Approved,
             Certificates, JobAt, Writing, WriteAt, TypeOK
  <2>2. CASE gate.st # Admitted
    <3>1. job' = [job EXCEPT ![p] = Deciding("stopping", q, gate, StoppingSent)]
      BY <1>13, <2>2 DEF StopReadsGate, Start
    <3>2. UNCHANGED <<head, attempts, ledger, gate>> /\ gate.st = InFlight
      BY <1>13, <2>2 DEF StopReadsGate, service
    <3> QED
      BY <3>1, <3>2 DEF Deciding, GateInv, Linked, Rows, Writers, Joined, Approved,
                        Certificates, JobAt, Writing, WriteAt, TypeOK
  <2> QED
    BY <2>1, <2>2
<1>14. ASSUME NEW p \in Proc, StopReadsFence(p) PROVE GateInv'
  BY <1>14 DEF StopReadsFence, At, Step, Deciding, StopState, service, GateInv, Linked, Rows,
               Writers, Joined, Approved, Certificates, JobAt, Writing, WriteAt, TypeOK
<1>15. ASSUME NEW p \in Proc, StopMarksGate(p) PROVE GateInv'
  <2>1. /\ gate \in GateRow /\ gate # NoRow /\ gate = job[p].row
        /\ job[p].to \in StopRequested
        /\ gate' = [gate EXCEPT !.st = job[p].to]
    BY <1>15, JobFields, NoGateAssumption DEF StopMarksGate, Transition, At
  <2>2. gate' # NoRow /\ gate'.st = job[p].to /\ gate'.req = gate.req
    BY <2>1, NoGateAssumption DEF GateRow, GateStatus
  <2>3. job[p].to = Stopping => gate.st = Admitted
    BY <1>15, <2>1 DEF StopMarksGate, At, GateInv, Rows, JobAt
  <2>4. job' = [job EXCEPT ![p] = Free] /\ UNCHANGED <<head, attempts, ledger>>
    BY <1>15 DEF StopMarksGate, Finish
  <2>5. Rows' /\ Joined' /\ Approved'
    BY <2>1, <2>2, <2>4 DEF GateInv, Rows, Joined, Approved, JobAt, Writing, TypeOK
  <2>6. Writers'
    BY <2>1, <2>2, <2>3, <2>4 DEF GateInv, Writers, Writing, TypeOK
  <2> QED
    BY <2>1, <2>2, <2>3, <2>4, <2>5, <2>6 DEF GateInv, Linked, Certificates, Terminal
<1>16. ASSUME NEW p \in Proc, NEW q \in Request, CertifyReadsGate(p, q) PROVE GateInv'
  BY <1>16 DEF CertifyReadsGate, GateOf, Start, Doing, Deciding, service, GateInv, Linked, Rows,
               Writers, Joined, Approved, Certificates, JobAt, Writing, WriteAt, TypeOK
<1>17. ASSUME NEW p \in Proc, CertifyVerifiesStop(p) PROVE GateInv'
  BY <1>17 DEF CertifyVerifiesStop, At, Step, Doing, Deciding, service, GateInv, Linked, Rows,
               Writers, Joined, Approved, Certificates, JobAt, Writing, WriteAt, TypeOK
<1>18. ASSUME NEW p \in Proc, CertifySeesHead(p) PROVE GateInv'
  BY <1>18 DEF CertifySeesHead, At, Step, Deciding, StoppedState, Recognised, service, GateInv,
               Linked, Rows, Writers, Joined, Approved, Certificates, JobAt, Writing, WriteAt,
               TypeOK
<1>19. ASSUME NEW p \in Proc, CertifyMarksGate(p) PROVE GateInv'
  <2>1. /\ gate \in GateRow /\ gate # NoRow /\ gate = job[p].row
        /\ job[p].to \in Terminal
        /\ gate' = [gate EXCEPT !.st = job[p].to]
    BY <1>19, JobFields, NoGateAssumption DEF CertifyMarksGate, Transition, At
  <2>2. gate' # NoRow /\ gate'.st = job[p].to /\ gate'.req = gate.req
    BY <2>1, NoGateAssumption DEF GateRow, GateStatus
  <2>3. /\ \A w \in Proc : ~ Writing(w)
        /\ gate.req = job[p].req
        /\ \/ job[p].to = StoppedPrior /\ SignedPrior(job[p].req, head)
           \/ job[p].to = StoppedNext /\ SignedSuccessor(job[p].req, head)
    BY <1>19, <2>1 DEF CertifyMarksGate, At, GateInv, Rows, Joined, JobAt
  <2>4. job' = [job EXCEPT ![p] = Free] /\ UNCHANGED <<head, attempts, ledger>>
    BY <1>19 DEF CertifyMarksGate, Finish
  <2>5. Rows' /\ Writers' /\ Joined' /\ Approved'
    BY <2>1, <2>2, <2>3, <2>4
       DEF GateInv, Rows, Writers, Joined, Approved, JobAt, Writing, TypeOK
  <2> QED
    BY <2>1, <2>2, <2>3, <2>4, <2>5 DEF GateInv, Linked, Certificates, Terminal
<1>20. ASSUME NEW p \in Proc, Fail(p) PROVE GateInv'
  BY <1>20, <1>q DEF Fail, Finish
<1>21. CASE UNCHANGED vars
  BY <1>21 DEF vars, GateInv, Linked, Rows, Writers, Joined, Approved, Certificates, JobAt,
               Writing
<1> QED
  BY NextCases, <1>1, <1>2, <1>3, <1>4, <1>5, <1>6, <1>7, <1>8, <1>9, <1>10, <1>11, <1>12,
     <1>13, <1>14, <1>15, <1>16, <1>17, <1>18, <1>19, <1>20, <1>21

-----------------------------------------------------------------------------
\* The gate is exclusive or it is not: a deployment does not change.
LEMMA ExclusiveInv == Spec => [](TypeOK /\ AttemptInv /\ (Exclusive => GateInv))
<1>1. Init => TypeOK /\ AttemptInv /\ (Exclusive => GateInv)
  BY AttemptInit, GateInit, TypeInit
<1>2. /\ TypeOK /\ AttemptInv /\ (Exclusive => GateInv)
      /\ [Next]_vars
      => (TypeOK /\ AttemptInv /\ (Exclusive => GateInv))'
  BY TypeStep, AttemptStep, GateStep DEF Exclusive, GateIsExclusive
<1> QED
  BY <1>1, <1>2, PTL DEF Spec

\* A certificate describes the head for good.
THEOREM CertificatesHold == Spec => []CertificateHolds
<1>1. (Exclusive => GateInv) => CertificateHolds
  BY DEF Exclusive, GateInv, Certificates, CertificateHolds
<1> QED
  BY ExclusiveInv, <1>1, PTL

\* "No dispatch" at the gate means an untouched reservation and no attempt.
THEOREM NoDispatchTrue == Spec => []NoDispatchIsTrue
<1>1. (Exclusive => GateInv) => NoDispatchIsTrue
  BY DEF Exclusive, GateInv, Certificates, NoDispatchIsTrue
<1> QED
  BY ExclusiveInv, <1>1, PTL

\* Whatever the gate says is so for good.
THEOREM GateTrue == Spec => []GateTellsTruth
BY CertificatesHold, NoDispatchTrue, PTL DEF GateTellsTruth

-----------------------------------------------------------------------------
(* The refinement.                                                         *)

LEMMA RefinesInit == Init => Promise!Init
BY DEF Init, Promise!Init, updateBar

\* The row of the abstract update, given the ledger's row.
LEMMA UpdateShape ==
  ASSUME TypeOK, ledger # NoRow
  PROVE  /\ updateBar = [req |-> ledger.req, phase |-> phaseBar]
         /\ updateBar # NoRow
<1>1. ledger.req \in Request
  BY NoRowAssumption DEF TypeOK, FenceTypeOK, FenceRow
<1>2. phaseBar \in {"reserved", "possible", "prior", "next"}
  BY DEF phaseBar
<1> QED
  BY <1>1, <1>2, NoUpdateAssumption DEF updateBar

LEMMA RefinesStep ==
  Exclusive /\ TypeOK /\ TypeOK' /\ AttemptInv /\ GateInv /\ GateInv' /\ [Next]_vars
    => [Promise!Next]_<<head, updateBar>>
<1> SUFFICES ASSUME Exclusive, TypeOK, TypeOK', AttemptInv, GateInv, GateInv', [Next]_vars
             PROVE  [Promise!Next]_<<head, updateBar>>
  OBVIOUS
<1> USE Distinct
<1>1. ASSUME NEW q \in Request, ReserveRequest(q) PROVE Promise!Next
  <2>1. ledger = NoRow /\ ledger' = [req |-> q, st |-> Prepared] /\ gate = NoRow
    BY <1>1 DEF ReserveRequest, Reserve, GateInv, Linked
  <2>2. updateBar = NoRow /\ head' = head /\ gate' = NoRow /\ ledger' # NoRow
    BY <1>1, <2>1, NoRowAssumption DEF ReserveRequest, updateBar, FenceRow, FenceStatus
  <2>3. updateBar' = [req |-> q, phase |-> "reserved"]
    BY <2>1, <2>2 DEF updateBar, phaseBar
  <2> QED
    BY <2>2, <2>3 DEF Promise!Next, Promise!Reserve
\* Neither the request nor the phase changes while the ledger keeps its request
\* and stays on its side of PREPARED and the gate does not become terminal.
<1>q. ASSUME ledger # NoRow => /\ ledger' # NoRow /\ ledger'.req = ledger.req
                               /\ ledger'.st = Prepared <=> ledger.st = Prepared,
             ledger = NoRow => ledger' = NoRow,
             gate # NoRow /\ gate.st \in Terminal => gate' = gate,
             gate' # NoRow /\ gate'.st \in Terminal => gate' = gate,
             head' = head
      PROVE  UNCHANGED <<head, updateBar>>
  BY <1>q DEF updateBar, phaseBar, Terminal
<1>2. ASSUME NEW q \in Request, AdmitRequest(q) PROVE UNCHANGED <<head, updateBar>>
  <2>1. gate = NoRow /\ gate'.st = Admitted /\ ledger' = ledger /\ head' = head
    BY <1>2 DEF AdmitRequest, Admit
  <2> QED
    BY <2>1, <1>q
<1>3. ASSUME NEW r \in OtherReceipts, CommitElsewhere(r) PROVE FALSE
  BY <1>3 DEF Exclusive, GateIsExclusive
<1>4. ASSUME UNCHANGED service PROVE UNCHANGED <<head, updateBar>>
  BY <1>4, <1>q DEF service
<1>5. ASSUME NEW p \in Proc, NEW q \in Request, DirectDispatch(p, q) PROVE FALSE
  BY <1>5 DEF DirectDispatch, Exclusive, GateIsExclusive
<1>6. ASSUME NEW p \in Proc, DispatchMarksGate(p) PROVE UNCHANGED <<head, updateBar>>
  <2>1. gate \in GateRow /\ gate.st = Admitted
    BY <1>6, JobFields DEF DispatchMarksGate, At, Transition, GateAt, GateInv, Rows, JobAt
  <2>2. gate'.st = InFlight /\ ledger' = ledger /\ head' = head
    BY <1>6, <2>1 DEF DispatchMarksGate, Transition, GateRow, GateStatus
  <2> QED
    BY <2>1, <2>2, <1>q
<1>7. ASSUME NEW p \in Proc, DispatchClaims(p) PROVE Promise!Next
  <2>1. gate # NoRow /\ gate.st \in {InFlight, StoppingSent}
    BY <1>7 DEF DispatchClaims, At, Writing, WriteAt, GateInv, Writers
  <2>2. /\ ledger \in FenceRow /\ ledger # NoRow /\ ledger.st = Prepared
        /\ ledger' = [ledger EXCEPT !.st = MayHaveSent] /\ gate' = gate /\ head' = head
    BY <1>7 DEF DispatchClaims, ClaimOnce, FenceOf, TypeOK, FenceTypeOK
  <2>3. ledger'.st = MayHaveSent /\ ledger'.req = ledger.req /\ ledger' # NoRow
    BY <2>2, NoRowAssumption DEF FenceRow, FenceStatus
  <2>4. updateBar = [req |-> ledger.req, phase |-> "reserved"] /\ updateBar # NoRow
    BY <2>1, <2>2, UpdateShape DEF phaseBar, Terminal
  <2>5. updateBar' = [req |-> ledger.req, phase |-> "possible"]
    BY <2>1, <2>2, <2>3 DEF updateBar, phaseBar, Terminal
  <2> QED
    BY <2>2, <2>4, <2>5 DEF Promise!Next, Promise!MarkPossible, Promise!InPhase
<1>8. ASSUME NEW p \in Proc, DispatchCommits(p)
      PROVE  Promise!Next \/ UNCHANGED <<head, updateBar>>
  <2>1. /\ HasClaim(p) /\ Writing(p) /\ JobAt(p, {"approved"})
    BY <1>8 DEF DispatchCommits, At, HasClaim, Writing, WriteAt, JobAt
  <2>2. /\ gate # NoRow /\ gate.st \in {InFlight, StoppingSent} /\ gate.req = job[p].req
        /\ ledger # NoRow /\ ledger.st # Prepared /\ ledger.req = gate.req
        /\ SignedPrior(job[p].req, head)
    BY <2>1 DEF GateInv, Writers, Linked, Approved, AttemptInv
  <2>3. updateBar = [req |-> job[p].req, phase |-> "possible"] /\ updateBar # NoRow
    BY <2>2, UpdateShape DEF phaseBar, Terminal
  <2>4. ledger' = ledger /\ gate' = gate
    BY <1>8 DEF DispatchCommits
  <2>5. updateBar' = updateBar
    BY <2>4 DEF updateBar, phaseBar
  <2>6. CASE Continues(head, job[p].req.succ)
    <3>1. head # NoHead
      BY <2>2, NoHeadAssumption, JobFields, RequestType, <2>1
         DEF SignedPrior, PriorHead, HeadRow, HasClaim
    <3>2. head' = SuccessorHead(job[p].req)
      BY <1>8, <2>2, <2>6, <3>1
         DEF DispatchCommits, AttemptCommit, Appended, SuccessorHead, SignedPrior, PriorHead
    <3> QED
      BY <2>2, <2>3, <2>5, <3>2
         DEF Promise!Next, Promise!Land, Promise!InPhase, Promise!SignedPrior,
             Promise!PriorHead, Promise!SuccessorHead, SignedPrior, PriorHead, SuccessorHead
  <2>7. CASE ~ Continues(head, job[p].req.succ)
    BY <1>8, <2>5, <2>7 DEF DispatchCommits, AttemptCommit
  <2> QED
    BY <2>6, <2>7
<1>9. ASSUME NEW p \in Proc, InspectRecords(p) PROVE UNCHANGED <<head, updateBar>>
  <2>1. /\ ledger \in FenceRow /\ ledger.st # Prepared
        /\ ledger' = [ledger EXCEPT !.st = job[p].to]
        /\ job[p].to \in {PriorSigned, SuccSigned}
        /\ gate' = gate /\ head' = head
    BY <1>9, JobFields DEF InspectRecords, RecordHead, At, GateInv, Rows, JobAt
  <2>2. ledger # NoRow /\ ledger' # NoRow /\ ledger'.req = ledger.req /\ ledger'.st # Prepared
    BY <2>1, NoRowAssumption DEF FenceRow, FenceStatus
  <2> QED
    BY <2>1, <2>2, <1>q
<1>10. ASSUME NEW p \in Proc, StopMarksGate(p) PROVE UNCHANGED <<head, updateBar>>
  <2>1. /\ gate \in GateRow /\ gate = job[p].row /\ job[p].to \in {Stopping, StoppingSent}
        /\ gate' = [gate EXCEPT !.st = job[p].to] /\ ledger' = ledger /\ head' = head
    BY <1>10, JobFields DEF StopMarksGate, Transition, At
  <2>2. gate.st \notin Terminal
    BY <1>10, <2>1 DEF StopMarksGate, At, GateInv, Rows, JobAt, Terminal
  <2> QED
    BY <2>1, <2>2, <1>q DEF GateRow, GateStatus
<1>11. ASSUME NEW p \in Proc, CertifyMarksGate(p) PROVE Promise!Next
  <2>1. /\ gate \in GateRow /\ gate # NoRow /\ gate = job[p].row
        /\ gate.st \in {Stopping, StoppingSent} /\ gate.req = job[p].req
        /\ gate' = [gate EXCEPT !.st = job[p].to] /\ ledger' = ledger /\ head' = head
        /\ \/ job[p].to = StoppedPrior /\ SignedPrior(job[p].req, head)
           \/ job[p].to = StoppedNext /\ SignedSuccessor(job[p].req, head)
    BY <1>11, JobFields, NoGateAssumption
       DEF CertifyMarksGate, Transition, At, GateInv, Rows, Joined, JobAt, StopRequested
  <2>2. gate' # NoRow /\ gate'.st = job[p].to /\ ledger # NoRow /\ ledger.req = gate.req
    BY <2>1, <1>11, JobFields, NoGateAssumption
       DEF CertifyMarksGate, At, GateRow, GateStatus, GateInv, Linked
  <2>3. /\ updateBar = [req |-> gate.req, phase |-> phaseBar] /\ updateBar # NoRow
        /\ phaseBar \in {"reserved", "possible"}
    BY <2>1, <2>2, UpdateShape DEF phaseBar, Terminal
  <2>4. /\ job[p].to = StoppedPrior => updateBar' = [req |-> gate.req, phase |-> "prior"]
        /\ job[p].to = StoppedNext  => updateBar' = [req |-> gate.req, phase |-> "next"]
    BY <2>1, <2>2 DEF updateBar, phaseBar
  <2> QED
    BY <2>1, <2>3, <2>4
       DEF Promise!Next, Promise!Settle, Promise!InPhase, Promise!SignedPrior,
           Promise!SignedSuccessor, Promise!PriorHead, Promise!SuccessorHead,
           SignedPrior, SignedSuccessor, PriorHead, SuccessorHead
<1>12. ASSUME NEW p \in Proc, NEW q \in Request,
              \/ DispatchReadsGate(p, q) \/ InspectReadsRow(p, q)
              \/ StopReadsGate(p, q) \/ CertifyReadsGate(p, q)
       PROVE  UNCHANGED service
  BY <1>12 DEF DispatchReadsGate, InspectReadsRow, StopReadsGate, CertifyReadsGate
<1>13. ASSUME NEW p \in Proc,
              \/ DispatchSeesPrior(p) \/ InspectSeesHead(p) \/ StopReadsFence(p)
              \/ CertifyVerifiesStop(p) \/ CertifySeesHead(p) \/ Fail(p)
       PROVE  UNCHANGED service
  BY <1>13 DEF DispatchSeesPrior, InspectSeesHead, StopReadsFence, CertifyVerifiesStop,
               CertifySeesHead, Fail
<1>14. CASE UNCHANGED vars
  BY <1>14, <1>4 DEF vars, service
<1> QED
  BY NextCases, <1>1, <1>2, <1>3, <1>4, <1>5, <1>6, <1>7, <1>8, <1>9, <1>10, <1>11, <1>12,
     <1>13, <1>14

\* A service with an exclusive gate is a one-shot compare-and-set: what an
\* operator may conclude from OneShotCas holds of the databases.
THEOREM ServiceIsOneShotCas == Spec /\ [](GateIsExclusive) => ImplementsOneShotCas
<1>1. Exclusive /\ Init => Promise!Init
  BY RefinesInit
<1>2. /\ TypeOK /\ AttemptInv /\ (Exclusive => GateInv) /\ Exclusive
      /\ (TypeOK /\ AttemptInv /\ (Exclusive => GateInv) /\ Exclusive)'
      /\ [Next]_vars
      => [Promise!Next]_<<head, updateBar>>
  BY RefinesStep DEF Exclusive, GateIsExclusive
<1> QED
  BY <1>1, <1>2, ExclusiveInv, PTL DEF Spec, Promise!Spec, Exclusive, ImplementsOneShotCas
=============================================================================
