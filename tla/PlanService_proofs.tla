--------------------------- MODULE PlanService_proofs ---------------------------
(***************************************************************************)
(* Proofs about the plan calls, for any receipts, requests and processes:  *)
(* they are runs of WitnessService, so every promise of the service holds  *)
(* of them; an interrupted admission stays fenced; and what a              *)
(* reconciliation reports stays so.                                        *)
(***************************************************************************)
EXTENDS PlanService, WitnessService_proofs

\* The actions of PlanNext, one level of grouping removed.
LEMMA PlanCases ==
  ASSUME PlanNext
  PROVE  \/ \E p \in Proc, q \in Request : AdmissionReserves(p, q)
         \/ \E p \in Proc : AdmissionRereads(p)
         \/ \E p \in Proc : AdmissionAdmits(p)
         \/ \E p \in Proc : AdmissionRechecks(p)
         \/ \E p \in Proc : AdmissionReturns(p)
         \/ \E p \in Proc, q \in Request : DispatchObserves(p, q)
         \/ \E p \in Proc : DispatchEnters(p)
         \/ \E p \in Proc : DispatchRereads(p)
         \/ \E p \in Proc : DispatchReturns(p)
         \/ \E p \in Proc, q \in Request : ReconcileObserves(p, q)
         \/ \E p \in Proc : ReconcileStops(p)
         \/ \E p \in Proc : ReconcileFindsStop(p)
         \/ \E p \in Proc : ReconcileCertifies(p)
         \/ \E p \in Proc : ReconcileCertified(p)
         \/ \E p \in Proc : ReconcileResumes(p)
         \/ \E p \in Proc : ReconcileRejoins(p)
         \/ \E p \in Proc : ReconcileSeesHead(p)
         \/ \E p \in Proc : ReconcileFindsPrepared(p)
         \/ \E p \in Proc : ReconcileInspects(p)
         \/ \E p \in Proc : ReconcileInspected(p)
         \/ \E p \in Proc : ReconcileReturns(p)
         \/ \E p \in Proc : Waits(p)
         \/ \E p \in Proc : Raise(p)
         \/ \E p \in Proc : Unplanned(p)
         \/ Elsewhere
BY DEF PlanNext, AdmissionNext, PlanDispatchNext, ReconcileNext

-----------------------------------------------------------------------------
(* Plan calls are runs of the service.                                     *)

\* What the type of plan says of one call.
LEMMA PlanFields ==
  ASSUME PlanTypeOK, NEW p \in Proc, plan[p] # NoPlan
  PROVE  /\ plan[p] \in Plan
         /\ plan[p].op \in {"admit", "dispatch", "reconcile"}
         /\ plan[p].req \in Request
         /\ plan[p].at \in AdmitAt \cup DispatchAt \cup ReconcileAt
         /\ plan[p].fence \in FenceRow
         /\ plan[p].seen \in FenceRow \cup {NoRow}
         /\ plan[p].writer \in GateRow \cup {NoRow}
BY DEF PlanTypeOK, Plan

\* A step of a plan call is a step of the service, or reads and changes nothing.
LEMMA ServiceStep ==
  ASSUME PlanTypeOK, [PlanNext]_planVars
  PROVE  [Next]_vars
<1> USE DEF Next, DispatchNext, InspectNext, StopNext, CertifyNext
<1>1. ASSUME NEW p \in Proc, NEW q \in Request, AdmissionReserves(p, q) PROVE Next
  BY <1>1 DEF AdmissionReserves
<1>2. ASSUME NEW p \in Proc, AdmissionAdmits(p) PROVE Next
  BY <1>2, PlanFields DEF AdmissionAdmits, PlanAt
<1>3. ASSUME NEW p \in Proc, DispatchEnters(p) PROVE Next
  BY <1>3, PlanFields DEF DispatchEnters, PlanAt
<1>4. ASSUME NEW p \in Proc, ReconcileStops(p) PROVE Next
  BY <1>4, PlanFields DEF ReconcileStops, PlanAt
<1>5. ASSUME NEW p \in Proc, ReconcileCertifies(p) PROVE Next
  BY <1>5, PlanFields DEF ReconcileCertifies, Returned, PlanAt
<1>6. ASSUME NEW p \in Proc, ReconcileCertified(p) PROVE Next
  BY <1>6 DEF ReconcileCertified
<1>7. ASSUME NEW p \in Proc, ReconcileInspects(p) PROVE Next
  BY <1>7, PlanFields DEF ReconcileInspects, PlanAt
<1>8. ASSUME NEW p \in Proc, ReconcileInspected(p) PROVE Next
  BY <1>8 DEF ReconcileInspected
<1>9. ASSUME NEW p \in Proc, Waits(p) PROVE Next
  BY <1>9 DEF Waits, Internal
<1>10. ASSUME NEW p \in Proc, Raise(p) PROVE Next \/ UNCHANGED vars
  <2>1. CASE job[p] = Free
    BY <1>10, <2>1 DEF Raise, service, vars, PlanTypeOK, TypeOK
  <2>2. CASE job[p] # Free
    BY <1>10, <2>2 DEF Raise, Fail, Finish
  <2> QED
    BY <2>1, <2>2
<1>11. ASSUME NEW p \in Proc, Unplanned(p) PROVE Next
  BY <1>11 DEF Unplanned
<1>12. ASSUME Elsewhere PROVE Next
  BY <1>12 DEF Elsewhere
<1>13. ASSUME NEW p \in Proc,
              \/ AdmissionRereads(p) \/ AdmissionRechecks(p) \/ AdmissionReturns(p)
              \/ (\E q \in Request : DispatchObserves(p, q) \/ ReconcileObserves(p, q))
              \/ DispatchRereads(p) \/ DispatchReturns(p)
              \/ ReconcileFindsStop(p) \/ ReconcileResumes(p) \/ ReconcileRejoins(p)
              \/ ReconcileSeesHead(p) \/ ReconcileFindsPrepared(p) \/ ReconcileReturns(p)
       PROVE  UNCHANGED vars
  BY <1>13 DEF AdmissionRereads, AdmissionRechecks, AdmissionReturns, DispatchObserves,
               ReconcileObserves, DispatchRereads, DispatchReturns, ReconcileFindsStop,
               ReconcileResumes, ReconcileRejoins, ReconcileSeesHead,
               ReconcileFindsPrepared, ReconcileReturns
<1>14. CASE UNCHANGED planVars
  BY <1>14 DEF planVars
<1> QED
  BY PlanCases, <1>1, <1>2, <1>3, <1>4, <1>5, <1>6, <1>7, <1>8, <1>9, <1>10, <1>11, <1>12,
     <1>13, <1>14

\* Types of the plans that the steps build.
LEMMA ProceedType ==
  ASSUME PlanTypeOK, TypeOK', NEW p \in Proc, plan[p] # NoPlan,
         NEW at \in AdmitAt \cup DispatchAt \cup ReconcileAt, Proceed(p, at)
  PROVE  PlanTypeOK'
BY DEF PlanTypeOK, Proceed, Plan

LEMMA BeginsType ==
  ASSUME PlanTypeOK, TypeOK', NEW p \in Proc, NEW q \in Request,
         NEW op \in {"admit", "dispatch", "reconcile"},
         NEW at \in AdmitAt \cup DispatchAt \cup ReconcileAt,
         PlanBegins(p, op, q, at), ledger'.st \in FenceStatus
  PROVE  PlanTypeOK'
BY DEF PlanTypeOK, PlanBegins, Plan, FenceRow

LEMMA ReturnsType ==
  ASSUME PlanTypeOK, TypeOK', NEW p \in Proc, plan[p] # NoPlan,
         NEW result \in {"abandoned", "admitted", "dispatched", "recovered"},
         NEW fence \in FenceStatus, NEW writer \in GateStatus \cup {NoRow},
         PlanReturns(p, result, fence, writer)
  PROVE  PlanTypeOK'
<1>1. plan[p].req \in Request
  BY PlanFields
<1> QED
  BY <1>1 DEF PlanTypeOK, PlanReturns, Outcome

\* A plan keeps its type when it takes down the gate's row, or the ledger's.
LEMMA ReadsType ==
  ASSUME PlanTypeOK, TypeOK', NEW p \in Proc, plan[p] # NoPlan, UNCHANGED outcomes,
         NEW at \in AdmitAt \cup DispatchAt \cup ReconcileAt,
         \/ \E w \in GateRow \cup {NoRow} :
              plan' = [plan EXCEPT ![p].at = at, ![p].writer = w]
         \/ \E f \in FenceRow \cup {NoRow} :
              plan' = [plan EXCEPT ![p].at = at, ![p].seen = f]
  PROVE  PlanTypeOK'
<1>1. plan[p] \in Plan
  BY PlanFields
<1>2. \A w \in GateRow \cup {NoRow} : [[plan[p] EXCEPT !.at = at] EXCEPT !.writer = w] \in Plan
  BY <1>1 DEF Plan
<1>3. \A f \in FenceRow \cup {NoRow} : [[plan[p] EXCEPT !.at = at] EXCEPT !.seen = f] \in Plan
  BY <1>1 DEF Plan
<1>4. plan'[p] \in Plan /\ \A r \in Proc \ {p} : plan'[r] = plan[r]
  BY <1>2, <1>3 DEF PlanTypeOK
<1>5. plan' = [r \in Proc |-> plan'[r]]
  BY DEF PlanTypeOK
<1> QED
  BY <1>4, <1>5 DEF PlanTypeOK

LEMMA PlanTypeInit == PlanInit => PlanTypeOK
BY TypeInit DEF PlanInit, PlanTypeOK

LEMMA PlanTypeStep == PlanTypeOK /\ [PlanNext]_planVars => PlanTypeOK'
<1> SUFFICES ASSUME PlanTypeOK, [PlanNext]_planVars PROVE PlanTypeOK'
  OBVIOUS
<1>t. TypeOK /\ TypeOK'
  BY ServiceStep, TypeStep DEF PlanTypeOK
<1>s. /\ ledger \in FenceRow \cup {NoRow} /\ ledger' \in FenceRow \cup {NoRow}
      /\ gate \in GateRow \cup {NoRow} /\ gate' \in GateRow \cup {NoRow}
  BY <1>t DEF TypeOK, FenceTypeOK, GateTypeOK
<1> USE <1>t, <1>s DEF AdmitAt, DispatchAt, ReconcileAt, FenceStatus
<1>1. ASSUME NEW p \in Proc, NEW q \in Request, AdmissionReserves(p, q) PROVE PlanTypeOK'
  BY <1>1, BeginsType DEF AdmissionReserves, ReserveRequest, Reserve
<1>3. ASSUME NEW p \in Proc, NEW q \in Request,
             DispatchObserves(p, q) \/ ReconcileObserves(p, q)
      PROVE PlanTypeOK'
  BY <1>3, BeginsType DEF DispatchObserves, ReconcileObserves, FenceOf, vars, FenceRow
<1>4. ASSUME NEW p \in Proc,
             \/ AdmissionRereads(p) \/ AdmissionRechecks(p) \/ DispatchEnters(p)
             \/ DispatchRereads(p)
      PROVE PlanTypeOK'
  BY <1>4, ProceedType
     DEF AdmissionRereads, AdmissionRechecks, DispatchEnters, DispatchRereads, PlanAt, Returned
<1>5. ASSUME NEW p \in Proc,
             \/ ReconcileStops(p) \/ ReconcileFindsStop(p) \/ ReconcileCertifies(p)
             \/ ReconcileRejoins(p) \/ ReconcileSeesHead(p) \/ ReconcileInspects(p)
      PROVE PlanTypeOK'
  BY <1>5, ProceedType
     DEF ReconcileStops, ReconcileFindsStop, ReconcileCertifies, ReconcileRejoins,
         ReconcileSeesHead, ReconcileInspects, PlanAt, Returned
<1>6. ASSUME NEW p \in Proc, AdmissionAdmits(p) PROVE PlanTypeOK'
  BY <1>6, ReadsType DEF AdmissionAdmits, PlanAt
<1>7. ASSUME NEW p \in Proc, ReconcileCertified(p) PROVE PlanTypeOK'
  BY <1>7, ReadsType DEF ReconcileCertified, PlanAt
<1>8. ASSUME NEW p \in Proc, ReconcileResumes(p) PROVE PlanTypeOK'
  BY <1>8, ReadsType DEF ReconcileResumes, PlanAt
<1>9. ASSUME NEW p \in Proc, ReconcileFindsPrepared(p) PROVE PlanTypeOK'
  BY <1>9, ReadsType DEF ReconcileFindsPrepared, PlanAt
<1>10. ASSUME NEW p \in Proc, ReconcileInspected(p) PROVE PlanTypeOK'
  BY <1>10, ReadsType DEF ReconcileInspected, PlanAt
<1>11. ASSUME NEW p \in Proc, AdmissionReturns(p) PROVE PlanTypeOK'
  BY <1>11, ReturnsType DEF AdmissionReturns, PlanAt, GateStatus
<1>12. ASSUME NEW p \in Proc, DispatchReturns(p) PROVE PlanTypeOK'
  BY <1>12, ReturnsType DEF DispatchReturns, PlanAt, GateStatus
<1>13. ASSUME NEW p \in Proc, ReconcileReturns(p) PROVE PlanTypeOK'
  <2>1. plan[p] # NoPlan /\ gate = plan[p].writer
    BY <1>13 DEF ReconcileReturns, PlanAt
  <2>2. plan[p].seen.st \in FenceStatus
    BY <1>13 DEF ReconcileReturns, ExpectedStatus
  <2>3. plan[p].writer.st \in GateStatus \cup {NoRow}
    BY <1>13 DEF ReconcileReturns, Terminal, GateStatus
  <2> QED
    BY <1>13, <2>1, <2>2, <2>3, ReturnsType DEF ReconcileReturns
<1>14. ASSUME NEW p \in Proc, Raise(p) PROVE PlanTypeOK'
  <2>1. plan[p] # NoPlan /\ plan[p].req \in Request
    BY <1>14, PlanFields DEF Raise
  <2> QED
    BY <1>14, <2>1 DEF Raise, PlanTypeOK, Outcome
<1>15. ASSUME UNCHANGED <<plan, outcomes>> PROVE PlanTypeOK'
  BY <1>15 DEF PlanTypeOK
<1> QED
  BY PlanCases, <1>1, <1>3, <1>4, <1>5, <1>6, <1>7, <1>8, <1>9, <1>10, <1>11, <1>12,
     <1>13, <1>14, <1>15 DEF Waits, Unplanned, Elsewhere, planVars

LEMMA PlanTyped == PlanSpec => []PlanTypeOK
BY PlanTypeInit, PlanTypeStep, PTL DEF PlanSpec

\* Every plan call and every outcome keeps its type.
THEOREM PlanTypeCorrect == PlanSpec => []PlanTypeOK
BY PlanTyped

\* A plan call does nothing that the methods of the service do not do: what is
\* proved of Spec, holds of the calls.
THEOREM PlansAreServiceRuns == PlanSpec => Spec
<1>1. PlanInit => Init
  BY DEF PlanInit
<1>2. PlanTypeOK /\ [PlanNext]_planVars => [Next]_vars
  BY ServiceStep
<1> QED
  BY <1>1, <1>2, PlanTyped, PTL DEF PlanSpec, Spec

\* So behind an exclusive gate the plan calls are a one-shot compare-and-set as
\* well: a request is sent at most once, and what it came to is settled for good.
THEOREM PlansAreOneShotCas == PlanSpec /\ [](GateIsExclusive) => ImplementsOneShotCas
BY PlansAreServiceRuns, ServiceIsOneShotCas, PTL

-----------------------------------------------------------------------------
(* An interrupted admission.                                               *)

Admitting(p) == plan[p] # NoPlan /\ plan[p].op = "admit"

\* An admission begins with the one reservation: while one is under way there
\* is no other, and none has ended; once one has ended there is a reservation.
AdmissionInv ==
  /\ \A p \in Proc : Admitting(p) =>
       /\ ledger # NoRow
       /\ \A o \in outcomes : o.result \notin {"abandoned", "admitted"}
       /\ \A r \in Proc : Admitting(r) => r = p
  /\ \A o \in outcomes : o.result \in {"abandoned", "admitted"} => ledger # NoRow
  /\ \A o, s \in outcomes : ~ (o.result = "abandoned" /\ s.result = "admitted")

\* The ledger's row is never deleted.
LEMMA LedgerStays ==
  ASSUME TypeOK, [Next]_vars, ledger # NoRow
  PROVE  ledger' # NoRow
<1>1. ledger \in FenceRow
  BY DEF TypeOK, FenceTypeOK
<1>2. [ledger EXCEPT !.st = MayHaveSent] # NoRow
  BY <1>1, NoRowAssumption DEF FenceRow, FenceStatus
<1>3. ASSUME NEW p \in Proc, InspectRecords(p) PROVE ledger' # NoRow
  BY <1>1, <1>3, JobFields, NoRowAssumption
     DEF InspectRecords, RecordHead, At, FenceRow, FenceStatus
<1> QED
  BY <1>2, <1>3, LedgerMoves

\* A call that goes on keeps its operation, request and first reading.
SameCall(p) ==
  /\ plan'[p] # NoPlan /\ plan'[p].op = plan[p].op /\ plan'[p].req = plan[p].req
  /\ plan'[p].fence = plan[p].fence
  /\ \A r \in Proc : r # p => plan'[r] = plan[r]

LEMMA GoesOn ==
  ASSUME PlanTypeOK, NEW p \in Proc, plan[p] # NoPlan,
         NEW at \in AdmitAt \cup DispatchAt \cup ReconcileAt,
         \/ Proceed(p, at)
         \/ \E w \in GateRow \cup {NoRow} :
              plan' = [plan EXCEPT ![p].at = at, ![p].writer = w]
         \/ \E f \in FenceRow \cup {NoRow} :
              plan' = [plan EXCEPT ![p].at = at, ![p].seen = f]
  PROVE  SameCall(p)
<1>1. plan[p] \in Plan /\ plan \in [Proc -> Plan \cup {NoPlan}]
  BY PlanFields DEF PlanTypeOK
<1>2. CASE Proceed(p, at)
  <2>1. plan'[p] = [plan[p] EXCEPT !.at = at]
    BY <1>1, <1>2 DEF Proceed
  <2>2. [plan[p] EXCEPT !.at = at] \in Plan
    BY <1>1 DEF Plan
  <2>3. plan'[p].op = plan[p].op /\ plan'[p].req = plan[p].req /\ plan'[p].fence = plan[p].fence
    BY <1>1, <2>1 DEF Plan
  <2> QED
    BY <1>1, <1>2, <2>1, <2>2, <2>3, PlanAssumption DEF Proceed, SameCall
<1>3. ASSUME NEW w \in GateRow \cup {NoRow},
             plan' = [plan EXCEPT ![p].at = at, ![p].writer = w]
      PROVE  SameCall(p)
  <2>1. plan'[p] = [[plan[p] EXCEPT !.at = at] EXCEPT !.writer = w]
    BY <1>1, <1>3
  <2>2. [[plan[p] EXCEPT !.at = at] EXCEPT !.writer = w] \in Plan
    BY <1>1 DEF Plan
  <2>3. plan'[p].op = plan[p].op /\ plan'[p].req = plan[p].req /\ plan'[p].fence = plan[p].fence
    BY <1>1, <2>1 DEF Plan
  <2> QED
    BY <1>1, <1>3, <2>1, <2>2, <2>3, PlanAssumption DEF SameCall
<1>4. ASSUME NEW f \in FenceRow \cup {NoRow},
             plan' = [plan EXCEPT ![p].at = at, ![p].seen = f]
      PROVE  SameCall(p)
  <2>1. plan'[p] = [[plan[p] EXCEPT !.at = at] EXCEPT !.seen = f]
    BY <1>1, <1>4
  <2>2. [[plan[p] EXCEPT !.at = at] EXCEPT !.seen = f] \in Plan
    BY <1>1 DEF Plan
  <2>3. plan'[p].op = plan[p].op /\ plan'[p].req = plan[p].req /\ plan'[p].fence = plan[p].fence
    BY <1>1, <2>1 DEF Plan
  <2> QED
    BY <1>1, <1>4, <2>1, <2>2, <2>3, PlanAssumption DEF SameCall
<1> QED
  BY <1>2, <1>3, <1>4

\* The steps that begin no call and end none.
LEMMA MiddleSteps ==
  ASSUME PlanTypeOK, [PlanNext]_planVars, NEW p \in Proc,
         \/ AdmissionRereads(p) \/ AdmissionAdmits(p) \/ AdmissionRechecks(p)
         \/ DispatchEnters(p) \/ DispatchRereads(p)
         \/ ReconcileStops(p) \/ ReconcileFindsStop(p) \/ ReconcileCertifies(p)
         \/ ReconcileCertified(p) \/ ReconcileResumes(p) \/ ReconcileRejoins(p)
         \/ ReconcileSeesHead(p) \/ ReconcileFindsPrepared(p) \/ ReconcileInspects(p)
         \/ ReconcileInspected(p)
  PROVE  plan[p] # NoPlan /\ SameCall(p) /\ UNCHANGED outcomes
<1>1. /\ gate \in GateRow \cup {NoRow} /\ gate' \in GateRow \cup {NoRow}
      /\ ledger \in FenceRow \cup {NoRow} /\ ledger' \in FenceRow \cup {NoRow}
  BY ServiceStep, TypeStep DEF PlanTypeOK, TypeOK, FenceTypeOK, GateTypeOK
<1>2. CASE \/ AdmissionRereads(p) \/ AdmissionAdmits(p) \/ AdmissionRechecks(p)
           \/ DispatchEnters(p) \/ DispatchRereads(p)
  BY <1>1, <1>2, GoesOn
     DEF AdmissionRereads, AdmissionAdmits, AdmissionRechecks, DispatchEnters,
         DispatchRereads, PlanAt, Returned, AdmitAt, DispatchAt, Proceed
<1>3. CASE \/ ReconcileStops(p) \/ ReconcileFindsStop(p) \/ ReconcileCertifies(p)
           \/ ReconcileRejoins(p) \/ ReconcileSeesHead(p) \/ ReconcileInspects(p)
  BY <1>3, GoesOn
     DEF ReconcileStops, ReconcileFindsStop, ReconcileCertifies, ReconcileRejoins,
         ReconcileSeesHead, ReconcileInspects, PlanAt, Returned, ReconcileAt, Proceed
<1>4. CASE ReconcileCertified(p) \/ ReconcileResumes(p)
  BY <1>1, <1>4, GoesOn DEF ReconcileCertified, ReconcileResumes, PlanAt, ReconcileAt
<1>5. CASE ReconcileFindsPrepared(p) \/ ReconcileInspected(p)
  BY <1>1, <1>5, GoesOn DEF ReconcileFindsPrepared, ReconcileInspected, PlanAt, ReconcileAt
<1> QED
  BY <1>2, <1>3, <1>4, <1>5

LEMMA AdmissionInit == PlanInit => AdmissionInv
BY DEF PlanInit, AdmissionInv, Admitting

LEMMA AdmissionStep == PlanTypeOK /\ AdmissionInv /\ [PlanNext]_planVars => AdmissionInv'
<1> SUFFICES ASSUME PlanTypeOK, AdmissionInv, [PlanNext]_planVars PROVE AdmissionInv'
  OBVIOUS
<1>l. ledger # NoRow => ledger' # NoRow
  BY ServiceStep, LedgerStays DEF PlanTypeOK
<1>p. plan \in [Proc -> Plan \cup {NoPlan}]
  BY DEF PlanTypeOK
<1>1. ASSUME NEW p \in Proc, NEW q \in Request, AdmissionReserves(p, q) PROVE AdmissionInv'
  <2>1. ledger = NoRow /\ ledger' # NoRow /\ outcomes' = outcomes
    BY <1>1, NoRowAssumption
       DEF AdmissionReserves, ReserveRequest, Reserve, PlanBegins, FenceRow, FenceStatus
  <2>2. \A r \in Proc : ~ Admitting(r)
    BY <2>1 DEF AdmissionInv
  <2>3. \A r \in Proc : Admitting(r)' => r = p
    BY <1>1, <1>p, <2>2 DEF AdmissionReserves, PlanBegins, Admitting
  <2> QED
    BY <2>1, <2>2, <2>3 DEF AdmissionInv
\* A step that starts no admission and ends none.
<1>q. ASSUME \A r \in Proc : Admitting(r)' => Admitting(r),
             \A o \in outcomes' : o \in outcomes \/ o.result \notin {"abandoned", "admitted"}
      PROVE  AdmissionInv'
  BY <1>q, <1>l DEF AdmissionInv
\* A step that ends the admission of p in one way or the other.
<1>e. ASSUME NEW p \in Proc, Admitting(p), plan' = [plan EXCEPT ![p] = NoPlan],
             NEW more, outcomes' = outcomes \cup {more}
      PROVE  AdmissionInv'
  <2>1. \A r \in Proc : ~ Admitting(r)'
    BY <1>e, <1>p DEF AdmissionInv, Admitting
  <2>2. ledger' # NoRow /\ \A o \in outcomes : o.result \notin {"abandoned", "admitted"}
    BY <1>e, <1>l DEF AdmissionInv
  <2>3. \A o, s \in outcomes' : ~ (o.result = "abandoned" /\ s.result = "admitted")
    BY <1>e, <2>2
  <2> QED
    BY <2>1, <2>2, <2>3 DEF AdmissionInv
<1>2. ASSUME NEW p \in Proc, NEW q \in Request,
             DispatchObserves(p, q) \/ ReconcileObserves(p, q)
      PROVE  AdmissionInv'
  BY <1>2, <1>p, <1>q DEF DispatchObserves, ReconcileObserves, PlanBegins, Admitting
<1>3. ASSUME NEW p \in Proc, plan[p] # NoPlan, SameCall(p), UNCHANGED outcomes
      PROVE  AdmissionInv'
  BY <1>3, <1>q DEF SameCall, Admitting
<1>5. ASSUME NEW p \in Proc, AdmissionReturns(p) PROVE AdmissionInv'
  BY <1>5, <1>e DEF AdmissionReturns, PlanReturns, PlanAt, Admitting
<1>6. ASSUME NEW p \in Proc, DispatchReturns(p) \/ ReconcileReturns(p) PROVE AdmissionInv'
  BY <1>6, <1>p, <1>q DEF DispatchReturns, ReconcileReturns, PlanReturns, PlanAt, Admitting
<1>7. ASSUME NEW p \in Proc, Raise(p) PROVE AdmissionInv'
  <2>1. CASE plan[p].op = "admit"
    BY <1>7, <1>e, <2>1 DEF Raise, Admitting
  <2>2. CASE plan[p].op # "admit"
    BY <1>7, <1>p, <1>q, <2>2 DEF Raise, Admitting
  <2> QED
    BY <2>1, <2>2
<1>8. ASSUME UNCHANGED <<plan, outcomes>> PROVE AdmissionInv'
  BY <1>8, <1>q DEF Admitting
<1> QED
  BY PlanCases, MiddleSteps, <1>1, <1>2, <1>3, <1>5, <1>6, <1>7, <1>8
     DEF Waits, Unplanned, Elsewhere, planVars

\* A reservation whose admission raised is never released or reused.
THEOREM AbandonedFenced == PlanSpec => []AbandonedStaysFenced
<1>1. AdmissionInv => AbandonedStaysFenced
  BY DEF AdmissionInv, AbandonedStaysFenced
<1> QED
  BY <1>1, AdmissionInit, AdmissionStep, PlanTyped, PTL DEF PlanSpec

-----------------------------------------------------------------------------
(* A method serves the request of the plan call that waits for it.         *)

Serves == \A p \in Proc : plan[p] # NoPlan /\ job[p] # Free => job[p].req = plan[p].req

LEMMA ServesInit == PlanInit => Serves
BY DEF PlanInit, Serves

\* A step of one process leaves the jobs of the others alone.
OthersKeepJobs(p) == \A r \in Proc : r # p => job'[r] = job[r]

LEMMA EntersMethod ==
  ASSUME TypeOK, NEW p \in Proc, NEW q \in Request,
         \/ DispatchReadsGate(p, q) \/ StopReadsGate(p, q)
         \/ CertifyReadsGate(p, q) \/ InspectReadsRow(p, q)
  PROVE  OthersKeepJobs(p) /\ job'[p].req = q
BY DEF TypeOK, DispatchReadsGate, StopReadsGate, CertifyReadsGate, InspectReadsRow, Start,
       Doing, Deciding, OthersKeepJobs

LEMMA WithinMethod ==
  ASSUME TypeOK, NEW p \in Proc,
         Internal(p) \/ CertifyMarksGate(p) \/ InspectRecords(p)
  PROVE  /\ OthersKeepJobs(p) /\ job[p] # Free
         /\ job'[p] # Free => job'[p].req = job[p].req
<1> USE DEF TypeOK, Step, Finish, Doing, Deciding, OthersKeepJobs, At
<1>1. CASE DispatchMarksGate(p) \/ DispatchClaims(p) \/ DispatchSeesPrior(p)
  BY <1>1 DEF DispatchMarksGate, DispatchClaims, DispatchSeesPrior
<1>2. CASE DispatchCommits(p) \/ StopMarksGate(p) \/ CertifyMarksGate(p) \/ InspectRecords(p)
  BY <1>2 DEF DispatchCommits, StopMarksGate, CertifyMarksGate, InspectRecords
<1>3. CASE StopReadsFence(p) \/ CertifyVerifiesStop(p) \/ CertifySeesHead(p)
           \/ InspectSeesHead(p)
  BY <1>3 DEF StopReadsFence, CertifyVerifiesStop, CertifySeesHead, InspectSeesHead
<1> QED
  BY <1>1, <1>2, <1>3 DEF Internal

LEMMA UnplannedKeeps ==
  ASSUME TypeOK, NEW p \in Proc, Unplanned(p)
  PROVE  OthersKeepJobs(p)
<1>1. CASE \E q \in Request : \/ DispatchReadsGate(p, q) \/ StopReadsGate(p, q)
                              \/ CertifyReadsGate(p, q) \/ InspectReadsRow(p, q)
  BY <1>1, EntersMethod
<1>2. CASE Internal(p) \/ CertifyMarksGate(p) \/ InspectRecords(p)
  BY <1>2, WithinMethod
<1>3. CASE Fail(p) \/ \E q \in Request : DirectDispatch(p, q)
  BY <1>3 DEF Fail, Finish, DirectDispatch, Start, OthersKeepJobs, TypeOK
<1> QED
  BY <1>1, <1>2, <1>3
     DEF Unplanned, DispatchNext, InspectNext, StopNext, CertifyNext, Internal

LEMMA ServesStep == PlanTypeOK /\ Serves /\ [PlanNext]_planVars => Serves'
<1> SUFFICES ASSUME PlanTypeOK, Serves, [PlanNext]_planVars PROVE Serves'
  OBVIOUS
<1>t. TypeOK /\ plan \in [Proc -> Plan \cup {NoPlan}]
  BY DEF PlanTypeOK
\* The method that a call enters is for the request of the call.
<1>1. ASSUME NEW p \in Proc,
             \/ DispatchEnters(p) \/ ReconcileStops(p)
             \/ ReconcileCertifies(p) \/ ReconcileInspects(p)
      PROVE  Serves'
  <2>1. plan[p].req \in Request /\ SameCall(p)
    BY <1>1, MiddleSteps, PlanFields
  <2>2. OthersKeepJobs(p) /\ job'[p].req = plan[p].req
    BY <1>1, <1>t, <2>1, EntersMethod
       DEF DispatchEnters, ReconcileStops, ReconcileCertifies, ReconcileInspects
  <2> QED
    BY <2>1, <2>2 DEF Serves, SameCall, OthersKeepJobs
<1>2. ASSUME NEW p \in Proc, ReconcileCertified(p) \/ ReconcileInspected(p) PROVE Serves'
  <2>1. plan[p] # NoPlan /\ SameCall(p)
    BY <1>2, MiddleSteps
  <2>2. OthersKeepJobs(p) /\ (job'[p] # Free => job'[p].req = job[p].req) /\ job[p] # Free
    BY <1>2, <1>t, WithinMethod DEF ReconcileCertified, ReconcileInspected
  <2> QED
    BY <2>1, <2>2 DEF Serves, SameCall, OthersKeepJobs
<1>3. ASSUME NEW p \in Proc, Waits(p) PROVE Serves'
  <2>1. OthersKeepJobs(p) /\ (job'[p] # Free => job'[p].req = job[p].req) /\ job[p] # Free
    BY <1>3, <1>t, WithinMethod DEF Waits
  <2> QED
    BY <1>3, <2>1 DEF Waits, Serves, OthersKeepJobs
<1>4. ASSUME NEW p \in Proc, Unplanned(p) PROVE Serves'
  BY <1>4, <1>t, UnplannedKeeps DEF Unplanned, Serves, OthersKeepJobs
<1>5. ASSUME NEW p \in Proc, SameCall(p), plan[p] # NoPlan, job' = job PROVE Serves'
  BY <1>5 DEF Serves, SameCall
<1>6. ASSUME NEW p \in Proc, job' = job, job[p] = Free \/ plan'[p] = NoPlan,
             \A r \in Proc : r # p => plan'[r] = plan[r]
      PROVE  Serves'
  BY <1>6 DEF Serves
<1>7. ASSUME NEW p \in Proc,
             \/ AdmissionRereads(p) \/ AdmissionAdmits(p) \/ AdmissionRechecks(p)
             \/ DispatchRereads(p) \/ ReconcileFindsStop(p) \/ ReconcileResumes(p)
             \/ ReconcileRejoins(p) \/ ReconcileSeesHead(p) \/ ReconcileFindsPrepared(p)
      PROVE  Serves'
  <2>1. plan[p] # NoPlan /\ SameCall(p)
    BY <1>7, MiddleSteps
  <2>2. job' = job
    BY <1>7 DEF AdmissionRereads, AdmissionAdmits, AdmitRequest, AdmissionRechecks,
                DispatchRereads, ReconcileFindsStop, ReconcileResumes, ReconcileRejoins,
                ReconcileSeesHead, ReconcileFindsPrepared, vars
  <2> QED
    BY <1>5, <2>1, <2>2
<1>8. ASSUME NEW p \in Proc, NEW q \in Request,
             AdmissionReserves(p, q) \/ DispatchObserves(p, q) \/ ReconcileObserves(p, q)
      PROVE  Serves'
  BY <1>6, <1>8, <1>t
     DEF AdmissionReserves, ReserveRequest, DispatchObserves, ReconcileObserves, PlanBegins, vars
<1>9. ASSUME NEW p \in Proc, AdmissionReturns(p) \/ DispatchReturns(p) \/ ReconcileReturns(p)
      PROVE  Serves'
  BY <1>6, <1>9, <1>t
     DEF AdmissionReturns, DispatchReturns, ReconcileReturns, PlanReturns, vars
<1>10. ASSUME NEW p \in Proc, Raise(p) PROVE Serves'
  BY <1>10, <1>t DEF Raise, Serves, TypeOK
<1>11. CASE Elsewhere
  BY <1>11 DEF Elsewhere, ReserveRequest, AdmitRequest, CommitElsewhere, Serves
<1>12. CASE UNCHANGED planVars
  BY <1>12 DEF planVars, vars, Serves
<1> QED
  BY PlanCases, <1>1, <1>2, <1>3, <1>4, <1>7, <1>8, <1>9, <1>10, <1>11, <1>12

-----------------------------------------------------------------------------
(* What a reconciliation reports.                                          *)

\* The gate is certified for q, and the ledger will not move any more.
Settled(q, fence, writer) ==
  /\ gate = [req |-> q, st |-> writer] /\ writer \in Terminal
  /\ ledger = [req |-> q, st |-> fence]
  /\ fence \in {Prepared, IF writer = StoppedNext THEN SuccSigned ELSE PriorSigned}

\* A certified gate is never written again.
LEMMA TerminalStays ==
  ASSUME TypeOK, GateInv, [Next]_vars, gate # NoRow, gate.st \in Terminal
  PROVE  gate' = gate
<1> USE Distinct
<1>1. ASSUME NEW p \in Proc, DispatchMarksGate(p) PROVE FALSE
  BY <1>1 DEF DispatchMarksGate, Transition, At, GateInv, Rows, JobAt
<1>2. ASSUME NEW p \in Proc, StopMarksGate(p) PROVE FALSE
  BY <1>2 DEF StopMarksGate, Transition, At, GateInv, Rows, JobAt
<1>3. ASSUME NEW p \in Proc, CertifyMarksGate(p) PROVE FALSE
  BY <1>3 DEF CertifyMarksGate, Transition, At, GateInv, Rows, JobAt, StopRequested
<1> QED
  BY NextCases, <1>1, <1>2, <1>3
     DEF ReserveRequest, AdmitRequest, Admit, CommitElsewhere, DispatchReadsGate,
         DirectDispatch, DispatchClaims, DispatchSeesPrior, DispatchCommits,
         InspectReadsRow, InspectSeesHead, InspectRecords, StopReadsGate, StopReadsFence,
         CertifyReadsGate, CertifyVerifiesStop, CertifySeesHead, Fail, service, vars

\* Behind a certified gate nobody claims, and an inspection records what the
\* certificate says or has been overtaken.
LEMMA SettledStays ==
  ASSUME Exclusive, TypeOK, GateInv, RecordInv, [Next]_vars,
         NEW q \in Request, NEW fence, NEW writer, Settled(q, fence, writer)
  PROVE  Settled(q, fence, writer)'
<1> USE Distinct
<1>1. gate # NoRow /\ gate.st = writer /\ gate.req = q /\ ledger # NoRow
  BY NoGateAssumption, NoRowAssumption DEF Settled, TypeOK, GateTypeOK, FenceTypeOK, GateRow,
     FenceRow, Terminal, GateStatus, FenceStatus
<1>2. gate' = gate
  BY <1>1, TerminalStays DEF Settled
<1>3. ASSUME NEW p \in Proc, DispatchClaims(p) PROVE FALSE
  <2>1. Writing(p)
    BY <1>3 DEF DispatchClaims, At, Writing, WriteAt
  <2> QED
    BY <1>1, <2>1 DEF GateInv, Writers, Settled
<1>4. ASSUME NEW p \in Proc, InspectRecords(p) PROVE ledger' = ledger
  <2>1. /\ JobAt(p, {"inspected"}) /\ ledger = job[p].row
        /\ ledger' = [ledger EXCEPT !.st = job[p].to]
        /\ job[p].to \in {PriorSigned, SuccSigned}
    BY <1>4, JobFields DEF InspectRecords, At, RecordHead, JobAt
  <2>2. ledger.st = fence /\ ledger.st # Prepared /\ job[p].req = q
    BY <2>1 DEF GateInv, Rows, JobAt, Settled
  <2>3. job[p].to = fence
    <3>1. CASE writer = StoppedNext
      BY <2>1, <2>2, <3>1 DEF Settled, RecordInv, JobAt
    <3>2. CASE writer = StoppedPrior
      <4>1. head = PriorHead(q)
        BY <1>1, <3>2 DEF GateInv, Certificates, SignedPrior
      <4>2. ~ Reached(head, q)
        BY <4>1, RequestType DEF Reached, PriorHead
      <4> QED
        BY <2>1, <2>2, <3>2, <4>2 DEF Settled, RecordInv, JobAt
    <3> QED
      BY <3>1, <3>2 DEF Settled, Terminal
  <2> QED
    BY <2>1, <2>2, <2>3 DEF Settled
<1>5. ledger' = ledger
  BY NextCases, <1>1, <1>3, <1>4
     DEF ReserveRequest, Reserve, AdmitRequest, CommitElsewhere, DispatchReadsGate,
         DispatchMarksGate, DirectDispatch, Exclusive, GateIsExclusive, DispatchSeesPrior,
         DispatchCommits, InspectReadsRow, InspectSeesHead, StopReadsGate, StopReadsFence,
         StopMarksGate, CertifyReadsGate, CertifyVerifiesStop, CertifySeesHead,
         CertifyMarksGate, Fail, service, vars
<1> QED
  BY <1>2, <1>5 DEF Settled

\* What a reconciliation knows once it holds a certificate, and once it has
\* compared the ledger with it.
Knows(p) ==
  plan[p] # NoPlan /\ plan[p].op = "reconcile" =>
    /\ plan[p].at \in {"resumed", "rejoined", "certified", "inspecting", "compared"} =>
         /\ gate # NoRow /\ gate = plan[p].writer
         /\ gate.req = plan[p].req /\ gate.st \in Terminal
    /\ /\ plan[p].at = "compared"
       /\ plan[p].seen.st \in {Prepared, ExpectedStatus(plan[p].writer)}
       => Settled(plan[p].req, plan[p].seen.st, plan[p].writer.st)

\* Neither is inductive by itself: a report stands because the certificate and
\* the ledger it was made from were already final.
ReportInv ==
  /\ \A p \in Proc : Knows(p)
  /\ \A o \in outcomes : o.result = "recovered" => Settled(o.req, o.fence, o.writer)

ServiceInv == PlanTypeOK /\ AttemptInv /\ RecordInv /\ Serves /\ (Exclusive => GateInv)

LEMMA ReportInit == PlanInit => ReportInv
BY DEF PlanInit, ReportInv, Knows

\* What a call knows outlives every step that leaves the call where it is.
LEMMA KnowsStays ==
  ASSUME Exclusive, ServiceInv, [Next]_vars,
         NEW r \in Proc, Knows(r), plan'[r] = plan[r]
  PROVE  Knows(r)'
<1>1. CASE plan[r] = NoPlan
  BY <1>1 DEF Knows
<1>2. CASE plan[r] # NoPlan
  <2>1. TypeOK /\ GateInv /\ RecordInv /\ plan[r].req \in Request
    BY <1>2, PlanFields DEF ServiceInv, PlanTypeOK
  <2>2. gate # NoRow /\ gate.st \in Terminal => gate' = gate
    BY <2>1, TerminalStays
  <2>3. Settled(plan[r].req, plan[r].seen.st, plan[r].writer.st) =>
          Settled(plan[r].req, plan[r].seen.st, plan[r].writer.st)'
    BY <2>1, SettledStays DEF Settled
  <2> QED
    BY <2>2, <2>3 DEF Knows, ExpectedStatus, Settled
<1> QED
  BY <1>1, <1>2

\* What the calls hold after a step that is theirs.
LEMMA CallReads ==
  ASSUME PlanTypeOK, NEW p \in Proc, plan[p] # NoPlan, NEW at
  PROVE  /\ Proceed(p, at) =>
              /\ plan'[p].at = at /\ plan'[p].writer = plan[p].writer
         /\ \A w : plan' = [plan EXCEPT ![p].at = at, ![p].writer = w] =>
              plan'[p].at = at /\ plan'[p].writer = w
         /\ \A f : plan' = [plan EXCEPT ![p].at = at, ![p].seen = f] =>
              plan'[p].at = at /\ plan'[p].seen = f /\ plan'[p].writer = plan[p].writer
<1>1. plan[p] \in Plan /\ plan \in [Proc -> Plan \cup {NoPlan}]
  BY PlanFields DEF PlanTypeOK
<1>2. /\ [plan[p] EXCEPT !.at = at].at = at
      /\ [plan[p] EXCEPT !.at = at].writer = plan[p].writer
  BY <1>1 DEF Plan
<1>3. \A w : /\ [[plan[p] EXCEPT !.at = at] EXCEPT !.writer = w].at = at
             /\ [[plan[p] EXCEPT !.at = at] EXCEPT !.writer = w].writer = w
  BY <1>1 DEF Plan
<1>4. \A f : /\ [[plan[p] EXCEPT !.at = at] EXCEPT !.seen = f].at = at
             /\ [[plan[p] EXCEPT !.at = at] EXCEPT !.seen = f].seen = f
             /\ [[plan[p] EXCEPT !.at = at] EXCEPT !.seen = f].writer = plan[p].writer
  BY <1>1 DEF Plan
<1>5. Proceed(p, at) => plan'[p] = [plan[p] EXCEPT !.at = at]
  BY <1>1 DEF Proceed
<1>6. \A w : plan' = [plan EXCEPT ![p].at = at, ![p].writer = w] =>
        plan'[p] = [[plan[p] EXCEPT !.at = at] EXCEPT !.writer = w]
  BY <1>1
<1>7. \A f : plan' = [plan EXCEPT ![p].at = at, ![p].seen = f] =>
        plan'[p] = [[plan[p] EXCEPT !.at = at] EXCEPT !.seen = f]
  BY <1>1
<1>8. Proceed(p, at) => plan'[p].at = at /\ plan'[p].writer = plan[p].writer
  BY <1>2, <1>5
<1>9. \A w : plan' = [plan EXCEPT ![p].at = at, ![p].writer = w] =>
        plan'[p].at = at /\ plan'[p].writer = w
  BY <1>3, <1>6
<1>10. \A f : plan' = [plan EXCEPT ![p].at = at, ![p].seen = f] =>
        plan'[p].at = at /\ plan'[p].seen = f /\ plan'[p].writer = plan[p].writer
  BY <1>4, <1>7
<1> QED
  BY <1>8, <1>9, <1>10

LEMMA ReportStep ==
  Exclusive /\ ServiceInv /\ ReportInv /\ [PlanNext]_planVars => ReportInv'
<1> SUFFICES ASSUME Exclusive, ServiceInv, ReportInv, [PlanNext]_planVars PROVE ReportInv'
  OBVIOUS
<1> USE Distinct
<1>t. /\ PlanTypeOK /\ TypeOK /\ GateInv /\ RecordInv /\ [Next]_vars
      /\ plan \in [Proc -> Plan \cup {NoPlan}]
  BY ServiceStep DEF ServiceInv, PlanTypeOK
<1>o. ASSUME NEW o \in outcomes, o.result = "recovered"
      PROVE  Settled(o.req, o.fence, o.writer)'
  BY <1>o, <1>t, SettledStays DEF ReportInv, PlanTypeOK, Outcome
<1>r. ASSUME NEW r \in Proc, plan'[r] = plan[r] PROVE Knows(r)'
  BY <1>r, <1>t, KnowsStays DEF ReportInv
\* Enough: what the acting call knows after its step, if it goes on.
<1>q. ASSUME NEW p \in Proc, \A r \in Proc : r # p => plan'[r] = plan[r], Knows(p)',
             \A o \in outcomes' : o \in outcomes \/ o.result # "recovered"
      PROVE  ReportInv'
  BY <1>q, <1>o, <1>r DEF ReportInv
<1>1. ASSUME NEW p \in Proc, NEW q \in Request,
             AdmissionReserves(p, q) \/ DispatchObserves(p, q) \/ ReconcileObserves(p, q)
      PROVE  ReportInv'
  <2>1. \/ plan'[p].op # "reconcile"
        \/ plan'[p].at = "observed"
    BY <1>1, <1>t DEF AdmissionReserves, DispatchObserves, ReconcileObserves, PlanBegins
  <2>2. UNCHANGED outcomes /\ \A r \in Proc : r # p => plan'[r] = plan[r]
    BY <1>1, <1>t DEF AdmissionReserves, DispatchObserves, ReconcileObserves, PlanBegins
  <2>3. Knows(p)'
    BY <2>1 DEF Knows
  <2> QED
    BY <1>q, <2>2, <2>3
\* Calls other than reconciliations, and its steps before any certificate.
<1>2. ASSUME NEW p \in Proc, plan[p] # NoPlan, SameCall(p), UNCHANGED outcomes,
             plan[p].op # "reconcile" \/ plan'[p].at \in {"stopping", "certifying"}
      PROVE  ReportInv'
  BY <1>2, <1>q DEF SameCall, Knows
<1>3. ASSUME NEW p \in Proc,
             \/ AdmissionRereads(p) \/ AdmissionAdmits(p) \/ AdmissionRechecks(p)
             \/ DispatchEnters(p) \/ DispatchRereads(p)
      PROVE  ReportInv'
  <2>1. plan[p].op # "reconcile"
    BY <1>3 DEF AdmissionRereads, AdmissionAdmits, AdmissionRechecks, DispatchEnters,
                DispatchRereads, Returned, PlanAt
  <2> QED
    BY <1>2, <1>3, <1>t, <2>1, MiddleSteps
<1>4. ASSUME NEW p \in Proc,
             ReconcileStops(p) \/ ReconcileFindsStop(p) \/ ReconcileCertifies(p)
      PROVE  ReportInv'
  <2>1. plan[p] # NoPlan /\ SameCall(p) /\ UNCHANGED outcomes
    BY <1>4, <1>t, MiddleSteps
  <2>2. plan'[p].at \in {"stopping", "certifying"}
    BY <1>4, <1>t, <2>1, CallReads DEF ReconcileStops, ReconcileFindsStop, ReconcileCertifies
  <2> QED
    BY <1>2, <2>1, <2>2
\* A certificate comes into the call's hands.
<1>5. ASSUME NEW p \in Proc, ReconcileCertified(p) \/ ReconcileResumes(p) PROVE ReportInv'
  <2>1. /\ plan[p] # NoPlan /\ SameCall(p) /\ UNCHANGED outcomes
    BY <1>5, <1>t, MiddleSteps
  <2>2. plan'[p].at \in {"certified", "resumed"} /\ plan'[p].writer = gate'
    BY <1>5, <1>t, <2>1, CallReads, SMTT(30) DEF ReconcileCertified, ReconcileResumes, vars
  <2>3. gate' # NoRow /\ gate'.st \in Terminal /\ gate'.req = plan[p].req
    <3>1. CASE ReconcileCertified(p)
      <4>1. /\ job[p] # Free /\ gate \in GateRow /\ gate = job[p].row
            /\ job[p].row.req = job[p].req /\ job[p].to \in Terminal
            /\ gate' = [gate EXCEPT !.st = job[p].to]
        BY <1>t, <3>1, JobFields
           DEF ReconcileCertified, CertifyMarksGate, Transition, At, GateInv, Rows, JobAt
      <4>2. job[p].req = plan[p].req
        BY <2>1, <4>1 DEF ServiceInv, Serves
      <4> QED
        BY <4>1, <4>2, NoGateAssumption DEF GateRow, GateStatus
    <3>2. CASE ReconcileResumes(p)
      BY <3>2 DEF ReconcileResumes, GateOf, vars
    <3> QED
      BY <1>5, <3>1, <3>2
  <2>4. Knows(p)'
    BY <2>1, <2>2, <2>3 DEF Knows, SameCall
  <2> QED
    BY <1>q, <2>1, <2>4 DEF SameCall
\* The call goes on with it.
<1>6. ASSUME NEW p \in Proc,
             ReconcileRejoins(p) \/ ReconcileSeesHead(p) \/ ReconcileInspects(p)
      PROVE  ReportInv'
  <2>1. /\ plan[p] # NoPlan /\ SameCall(p) /\ UNCHANGED outcomes
    BY <1>6, <1>t, MiddleSteps
  <2>2. plan'[p].at \in {"rejoined", "certified", "inspecting"}
        /\ plan'[p].writer = plan[p].writer /\ gate' = gate
    BY <1>6, <1>t, <2>1, CallReads
       DEF ReconcileRejoins, ReconcileSeesHead, ReconcileInspects, InspectReadsRow, service, vars
  <2>3. plan[p].op = "reconcile" /\ plan[p].at \in {"resumed", "rejoined", "certified"}
    BY <1>6 DEF ReconcileRejoins, ReconcileSeesHead, ReconcileInspects, PlanAt
  <2>4. Knows(p)'
    BY <2>1, <2>2, <2>3 DEF ReportInv, Knows, SameCall
  <2> QED
    BY <1>q, <2>1, <2>4 DEF SameCall
\* The call has compared the ledger with it.
<1>7. ASSUME NEW p \in Proc, ReconcileFindsPrepared(p) \/ ReconcileInspected(p)
      PROVE  ReportInv'
  <2>1. /\ plan[p] # NoPlan /\ SameCall(p) /\ UNCHANGED outcomes
    BY <1>7, <1>t, MiddleSteps
  <2>2. /\ plan'[p].at = "compared" /\ plan'[p].seen = ledger'
        /\ plan'[p].writer = plan[p].writer /\ gate' = gate
    BY <1>7, <1>t, <2>1, CallReads
       DEF ReconcileFindsPrepared, ReconcileInspected, InspectRecords, vars
  <2>3. plan[p].op = "reconcile" /\ plan[p].at \in {"certified", "inspecting"}
    BY <1>7 DEF ReconcileFindsPrepared, ReconcileInspected, PlanAt
  <2>4. /\ gate # NoRow /\ gate = plan[p].writer /\ gate \in GateRow
        /\ gate.req = plan[p].req /\ gate.st \in Terminal
    BY <1>t, <2>1, <2>3 DEF ReportInv, Knows, TypeOK, GateTypeOK
  <2>5. ledger' \in FenceRow /\ ledger'.req = plan[p].req
    <3>1. ledger \in FenceRow /\ ledger.req = plan[p].req
      BY <1>t, <2>4 DEF GateInv, Linked, TypeOK, FenceTypeOK
    <3>2. ledger' = ledger \/ \E st \in FenceStatus : ledger' = [ledger EXCEPT !.st = st]
      BY <1>7, <1>t, JobFields
         DEF ReconcileFindsPrepared, ReconcileInspected, InspectRecords, RecordHead, At,
             FenceStatus, vars
    <3> QED
      BY <3>1, <3>2 DEF FenceRow
  <2>6. ledger' = [req |-> plan[p].req, st |-> ledger'.st]
    BY <2>5 DEF FenceRow
  <2>7. gate' = [req |-> plan[p].req, st |-> plan[p].writer.st]
    BY <2>2, <2>4 DEF GateRow
  <2>8. plan'[p].seen.st \in {Prepared, ExpectedStatus(plan[p].writer)}
          => Settled(plan[p].req, plan[p].seen.st, plan[p].writer.st)'
    BY <2>1, <2>2, <2>4, <2>6, <2>7 DEF Settled, ExpectedStatus, SameCall
  <2>9. Knows(p)'
    BY <2>1, <2>2, <2>3, <2>4, <2>8 DEF Knows, SameCall, ExpectedStatus
  <2> QED
    BY <1>q, <2>1, <2>9 DEF SameCall
<1>8. ASSUME NEW p \in Proc, ReconcileReturns(p) PROVE ReportInv'
  <2>1. /\ plan[p] # NoPlan /\ plan[p].op = "reconcile" /\ plan[p].at = "compared"
        /\ plan[p].seen.st \in {Prepared, ExpectedStatus(plan[p].writer)}
        /\ UNCHANGED vars
    BY <1>8 DEF ReconcileReturns, PlanAt
  <2>2. Settled(plan[p].req, plan[p].seen.st, plan[p].writer.st)
    BY <2>1 DEF ReportInv, Knows
  <2>3. /\ plan' = [plan EXCEPT ![p] = NoPlan]
        /\ outcomes' = outcomes \cup {[result |-> "recovered", req |-> plan[p].req,
                          fence |-> plan[p].seen.st, writer |-> plan[p].writer.st]}
    BY <1>8 DEF ReconcileReturns, PlanReturns
  <2>4. \A o \in outcomes' : o.result = "recovered" => Settled(o.req, o.fence, o.writer)'
    <3>1. ASSUME NEW o \in outcomes' PROVE o.result = "recovered" => Settled(o.req, o.fence, o.writer)'
      <4>1. CASE o \in outcomes
        BY <1>o, <4>1
      <4>2. CASE o = [result |-> "recovered", req |-> plan[p].req,
                      fence |-> plan[p].seen.st, writer |-> plan[p].writer.st]
        BY <2>1, <2>2, <4>2 DEF Settled, vars
      <4> QED
        BY <2>3, <4>1, <4>2
    <3> QED
      BY <3>1
  <2>5. \A r \in Proc : Knows(r)'
    BY <1>t, <1>r, <2>3 DEF Knows
  <2> QED
    BY <2>4, <2>5 DEF ReportInv
<1>9. ASSUME NEW p \in Proc, AdmissionReturns(p) \/ DispatchReturns(p) \/ Raise(p)
      PROVE  ReportInv'
  <2>1. plan' = [plan EXCEPT ![p] = NoPlan]
    BY <1>9 DEF AdmissionReturns, DispatchReturns, PlanReturns, Raise
  <2>2. \A o \in outcomes' : o \in outcomes \/ o.result # "recovered"
    BY <1>9 DEF AdmissionReturns, DispatchReturns, PlanReturns, Raise
  <2> QED
    BY <1>q, <1>t, <2>1, <2>2 DEF Knows
<1>10. ASSUME UNCHANGED <<plan, outcomes>> PROVE ReportInv'
  BY <1>10, <1>o, <1>r DEF ReportInv
<1> QED
  BY PlanCases, <1>1, <1>3, <1>4, <1>5, <1>6, <1>7, <1>8, <1>9, <1>10
     DEF Waits, Unplanned, Elsewhere, planVars

\* What a reconciliation reported of the ledger, the gate and the witness stays.
THEOREM RecoveryStandsForGood == PlanSpec => []RecoveryStands
<1>1. PlanInit => ServiceInv /\ (Exclusive => ReportInv)
  BY PlanTypeInit, AttemptInit, RecordInit, ServesInit, GateInit, ReportInit
     DEF PlanInit, ServiceInv
<1>2. ServiceInv /\ [PlanNext]_planVars => ServiceInv'
  <2>1. SUFFICES ASSUME ServiceInv, [PlanNext]_planVars PROVE ServiceInv'
    OBVIOUS
  <2>2. PlanTypeOK /\ TypeOK /\ [Next]_vars
    BY <2>1, ServiceStep DEF ServiceInv, PlanTypeOK
  <2> QED
    BY <2>1, <2>2, PlanTypeStep, AttemptStep, RecordStep, ServesStep, GateStep
       DEF ServiceInv, Exclusive, GateIsExclusive
<1>3. ServiceInv /\ (Exclusive => ReportInv) /\ [PlanNext]_planVars => (Exclusive => ReportInv)'
  BY ReportStep DEF Exclusive, GateIsExclusive
<1>4. ServiceInv /\ (Exclusive => ReportInv) => RecoveryStands
  <2>1. SUFFICES ASSUME Exclusive, ServiceInv, ReportInv,
                        NEW o \in outcomes, o.result = "recovered"
                 PROVE  /\ ledger = [req |-> o.req, st |-> o.fence]
                        /\ gate = [req |-> o.req, st |-> o.writer]
                        /\ IF o.writer = StoppedNext THEN SignedSuccessor(o.req, head)
                                                     ELSE SignedPrior(o.req, head)
    BY DEF RecoveryStands, Exclusive
  <2>2. Settled(o.req, o.fence, o.writer) /\ gate # NoRow
    BY <2>1, NoGateAssumption
       DEF ReportInv, Settled, ServiceInv, PlanTypeOK, Outcome, GateRow, Terminal, GateStatus
  <2> QED
    BY <2>1, <2>2 DEF Settled, Terminal, ServiceInv, GateInv, Certificates
<1> QED
  BY <1>1, <1>2, <1>3, <1>4, PTL DEF PlanSpec
=============================================================================
