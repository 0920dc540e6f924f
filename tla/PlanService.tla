------------------------------ MODULE PlanService ------------------------------
(***************************************************************************)
(* The plan calls of the witness service: a reviewed plan's update is      *)
(* admitted, dispatched once, and reconciled after whatever happened       *)
(* (evergreen_plan_service_admission.py, evergreen_plan_service_dispatch.  *)
(* py).  Each call is a sequence of methods of WitnessService: their steps *)
(* run with the actions of that module while the call waits for them.      *)
(* Processes without a plan call still run the methods by themselves.      *)
(*                                                                         *)
(* Approvals, the predecessor reader, parsers and signatures can only      *)
(* raise.  A read whose answer the very next read repeats is left out.     *)
(***************************************************************************)
EXTENDS WitnessService

CONSTANT NoPlan   \* a process that makes no plan call

VARIABLES
  plan,       \* what plan call each process is making
  outcomes    \* what plan calls have returned, and admissions abandoned

planVars == <<vars, plan, outcomes>>

AdmitAt     == {"reserved", "fenced", "admitted", "rechecked"}
DispatchAt  == {"observed", "dispatching", "returned"}
ReconcileAt == {"observed", "stopping", "certifying", "resumed", "rejoined", "certified",
                "inspecting", "compared"}

\* fence: the ledger's row read first; seen: the one read last; writer: the gate's.
Plan ==
  [op : {"admit", "dispatch", "reconcile"}, req : Request,
   at : AdmitAt \cup DispatchAt \cup ReconcileAt,
   fence : FenceRow, seen : FenceRow \cup {NoRow}, writer : GateRow \cup {NoRow}]

Outcome ==
  [result : {"abandoned", "admitted", "dispatched", "recovered"}, req : Request,
   fence : FenceStatus, writer : GateStatus \cup {NoRow}]

ASSUME PlanAssumption == NoPlan \notin Plan /\ NoRow \notin GateStatus

PlanTypeOK ==
  /\ TypeOK
  /\ plan \in [Proc -> Plan \cup {NoPlan}]
  /\ outcomes \subseteq Outcome

PlanInit == Init /\ plan = [p \in Proc |-> NoPlan] /\ outcomes = {}

PlanAt(p, op, at) == plan[p] # NoPlan /\ plan[p].op = op /\ plan[p].at = at

\* A method the call was waiting for has returned.
Returned(p, op, at) == PlanAt(p, op, at) /\ job[p] = Free

PlanBegins(p, op, q, at) ==
  /\ plan[p] = NoPlan /\ job[p] = Free
  /\ plan' = [plan EXCEPT ![p] =
       [op |-> op, req |-> q, at |-> at, fence |-> [req |-> q, st |-> ledger'.st],
        seen |-> NoRow, writer |-> NoRow]]
  /\ UNCHANGED outcomes

Proceed(p, at) == plan' = [plan EXCEPT ![p].at = at] /\ UNCHANGED outcomes

PlanReturns(p, result, fence, writer) ==
  /\ plan' = [plan EXCEPT ![p] = NoPlan]
  /\ outcomes' = outcomes \cup
       {[result |-> result, req |-> plan[p].req, fence |-> fence, writer |-> writer]}

-----------------------------------------------------------------------------
(* admit_plan_successor_to_independent_service, after its approvals.       *)

AdmissionReserves(p, q) ==
  /\ ReserveRequest(q)
  /\ PlanBegins(p, "admit", q, "reserved")

FenceUnmoved(p) == ledger = plan[p].fence

AdmissionRereads(p) ==
  /\ PlanAt(p, "admit", "reserved")
  /\ FenceUnmoved(p)
  /\ Proceed(p, "fenced")
  /\ UNCHANGED vars

AdmissionAdmits(p) ==
  /\ PlanAt(p, "admit", "fenced")
  /\ AdmitRequest(plan[p].req)
  /\ plan' = [plan EXCEPT ![p].at = "admitted", ![p].writer = gate']
  /\ UNCHANGED outcomes

AdmissionRechecks(p) ==
  /\ PlanAt(p, "admit", "admitted")
  /\ FenceUnmoved(p)
  /\ Proceed(p, "rechecked")
  /\ UNCHANGED vars

AdmissionReturns(p) ==
  /\ PlanAt(p, "admit", "rechecked")
  /\ gate = plan[p].writer
  /\ PlanReturns(p, "admitted", Prepared, Admitted)
  /\ UNCHANGED vars

-----------------------------------------------------------------------------
(* dispatch_admitted_plan_successor_once.                                  *)

DispatchObserves(p, q) ==
  /\ FenceOf(q) /\ ledger.st = Prepared
  /\ UNCHANGED vars
  /\ PlanBegins(p, "dispatch", q, "observed")

DispatchEnters(p) ==
  /\ PlanAt(p, "dispatch", "observed")
  /\ DispatchReadsGate(p, plan[p].req)
  /\ Proceed(p, "dispatching")

DispatchRereads(p) ==
  /\ Returned(p, "dispatch", "dispatching")
  /\ FenceOf(plan[p].req) /\ ledger.st = MayHaveSent
  /\ Proceed(p, "returned")
  /\ UNCHANGED vars

DispatchReturns(p) ==
  /\ PlanAt(p, "dispatch", "returned")
  /\ gate = [req |-> plan[p].req, st |-> InFlight]
  /\ PlanReturns(p, "dispatched", MayHaveSent, InFlight)
  /\ UNCHANGED vars

-----------------------------------------------------------------------------
(* reconcile_admitted_plan_successor_signed_head.                          *)

ReconcileObserves(p, q) ==
  /\ FenceOf(q)
  /\ UNCHANGED vars
  /\ PlanBegins(p, "reconcile", q, "observed")

\* gate.request_stop, for a writer that may be in flight; one already asked to
\* stop is returned as it is.
ReconcileStops(p) ==
  /\ PlanAt(p, "reconcile", "observed")
  /\ GateOf(plan[p].req) /\ gate.st = InFlight
  /\ StopReadsGate(p, plan[p].req)
  /\ Proceed(p, "stopping")

ReconcileFindsStop(p) ==
  /\ PlanAt(p, "reconcile", "observed")
  /\ gate = [req |-> plan[p].req, st |-> StoppingSent]
  /\ Proceed(p, "stopping")
  /\ UNCHANGED vars

\* gate.certify_stopped_and_observe.
ReconcileCertifies(p) ==
  /\ Returned(p, "reconcile", "stopping")
  /\ CertifyReadsGate(p, plan[p].req)
  /\ Proceed(p, "certifying")

ReconcileCertified(p) ==
  /\ PlanAt(p, "reconcile", "certifying")
  /\ CertifyMarksGate(p)
  /\ plan' = [plan EXCEPT ![p].at = "certified", ![p].writer = gate']
  /\ UNCHANGED outcomes

\* A faulty variant: a certificate found in place ends the call.
ReconcileRefuses(p) == FALSE

\* A certificate already in place is continued from: the writers are verified
\* stopped, and a fresh head compared with it, again.
ReconcileResumes(p) ==
  /\ PlanAt(p, "reconcile", "observed")
  /\ GateOf(plan[p].req) /\ gate.st \in Terminal
  /\ plan' = [plan EXCEPT ![p].at = "resumed", ![p].writer = gate]
  /\ UNCHANGED <<vars, outcomes>>

ReconcileRejoins(p) ==
  /\ PlanAt(p, "reconcile", "resumed")
  /\ \A w \in Proc : ~ Writing(w)
  /\ Proceed(p, "rejoined")
  /\ UNCHANGED vars

ReconcileSeesHead(p) ==
  /\ PlanAt(p, "reconcile", "rejoined")
  /\ Recognised(plan[p].req, head)
  /\ StoppedState(plan[p].req, head) = plan[p].writer.st
  /\ Proceed(p, "certified")
  /\ UNCHANGED vars

\* A faulty variant: the row read first is reported, and not inspected.
ReportsFirstRead(p) ==
  /\ PlanAt(p, "reconcile", "certified")
  /\ plan' = [plan EXCEPT ![p].at = "compared", ![p].seen = plan[p].fence]
  /\ UNCHANGED <<vars, outcomes>>

\* ledger.observe; and ledger.inspect_signed_head unless it still is prepared.
ReconcileFindsPrepared(p) ==
  /\ PlanAt(p, "reconcile", "certified")
  /\ FenceOf(plan[p].req) /\ ledger.st = Prepared
  /\ plan' = [plan EXCEPT ![p].at = "compared", ![p].seen = ledger]
  /\ UNCHANGED <<vars, outcomes>>

ReconcileInspects(p) ==
  /\ PlanAt(p, "reconcile", "certified")
  /\ InspectReadsRow(p, plan[p].req)
  /\ Proceed(p, "inspecting")

ReconcileInspected(p) ==
  /\ PlanAt(p, "reconcile", "inspecting")
  /\ InspectRecords(p)
  /\ plan' = [plan EXCEPT ![p].at = "compared", ![p].seen = ledger']
  /\ UNCHANGED outcomes

\* The ledger's status that goes with a certificate.
ExpectedStatus(writer) == IF writer.st = StoppedNext THEN SuccSigned ELSE PriorSigned

ReconcileReturns(p) ==
  /\ PlanAt(p, "reconcile", "compared")
  /\ LET seen == plan[p].seen.st IN
       /\ seen \in {Prepared, ExpectedStatus(plan[p].writer)}
       /\ seen = Prepared => plan[p].fence.st = Prepared
       /\ plan[p].writer.st \in Terminal
       /\ gate = plan[p].writer
       /\ PlanReturns(p, "recovered", seen, plan[p].writer.st)
  /\ UNCHANGED vars

-----------------------------------------------------------------------------
(* Calls that go on inside a method, end early, or make no plan call.      *)

Internal(p) ==
  \/ DispatchMarksGate(p) \/ DispatchClaims(p)
  \/ DispatchSeesPrior(p) \/ DispatchCommits(p)
  \/ StopReadsFence(p) \/ StopMarksGate(p)
  \/ CertifyVerifiesStop(p) \/ CertifySeesHead(p)
  \/ InspectSeesHead(p)

Waits(p) == plan[p] # NoPlan /\ Internal(p) /\ UNCHANGED <<plan, outcomes>>

\* An exception or a death inside a plan call, or inside a method it waits for.
Raise(p) ==
  /\ plan[p] # NoPlan
  /\ plan' = [plan EXCEPT ![p] = NoPlan]
  /\ job' = [job EXCEPT ![p] = Free]
  /\ outcomes' = outcomes \cup
       IF plan[p].op = "admit"
       THEN {[result |-> "abandoned", req |-> plan[p].req, fence |-> Prepared, writer |-> NoRow]}
       ELSE {}
  /\ UNCHANGED service

\* A service process that makes no plan call.
Unplanned(p) ==
  /\ plan[p] = NoPlan
  /\ DispatchNext(p) \/ InspectNext(p) \/ StopNext(p) \/ CertifyNext(p) \/ Fail(p)
  /\ UNCHANGED <<plan, outcomes>>

Elsewhere ==
  /\ \/ \E q \in Request : ReserveRequest(q) \/ AdmitRequest(q)
     \/ \E r \in OtherReceipts : CommitElsewhere(r)
  /\ UNCHANGED <<plan, outcomes>>

-----------------------------------------------------------------------------
AdmissionNext(p) ==
  \/ \E q \in Request : AdmissionReserves(p, q)
  \/ AdmissionRereads(p) \/ AdmissionAdmits(p)
  \/ AdmissionRechecks(p) \/ AdmissionReturns(p)

PlanDispatchNext(p) ==
  \/ \E q \in Request : DispatchObserves(p, q)
  \/ DispatchEnters(p) \/ DispatchRereads(p) \/ DispatchReturns(p)

ReconcileNext(p) ==
  \/ \E q \in Request : ReconcileObserves(p, q)
  \/ ReconcileStops(p) \/ ReconcileFindsStop(p)
  \/ ReconcileCertifies(p) \/ ReconcileCertified(p)
  \/ ReconcileResumes(p) \/ ReconcileRejoins(p) \/ ReconcileSeesHead(p)
  \/ ReconcileFindsPrepared(p) \/ ReconcileInspects(p) \/ ReconcileInspected(p)
  \/ ReconcileReturns(p)

PlanNext ==
  \/ \E p \in Proc : AdmissionNext(p) \/ PlanDispatchNext(p) \/ ReconcileNext(p)
                     \/ Waits(p) \/ Raise(p) \/ Unplanned(p)
  \/ Elsewhere

PlanSpec == PlanInit /\ [][PlanNext]_planVars

(***************************************************************************)
(* Fairness of an operated service.  Every call and every method ends (the *)
(* transport has timeouts, and the supervisor terminates a writer), and an *)
(* operator repeats a reconciliation, and the certification of a stop that *)
(* no plan asked for, until it is done.  Outages end: from some time on    *)
(* these raise only where their next step is refused.  Nobody is obliged   *)
(* to reserve, dispatch or stop.                                           *)
(***************************************************************************)
Reconciling(p) == plan[p] # NoPlan /\ plan[p].op = "reconcile"
ReconcileGoesOn(p) == Reconciling(p) /\ (ReconcileNext(p) \/ Waits(p))

Outside(p) == plan[p] = NoPlan /\ UNCHANGED <<plan, outcomes>>
Certifying(p) == job[p] # Free /\ job[p].at \in {"certify", "joined", "certified"}
CertifyGoesOn(p) ==
  Outside(p) /\ (CertifyVerifiesStop(p) \/ CertifySeesHead(p) \/ CertifyMarksGate(p))

CallsEnd(p) ==
  /\ WF_planVars(Raise(p)) /\ WF_planVars(ReconcileGoesOn(p))
  /\ WF_planVars(Outside(p) /\ Fail(p)) /\ WF_planVars(CertifyGoesOn(p))

OutagesEnd(p) ==
  <>[][/\ Reconciling(p) /\ Raise(p) => ~ ENABLED ReconcileGoesOn(p)
       /\ Outside(p) /\ Certifying(p) /\ Fail(p) => ~ ENABLED CertifyGoesOn(p)]_planVars

OperatorRepeats ==
  /\ SF_planVars(\E p \in Proc, q \in Request : ReconcileObserves(p, q))
  /\ SF_planVars(\E p \in Proc, q \in Request : Outside(p) /\ CertifyReadsGate(p, q))

PlanLiveSpec ==
  PlanSpec /\ OperatorRepeats /\ \A p \in Proc : CallsEnd(p) /\ OutagesEnd(p)

-----------------------------------------------------------------------------
(* Properties.                                                             *)

\* What a reconciliation reported stays so: the ledger, the gate and the witness
\* never say anything else afterwards, whoever else calls, raises or dies.
RecoveryStands ==
  GateIsExclusive =>
    \A o \in outcomes : o.result = "recovered" =>
      /\ ledger = [req |-> o.req, st |-> o.fence]
      /\ gate = [req |-> o.req, st |-> o.writer]
      /\ IF o.writer = StoppedNext THEN SignedSuccessor(o.req, head)
                                   ELSE SignedPrior(o.req, head)

\* A reservation whose admission raised is never released or silently retried:
\* no later admission, of the same or of another request, returns.
AbandonedStaysFenced ==
  \A o \in outcomes : o.result = "abandoned" =>
    ledger # NoRow /\ \A s \in outcomes : s.result # "admitted"

\* A dispatch that may have begun is in the end reconciled, wherever dispatch and
\* reconciliations died, provided the witness is at one of the two receipts.
DispatchIsReconciled ==
  (/\ gate # NoRow /\ gate.st \in {InFlight, StoppingSent} \cup Terminal
   /\ Recognised(gate.req, head))
    ~> \E o \in outcomes : o.result = "recovered"
=============================================================================
