---------------------------- MODULE PlanPreparation ----------------------------
(***************************************************************************)
(* From a reviewed plan to a request for the witness: the isolated stage   *)
(* that pip fills, the request for native evidence and its signature, the  *)
(* candidate's journal, the armed intent, the inert selection and the      *)
(* successor draft.  Each is a call of its own, which a person asks for    *)
(* and which only the result of the one before makes possible; results are *)
(* held in memory, so a program that dies takes them with it.              *)
(*                                                                         *)
(* The files and the witness are shared.  Bytes may change between any two *)
(* steps; a call may raise, or its program be killed, between any two of   *)
(* them.  Every audit of bytes that some evidence was signed for ends in   *)
(* one verdict, so that two of them agree when both are good.              *)
(***************************************************************************)
EXTENDS Naturals, FiniteSets

CONSTANTS
  Preparer,        \* programs that prepare a plan
  Candidate,       \* transactions a person may give to a plan
  Base,            \* the transaction that is selected at the start
  MaxChanges,      \* bound: changes of bytes by hand
  PriorReplaced,   \* is the check of the previous slot replaced for the draft?
  Nobody           \* no file, no lock, no call, nothing held

Place == Candidate \cup {Base}
Slots == [transaction : Place, generation : 1..(Cardinality(Candidate) + 1)]

SomeSlot == [transaction : Place, generation : Nat]

\* The journal of a candidate, and what a program has in hand.
JournalRecord == [revision : 1..3, previous : SomeSlot, evidence : {"built"}]

PreparerRecord ==
  [transaction : Candidate, baseline : [slot : SomeSlot, revision : Nat], held : 0..7,
   at : {"idle", "locked", "made", "filled", "measured", "looked", "sure", "written", "asked",
         "capsule", "drafted"},
   native : {"absent", "built", "other"}, revision : Nat]

ASSUME PreparationAssumption ==
  /\ PriorReplaced \in BOOLEAN
  /\ IsFiniteSet(Candidate) /\ Base \notin Candidate
  /\ "dead" \notin Preparer \cup {Nobody}
  /\ Nobody \notin Preparer \cup JournalRecord \cup PreparerRecord

VARIABLES
  bytes,           \* per transaction: its site, its executables, its wheels
  installers,      \* per transaction: who wrote to its stage
  pointer,         \* the selected slot
  capsule,         \* [previous, candidate] of a switch that is pending
  record,          \* the journal of each candidate: [revision, previous, evidence]
  selectionHeld,   \* the selection's lock: whose it is, or "dead"
  witnessHead,     \* [slot, revision] at the witness
  evidence,        \* signed native evidence: [transaction, native]
  drafts,          \* requests that were drafted
  changes,         \* changes of bytes so far
  preparers        \* per program: what it holds and where its call is

preparationFiles == <<bytes, installers, pointer, capsule, record>>
preparationVars ==
  <<preparationFiles, selectionHeld, witnessHead, evidence, drafts, changes, preparers>>

\* The calls, each by the number of results that it starts from.
Install       == 0
RequestNative == 1
SignNative    == 2
RecordIntent  == 3
Arm           == 4
Select        == 5
Draft         == 6

PreparationInit ==
  /\ bytes = [t \in Place |->
       [site |-> IF t = Base THEN "planned" ELSE "absent",
        native |-> IF t = Base THEN "built" ELSE "absent",
        wheels |-> "planned"]]
  /\ installers = [t \in Place |-> {}]
  /\ pointer = [transaction |-> Base, generation |-> 1]
  /\ capsule = Nobody
  /\ record = [t \in Candidate |-> Nobody]
  /\ selectionHeld = Nobody
  /\ witnessHead = [slot |-> pointer, revision |-> 1]
  /\ evidence = {[transaction |-> Base, native |-> "built"]}
  /\ drafts = {}
  /\ changes = 0
  /\ preparers = [p \in Preparer |-> Nobody]

-----------------------------------------------------------------------------
(* Audits.                                                                 *)

\* inspect_plan_bound_wheelhouse: the wheels are those of the plan.
WheelsAsPlanned(t) == bytes[t].wheels = "planned"

\* audit_publisher_bound_pip_candidate: so is what pip made of them.
SiteAsPlanned(t) == WheelsAsPlanned(t) /\ bytes[t].site = "planned"

\* verify_signed_staged_native_evidence, for the evidence a program holds.
NativeAsSigned(t, native) ==
  /\ WheelsAsPlanned(t)
  /\ [transaction |-> t, native |-> native] \in evidence
  /\ bytes[t].native = native

\* inspect_plan_bound_staged_candidate, each time it looks.
StagedAsPlanned(t, native) == SiteAsPlanned(t) /\ NativeAsSigned(t, native)

-----------------------------------------------------------------------------
(* Calls.  At "idle" a program holds the results of the calls before.      *)

Holds(p, n)      == preparers[p] # Nobody /\ preparers[p].held = n
Calling(p, where) == preparers[p] # Nobody /\ preparers[p].at = where
Its(p)           == preparers[p].transaction
Proceed(p, where) == preparers' = [preparers EXCEPT ![p].at = where]
Result(p)        == preparers' = [preparers EXCEPT ![p].at = "idle", ![p].held = @ + 1]

\* A faulty variant: an exception leaves the lock behind.
ReleaseNever(p) == UNCHANGED selectionHeld

Release(p) == selectionHeld' = IF selectionHeld = p THEN Nobody ELSE selectionHeld

\* A plan is reviewed against the selection that the witness vouches for.
BeginPlan(p, t) ==
  /\ preparers[p] = Nobody
  /\ capsule = Nobody /\ witnessHead.slot = pointer /\ t # pointer.transaction
  /\ preparers' = [preparers EXCEPT ![p] =
       [transaction |-> t, baseline |-> witnessHead, held |-> Install, at |-> "idle",
        native |-> "absent", revision |-> witnessHead.revision]]
  /\ UNCHANGED <<preparationFiles, selectionHeld, witnessHead, evidence, drafts, changes>>

Raise(p) ==
  /\ preparers[p] # Nobody /\ ~Calling(p, "idle")
  /\ Proceed(p, "idle")
  /\ Release(p)
  /\ UNCHANGED <<preparationFiles, witnessHead, evidence, drafts, changes>>

KillPreparer(p) ==
  /\ preparers[p] # Nobody
  /\ preparers' = [preparers EXCEPT ![p] = Nobody]
  /\ selectionHeld' = IF selectionHeld = p THEN "dead" ELSE selectionHeld
  /\ UNCHANGED <<preparationFiles, witnessHead, evidence, drafts, changes>>

\* No lock is ever broken: a person removes the one of a dead program.
RemoveDeadLock ==
  /\ selectionHeld = "dead"
  /\ selectionHeld' = Nobody
  /\ UNCHANGED <<preparationFiles, witnessHead, evidence, drafts, changes, preparers>>

-----------------------------------------------------------------------------
(* install_authenticated_plan_to_isolated_stage.                           *)

\* A faulty variant: a stage that a dead program left is installed into.
FreeOrLeft(t) == bytes[t].site \in {"absent", "partial"}

FreeStage(t) == bytes[t].site = "absent"

\* The selection's lock, the first look at the wheels, the prepared record.
StartInstall(p) ==
  /\ Holds(p, Install) /\ Calling(p, "idle")
  /\ FreeStage(Its(p)) /\ selectionHeld = Nobody
  /\ WheelsAsPlanned(Its(p))
  /\ selectionHeld' = p
  /\ Proceed(p, "locked")
  /\ UNCHANGED <<preparationFiles, witnessHead, evidence, drafts, changes>>

\* The second look, and the directory.
MakeStage(p) ==
  /\ Holds(p, Install) /\ Calling(p, "locked")
  /\ WheelsAsPlanned(Its(p)) /\ FreeStage(Its(p))
  /\ bytes' = [bytes EXCEPT ![Its(p)].site = "partial"]
  /\ installers' = [installers EXCEPT ![Its(p)] = @ \cup {p}]
  /\ Proceed(p, "made")
  /\ UNCHANGED <<pointer, capsule, record, selectionHeld, witnessHead, evidence, drafts, changes>>

\* venv and pip, which take the wheels as they are by then.
RunPip(p) ==
  /\ Holds(p, Install) /\ Calling(p, "made")
  /\ bytes' = [bytes EXCEPT ![Its(p)].site = bytes[Its(p)].wheels, ![Its(p)].native = "built"]
  /\ installers' = [installers EXCEPT ![Its(p)] = @ \cup {p}]
  /\ Proceed(p, "filled")
  /\ UNCHANGED <<pointer, capsule, record, selectionHeld, witnessHead, evidence, drafts, changes>>

\* The audit of what pip made, and the third look at the wheels.
EndInstall(p) ==
  /\ Holds(p, Install) /\ Calling(p, "filled")
  /\ SiteAsPlanned(Its(p))
  /\ Release(p)
  /\ Result(p)
  /\ UNCHANGED <<preparationFiles, witnessHead, evidence, drafts, changes>>

-----------------------------------------------------------------------------
(* prepare_unsigned_native_evidence_request, and the signer (external).    *)

\* _measure_once.
MeasureStage(p) ==
  /\ Holds(p, RequestNative) /\ Calling(p, "idle")
  /\ SiteAsPlanned(Its(p))
  /\ preparers' = [preparers EXCEPT ![p].at = "measured", ![p].native = bytes[Its(p)].native]
  /\ UNCHANGED <<preparationFiles, selectionHeld, witnessHead, evidence, drafts, changes>>

\* It is measured again and must be the same.
EndRequest(p) ==
  /\ Holds(p, RequestNative) /\ Calling(p, "measured")
  /\ SiteAsPlanned(Its(p)) /\ bytes[Its(p)].native = preparers[p].native
  /\ Result(p)
  /\ UNCHANGED <<preparationFiles, selectionHeld, witnessHead, evidence, drafts, changes>>

\* The signer sees to the origin of the executables itself.
SignRequest(p) ==
  /\ Holds(p, SignNative) /\ preparers[p].native = "built"
  /\ evidence' = evidence \cup {[transaction |-> Its(p), native |-> preparers[p].native]}
  /\ Result(p)
  /\ UNCHANGED <<preparationFiles, selectionHeld, witnessHead, drafts, changes>>

-----------------------------------------------------------------------------
(* What the calls that follow begin with: the files as the call before     *)
(* left them, then two looks at the staged candidate.                      *)

\* The journal is there, as the program left it.
Recorded(p, revision) ==
  record[Its(p)] = [revision |-> revision, previous |-> preparers[p].baseline.slot,
                    evidence |-> preparers[p].native]

\* Its own switch is pending, on the selection that its plan began from.
ItsSwitchPending(p) ==
  /\ capsule # Nobody /\ capsule.previous = preparers[p].baseline.slot
  /\ capsule.candidate = pointer
  /\ pointer = [transaction |-> Its(p), generation |-> capsule.previous.generation + 1]

FilesStand(p) ==
  CASE preparers[p].held = RecordIntent -> record[Its(p)] = Nobody
    [] preparers[p].held = Arm          -> capsule = Nobody /\ Recorded(p, 1)
    [] preparers[p].held = Select       -> capsule = Nobody /\ Recorded(p, 2)
    [] preparers[p].held = Draft        -> ItsSwitchPending(p) /\ Recorded(p, 2)

LookAtStage(p, before, after) ==
  /\ preparers[p] # Nobody /\ preparers[p].held \in RecordIntent..Draft
  /\ Calling(p, before)
  /\ StagedAsPlanned(Its(p), preparers[p].native)
  /\ Proceed(p, after)
  /\ UNCHANGED <<preparationFiles, selectionHeld, witnessHead, evidence, drafts, changes>>

FirstLook(p) == LookAtStage(p, "idle", "looked") /\ FilesStand(p)
SecondLook(p) == LookAtStage(p, "looked", "sure")

\* begin_verified_update_intent looks at the executables once more.
WriteRecord(p) ==
  /\ Holds(p, RecordIntent) /\ Calling(p, "sure")
  /\ FilesStand(p) /\ NativeAsSigned(Its(p), preparers[p].native)
  /\ record' = [record EXCEPT ![Its(p)] =
       [revision |-> 1, previous |-> preparers[p].baseline.slot, evidence |-> preparers[p].native]]
  /\ Proceed(p, "written")
  /\ UNCHANGED <<bytes, installers, pointer, capsule, selectionHeld, witnessHead, evidence,
                 drafts, changes>>

-----------------------------------------------------------------------------
(* Under the locks: both installations are looked at before and after the  *)
(* witness is asked, and the files must stay as they were.                 *)

\* observe_both: the installation in place and the candidate.
BothAsSigned(p) ==
  /\ StagedAsPlanned(Its(p), preparers[p].native)
  /\ LET before == preparers[p].baseline.slot.transaction
     IN \E e \in evidence : e.transaction = before /\ StagedAsPlanned(before, e.native)

\* verify_previous_slot_record: the selection in place is the one whose receipt
\* the plan began from, and no switch is pending.  The draft asks for the same
\* of a switch that is pending, so that it is always refused; its tests put
\* another check in its place, and with PriorReplaced so does the model, to ask
\* what the rest of the draft is good for.
BaselineInPlace(p) ==
  (PriorReplaced => preparers[p].held # Draft) =>
    capsule = Nobody /\ pointer = preparers[p].baseline.slot

\* A faulty variant: the lock file is opened, whether it is new or not.
LockForPlanShared(p) ==
  /\ preparers[p] # Nobody /\ preparers[p].held \in Arm..Draft /\ Calling(p, "sure")
  /\ FilesStand(p) /\ BaselineInPlace(p) /\ BothAsSigned(p)
  /\ selectionHeld' = p
  /\ Proceed(p, "locked")
  /\ UNCHANGED <<preparationFiles, witnessHead, evidence, drafts, changes>>

LockForPlan(p) ==
  /\ preparers[p] # Nobody /\ preparers[p].held \in Arm..Draft /\ Calling(p, "sure")
  /\ selectionHeld = Nobody
  /\ FilesStand(p) /\ BaselineInPlace(p) /\ BothAsSigned(p)
  /\ selectionHeld' = p
  /\ Proceed(p, "locked")
  /\ UNCHANGED <<preparationFiles, witnessHead, evidence, drafts, changes>>

\* query_checkpoint_witness: its head is the receipt of the baseline still.
WitnessStands(p) ==
  witnessHead.slot = preparers[p].baseline.slot /\ witnessHead.revision >= preparers[p].revision

AskWitness(p) ==
  /\ preparers[p] # Nobody /\ preparers[p].held \in Arm..Draft /\ Calling(p, "locked")
  /\ WitnessStands(p)
  /\ preparers' = [preparers EXCEPT ![p].at = "asked", ![p].revision = witnessHead.revision]
  /\ UNCHANGED <<preparationFiles, selectionHeld, witnessHead, evidence, drafts, changes>>

LookAgain(p) == Calling(p, "asked") /\ FilesStand(p) /\ BaselineInPlace(p) /\ BothAsSigned(p)

ArmIntent(p) ==
  /\ Holds(p, Arm) /\ LookAgain(p)
  /\ record' = [record EXCEPT ![Its(p)].revision = 2]
  /\ Proceed(p, "written")
  /\ UNCHANGED <<bytes, installers, pointer, capsule, selectionHeld, witnessHead, evidence,
                 drafts, changes>>

Successor(p) ==
  [transaction |-> Its(p), generation |-> preparers[p].baseline.slot.generation + 1]

SaveSwitchCapsule(p) ==
  /\ Holds(p, Select) /\ LookAgain(p)
  /\ capsule' = [previous |-> pointer, candidate |-> Successor(p)]
  /\ Proceed(p, "capsule")
  /\ UNCHANGED <<bytes, installers, pointer, record, selectionHeld, witnessHead, evidence,
                 drafts, changes>>

SwitchPointer(p) ==
  /\ Holds(p, Select) /\ Calling(p, "capsule")
  /\ pointer' = Successor(p)
  /\ Proceed(p, "written")
  /\ UNCHANGED <<bytes, installers, capsule, record, selectionHeld, witnessHead, evidence,
                 drafts, changes>>

\* The locks go, and then the files are read back.
LeaveLock(p) ==
  /\ Calling(p, "written") /\ selectionHeld = p
  /\ selectionHeld' = Nobody
  /\ UNCHANGED <<preparationFiles, witnessHead, evidence, drafts, changes, preparers>>

ReadBack(p) ==
  /\ Calling(p, "written") /\ selectionHeld # p
  /\ CASE preparers[p].held = RecordIntent -> Recorded(p, 1)
       [] preparers[p].held = Arm          -> Recorded(p, 2)
       [] preparers[p].held = Select       -> Recorded(p, 2) /\ ItsSwitchPending(p)
  /\ Result(p)
  /\ UNCHANGED <<preparationFiles, selectionHeld, witnessHead, evidence, drafts, changes>>

\* draft_witness_bound_successor_receipt writes nothing.
MakeDraft(p) ==
  /\ Holds(p, Draft) /\ LookAgain(p)
  /\ selectionHeld' = Nobody
  /\ Proceed(p, "drafted")
  /\ UNCHANGED <<preparationFiles, witnessHead, evidence, drafts, changes>>

\* Its caller reads journal, capsule and pointer again before it hands the
\* request over.
HandOver(p) ==
  /\ Holds(p, Draft) /\ Calling(p, "drafted")
  /\ FilesStand(p)
  /\ drafts' = drafts \cup
       {[transaction |-> Its(p), previous |-> preparers[p].baseline.slot,
         successor |-> Successor(p), revision |-> preparers[p].revision]}
  /\ Result(p)
  /\ UNCHANGED <<preparationFiles, selectionHeld, witnessHead, evidence, changes>>

-----------------------------------------------------------------------------
(* What goes on besides.                                                   *)

\* Somebody writes to a stage or a wheelhouse, or puts it back as it was.
ChangeBytes(t) ==
  /\ changes < MaxChanges
  /\ \E b \in [site   : IF bytes[t].site \in {"absent", "partial"} THEN {bytes[t].site}
                        ELSE {"planned", "other"},
               native : IF bytes[t].native = "absent" THEN {"absent"} ELSE {"built", "other"},
               wheels : {"planned", "other"}] :
       b # bytes[t] /\ bytes' = [bytes EXCEPT ![t] = b]
  /\ changes' = changes + 1
  /\ UNCHANGED <<installers, pointer, capsule, record, selectionHeld, witnessHead, evidence,
                 drafts, preparers>>

\* A faulty variant: the journal of an undone switch is left armed.
UndoPointer ==
  /\ selectionHeld = Nobody /\ capsule # Nobody
  /\ witnessHead.slot = capsule.previous
  /\ pointer' = capsule.previous
  /\ capsule' = Nobody
  /\ UNCHANGED <<bytes, installers, record, selectionHeld, witnessHead, evidence, drafts,
                 changes, preparers>>

\* reconcile_witness_bound_selection_offline, while no successor is proposed.
UndoSwitch ==
  /\ selectionHeld = Nobody /\ capsule # Nobody
  /\ witnessHead.slot = capsule.previous
  /\ record[capsule.candidate.transaction].revision \in {2, 3}
  /\ pointer' = capsule.previous
  /\ record' = [record EXCEPT ![capsule.candidate.transaction].revision = 3]
  /\ capsule' = Nobody
  /\ UNCHANGED <<bytes, installers, selectionHeld, witnessHead, evidence, drafts, changes,
                 preparers>>

\* The plan services propose, commit and settle a switch that is pending.
CommitDraft ==
  /\ capsule # Nobody
  /\ \E d \in drafts :
       /\ d.previous = capsule.previous /\ d.successor = pointer /\ pointer = capsule.candidate
       /\ record[d.transaction].revision = 2
       /\ witnessHead = [slot |-> d.previous, revision |-> d.revision]
       /\ witnessHead' = [slot |-> d.successor, revision |-> d.revision + 1]
  /\ UNCHANGED <<preparationFiles, selectionHeld, evidence, drafts, changes, preparers>>

SettleSwitch ==
  /\ selectionHeld = Nobody /\ capsule # Nobody /\ witnessHead.slot = pointer
  /\ capsule' = Nobody
  /\ UNCHANGED <<bytes, installers, pointer, record, selectionHeld, witnessHead, evidence,
                 drafts, changes, preparers>>

PreparerStep(p) ==
  \/ Raise(p) \/ KillPreparer(p) \/ (\E t \in Candidate : BeginPlan(p, t))
  \/ StartInstall(p) \/ MakeStage(p) \/ RunPip(p) \/ EndInstall(p)
  \/ MeasureStage(p) \/ EndRequest(p) \/ SignRequest(p)
  \/ FirstLook(p) \/ SecondLook(p) \/ WriteRecord(p)
  \/ LockForPlan(p) \/ AskWitness(p) \/ ArmIntent(p)
  \/ SaveSwitchCapsule(p) \/ SwitchPointer(p) \/ LeaveLock(p) \/ ReadBack(p)
  \/ MakeDraft(p) \/ HandOver(p)

PreparationNext ==
  \/ \E p \in Preparer : PreparerStep(p)
  \/ \E t \in Place : ChangeBytes(t)
  \/ RemoveDeadLock \/ UndoSwitch \/ CommitDraft \/ SettleSwitch

PreparationSpec == PreparationInit /\ [][PreparationNext]_preparationVars

-----------------------------------------------------------------------------
PreparationTypeOK ==
  /\ pointer \in Slots
  /\ capsule # Nobody => capsule \in [previous : Slots, candidate : Slots]
  /\ \A t \in Candidate : record[t] # Nobody =>
       record[t] \in [revision : 1..3, previous : Slots, evidence : {"built"}]
  /\ selectionHeld \in Preparer \cup {Nobody, "dead"}
  /\ selectionHeld \in Preparer =>
       preparers[selectionHeld] # Nobody /\ preparers[selectionHeld].at # "idle"
  /\ witnessHead \in [slot : Slots, revision : 1..(Cardinality(Candidate) + 1)]
  /\ drafts \subseteq [transaction : Candidate, previous : Slots, successor : Slots,
                       revision : 1..Cardinality(Candidate)]
  /\ \A p \in Preparer : preparers[p] # Nobody =>
       preparers[p].held \in Install..(Draft + 1) /\ preparers[p].transaction \in Candidate

\* A stage is the work of one program: two that were given the same
\* transaction never mix their files, and what one left half done when it
\* died is never taken further by another, nor recorded in a journal.
StageIsOnesWork ==
  \A t \in Candidate :
    /\ Cardinality(installers[t]) <= 1
    /\ record[t] # Nobody => bytes[t].site # "partial"

\* No update is lost: a candidate is only put in the place of the selection
\* that its plan was reviewed against and that the witness still has, however
\* many plans were begun from it and whatever became of them.
NoUpdateIsLost ==
  [][\A t \in Candidate :
       pointer'.transaction = t /\ pointer.transaction # t =>
         /\ pointer = record[t].previous \/ capsule' = Nobody
         /\ capsule' # Nobody => witnessHead.slot = pointer]_preparationVars

\* A request that the witness would still accept is for the switch that is
\* pending, or its switch was undone and can never be made again: no other
\* switch came between.
RequestIsPendingOrUndone ==
  \A d \in drafts :
    d.previous = witnessHead.slot /\ d.revision = witnessHead.revision =>
      \/ capsule = [previous |-> d.previous, candidate |-> d.successor]
      \/ record[d.transaction].revision = 3

\* All three, of the files two programs prepare side by side: one's stage, its
\* switch and its request are never the other's, nor in the other's place.
PreparationStands ==
  /\ []StageIsOnesWork
  /\ []RequestIsPendingOrUndone
  /\ NoUpdateIsLost
=============================================================================
