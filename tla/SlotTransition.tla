---------------------------- MODULE SlotTransition ----------------------------
(***************************************************************************)
(* The local side of an update: under the software root, one journal and   *)
(* at most one successor proposal per transaction, the selection pointer,  *)
(* the capsule that can undo a switch, and the lock files.  Cooperating    *)
(* processes run the operations below at the same time; each may raise     *)
(* (its finally clauses release the locks) or be killed (the lock files    *)
(* stay) between any two of its steps.                                     *)
(*                                                                         *)
(* A step is one file replacement or unlink, or the checks before it.  A   *)
(* slot stands for a selection, for the observation record of it and for   *)
(* the receipt of it: each names the transaction and the generation.  A    *)
(* journal's revision is a function of its phase: 1, 2, 2 and 3.  Audits   *)
(* of installed bytes, clocks and signatures can only raise.               *)
(***************************************************************************)
EXTENDS Naturals

CONSTANTS
  Process,         \* cooperating processes of the suite
  Transaction,     \* update transactions
  Installed,       \* the transaction that was selected before them
  Expectations,    \* predecessors a new journal may be bound to
  MaxGeneration,   \* 2^53 - 1 in the code
  None,            \* no file, no lock, no head, no call
  Orphaned         \* a lock file whose owner is dead

Slot == [transaction : Transaction \cup {Installed}, generation : 1..MaxGeneration]

CandidateVerified == "candidate_verified"
ActivationIntent  == "activation_intent"
RecoveryRequired  == "recovery_required"
Aborted           == "aborted"
Phase == {CandidateVerified, ActivationIntent, RecoveryRequired, Aborted}

Journal  == [phase : Phase, previous : Slot \cup {None}]
Capsule  == [transaction : Transaction, previous : Slot \cup {None}, candidate : Slot]
Proposal == [previous : Slot, successor : Slot]

\* The operations, by the locks they take: a journal's, the selection's, or
\* the selection's and then a journal's.
JournalOnly   == {"verify", "request", "abort", "require_recovery"}
SelectionOnly == {"switch", "restore"}
BothLocks     == {"arm_prior", "arm_witnessed", "switch_prior", "switch_witnessed",
                  "reconcile", "propose"}
Switching     == {"switch", "switch_prior", "switch_witnessed"}
Undoing       == {"restore", "reconcile"}
Operation     == JournalOnly \cup SelectionOnly \cup BothLocks
Where         == {"selection_locked", "locked", "checked", "written", "recorded", "done"}

Call == [op : Operation, tx : Transaction, at : Where, previous : Slot \cup {None}]

ASSUME SlotAssumption ==
  /\ MaxGeneration \in Nat \ {0}
  /\ Installed \notin Transaction
  /\ Expectations \subseteq Slot \cup {None}
ASSUME NoneAssumption ==
  /\ None \notin Slot \cup Journal \cup Capsule \cup Proposal \cup Call
  /\ None \notin [candidate : Slot, offered : BOOLEAN]
  /\ None \notin Process /\ Orphaned \notin Process /\ None # Orphaned

VARIABLES
  selection,       \* candidate-selection.json
  capsule,         \* pending-slot-recovery.json
  journal,         \* transactions/<tx>.json
  proposal,        \* transactions/<tx>.successor-proposal.json
  selectionLock,   \* candidate-selection.lock
  journalLock,     \* the lock file of each journal
  head,            \* the slot whose receipt is the head at the witness
  call             \* what each process is doing

files == <<selection, capsule, journal, proposal>>
locks == <<selectionLock, journalLock>>
vars  == <<files, locks, head, call>>

LockState == Process \cup {None, Orphaned}

TypeOK ==
  /\ selection \in Slot \cup {None}
  /\ capsule \in Capsule \cup {None}
  /\ journal \in [Transaction -> Journal \cup {None}]
  /\ proposal \in [Transaction -> Proposal \cup {None}]
  /\ selectionLock \in LockState
  /\ journalLock \in [Transaction -> LockState]
  /\ head \in Slot \cup {None}
  /\ call \in [Process -> Call \cup {None}]

\* A root without a selection or with a settled one; the witness may or may not
\* have its receipt.
Init ==
  /\ selection \in [transaction : {Installed}, generation : 1..MaxGeneration] \cup {None}
  /\ head \in {None, selection}
  /\ capsule = None
  /\ journal = [tx \in Transaction |-> None]
  /\ proposal = [tx \in Transaction |-> None]
  /\ selectionLock = None
  /\ journalLock = [tx \in Transaction |-> None]
  /\ call = [p \in Process |-> None]

-----------------------------------------------------------------------------
(* Calls and locks.                                                        *)

At(p, ops, where) == call[p] # None /\ call[p].op \in ops /\ call[p].at = where
Tx(p)             == call[p].tx
GoTo(p, where)    == call' = [call EXCEPT ![p].at = where]

Begin(p, op, tx) ==
  /\ call[p] = None
  /\ IF op \in JournalOnly
     THEN /\ journalLock[tx] = None
          /\ journalLock' = [journalLock EXCEPT ![tx] = p]
          /\ UNCHANGED selectionLock
     ELSE /\ selectionLock = None
          /\ selectionLock' = p
          /\ UNCHANGED journalLock
  /\ call' = [call EXCEPT ![p] =
       [op |-> op, tx |-> tx, previous |-> None,
        at |-> IF op \in BothLocks THEN "selection_locked" ELSE "locked"]]
  /\ UNCHANGED <<files, head>>

LockJournal(p) ==
  /\ At(p, BothLocks, "selection_locked")
  /\ journalLock[Tx(p)] = None
  /\ journalLock' = [journalLock EXCEPT ![Tx(p)] = p]
  /\ GoTo(p, "locked")
  /\ UNCHANGED <<files, selectionLock, head>>

\* The locks of p pass to another state: removed, or left behind.
LeaveLocks(p, state) ==
  /\ selectionLock' = IF selectionLock = p THEN state ELSE selectionLock
  /\ journalLock' = [tx \in Transaction |->
                       IF journalLock[tx] = p THEN state ELSE journalLock[tx]]

\* A return, or an exception at any point; and a death at any point.
Return(p) ==
  /\ call[p] # None
  /\ call' = [call EXCEPT ![p] = None]
  /\ LeaveLocks(p, None)
  /\ UNCHANGED <<files, head>>

Crash(p) ==
  /\ call[p] # None
  /\ call' = [call EXCEPT ![p] = None]
  /\ LeaveLocks(p, Orphaned)
  /\ UNCHANGED <<files, head>>

\* Locks are never broken automatically: an operator removes an orphaned one.
ClearSelectionLock ==
  /\ selectionLock = Orphaned
  /\ selectionLock' = None
  /\ UNCHANGED <<files, journalLock, head, call>>

ClearJournalLock(tx) ==
  /\ journalLock[tx] = Orphaned
  /\ journalLock' = [journalLock EXCEPT ![tx] = None]
  /\ UNCHANGED <<files, selectionLock, head, call>>

-----------------------------------------------------------------------------
(* The journal.                                                            *)

InPhase(tx, phases) == journal[tx] # None /\ journal[tx].phase \in phases

MoveJournal(p, phase) ==
  /\ journal' = [journal EXCEPT ![Tx(p)].phase = phase]
  /\ UNCHANGED <<selection, capsule, proposal, locks, head>>

\* begin_verified_update_intent: the expected predecessor is not authenticated.
RecordCandidate(p, previous) ==
  /\ At(p, {"verify"}, "locked")
  /\ journal[Tx(p)] = None
  /\ journal' = [journal EXCEPT ![Tx(p)] =
                   [phase |-> CandidateVerified, previous |-> previous]]
  /\ GoTo(p, "done")
  /\ UNCHANGED <<selection, capsule, proposal, locks, head>>

\* request_activation_intent, which looks at no selection.
RequestIntent(p) ==
  /\ At(p, {"request"}, "locked")
  /\ InPhase(Tx(p), {CandidateVerified})
  /\ MoveJournal(p, ActivationIntent)
  /\ GoTo(p, "done")

\* record_safe_disposition.
Abort(p) ==
  /\ At(p, {"abort"}, "locked")
  /\ InPhase(Tx(p), {CandidateVerified})
  /\ MoveJournal(p, Aborted)
  /\ GoTo(p, "done")

RequireRecovery(p) ==
  /\ At(p, {"require_recovery"}, "locked")
  /\ InPhase(Tx(p), {ActivationIntent})
  /\ MoveJournal(p, RecoveryRequired)
  /\ GoTo(p, "done")

\* A faulty variant: a pending recovery does not stop the next switch.
PendingIgnored == TRUE

\* read_candidate_selection and the switches refuse an unreconciled capsule.
NothingPending == capsule = None

\* verify_previous_slot_record for a bound journal: the selection is read, and
\* must be the slot the journal was bound to.
PreviousVerified(tx) ==
  /\ capsule = None
  /\ selection # None
  /\ journal[tx].previous = selection
  /\ selection.transaction # tx

\* verify_prior_bound_candidate.
PriorBound(tx) == InPhase(tx, {CandidateVerified}) /\ PreviousVerified(tx)

\* arm_prior_bound_update_intent.
ArmPrior(p) ==
  /\ At(p, {"arm_prior"}, "locked")
  /\ NothingPending
  /\ PriorBound(Tx(p))
  /\ MoveJournal(p, ActivationIntent)
  /\ GoTo(p, "done")

\* The signed head, freshly read, is the receipt of the slot in place.
WitnessAgrees(slot) == head = slot

\* arm_witness_bound_activation_intent, which also reads the signed head.
ArmWitnessed(p) ==
  /\ At(p, {"arm_witnessed"}, "locked")
  /\ NothingPending
  /\ InPhase(Tx(p), {CandidateVerified})
  /\ PreviousVerified(Tx(p))
  /\ WitnessAgrees(selection) /\ selection.generation < MaxGeneration
  /\ MoveJournal(p, ActivationIntent)
  /\ GoTo(p, "done")

-----------------------------------------------------------------------------
(* A switch: checks, capsule, pointer.                                     *)

\* A faulty variant: any journal past its verification may switch.
ArmedOrLater(tx) == InPhase(tx, {ActivationIntent, RecoveryRequired})

Armed(tx) == InPhase(tx, {ActivationIntent})

\* A faulty variant: the last generation has a successor too.
AlwaysHasSuccessor(slot) == TRUE

HasSuccessor(slot) == slot # None => slot.generation < MaxGeneration

Candidate(tx, previous) ==
  [transaction |-> tx,
   generation  |-> IF previous = None THEN 1 ELSE previous.generation + 1]

\* The checks end: what was read of the previous slot is kept for the writes.
Keep(p, previous) ==
  /\ call' = [call EXCEPT ![p].at = "checked", ![p].previous = previous]
  /\ UNCHANGED <<files, locks, head>>

\* switch_verified_candidate_selection, for a journal bound to no predecessor,
\* which it reads without the journal's lock.
CheckUnboundSwitch(p) ==
  /\ At(p, {"switch"}, "locked")
  /\ NothingPending
  /\ Armed(Tx(p))
  /\ journal[Tx(p)].previous = None
  /\ selection # None => selection.transaction # Tx(p)
  /\ HasSuccessor(selection)
  /\ Keep(p, selection)

\* switch_armed_prior_bound_selection.
CheckPriorSwitch(p) ==
  /\ At(p, {"switch_prior"}, "locked")
  /\ NothingPending
  /\ Armed(Tx(p))
  /\ PreviousVerified(Tx(p))
  /\ HasSuccessor(selection)
  /\ Keep(p, selection)

\* select_witness_bound_candidate_slot, which also reads the signed head.
CheckWitnessedSwitch(p) ==
  /\ At(p, {"switch_witnessed"}, "locked")
  /\ NothingPending
  /\ Armed(Tx(p))
  /\ PreviousVerified(Tx(p))
  /\ HasSuccessor(selection)
  /\ WitnessAgrees(selection)
  /\ Keep(p, selection)

SaveCapsule(p) ==
  /\ At(p, Switching, "checked")
  /\ call[p].op = "switch_witnessed" =>
       selection = call[p].previous /\ capsule = None /\ Armed(Tx(p))
  /\ capsule' = [transaction |-> Tx(p),
                 previous    |-> call[p].previous,
                 candidate   |-> Candidate(Tx(p), call[p].previous)]
  /\ GoTo(p, "written")
  /\ UNCHANGED <<selection, journal, proposal, locks, head>>

SavePointer(p) ==
  /\ At(p, Switching, "written")
  /\ selection' = Candidate(Tx(p), call[p].previous)
  /\ GoTo(p, "done")
  /\ UNCHANGED <<capsule, journal, proposal, locks, head>>

-----------------------------------------------------------------------------
(* Undoing a switch: pointer, journal (reconcile only), capsule.           *)

\* Two faulty variants: no interlock, and one that asks the witness.
NotInterlocked(tx)     == TRUE
HeadNotAtSuccessor(tx) == proposal[tx] # None => head # proposal[tx].successor

\* refuse_if_local_successor_proposal_exists.
MayUndo(tx) == proposal[tx] = None

\* A faulty variant: what is left of an undo is not recognised.
PointerMoved == selection = capsule.candidate

PointerRecognised == selection \in {capsule.candidate, capsule.previous}

CapsuleOf(tx) == capsule # None /\ capsule.transaction = tx

\* restore_previous_selection.
CheckRestore(p) ==
  /\ At(p, {"restore"}, "locked")
  /\ CapsuleOf(Tx(p))
  /\ MayUndo(Tx(p))
  /\ PointerRecognised
  /\ Keep(p, capsule.previous)

\* reconcile_witness_bound_selection_offline.
CheckReconcile(p) ==
  /\ At(p, {"reconcile"}, "locked")
  /\ CapsuleOf(Tx(p)) /\ capsule.previous # None
  /\ InPhase(Tx(p), {ActivationIntent, RecoveryRequired})
  /\ MayUndo(Tx(p))
  /\ PointerRecognised
  /\ Keep(p, capsule.previous)

\* A faulty variant: an undo always ends without a selection.
RestoreEmpty(p) ==
  /\ At(p, Undoing, "checked")
  /\ selection' = None
  /\ GoTo(p, "written")
  /\ UNCHANGED <<capsule, journal, proposal, locks, head>>

RestorePointer(p) ==
  /\ At(p, Undoing, "checked")
  /\ selection' = call[p].previous
  /\ GoTo(p, "written")
  /\ UNCHANGED <<capsule, journal, proposal, locks, head>>

RecordRecovery(p) ==
  /\ At(p, {"reconcile"}, "written")
  /\ MoveJournal(p, RecoveryRequired)
  /\ GoTo(p, "recorded")

RemoveCapsule(p) ==
  /\ capsule' = None
  /\ GoTo(p, "done")
  /\ UNCHANGED <<selection, journal, proposal, locks, head>>

EndRestore(p) == At(p, {"restore"}, "written") /\ RemoveCapsule(p)

\* Both files are read again before the only rollback capsule is removed.
EndReconcile(p) ==
  /\ At(p, {"reconcile"}, "recorded")
  /\ CapsuleOf(Tx(p)) /\ capsule.previous = call[p].previous
  /\ selection = call[p].previous
  /\ RemoveCapsule(p)

-----------------------------------------------------------------------------
(* The successor proposal, and the witness.                                *)

\* _snapshot: pointer, capsule and armed journal of one pending bound switch.
Pending(tx) ==
  /\ CapsuleOf(tx) /\ capsule.previous # None
  /\ selection = capsule.candidate
  /\ Armed(tx)
  /\ journal[tx].previous # None

\* persist_untrusted_successor_proposal up to its signed read of the prior head,
\* for a draft whose receipts are those of the pending switch.
CheckProposal(p) ==
  /\ At(p, {"propose"}, "locked")
  /\ proposal[Tx(p)] = None
  /\ Pending(Tx(p))
  /\ WitnessAgrees(capsule.previous)
  /\ Keep(p, capsule.previous)

\* Its second snapshot, and the file.
SaveProposal(p) ==
  /\ At(p, {"propose"}, "checked")
  /\ Pending(Tx(p)) /\ capsule.previous = call[p].previous
  /\ proposal' = [proposal EXCEPT ![Tx(p)] =
                    [previous |-> capsule.previous, successor |-> selection]]
  /\ GoTo(p, "done")
  /\ UNCHANGED <<selection, capsule, journal, locks, head>>

\* The witness commits a proposed successor of its head (external).
WitnessCommits(tx) ==
  /\ proposal[tx] # None
  /\ head = proposal[tx].previous
  /\ head' = proposal[tx].successor
  /\ UNCHANGED <<files, locks, call>>

\* draft_witness_bound_successor_receipt, which changes nothing: it accepts a
\* pending switch, and verifies the previous slot's record as the arming did.
DraftAccepts(tx) ==
  /\ Pending(tx)
  /\ WitnessAgrees(capsule.previous)
  /\ PreviousVerified(tx)

\* inspect_pending_forward_recovery, which changes nothing: the files are still
\* those of the proposal, and the signed head is one of its two receipts.
Inspectable(tx) ==
  /\ proposal[tx] # None
  /\ Pending(tx)
  /\ proposal[tx] = [previous |-> capsule.previous, successor |-> selection]
  /\ head \in {capsule.previous, selection}

-----------------------------------------------------------------------------
Step(p) ==
  \/ LockJournal(p)
  \/ \E previous \in Expectations : RecordCandidate(p, previous)
  \/ RequestIntent(p) \/ Abort(p) \/ RequireRecovery(p)
  \/ ArmPrior(p) \/ ArmWitnessed(p)
  \/ CheckUnboundSwitch(p) \/ CheckPriorSwitch(p) \/ CheckWitnessedSwitch(p)
  \/ SaveCapsule(p) \/ SavePointer(p)
  \/ CheckRestore(p) \/ CheckReconcile(p) \/ RestorePointer(p)
  \/ RecordRecovery(p) \/ EndRestore(p) \/ EndReconcile(p)
  \/ CheckProposal(p) \/ SaveProposal(p)

Next ==
  \/ \E p \in Process, op \in Operation, tx \in Transaction : Begin(p, op, tx)
  \/ \E p \in Process : Step(p) \/ Return(p) \/ Crash(p)
  \/ ClearSelectionLock
  \/ \E tx \in Transaction : ClearJournalLock(tx) \/ WitnessCommits(tx)

Spec == Init /\ [][Next]_vars

\* Calls end; operators remove orphaned locks and repeat a restoration until it
\* succeeds.  Nobody has to start, propose or commit an update.
Restoring(p, tx) == call[p].op = "restore" /\ call[p].tx = tx

LiveSpec ==
  /\ Spec
  /\ WF_vars(ClearSelectionLock)
  /\ \A p \in Process : WF_vars(Return(p))
  /\ \A tx \in Transaction :
       /\ WF_vars(ClearJournalLock(tx))
       /\ SF_vars(\E p \in Process : Begin(p, "restore", tx))
       /\ SF_vars(\E p \in Process : CheckRestore(p) /\ Tx(p) = tx)
       /\ SF_vars(\E p \in Process : RestorePointer(p) /\ Restoring(p, tx))
       /\ SF_vars(\E p \in Process : EndRestore(p) /\ Tx(p) = tx)

-----------------------------------------------------------------------------
(* Properties.                                                             *)

\* Once a proposal is on disk, and so may be submitted, the pointer stays on the
\* candidate and the capsule keeps the predecessor: no operation, race, crash or
\* cleared lock rolls it back or loses either side, and a forward recovery can
\* inspect it unless the journal was moved to recovery_required.
ProposalKeepsBothSides ==
  \A tx \in Transaction : proposal[tx] # None =>
    /\ capsule = [transaction |-> tx,
                  previous    |-> proposal[tx].previous,
                  candidate   |-> proposal[tx].successor]
    /\ selection = proposal[tx].successor
    /\ Inspectable(tx) \/ InPhase(tx, {RecoveryRequired})

\* The slot whose receipt heads the witness is never lost: it is selected, or
\* the capsule can bring it back.
AttestedSlotKept ==
  head # None =>
    \/ selection = head
    \/ capsule # None /\ capsule.previous = head

\* A pending capsule always finds the pointer at one of its two sides, so that
\* an undo is never refused as ambiguous.
PointerNeverAmbiguous == capsule # None => PointerRecognised

\* A bound transaction that needs recovery is not selected again.
RecoveredStaysDown ==
  [][\A tx \in Transaction :
       InPhase(tx, {RecoveryRequired}) /\ journal[tx].previous # None
         => selection' = selection \/ selection' = None \/ selection'.transaction # tx]_vars

\* An interrupted or unwanted switch without a proposal is undone in the end.
SwitchIsUndone ==
  \A tx \in Transaction :
    CapsuleOf(tx) ~> capsule = None \/ proposal[tx] # None

\* What the draft's documentation requires is what it accepts: the armed journal,
\* the selected candidate, its capsule, and the witness at the predecessor.
PendingSwitchCanBeDrafted ==
  \A tx \in Transaction : Pending(tx) /\ head = capsule.previous => DraftAccepts(tx)

\* The abstract switch: the slot in force, and the one that may replace it.
SlotInForce ==
  IF capsule = None THEN selection
  ELSE IF head = capsule.candidate THEN head ELSE capsule.previous

PendingSwitch ==
  IF capsule = None THEN None
  ELSE [candidate |-> capsule.candidate,
        offered   |-> proposal[capsule.transaction] # None]

Switch == INSTANCE ReversibleSwitch WITH slot <- SlotInForce, pending <- PendingSwitch

ImplementsReversibleSwitch == Switch!Spec
=============================================================================
