------------------------ MODULE SlotTransition_proofs ------------------------
(***************************************************************************)
(* Proofs about SlotTransition, for any number of processes and            *)
(* transactions.  The inductive invariant says which locks a call holds,   *)
(* what it still knows of the files between its checks and its writes, and *)
(* how the files agree with one another and with the witness.              *)
(***************************************************************************)
EXTENDS SlotTransition, TLAPS

-----------------------------------------------------------------------------
(* The inductive invariant.                                                *)

UsesSelection(p) == call[p] # None /\ call[p].op \notin JournalOnly

UsesJournal(p, tx) ==
  /\ call[p] # None /\ call[p].tx = tx
  /\ \/ call[p].op \in JournalOnly
     \/ call[p].op \in BothLocks /\ call[p].at # "selection_locked"

LocksHeld ==
  \A p \in Process :
    /\ selectionLock = p <=> UsesSelection(p)
    /\ \A tx \in Transaction : journalLock[tx] = p <=> UsesJournal(p, tx)

\* What a switch knows before each of its two writes.
SwitchKnows(p) ==
  /\ selection = call[p].previous
  /\ HasSuccessor(call[p].previous)
  /\ journal[Tx(p)] # None
  /\ IF call[p].op = "switch" THEN journal[Tx(p)].previous = None ELSE Armed(Tx(p))
  /\ IF call[p].at = "checked"
     THEN capsule = None
     ELSE capsule = [transaction |-> Tx(p),
                     previous    |-> call[p].previous,
                     candidate   |-> Candidate(Tx(p), call[p].previous)]

\* What an undo knows once it has checked the capsule.
UndoKnows(p) ==
  /\ CapsuleOf(Tx(p)) /\ capsule.previous = call[p].previous
  /\ proposal[Tx(p)] = None
  /\ call[p].at \in {"written", "recorded"} => selection = call[p].previous
  /\ call[p].op = "reconcile" =>
       InPhase(Tx(p), {ActivationIntent, RecoveryRequired})

ProposalKnows(p) ==
  /\ Pending(Tx(p)) /\ capsule.previous = call[p].previous
  /\ head = capsule.previous
  /\ proposal[Tx(p)] = None

Knows(p) == call[p] # None =>
  /\ call[p].op \in Switching /\ call[p].at \in {"checked", "written"} => SwitchKnows(p)
  /\ call[p].op \in Undoing /\ call[p].at \in {"checked", "written", "recorded"}
       => UndoKnows(p)
  /\ call[p].op = "propose" /\ call[p].at = "checked" => ProposalKnows(p)

CallsKnow == \A p \in Process : Knows(p)

Settled(slot) == slot # None => slot.transaction = Installed

SelectionInv ==
  /\ capsule = None => Settled(selection) /\ head \in {None, selection}
  /\ capsule # None =>
       /\ Settled(capsule.previous)
       /\ HasSuccessor(capsule.previous)
       /\ capsule.candidate = Candidate(capsule.transaction, capsule.previous)
       /\ selection \in {capsule.candidate, capsule.previous}
       /\ \/ head \in {None, capsule.previous}
          \/ head = capsule.candidate /\ proposal[capsule.transaction] # None

ProposalInv ==
  \A tx \in Transaction : proposal[tx] # None =>
    /\ capsule = [transaction |-> tx,
                  previous    |-> proposal[tx].previous,
                  candidate   |-> proposal[tx].successor]
    /\ selection = proposal[tx].successor
    /\ head \in {proposal[tx].previous, proposal[tx].successor}
    /\ InPhase(tx, {ActivationIntent, RecoveryRequired})
    /\ journal[tx].previous # None

FilesInv == TypeOK /\ CallsKnow /\ SelectionInv /\ ProposalInv

IInv == LocksHeld /\ FilesInv

-----------------------------------------------------------------------------
(* Data.                                                                   *)

LEMMA Absent ==
  /\ \A s \in Slot : s # None
  /\ \A j \in Journal : j # None
  /\ \A c \in Capsule : c # None
  /\ \A c \in Proposal : c # None
  /\ \A c \in Call : c # None
  /\ \A p \in Process : p # None /\ p # Orphaned
  /\ None # Orphaned
BY NoneAssumption

\* A candidate is a slot, and not the slot it follows.
LEMMA CandidateIsSlot ==
  ASSUME NEW tx \in Transaction, NEW s \in Slot \cup {None}, HasSuccessor(s)
  PROVE  Candidate(tx, s) \in Slot /\ Candidate(tx, s) # s
<1>1. CASE s = None
  BY <1>1, Absent, SlotAssumption DEF Candidate, Slot
<1>2. CASE s # None
  <2>1. s.generation \in 1..MaxGeneration /\ s.generation < MaxGeneration
    BY <1>2 DEF HasSuccessor, Slot
  <2>2. Candidate(tx, s) = [transaction |-> tx, generation |-> s.generation + 1]
    BY <1>2 DEF Candidate
  <2> QED BY <2>1, <2>2, SlotAssumption DEF Slot
<1> QED BY <1>1, <1>2

\* Only one call at a time uses the selection, and only one a journal.
LEMMA Exclusive ==
  ASSUME LocksHeld, NEW p \in Process, NEW q \in Process, p # q
  PROVE  /\ UsesSelection(p) => ~UsesSelection(q)
         /\ \A tx \in Transaction : UsesJournal(p, tx) => ~UsesJournal(q, tx)
BY DEF LocksHeld

\* What the type of call says of one call.
LEMMA CallFields ==
  ASSUME TypeOK, NEW p \in Process, call[p] # None
  PROVE  /\ call[p] \in Call
         /\ call[p].op \in Operation /\ Tx(p) \in Transaction
         /\ call[p].at \in Where /\ call[p].previous \in Slot \cup {None}
BY DEF TypeOK, Call, Tx

-----------------------------------------------------------------------------
(* Steps, by what they do to the calls.                                    *)

\* A step of p past its locks: it goes on, and keeps them.
GoesOn(p, where, previous) ==
  /\ call' = [call EXCEPT ![p] = [call[p] EXCEPT !.at = where, !.previous = previous]]
  /\ UNCHANGED locks

LEMMA GoingOn ==
  ASSUME TypeOK, NEW p \in Process, call[p] # None, NEW where \in Where,
         NEW previous \in Slot \cup {None}, GoesOn(p, where, previous)
  PROVE  /\ call' \in [Process -> Call \cup {None}]
         /\ call'[p] # None /\ call'[p].op = call[p].op /\ call'[p].tx = call[p].tx
         /\ call'[p].at = where /\ call'[p].previous = previous
         /\ \A q \in Process : q # p => call'[q] = call[q]
<1>1. call[p] \in Call
  BY CallFields
<1>2. [call[p] EXCEPT !.at = where, !.previous = previous] \in Call
  BY <1>1 DEF Call
<1>3. call'[p] = [call[p] EXCEPT !.at = where, !.previous = previous]
  BY DEF GoesOn, TypeOK
<1>4. \A q \in Process : q # p => call'[q] = call[q]
  BY DEF GoesOn, TypeOK
<1>5. call' \in [Process -> Call \cup {None}]
  BY <1>2 DEF GoesOn, TypeOK
<1>6. /\ call'[p].op = call[p].op /\ call'[p].tx = call[p].tx
      /\ call'[p].at = where /\ call'[p].previous = previous
  BY <1>1, <1>3 DEF Call
<1>7. call'[p] # None
  BY <1>2, <1>3, Absent
<1> QED BY <1>4, <1>5, <1>6, <1>7

LEMMA GoToGoesOn ==
  ASSUME TypeOK, NEW p \in Process, call[p] # None, NEW where \in Where,
         GoTo(p, where), UNCHANGED locks
  PROVE  GoesOn(p, where, call[p].previous)
<1>1. call[p] \in Call
  BY CallFields
<1>2. [call[p] EXCEPT !.at = where] = [call[p] EXCEPT !.at = where, !.previous = call[p].previous]
  BY <1>1 DEF Call
<1> QED BY <1>2 DEF GoTo, GoesOn

LEMMA KeepGoesOn ==
  ASSUME TypeOK, NEW p \in Process, call[p] # None, NEW previous, Keep(p, previous)
  PROVE  GoesOn(p, "checked", previous)
<1>1. call[p] \in Call
  BY CallFields
<1>2. call' = [call EXCEPT ![p] = [call[p] EXCEPT !.at = "checked", !.previous = previous]]
  BY <1>1 DEF Keep, TypeOK, Call
<1> QED BY <1>2 DEF Keep, GoesOn

\* Every step but LockJournal is taken with the locks held.
LEMMA StepGoesOn ==
  ASSUME TypeOK, NEW p \in Process, Step(p), ~LockJournal(p)
  PROVE  /\ call[p] # None /\ call[p].at # "selection_locked"
         /\ \E where \in Where \ {"selection_locked"}, previous \in Slot \cup {None} :
              GoesOn(p, where, previous)
<1> DEFINE Goal == /\ call[p] # None /\ call[p].at # "selection_locked"
                   /\ \E where \in Where \ {"selection_locked"}, previous \in Slot \cup {None} :
                        GoesOn(p, where, previous)
<1> USE DEF Where
<1>1. ASSUME NEW where \in Where \ {"selection_locked"}, GoTo(p, where), UNCHANGED locks,
             NEW at, At(p, Operation, at), at # "selection_locked"
      PROVE  Goal
  <2>1. call[p] # None /\ call[p].at # "selection_locked"
    BY <1>1 DEF At
  <2>2. GoesOn(p, where, call[p].previous)
    BY <1>1, <2>1, GoToGoesOn
  <2> QED BY <1>1, <2>1, <2>2, CallFields
<1>2. ASSUME NEW previous \in Slot \cup {None}, Keep(p, previous), At(p, Operation, "locked")
      PROVE  Goal
  <2>1. call[p] # None /\ call[p].at # "selection_locked"
    BY <1>2 DEF At
  <2>2. GoesOn(p, "checked", previous)
    BY <1>2, <2>1, KeepGoesOn
  <2> QED BY <2>1, <2>2
<1>3. \A ops, at : At(p, ops, at) => At(p, Operation, at)
  BY CallFields DEF At
<1>4. selection \in Slot \cup {None} /\ (capsule # None => capsule.previous \in Slot \cup {None})
  BY DEF TypeOK, Capsule
<1>5. CASE \E previous \in Expectations : RecordCandidate(p, previous)
  BY <1>1, <1>3, <1>5 DEF RecordCandidate
<1>6. CASE RequestIntent(p) \/ Abort(p) \/ RequireRecovery(p) \/ ArmPrior(p) \/ ArmWitnessed(p)
  BY <1>1, <1>3, <1>6
  DEF RequestIntent, Abort, RequireRecovery, ArmPrior, ArmWitnessed, MoveJournal
<1>7. CASE SaveCapsule(p) \/ SavePointer(p) \/ RestorePointer(p) \/ RecordRecovery(p)
  BY <1>1, <1>3, <1>7 DEF SaveCapsule, SavePointer, RestorePointer, RecordRecovery, MoveJournal
<1>8. CASE EndRestore(p) \/ EndReconcile(p) \/ SaveProposal(p)
  BY <1>1, <1>3, <1>8 DEF EndRestore, EndReconcile, SaveProposal, RemoveCapsule
<1>9. CASE CheckUnboundSwitch(p) \/ CheckPriorSwitch(p) \/ CheckWitnessedSwitch(p)
  BY <1>2, <1>3, <1>4, <1>9 DEF CheckUnboundSwitch, CheckPriorSwitch, CheckWitnessedSwitch
<1>10. CASE CheckRestore(p) \/ CheckReconcile(p) \/ CheckProposal(p)
  BY <1>2, <1>3, <1>4, <1>10
  DEF CheckRestore, CheckReconcile, CheckProposal, CapsuleOf, Pending
<1> QED BY <1>5, <1>6, <1>7, <1>8, <1>9, <1>10 DEF Step

\* Locks are held by the calls that use what they protect.
LEMMA LocksStep ==
  ASSUME TypeOK, LocksHeld, [Next]_vars
  PROVE  LocksHeld'
<1> USE DEF UsesSelection, UsesJournal
<1>1. \A p \in Process : p # None /\ p # Orphaned
  BY Absent
<1>2. ASSUME UNCHANGED <<locks, call>>
      PROVE  LocksHeld'
  BY <1>2 DEF LocksHeld, locks
<1>3. ASSUME NEW p \in Process, NEW op \in Operation, NEW tx \in Transaction, Begin(p, op, tx)
      PROVE  LocksHeld'
  <2> DEFINE at == IF op \in BothLocks THEN "selection_locked" ELSE "locked"
             new == [op |-> op, tx |-> tx, previous |-> None, at |-> at]
  <2>1. new \in Call
    BY DEF Call, Where
  <2>2. call[p] = None /\ call'[p] = new /\ \A q \in Process : q # p => call'[q] = call[q]
    BY <1>3 DEF Begin, TypeOK
  <2>3. call'[p] # None /\ call'[p].op = op /\ call'[p].tx = tx /\ call'[p].at = at
    BY <2>1, <2>2, Absent
  <2>4. selectionLock # p /\ \A ty \in Transaction : journalLock[ty] # p
    BY <2>2 DEF LocksHeld
  <2>5. CASE op \in JournalOnly
    <3>1. UNCHANGED selectionLock /\ journalLock[tx] = None
          /\ journalLock' = [journalLock EXCEPT ![tx] = p]
      BY <1>3, <2>5 DEF Begin
    <3>2. op \notin BothLocks
      BY <2>5 DEF JournalOnly, BothLocks
    <3> QED BY <1>1, <2>2, <2>3, <2>4, <2>5, <3>1, <3>2 DEF LocksHeld, TypeOK
  <2>6. CASE op \notin JournalOnly
    <3>1. selectionLock = None /\ selectionLock' = p /\ UNCHANGED journalLock
      BY <1>3, <2>6 DEF Begin
    <3> QED BY <1>1, <2>2, <2>3, <2>4, <2>6, <3>1 DEF LocksHeld, TypeOK
  <2> QED BY <2>5, <2>6
<1>4. ASSUME NEW p \in Process, LockJournal(p)
      PROVE  LocksHeld'
  <2>1. call[p] # None /\ call[p].op \in BothLocks /\ call[p].at = "selection_locked"
        /\ Tx(p) \in Transaction
    BY <1>4, CallFields DEF LockJournal, At
  <2>2. GoTo(p, "locked") /\ journalLock[Tx(p)] = None /\ UNCHANGED selectionLock
        /\ journalLock' = [journalLock EXCEPT ![Tx(p)] = p]
    BY <1>4 DEF LockJournal
  <2>3. call[p] \in Call /\ call'[p] = [call[p] EXCEPT !.at = "locked"]
        /\ \A q \in Process : q # p => call'[q] = call[q]
    BY <2>1, <2>2 DEF GoTo, TypeOK
  <2>4. [call[p] EXCEPT !.at = "locked"] \in Call
    BY <2>3 DEF Call, Where
  <2>5. call'[p] # None /\ call'[p].op = call[p].op /\ call'[p].tx = call[p].tx
        /\ call'[p].at = "locked"
    BY <2>3, <2>4, Absent DEF Call
  <2>6. call[p].op \notin JournalOnly
    BY <2>1 DEF BothLocks, JournalOnly
  <2>7. ASSUME NEW q \in Process, q # p
        PROVE  /\ (selectionLock = q <=> UsesSelection(q))'
               /\ \A tx \in Transaction : (journalLock[tx] = q <=> UsesJournal(q, tx))'
    BY <1>1, <2>1, <2>2, <2>3, <2>7 DEF LocksHeld, TypeOK
  <2>8. (selectionLock = p <=> UsesSelection(p))'
    BY <2>1, <2>2, <2>5 DEF LocksHeld
  <2>9. ASSUME NEW tx \in Transaction
        PROVE  (journalLock[tx] = p <=> UsesJournal(p, tx))'
    <3>1. CASE tx = Tx(p)
      BY <2>1, <2>2, <2>5, <3>1 DEF TypeOK, Tx
    <3>2. CASE tx # Tx(p)
      <4>1. journalLock'[tx] = journalLock[tx] /\ call'[p].tx # tx /\ call[p].tx # tx
        BY <2>1, <2>2, <2>5, <3>2 DEF TypeOK, Tx
      <4>2. journalLock[tx] # p
        BY <4>1 DEF LocksHeld
      <4> QED BY <4>1, <4>2
    <3> QED BY <3>1, <3>2
  <2> QED BY <2>7, <2>8, <2>9 DEF LocksHeld
<1>5. ASSUME NEW p \in Process, Step(p), ~LockJournal(p)
      PROVE  LocksHeld'
  <2>1. PICK where \in Where \ {"selection_locked"}, previous \in Slot \cup {None} :
          GoesOn(p, where, previous)
    BY <1>5, StepGoesOn
  <2>2. call[p] # None /\ call[p].at # "selection_locked"
    BY <1>5, StepGoesOn
  <2>3. /\ call'[p] # None /\ call'[p].op = call[p].op /\ call'[p].tx = call[p].tx
        /\ call'[p].at # "selection_locked"
        /\ \A q \in Process : q # p => call'[q] = call[q]
    BY <2>1, <2>2, GoingOn
  <2>4. UNCHANGED locks
    BY <2>1 DEF GoesOn
  <2> QED BY <2>2, <2>3, <2>4 DEF LocksHeld, locks
<1>6. ASSUME NEW p \in Process, Return(p) \/ Crash(p)
      PROVE  LocksHeld'
  <2>1. PICK state \in {None, Orphaned} : LeaveLocks(p, state)
    BY <1>6 DEF Return, Crash
  <2>2. call'[p] = None /\ \A q \in Process : q # p => call'[q] = call[q]
    BY <1>6 DEF Return, Crash, TypeOK
  <2> QED BY <1>1, <2>1, <2>2 DEF LocksHeld, LeaveLocks
<1>7. CASE ClearSelectionLock
  BY <1>1, <1>7 DEF ClearSelectionLock, LocksHeld
<1>8. ASSUME NEW tx \in Transaction, ClearJournalLock(tx)
      PROVE  LocksHeld'
  BY <1>1, <1>8 DEF ClearJournalLock, LocksHeld, TypeOK
<1>9. ASSUME NEW tx \in Transaction, WitnessCommits(tx)
      PROVE  LocksHeld'
  BY <1>2, <1>9 DEF WitnessCommits
<1>10. CASE UNCHANGED vars
  BY <1>2, <1>10 DEF vars
<1> QED BY <1>3, <1>4, <1>5, <1>6, <1>7, <1>8, <1>9, <1>10 DEF Next

-----------------------------------------------------------------------------
(* What the calls know.                                                    *)

\* A call that is not past its checks claims nothing.
LEMMA KnowsNothing ==
  ASSUME NEW p \in Process,
         call[p] # None => call[p].op \in JournalOnly
                             \/ call[p].at \in {"selection_locked", "locked", "done"}
  PROVE  Knows(p)
BY DEF Knows, JournalOnly, Switching, Undoing

\* The locks of q protect what q knows.
LEMMA StillKnows ==
  ASSUME TypeOK, NEW q \in Process, Knows(q), call'[q] = call[q],
         UsesSelection(q) =>
           /\ UNCHANGED <<selection, capsule, proposal, head>>
           /\ \A tx \in Transaction : UsesJournal(q, tx) => journal'[tx] = journal[tx]
           /\ \A tx \in Transaction : journal[tx] # None =>
                journal'[tx] # None /\ journal'[tx].previous = journal[tx].previous
  PROVE  Knows(q)'
<1>1. CASE call[q] = None \/ call[q].op \in JournalOnly
           \/ call[q].at \notin {"checked", "written", "recorded"}
  BY <1>1 DEF Knows, JournalOnly, Switching, Undoing
<1>2. CASE call[q] # None /\ call[q].op \notin JournalOnly
           /\ call[q].at \in {"checked", "written", "recorded"}
  <2>1. Tx(q) \in Transaction /\ call[q].op \in Operation
    BY <1>2, CallFields
  <2>2. call[q].op \in BothLocks => UsesJournal(q, Tx(q))
    BY <1>2 DEF UsesJournal, Tx
  <2>3. /\ UNCHANGED <<selection, capsule, proposal, head>>
        /\ call[q].op \in BothLocks => journal'[Tx(q)] = journal[Tx(q)]
        /\ journal[Tx(q)] # None =>
             journal'[Tx(q)] # None /\ journal'[Tx(q)].previous = journal[Tx(q)].previous
    BY <1>2, <2>1, <2>2 DEF UsesSelection
  <2>4. UNCHANGED Tx(q)
    BY DEF Tx
  <2>5. CASE call[q].op \in Switching
    <3>1. call[q].op = "switch" \/ call[q].op \in BothLocks
      BY <2>5 DEF Switching, BothLocks
    <3> QED BY <1>2, <2>3, <2>4, <2>5, <3>1
         DEF Knows, SwitchKnows, Switching, Undoing, Armed, InPhase, HasSuccessor, Candidate
  <2>6. CASE call[q].op \in Undoing
    <3>1. call[q].op = "restore" \/ call[q].op \in BothLocks
      BY <2>6 DEF Undoing, BothLocks
    <3> QED BY <1>2, <2>3, <2>4, <2>6, <3>1
         DEF Knows, UndoKnows, Switching, Undoing, CapsuleOf, InPhase
  <2>7. CASE call[q].op = "propose"
    <3>1. call[q].op \in BothLocks
      BY <2>7 DEF BothLocks
    <3> QED BY <1>2, <2>3, <2>4, <2>7, <3>1
         DEF Knows, ProposalKnows, Switching, Undoing, CapsuleOf, InPhase, Pending, Armed
  <2> QED BY <1>2, <2>5, <2>6, <2>7 DEF Knows
<1> QED BY <1>1, <1>2

\* While p uses the selection, nobody else knows anything.
LEMMA OthersKnowNothing ==
  ASSUME LocksHeld, NEW p \in Process, UsesSelection(p),
         NEW q \in Process, q # p, call'[q] = call[q]
  PROVE  Knows(q)'
<1>1. ~UsesSelection(q)
  BY Exclusive
<1> QED BY <1>1 DEF UsesSelection, Knows, JournalOnly, Switching, Undoing

-----------------------------------------------------------------------------
(* The invariant holds initially.                                          *)

LEMMA InitInv ==
  Init => IInv
<1> SUFFICES ASSUME Init PROVE IInv
  OBVIOUS
<1>1. selection \in Slot \cup {None} /\ head \in {None, selection} /\ Settled(selection)
  BY DEF Init, Slot, Settled
<1>2. TypeOK
  BY <1>1 DEF Init, TypeOK, LockState
<1>3. LocksHeld
  BY Absent DEF Init, LocksHeld, UsesSelection, UsesJournal
<1>4. CallsKnow
  BY DEF Init, CallsKnow, Knows
<1>5. SelectionInv /\ ProposalInv
  BY <1>1 DEF Init, SelectionInv, ProposalInv
<1> QED BY <1>2, <1>3, <1>4, <1>5 DEF IInv, FilesInv

-----------------------------------------------------------------------------
(* Journal steps: those that move a journal and nothing else.              *)

LEMMA JournalMoved ==
  ASSUME TypeOK, NEW p \in Process, Tx(p) \in Transaction, journal[Tx(p)] # None,
         NEW phase \in Phase, MoveJournal(p, phase)
  PROVE  /\ journal' \in [Transaction -> Journal \cup {None}]
         /\ journal'[Tx(p)] # None /\ journal'[Tx(p)].phase = phase
         /\ journal'[Tx(p)].previous = journal[Tx(p)].previous
         /\ \A tx \in Transaction : tx # Tx(p) => journal'[tx] = journal[tx]
<1>1. journal[Tx(p)] \in Journal
  BY DEF TypeOK
<1>2. [journal[Tx(p)] EXCEPT !.phase = phase] \in Journal
  BY <1>1 DEF Journal
<1>3. journal' = [journal EXCEPT ![Tx(p)] = [journal[Tx(p)] EXCEPT !.phase = phase]]
  BY DEF MoveJournal
<1>4. journal'[Tx(p)] = [journal[Tx(p)] EXCEPT !.phase = phase]
  BY <1>3 DEF TypeOK
<1>5. journal' \in [Transaction -> Journal \cup {None}]
  BY <1>2, <1>3 DEF TypeOK
<1>6. /\ journal'[Tx(p)].phase = phase
      /\ journal'[Tx(p)].previous = journal[Tx(p)].previous
  BY <1>1, <1>4 DEF Journal
<1>7. journal'[Tx(p)] # None
  BY <1>2, <1>4, Absent
<1>8. \A tx \in Transaction : tx # Tx(p) => journal'[tx] = journal[tx]
  BY <1>3 DEF TypeOK
<1> QED BY <1>5, <1>6, <1>7, <1>8

LEMMA JournalStepInv ==
  ASSUME IInv, NEW p \in Process, call[p] # None, UsesJournal(p, Tx(p)),
         GoTo(p, "done"), UNCHANGED <<selection, capsule, proposal, locks, head>>,
         journal' \in [Transaction -> Journal \cup {None}],
         \A tx \in Transaction : tx # Tx(p) => journal'[tx] = journal[tx],
         journal'[Tx(p)] # None,
         journal[Tx(p)] # None => journal'[Tx(p)].previous = journal[Tx(p)].previous,
         InPhase(Tx(p), {ActivationIntent, RecoveryRequired}) =>
           journal'[Tx(p)].phase \in {ActivationIntent, RecoveryRequired}
  PROVE  FilesInv'
<1> USE DEF IInv, FilesInv
<1>1. Tx(p) \in Transaction /\ call[p].previous \in Slot \cup {None} /\ "done" \in Where
  BY CallFields DEF Where
<1>2. GoesOn(p, "done", call[p].previous)
  BY <1>1, GoToGoesOn
<1>3. /\ call' \in [Process -> Call \cup {None}]
      /\ call'[p] # None /\ call'[p].at = "done"
      /\ \A q \in Process : q # p => call'[q] = call[q]
  BY <1>1, <1>2, GoingOn
<1>4. TypeOK'
  BY <1>3 DEF TypeOK, locks
<1>5. ASSUME NEW q \in Process
      PROVE  Knows(q)'
  <2>1. CASE q = p
    BY <1>3, <2>1, KnowsNothing DEF Knows, Switching, Undoing
  <2>2. CASE q # p
    <3>1. \A tx \in Transaction : UsesJournal(q, tx) => journal'[tx] = journal[tx]
      BY <1>1, <2>2, Exclusive
    <3>2. \A tx \in Transaction : journal[tx] # None =>
            journal'[tx] # None /\ journal'[tx].previous = journal[tx].previous
      OBVIOUS
    <3>3. Knows(q)
      BY DEF CallsKnow
    <3> QED BY <1>3, <2>2, <3>1, <3>2, <3>3, StillKnows
  <2> QED BY <2>1, <2>2
<1>6. SelectionInv'
  BY DEF SelectionInv, Settled, HasSuccessor, Candidate
<1>7. ProposalInv'
  <2> SUFFICES ASSUME NEW tx \in Transaction, proposal[tx] # None
               PROVE  /\ capsule = [transaction |-> tx,
                                    previous    |-> proposal[tx].previous,
                                    candidate   |-> proposal[tx].successor]
                      /\ selection = proposal[tx].successor
                      /\ head \in {proposal[tx].previous, proposal[tx].successor}
                      /\ InPhase(tx, {ActivationIntent, RecoveryRequired})'
                      /\ journal'[tx].previous # None
    BY DEF ProposalInv
  <2>1. InPhase(tx, {ActivationIntent, RecoveryRequired}) /\ journal[tx].previous # None
    BY DEF ProposalInv
  <2> QED BY <2>1 DEF ProposalInv, InPhase
<1> QED BY <1>4, <1>5, <1>6, <1>7 DEF CallsKnow

LEMMA JournalStepsInv ==
  ASSUME IInv, NEW p \in Process,
         \/ \E previous \in Expectations : RecordCandidate(p, previous)
         \/ RequestIntent(p) \/ Abort(p) \/ RequireRecovery(p)
         \/ ArmPrior(p) \/ ArmWitnessed(p)
  PROVE  FilesInv'
<1> USE DEF IInv, FilesInv
<1>1. ASSUME NEW ops \in SUBSET (JournalOnly \cup BothLocks), At(p, ops, "locked")
      PROVE  call[p] # None /\ UsesJournal(p, Tx(p)) /\ Tx(p) \in Transaction
  BY <1>1, CallFields DEF At, UsesJournal, Tx
<1>2. ASSUME NEW previous \in Expectations, RecordCandidate(p, previous)
      PROVE  FilesInv'
  <2>1. call[p] # None /\ UsesJournal(p, Tx(p)) /\ Tx(p) \in Transaction
    BY <1>1, <1>2 DEF RecordCandidate, JournalOnly
  <2> DEFINE new == [phase |-> CandidateVerified, previous |-> previous]
  <2>2. new \in Journal
    BY SlotAssumption DEF Journal, Phase
  <2>3. journal[Tx(p)] = None /\ journal' = [journal EXCEPT ![Tx(p)] = new]
        /\ GoTo(p, "done") /\ UNCHANGED <<selection, capsule, proposal, locks, head>>
    BY <1>2 DEF RecordCandidate
  <2>4. /\ journal' \in [Transaction -> Journal \cup {None}]
        /\ journal'[Tx(p)] = new
        /\ \A tx \in Transaction : tx # Tx(p) => journal'[tx] = journal[tx]
    BY <2>1, <2>2, <2>3 DEF TypeOK
  <2>5. journal'[Tx(p)] # None
    BY <2>2, <2>4, Absent
  <2>6. ~InPhase(Tx(p), {ActivationIntent, RecoveryRequired})
    BY <2>3 DEF InPhase
  <2> QED BY <2>1, <2>3, <2>4, <2>5, <2>6, JournalStepInv
<1>3. ASSUME NEW ops \in SUBSET (JournalOnly \cup BothLocks), At(p, ops, "locked"),
             NEW from \in Phase, InPhase(Tx(p), {from}),
             NEW phase \in Phase, MoveJournal(p, phase), GoTo(p, "done"),
             from = CandidateVerified \/ phase = RecoveryRequired
      PROVE  FilesInv'
  <2>1. call[p] # None /\ UsesJournal(p, Tx(p)) /\ Tx(p) \in Transaction
    BY <1>1, <1>3
  <2>2. journal[Tx(p)] # None /\ journal[Tx(p)].phase = from
    BY <1>3 DEF InPhase
  <2>3. /\ journal' \in [Transaction -> Journal \cup {None}]
        /\ journal'[Tx(p)] # None /\ journal'[Tx(p)].phase = phase
        /\ journal'[Tx(p)].previous = journal[Tx(p)].previous
        /\ \A tx \in Transaction : tx # Tx(p) => journal'[tx] = journal[tx]
    BY <1>3, <2>1, <2>2, JournalMoved
  <2>4. UNCHANGED <<selection, capsule, proposal, locks, head>>
    BY <1>3 DEF MoveJournal
  <2>5. InPhase(Tx(p), {ActivationIntent, RecoveryRequired}) => phase = RecoveryRequired
    BY <1>3, <2>2 DEF InPhase, CandidateVerified, ActivationIntent, RecoveryRequired
  <2> QED BY <1>3, <2>1, <2>3, <2>4, <2>5, JournalStepInv
<1> USE DEF Phase
<1>4. CASE RequestIntent(p)
  BY <1>3, <1>4 DEF RequestIntent, JournalOnly
<1>5. CASE Abort(p)
  BY <1>3, <1>5 DEF Abort, JournalOnly
<1>6. CASE RequireRecovery(p)
  BY <1>3, <1>6 DEF RequireRecovery, JournalOnly
<1>7. CASE ArmPrior(p)
  BY <1>3, <1>7 DEF ArmPrior, PriorBound, BothLocks
<1>8. CASE ArmWitnessed(p)
  BY <1>3, <1>8 DEF ArmWitnessed, BothLocks
<1> QED BY <1>2, <1>4, <1>5, <1>6, <1>7, <1>8

-----------------------------------------------------------------------------
(* Selection steps: those of a call that holds the selection's lock.       *)

\* Such a step has only its own call and the files to account for.
LEMMA SelectionStepInv ==
  ASSUME IInv, NEW p \in Process, call[p] # None, UsesSelection(p),
         NEW where \in Where, NEW previous \in Slot \cup {None},
         GoesOn(p, where, previous), UNCHANGED head,
         selection' \in Slot \cup {None}, capsule' \in Capsule \cup {None},
         journal' \in [Transaction -> Journal \cup {None}],
         proposal' \in [Transaction -> Proposal \cup {None}],
         Knows(p)', SelectionInv', ProposalInv'
  PROVE  FilesInv'
<1> USE DEF IInv, FilesInv
<1>1. /\ call' \in [Process -> Call \cup {None}]
      /\ \A q \in Process : q # p => call'[q] = call[q]
  BY GoingOn
<1>2. TypeOK'
  BY <1>1 DEF TypeOK, GoesOn, locks
<1>3. ASSUME NEW q \in Process
      PROVE  Knows(q)'
  BY <1>1, OthersKnowNothing
<1> QED BY <1>2, <1>3 DEF CallsKnow

LEMMA FilesKept ==
  ASSUME IInv, UNCHANGED <<files, head>>
  PROVE  /\ selection' \in Slot \cup {None} /\ capsule' \in Capsule \cup {None}
         /\ journal' \in [Transaction -> Journal \cup {None}]
         /\ proposal' \in [Transaction -> Proposal \cup {None}]
         /\ SelectionInv' /\ ProposalInv'
BY DEF IInv, FilesInv, TypeOK, files, SelectionInv, ProposalInv, Settled, HasSuccessor,
       Candidate, InPhase

\* The checks before a switch establish what its writes rely on.
LEMMA CheckSwitchInv ==
  ASSUME IInv, NEW p \in Process,
         CheckUnboundSwitch(p) \/ CheckPriorSwitch(p) \/ CheckWitnessedSwitch(p)
  PROVE  FilesInv'
<1>1. /\ call[p] # None /\ call[p].op \in Switching /\ Keep(p, selection)
      /\ capsule = None /\ HasSuccessor(selection) /\ Armed(Tx(p))
      /\ call[p].op = "switch" => journal[Tx(p)].previous = None
  BY DEF CheckUnboundSwitch, CheckPriorSwitch, CheckWitnessedSwitch, At, NothingPending,
         PreviousVerified, Switching
<1>2. UNCHANGED <<files, locks, head>> /\ GoesOn(p, "checked", selection)
      /\ selection \in Slot \cup {None} /\ "checked" \in Where
  BY <1>1, KeepGoesOn DEF Keep, IInv, FilesInv, TypeOK, Where
<1>3. /\ call'[p].op = call[p].op /\ call'[p].tx = call[p].tx
      /\ call'[p].at = "checked" /\ call'[p].previous = selection
  BY <1>1, <1>2, GoingOn DEF IInv, FilesInv
<1>4. SwitchKnows(p)'
  BY <1>1, <1>2, <1>3 DEF SwitchKnows, files, HasSuccessor, Armed, InPhase, Tx
<1>5. Knows(p)' /\ UsesSelection(p)
  BY <1>1, <1>3, <1>4 DEF Knows, UsesSelection, Switching, Undoing, JournalOnly
<1> QED BY <1>1, <1>2, <1>5, FilesKept, SelectionStepInv

LEMMA CheckUndoInv ==
  ASSUME IInv, NEW p \in Process, CheckRestore(p) \/ CheckReconcile(p)
  PROVE  FilesInv'
<1>1. /\ call[p] # None /\ call[p].op \in Undoing /\ Keep(p, capsule.previous)
      /\ CapsuleOf(Tx(p)) /\ proposal[Tx(p)] = None
      /\ call[p].op = "reconcile" => InPhase(Tx(p), {ActivationIntent, RecoveryRequired})
  BY DEF CheckRestore, CheckReconcile, At, MayUndo, Undoing
<1>2. capsule.previous \in Slot \cup {None} /\ "checked" \in Where
  BY <1>1 DEF IInv, FilesInv, TypeOK, Capsule, CapsuleOf, Where
<1>3. UNCHANGED <<files, locks, head>> /\ GoesOn(p, "checked", capsule.previous)
  BY <1>1, <1>2, KeepGoesOn DEF Keep, IInv, FilesInv
<1>4. /\ call'[p].op = call[p].op /\ call'[p].tx = call[p].tx
      /\ call'[p].at = "checked" /\ call'[p].previous = capsule.previous
  BY <1>1, <1>2, <1>3, GoingOn DEF IInv, FilesInv
<1>5. UndoKnows(p)'
  BY <1>1, <1>3, <1>4 DEF UndoKnows, files, CapsuleOf, InPhase, Tx
<1>6. Knows(p)' /\ UsesSelection(p)
  BY <1>1, <1>4, <1>5 DEF Knows, UsesSelection, Switching, Undoing, JournalOnly
<1> QED BY <1>1, <1>2, <1>3, <1>6, FilesKept, SelectionStepInv

LEMMA CheckProposalInv ==
  ASSUME IInv, NEW p \in Process, CheckProposal(p)
  PROVE  FilesInv'
<1>1. /\ call[p] # None /\ call[p].op = "propose" /\ Keep(p, capsule.previous)
      /\ Pending(Tx(p)) /\ proposal[Tx(p)] = None /\ head = capsule.previous
  BY DEF CheckProposal, At, WitnessAgrees
<1>2. capsule.previous \in Slot \cup {None} /\ "checked" \in Where
  BY <1>1 DEF IInv, FilesInv, TypeOK, Capsule, CapsuleOf, Pending, Where
<1>3. UNCHANGED <<files, locks, head>> /\ GoesOn(p, "checked", capsule.previous)
  BY <1>1, <1>2, KeepGoesOn DEF Keep, IInv, FilesInv
<1>4. /\ call'[p].op = call[p].op /\ call'[p].tx = call[p].tx
      /\ call'[p].at = "checked" /\ call'[p].previous = capsule.previous
  BY <1>1, <1>2, <1>3, GoingOn DEF IInv, FilesInv
<1>5. ProposalKnows(p)'
  BY <1>1, <1>3, <1>4 DEF ProposalKnows, Pending, Armed, files, CapsuleOf, InPhase, Tx
<1>6. Knows(p)' /\ UsesSelection(p)
  BY <1>1, <1>4, <1>5 DEF Knows, UsesSelection, Switching, Undoing, JournalOnly
<1> QED BY <1>1, <1>2, <1>3, <1>6, FilesKept, SelectionStepInv

\* The capsule is written: no proposal can refer to the one it replaces.
LEMMA SaveCapsuleInv ==
  ASSUME IInv, NEW p \in Process, SaveCapsule(p)
  PROVE  FilesInv'
<1> USE DEF IInv, FilesInv
<1>1. /\ call[p] # None /\ call[p].op \in Switching /\ call[p].at = "checked"
      /\ UNCHANGED <<selection, journal, proposal, locks, head>> /\ GoTo(p, "written")
  BY DEF SaveCapsule, At
<1> DEFINE previous == call[p].previous
           new == [transaction |-> Tx(p), previous |-> previous,
                   candidate |-> Candidate(Tx(p), previous)]
<1>2. capsule' = new
  BY DEF SaveCapsule
<1>3. SwitchKnows(p) /\ capsule = None /\ selection = previous /\ HasSuccessor(previous)
  BY <1>1 DEF CallsKnow, Knows, SwitchKnows
<1>4. Tx(p) \in Transaction /\ previous \in Slot \cup {None} /\ "written" \in Where
  BY <1>1, CallFields DEF Where
<1>5. new \in Capsule /\ new # None
  BY <1>3, <1>4, CandidateIsSlot, Absent DEF Capsule
<1>6. GoesOn(p, "written", previous)
  BY <1>1, <1>4, GoToGoesOn
<1>7. /\ call'[p].op = call[p].op /\ call'[p].tx = call[p].tx
      /\ call'[p].at = "written" /\ call'[p].previous = previous
  BY <1>1, <1>4, <1>6, GoingOn
<1>8. SwitchKnows(p)'
  BY <1>1, <1>2, <1>3, <1>7 DEF SwitchKnows, HasSuccessor, Armed, InPhase, Tx, Candidate
<1>9. Knows(p)' /\ UsesSelection(p)
  BY <1>1, <1>7, <1>8 DEF Knows, UsesSelection, Switching, Undoing, JournalOnly
<1>10. /\ new.transaction = Tx(p) /\ new.previous = previous
       /\ new.candidate = Candidate(Tx(p), previous)
  OBVIOUS
<1>11. SelectionInv'
  <2>1. Settled(selection) /\ head \in {None, selection}
    BY <1>3 DEF SelectionInv
  <2> QED BY <1>1, <1>2, <1>3, <1>5, <1>10, <2>1
          DEF SelectionInv, Settled, HasSuccessor, Candidate
<1>12. ProposalInv'
  <2>1. ASSUME NEW tx \in Transaction PROVE proposal[tx] = None
    <3>1. proposal[tx] # None =>
            capsule = [transaction |-> tx, previous |-> proposal[tx].previous,
                       candidate |-> proposal[tx].successor]
      BY DEF ProposalInv
    <3>2. proposal[tx] # None => proposal[tx] \in Proposal
      BY DEF TypeOK
    <3>3. proposal[tx] # None =>
            [transaction |-> tx, previous |-> proposal[tx].previous,
             candidate |-> proposal[tx].successor] \in Capsule
      BY <3>2 DEF Proposal, Capsule
    <3> QED BY <1>3, <3>1, <3>3, Absent
  <2> QED BY <1>1, <2>1 DEF ProposalInv
<1>13. capsule' \in Capsule \cup {None}
  BY <1>2, <1>5
<1> HIDE DEF new
<1> QED BY <1>1, <1>4, <1>6, <1>9, <1>11, <1>12, <1>13, SelectionStepInv DEF TypeOK

\* The pointer is moved: a proposal would have found it on the candidate before.
LEMMA SavePointerInv ==
  ASSUME IInv, NEW p \in Process, SavePointer(p)
  PROVE  FilesInv'
<1> USE DEF IInv, FilesInv
<1> DEFINE previous == call[p].previous
           new      == Candidate(Tx(p), previous)
<1>1. /\ call[p] # None /\ call[p].op \in Switching /\ call[p].at = "written"
      /\ selection' = new /\ GoTo(p, "done")
      /\ UNCHANGED <<capsule, journal, proposal, locks, head>>
  BY DEF SavePointer, At
<1>2. Tx(p) \in Transaction /\ previous \in Slot \cup {None} /\ "done" \in Where
  BY <1>1, CallFields DEF Where
<1>3. /\ selection = previous /\ HasSuccessor(previous)
      /\ capsule = [transaction |-> Tx(p), previous |-> previous, candidate |-> new]
  BY <1>1 DEF CallsKnow, Knows, SwitchKnows
<1>4. capsule.candidate = new /\ capsule.previous = previous /\ capsule.transaction = Tx(p)
  BY <1>3
<1>5. new \in Slot /\ new # previous
  BY <1>2, <1>3, CandidateIsSlot
<1>6. capsule # None
  <2>1. capsule \in Capsule
    BY <1>2, <1>3, <1>5 DEF Capsule
  <2> QED BY <2>1, Absent
<1> HIDE DEF new
<1>7. GoesOn(p, "done", previous)
  BY <1>1, <1>2, GoToGoesOn
<1>8. call'[p].op = call[p].op /\ call'[p].at = "done"
  BY <1>1, <1>2, <1>7, GoingOn
<1>9. Knows(p)' /\ UsesSelection(p)
  BY <1>1, <1>8 DEF Knows, UsesSelection, Switching, Undoing, JournalOnly
<1>10. SelectionInv'
  BY <1>1, <1>4, <1>6 DEF SelectionInv, Settled, HasSuccessor, Candidate
<1>11. ProposalInv'
  <2>1. ASSUME NEW tx \in Transaction, proposal[tx] # None PROVE FALSE
    <3>1. proposal[tx] \in Proposal
      BY <2>1 DEF TypeOK
    <3>2. capsule.candidate = proposal[tx].successor /\ selection = proposal[tx].successor
      BY <2>1 DEF ProposalInv
    <3> QED BY <1>3, <1>4, <1>5, <3>2
  <2> QED BY <1>1, <2>1 DEF ProposalInv
<1> QED BY <1>1, <1>2, <1>5, <1>7, <1>9, <1>10, <1>11, SelectionStepInv DEF TypeOK

\* What an undo knows, with what the files say of its capsule.
LEMMA UndoFacts ==
  ASSUME IInv, NEW p \in Process, call[p] # None, call[p].op \in Undoing,
         call[p].at \in {"checked", "written", "recorded"}
  PROVE  /\ UndoKnows(p) /\ UsesSelection(p) /\ capsule # None
         /\ Tx(p) \in Transaction /\ call[p].previous \in Slot \cup {None}
         /\ Settled(call[p].previous) /\ head \in {None, call[p].previous}
         /\ \A tx \in Transaction : proposal[tx] = None
<1> USE DEF IInv, FilesInv
<1>1. UndoKnows(p) /\ UsesSelection(p)
  BY DEF CallsKnow, Knows, UsesSelection, Undoing, JournalOnly
<1>2. Tx(p) \in Transaction /\ call[p].previous \in Slot \cup {None}
  BY CallFields
<1>3. capsule # None /\ capsule.transaction = Tx(p) /\ capsule.previous = call[p].previous
      /\ proposal[Tx(p)] = None
  BY <1>1 DEF UndoKnows, CapsuleOf
<1>4. Settled(call[p].previous) /\ head \in {None, call[p].previous}
  BY <1>3 DEF SelectionInv
<1>5. ASSUME NEW tx \in Transaction, proposal[tx] # None PROVE FALSE
  <2>1. capsule.transaction = tx
    BY <1>5 DEF ProposalInv
  <2> QED BY <1>3, <1>5, <2>1
<1> QED BY <1>1, <1>2, <1>3, <1>4, <1>5

LEMMA RestorePointerInv ==
  ASSUME IInv, NEW p \in Process, RestorePointer(p)
  PROVE  FilesInv'
<1> DEFINE previous == call[p].previous
<1>1. /\ call[p] # None /\ call[p].op \in Undoing /\ call[p].at = "checked"
      /\ selection' = previous /\ GoTo(p, "written")
      /\ UNCHANGED <<capsule, journal, proposal, locks, head>>
  BY DEF RestorePointer, At
<1>2. /\ UndoKnows(p) /\ UsesSelection(p) /\ capsule # None
      /\ Tx(p) \in Transaction /\ previous \in Slot \cup {None}
      /\ \A tx \in Transaction : proposal[tx] = None
  BY <1>1, UndoFacts
<1>3. capsule.previous = previous
  BY <1>2 DEF UndoKnows
<1>4. GoesOn(p, "written", previous) /\ "written" \in Where
  BY <1>1, GoToGoesOn DEF IInv, FilesInv, Where
<1>5. /\ call'[p].op = call[p].op /\ call'[p].tx = call[p].tx
      /\ call'[p].at = "written" /\ call'[p].previous = previous
  BY <1>1, <1>2, <1>4, GoingOn DEF IInv, FilesInv
<1>6. UndoKnows(p)'
  BY <1>1, <1>2, <1>5 DEF UndoKnows, CapsuleOf, InPhase, Tx
<1>7. Knows(p)'
  BY <1>1, <1>5, <1>6 DEF Knows, Switching, Undoing
<1>8. SelectionInv'
  BY <1>1, <1>2, <1>3 DEF IInv, FilesInv, SelectionInv, Settled, HasSuccessor, Candidate
<1>9. ProposalInv'
  BY <1>1, <1>2 DEF ProposalInv
<1> QED BY <1>1, <1>2, <1>4, <1>7, <1>8, <1>9, SelectionStepInv DEF IInv, FilesInv, TypeOK

LEMMA RecordRecoveryInv ==
  ASSUME IInv, NEW p \in Process, RecordRecovery(p)
  PROVE  FilesInv'
<1> DEFINE previous == call[p].previous
<1>1. /\ call[p] # None /\ call[p].op = "reconcile" /\ call[p].at = "written"
      /\ MoveJournal(p, RecoveryRequired) /\ GoTo(p, "recorded")
      /\ UNCHANGED <<selection, capsule, proposal, locks, head>>
  BY DEF RecordRecovery, MoveJournal, At
<1>2. /\ UndoKnows(p) /\ UsesSelection(p) /\ capsule # None
      /\ Tx(p) \in Transaction /\ previous \in Slot \cup {None}
      /\ \A tx \in Transaction : proposal[tx] = None
  BY <1>1, UndoFacts DEF Undoing
<1>3. journal[Tx(p)] # None
  BY <1>1, <1>2 DEF UndoKnows, InPhase
<1>4. /\ journal' \in [Transaction -> Journal \cup {None}]
      /\ journal'[Tx(p)] # None /\ journal'[Tx(p)].phase = RecoveryRequired
  BY <1>1, <1>2, <1>3, JournalMoved DEF IInv, FilesInv, Phase
<1>5. GoesOn(p, "recorded", previous) /\ "recorded" \in Where
  BY <1>1, GoToGoesOn DEF IInv, FilesInv, Where
<1>6. /\ call'[p].op = call[p].op /\ call'[p].tx = call[p].tx
      /\ call'[p].at = "recorded" /\ call'[p].previous = previous
  BY <1>1, <1>2, <1>5, GoingOn DEF IInv, FilesInv
<1>7. UndoKnows(p)'
  BY <1>1, <1>2, <1>4, <1>6 DEF UndoKnows, CapsuleOf, InPhase, Tx
<1>8. Knows(p)'
  BY <1>1, <1>6, <1>7 DEF Knows, Switching, Undoing
<1>9. SelectionInv' /\ ProposalInv'
  BY <1>1, <1>2 DEF IInv, FilesInv, SelectionInv, ProposalInv, Settled, HasSuccessor, Candidate
<1> QED BY <1>1, <1>2, <1>4, <1>5, <1>8, <1>9, SelectionStepInv DEF IInv, FilesInv, TypeOK

\* The capsule is removed: the pointer and the head are those of the settled slot.
LEMMA EndUndoInv ==
  ASSUME IInv, NEW p \in Process, EndRestore(p) \/ EndReconcile(p)
  PROVE  FilesInv'
<1> DEFINE previous == call[p].previous
<1>1. /\ call[p] # None /\ call[p].op \in Undoing /\ call[p].at \in {"written", "recorded"}
      /\ capsule' = None /\ GoTo(p, "done")
      /\ UNCHANGED <<selection, journal, proposal, locks, head>>
  BY DEF EndRestore, EndReconcile, RemoveCapsule, At, Undoing
<1>2. /\ UndoKnows(p) /\ UsesSelection(p)
      /\ Tx(p) \in Transaction /\ previous \in Slot \cup {None}
      /\ Settled(previous) /\ head \in {None, previous}
      /\ \A tx \in Transaction : proposal[tx] = None
  BY <1>1, UndoFacts
<1>3. selection = previous
  BY <1>1, <1>2 DEF UndoKnows
<1>4. GoesOn(p, "done", previous) /\ "done" \in Where
  BY <1>1, GoToGoesOn DEF IInv, FilesInv, Where
<1>5. call'[p].op = call[p].op /\ call'[p].at = "done"
  BY <1>1, <1>2, <1>4, GoingOn DEF IInv, FilesInv
<1>6. Knows(p)'
  BY <1>1, <1>5 DEF Knows, Switching, Undoing
<1>7. SelectionInv' /\ ProposalInv'
  BY <1>1, <1>2, <1>3 DEF SelectionInv, ProposalInv, Settled
<1> QED BY <1>1, <1>2, <1>4, <1>6, <1>7, SelectionStepInv DEF IInv, FilesInv, TypeOK

\* The proposal is written: the second snapshot still shows what the first did.
LEMMA SaveProposalInv ==
  ASSUME IInv, NEW p \in Process, SaveProposal(p)
  PROVE  FilesInv'
<1> USE DEF IInv, FilesInv
<1> DEFINE new == [previous |-> capsule.previous, successor |-> selection]
<1>1. /\ call[p] # None /\ call[p].op = "propose" /\ call[p].at = "checked"
      /\ Pending(Tx(p)) /\ GoTo(p, "done")
      /\ proposal' = [proposal EXCEPT ![Tx(p)] = new]
      /\ UNCHANGED <<selection, capsule, journal, locks, head>>
  BY DEF SaveProposal, At
<1>2. Tx(p) \in Transaction /\ call[p].previous \in Slot \cup {None} /\ "done" \in Where
  BY <1>1, CallFields DEF Where
<1>3. ProposalKnows(p) /\ UsesSelection(p)
  BY <1>1 DEF CallsKnow, Knows, UsesSelection, Switching, Undoing, JournalOnly
<1>4. /\ capsule # None /\ capsule.transaction = Tx(p) /\ capsule.previous # None
      /\ selection = capsule.candidate /\ head = capsule.previous
      /\ InPhase(Tx(p), {ActivationIntent}) /\ journal[Tx(p)].previous # None
      /\ proposal[Tx(p)] = None
  BY <1>3 DEF ProposalKnows, Pending, CapsuleOf, Armed
<1>5. capsule \in Capsule /\ capsule.previous \in Slot /\ capsule.candidate \in Slot
  BY <1>4 DEF TypeOK, Capsule
<1>6. new \in Proposal /\ new # None
      /\ new.previous = capsule.previous /\ new.successor = selection
  BY <1>4, <1>5, Absent DEF Proposal
<1>7. /\ proposal' \in [Transaction -> Proposal \cup {None}]
      /\ proposal'[Tx(p)] = new
      /\ \A tx \in Transaction : tx # Tx(p) => proposal'[tx] = proposal[tx]
  BY <1>1, <1>2, <1>6 DEF TypeOK
<1>8. GoesOn(p, "done", call[p].previous)
  BY <1>1, <1>2, GoToGoesOn
<1>9. call'[p].op = call[p].op /\ call'[p].at = "done"
  BY <1>1, <1>2, <1>8, GoingOn
<1>10. Knows(p)'
  BY <1>1, <1>9 DEF Knows, Switching, Undoing
<1>11. SelectionInv'
  BY <1>1, <1>4 DEF SelectionInv, Settled, HasSuccessor, Candidate
<1>12. ASSUME NEW tx \in Transaction, tx # Tx(p), proposal[tx] # None PROVE FALSE
  <2>1. capsule.transaction = tx
    BY <1>12 DEF ProposalInv
  <2> QED BY <1>4, <1>12, <2>1
<1>13. capsule = [transaction |-> Tx(p), previous |-> capsule.previous,
                  candidate |-> selection]
  BY <1>4, <1>5 DEF Capsule
<1> HIDE DEF new
<1>14. ProposalInv'
  BY <1>1, <1>4, <1>6, <1>7, <1>12, <1>13 DEF ProposalInv, InPhase
<1> QED BY <1>1, <1>2, <1>3, <1>7, <1>8, <1>10, <1>11, <1>14, SelectionStepInv DEF TypeOK

-----------------------------------------------------------------------------
(* Steps that change no file.                                              *)

\* The head moves to a proposed successor; no call depends on the head then.
LEMMA WitnessCommitsInv ==
  ASSUME IInv, NEW tx \in Transaction, WitnessCommits(tx)
  PROVE  FilesInv'
<1> USE DEF IInv, FilesInv
<1>1. /\ proposal[tx] # None /\ head = proposal[tx].previous
      /\ head' = proposal[tx].successor /\ UNCHANGED <<files, locks, call>>
  BY DEF WitnessCommits
<1>2. /\ capsule = [transaction |-> tx, previous |-> proposal[tx].previous,
                    candidate |-> proposal[tx].successor]
      /\ selection = proposal[tx].successor
  BY <1>1 DEF ProposalInv
<1>3. proposal[tx] \in Proposal
  BY <1>1 DEF TypeOK
<1>4. capsule.transaction = tx /\ capsule.candidate = proposal[tx].successor
  BY <1>2
<1>5. TypeOK'
  BY <1>1, <1>3 DEF TypeOK, files, locks, Proposal
<1>6. ASSUME NEW q \in Process PROVE Knows(q)'
  <2>1. Knows(q)
    BY DEF CallsKnow
  <2>2. ~(call[q] # None /\ call[q].op = "propose" /\ call[q].at = "checked")
    <3>1. SUFFICES ASSUME call[q] # None, ProposalKnows(q) PROVE FALSE
      BY <2>1 DEF Knows
    <3>2. capsule.transaction = Tx(q) /\ proposal[Tx(q)] = None
      BY <3>1 DEF ProposalKnows, Pending, CapsuleOf
    <3> QED BY <1>1, <1>4, <3>2
  <2> QED BY <1>1, <2>1, <2>2
      DEF Knows, SwitchKnows, UndoKnows, files, HasSuccessor, Armed, InPhase, CapsuleOf, Tx,
          Candidate
<1>7. capsule # None
  <2>1. capsule \in Capsule
    BY <1>2, <1>3 DEF Proposal, Capsule
  <2> QED BY <2>1, Absent
<1>8. SelectionInv'
  BY <1>1, <1>4, <1>7 DEF SelectionInv, files, Settled, HasSuccessor, Candidate
<1>9. ProposalInv'
  <2>1. ASSUME NEW ty \in Transaction, proposal[ty] # None PROVE ty = tx
    <3>1. capsule.transaction = ty
      BY <2>1 DEF ProposalInv
    <3> QED BY <1>4, <3>1
  <2> QED BY <1>1, <2>1 DEF ProposalInv, files, InPhase
<1> QED BY <1>5, <1>6, <1>8, <1>9 DEF CallsKnow

\* A step that changes locks and one call, which then knows nothing.
LEMMA LockStepInv ==
  ASSUME IInv, NEW p \in Process, NEW c \in Call \cup {None},
         call' = [call EXCEPT ![p] = c],
         c # None => c.at \in {"selection_locked", "locked"},
         selectionLock' \in LockState, journalLock' \in [Transaction -> LockState],
         UNCHANGED <<files, head>>
  PROVE  FilesInv'
<1> USE DEF IInv, FilesInv
<1>1. /\ call' \in [Process -> Call \cup {None}] /\ call'[p] = c
      /\ \A q \in Process : q # p => call'[q] = call[q]
  BY DEF TypeOK
<1>2. TypeOK'
  BY <1>1 DEF TypeOK, files
<1>3. ASSUME NEW q \in Process PROVE Knows(q)'
  <2>1. CASE q = p
    BY <1>1, <2>1 DEF Knows
  <2>2. CASE q # p
    <3>1. Knows(q) /\ call'[q] = call[q]
      BY <1>1, <2>2 DEF CallsKnow
    <3> QED BY <3>1, StillKnows DEF files
  <2> QED BY <2>1, <2>2
<1> QED BY <1>2, <1>3, FilesKept DEF CallsKnow

LEMMA LockStepsInv ==
  ASSUME IInv, NEW p \in Process,
         \/ \E op \in Operation, tx \in Transaction : Begin(p, op, tx)
         \/ LockJournal(p) \/ Return(p) \/ Crash(p)
  PROVE  FilesInv'
<1> USE DEF IInv, FilesInv
<1>1. ASSUME NEW op \in Operation, NEW tx \in Transaction, Begin(p, op, tx)
      PROVE  FilesInv'
  <2> DEFINE c == [op |-> op, tx |-> tx, previous |-> None,
                   at |-> IF op \in BothLocks THEN "selection_locked" ELSE "locked"]
  <2>1. c \in Call /\ c.at \in {"selection_locked", "locked"}
    BY DEF Call, Where
  <2>2. call' = [call EXCEPT ![p] = c] /\ UNCHANGED <<files, head>>
    BY <1>1 DEF Begin
  <2>3. selectionLock' \in LockState /\ journalLock' \in [Transaction -> LockState]
    BY <1>1 DEF Begin, TypeOK, LockState
  <2> HIDE DEF c
  <2> QED BY <2>1, <2>2, <2>3, LockStepInv
<1>2. CASE LockJournal(p)
  <2>1. call[p] # None /\ call[p] \in Call
    BY <1>2, CallFields DEF LockJournal, At
  <2> DEFINE c == [call[p] EXCEPT !.at = "locked"]
  <2>2. c \in Call /\ c.at = "locked"
    BY <2>1 DEF Call, Where
  <2>3. call' = [call EXCEPT ![p] = c] /\ UNCHANGED <<files, head>>
    BY <1>2 DEF LockJournal, GoTo
  <2>4. selectionLock' \in LockState /\ journalLock' \in [Transaction -> LockState]
    BY <1>2 DEF LockJournal, TypeOK, LockState
  <2> HIDE DEF c
  <2> QED BY <2>2, <2>3, <2>4, LockStepInv
<1>3. CASE Return(p) \/ Crash(p)
  <2>1. PICK state \in {None, Orphaned} : LeaveLocks(p, state)
    BY <1>3 DEF Return, Crash
  <2>2. selectionLock' \in LockState /\ journalLock' \in [Transaction -> LockState]
    BY <2>1 DEF LeaveLocks, TypeOK, LockState
  <2>3. call' = [call EXCEPT ![p] = None] /\ UNCHANGED <<files, head>>
    BY <1>3 DEF Return, Crash
  <2> QED BY <2>2, <2>3, LockStepInv
<1> QED BY <1>1, <1>2, <1>3

\* A step that changes nothing but lock files.
LEMMA LockFilesInv ==
  ASSUME IInv, UNCHANGED <<files, head, call>>,
         selectionLock' \in LockState, journalLock' \in [Transaction -> LockState]
  PROVE  FilesInv'
<1> USE DEF IInv, FilesInv
<1>1. TypeOK'
  BY DEF TypeOK, files
<1>2. ASSUME NEW q \in Process PROVE Knows(q)'
  BY StillKnows DEF CallsKnow, files
<1> QED BY <1>1, <1>2, FilesKept DEF CallsKnow

LEMMA ClearInv ==
  ASSUME IInv, ClearSelectionLock \/ (\E tx \in Transaction : ClearJournalLock(tx))
  PROVE  FilesInv'
<1>1. UNCHANGED <<files, head, call>>
  BY DEF ClearSelectionLock, ClearJournalLock
<1>2. selectionLock' \in LockState /\ journalLock' \in [Transaction -> LockState]
  BY DEF ClearSelectionLock, ClearJournalLock, TypeOK, LockState, IInv, FilesInv
<1> QED BY <1>1, <1>2, LockFilesInv

LEMMA StutterInv ==
  ASSUME IInv, UNCHANGED vars
  PROVE  FilesInv'
<1>1. UNCHANGED <<files, head, call>>
  BY DEF vars
<1>2. selectionLock' \in LockState /\ journalLock' \in [Transaction -> LockState]
  BY DEF vars, locks, TypeOK, LockState, IInv, FilesInv
<1> QED BY <1>1, <1>2, LockFilesInv

-----------------------------------------------------------------------------
(* The invariant, and what it gives.                                       *)

LEMMA NextInv ==
  IInv /\ [Next]_vars => IInv'
<1> SUFFICES ASSUME IInv, [Next]_vars PROVE IInv'
  OBVIOUS
<1>1. LocksHeld'
  BY LocksStep DEF IInv, FilesInv
<1>2. ASSUME NEW p \in Process, Step(p)
      PROVE  FilesInv'
  <2>1. CASE LockJournal(p)
    BY <2>1, LockStepsInv
  <2>2. CASE \/ \E previous \in Expectations : RecordCandidate(p, previous)
             \/ RequestIntent(p) \/ Abort(p) \/ RequireRecovery(p)
             \/ ArmPrior(p) \/ ArmWitnessed(p)
    BY <2>2, JournalStepsInv
  <2>3. CASE CheckUnboundSwitch(p) \/ CheckPriorSwitch(p) \/ CheckWitnessedSwitch(p)
    BY <2>3, CheckSwitchInv
  <2>4. CASE SaveCapsule(p) \/ SavePointer(p)
    BY <2>4, SaveCapsuleInv, SavePointerInv
  <2>5. CASE CheckRestore(p) \/ CheckReconcile(p)
    BY <2>5, CheckUndoInv
  <2>6. CASE RestorePointer(p) \/ RecordRecovery(p) \/ EndRestore(p) \/ EndReconcile(p)
    BY <2>6, RestorePointerInv, RecordRecoveryInv, EndUndoInv
  <2>7. CASE CheckProposal(p) \/ SaveProposal(p)
    BY <2>7, CheckProposalInv, SaveProposalInv
  <2> QED BY <1>2, <2>1, <2>2, <2>3, <2>4, <2>5, <2>6, <2>7 DEF Step
<1>3. ASSUME NEW p \in Process, NEW op \in Operation, NEW tx \in Transaction, Begin(p, op, tx)
      PROVE  FilesInv'
  BY <1>3, LockStepsInv
<1>4. ASSUME NEW p \in Process, Return(p) \/ Crash(p)
      PROVE  FilesInv'
  BY <1>4, LockStepsInv
<1>5. ASSUME ClearSelectionLock \/ (\E tx \in Transaction : ClearJournalLock(tx))
      PROVE  FilesInv'
  BY <1>5, ClearInv
<1>6. ASSUME NEW tx \in Transaction, WitnessCommits(tx)
      PROVE  FilesInv'
  BY <1>6, WitnessCommitsInv
<1>7. ASSUME UNCHANGED vars PROVE FilesInv'
  BY <1>7, StutterInv
<1>8. FilesInv'
  BY <1>2, <1>3, <1>4, <1>5, <1>6, <1>7 DEF Next
<1> QED BY <1>1, <1>8 DEF IInv

THEOREM Invariance ==
  Spec => []IInv
BY InitInv, NextInv, PTL DEF Spec

\* Files, locks, head and calls always have the types of the code.
THEOREM TypeCorrect ==
  Spec => []TypeOK
<1>1. IInv => TypeOK
  BY DEF IInv, FilesInv
<1> QED BY <1>1, Invariance, PTL

\* No interleaving of any number of processes rolls back, or loses a side of, a
\* transition whose proposal may have been submitted.
THEOREM ProposalPinned ==
  Spec => []ProposalKeepsBothSides
<1>1. IInv => ProposalKeepsBothSides
  <2> SUFFICES ASSUME IInv, NEW tx \in Transaction, proposal[tx] # None
               PROVE  /\ capsule = [transaction |-> tx,
                                    previous    |-> proposal[tx].previous,
                                    candidate   |-> proposal[tx].successor]
                      /\ selection = proposal[tx].successor
                      /\ Inspectable(tx) \/ InPhase(tx, {RecoveryRequired})
    BY DEF ProposalKeepsBothSides
  <2>1. proposal[tx] \in Proposal
    BY DEF IInv, FilesInv, TypeOK
  <2>2. /\ capsule = [transaction |-> tx,
                      previous    |-> proposal[tx].previous,
                      candidate   |-> proposal[tx].successor]
        /\ selection = proposal[tx].successor
        /\ head \in {proposal[tx].previous, proposal[tx].successor}
        /\ InPhase(tx, {ActivationIntent, RecoveryRequired})
        /\ journal[tx].previous # None
    BY DEF IInv, FilesInv, ProposalInv
  <2>3. /\ capsule.transaction = tx /\ capsule.previous = proposal[tx].previous
        /\ capsule.candidate = proposal[tx].successor
    BY <2>2
  <2>4. capsule \in Capsule /\ proposal[tx].previous \in Slot
    BY <2>1, <2>2 DEF Proposal, Capsule
  <2>5. capsule # None /\ capsule.previous # None
    BY <2>3, <2>4, Absent
  <2>6. proposal[tx] = [previous |-> capsule.previous, successor |-> selection]
    BY <2>1, <2>2, <2>3 DEF Proposal
  <2>7. InPhase(tx, {ActivationIntent}) \/ InPhase(tx, {RecoveryRequired})
    BY <2>2 DEF InPhase
  <2> QED BY <2>2, <2>3, <2>5, <2>6, <2>7 DEF Inspectable, Pending, CapsuleOf, Armed
<1> QED BY <1>1, Invariance, PTL

\* The slot the witness attests is selected, or one undo away.
THEOREM AttestedKept ==
  Spec => []AttestedSlotKept
<1>1. IInv => AttestedSlotKept
  <2> SUFFICES ASSUME IInv, head # None
               PROVE  selection = head \/ (capsule # None /\ capsule.previous = head)
    BY DEF AttestedSlotKept
  <2>1. CASE capsule = None
    BY <2>1 DEF IInv, FilesInv, SelectionInv
  <2>2. CASE capsule # None /\ head = capsule.candidate /\ proposal[capsule.transaction] # None
    <3>1. capsule.transaction \in Transaction
      BY <2>2 DEF IInv, FilesInv, TypeOK, Capsule
    <3>2. /\ selection = proposal[capsule.transaction].successor
          /\ capsule = [transaction |-> capsule.transaction,
                        previous    |-> proposal[capsule.transaction].previous,
                        candidate   |-> proposal[capsule.transaction].successor]
      BY <2>2, <3>1 DEF IInv, FilesInv, ProposalInv
    <3>3. capsule.candidate = proposal[capsule.transaction].successor
      BY <3>2
    <3> QED BY <2>2, <3>2, <3>3
  <2> QED BY <2>1, <2>2 DEF IInv, FilesInv, SelectionInv
<1> QED BY <1>1, Invariance, PTL

\* An undo never finds a pointer its capsule does not recognise.
THEOREM NeverAmbiguous ==
  Spec => []PointerNeverAmbiguous
<1>1. IInv => PointerNeverAmbiguous
  BY DEF IInv, FilesInv, SelectionInv, PointerNeverAmbiguous, PointerRecognised
<1> QED BY <1>1, Invariance, PTL

\* A bound transaction that needed recovery is not selected again.
THEOREM RecoveredDown ==
  Spec => RecoveredStaysDown
<1>1. ASSUME IInv, [Next]_vars, NEW tx \in Transaction,
             InPhase(tx, {RecoveryRequired}), journal[tx].previous # None
      PROVE  selection' = selection \/ selection' = None \/ selection'.transaction # tx
  <2> USE DEF IInv, FilesInv
  <2>1. ASSUME NEW p \in Process, SavePointer(p)
        PROVE  selection'.transaction # tx
    <3>1. call[p] # None /\ call[p].op \in Switching /\ call[p].at = "written"
          /\ selection' = Candidate(Tx(p), call[p].previous)
      BY <2>1 DEF SavePointer, At
    <3>2. SwitchKnows(p)
      BY <1>1, <3>1 DEF CallsKnow, Knows
    <3>3. Tx(p) # tx
      BY <1>1, <3>2
      DEF SwitchKnows, Armed, InPhase, ActivationIntent, RecoveryRequired
    <3>4. selection'.transaction = Tx(p)
      BY <3>1 DEF Candidate
    <3> QED BY <3>3, <3>4
  <2>2. ASSUME NEW p \in Process, RestorePointer(p)
        PROVE  selection' = None \/ selection'.transaction # tx
    <3>1. selection' = call[p].previous /\ Settled(call[p].previous)
      BY <1>1, <2>2, UndoFacts DEF RestorePointer, At, Undoing
    <3> QED BY <3>1, SlotAssumption DEF Settled
  <2>3. ASSUME NEW p \in Process, Step(p), ~SavePointer(p), ~RestorePointer(p)
        PROVE  selection' = selection
    BY <2>3 DEF Step, LockJournal, RecordCandidate, RequestIntent, Abort, RequireRecovery,
         ArmPrior, ArmWitnessed, MoveJournal, CheckUnboundSwitch, CheckPriorSwitch,
         CheckWitnessedSwitch, CheckRestore, CheckReconcile, CheckProposal, Keep,
         SaveCapsule, RecordRecovery, EndRestore, EndReconcile, RemoveCapsule,
         SaveProposal, files
  <2>4. ASSUME \/ \E p \in Process, op \in Operation, ty \in Transaction : Begin(p, op, ty)
               \/ \E p \in Process : Return(p) \/ Crash(p)
               \/ ClearSelectionLock
               \/ \E ty \in Transaction : ClearJournalLock(ty) \/ WitnessCommits(ty)
               \/ UNCHANGED vars
        PROVE  selection' = selection
    BY <2>4 DEF Begin, Return, Crash, ClearSelectionLock, ClearJournalLock,
         WitnessCommits, vars, files
  <2> QED BY <1>1, <2>1, <2>2, <2>3, <2>4 DEF Next
<1>2. IInv /\ [Next]_vars =>
        [\A tx \in Transaction :
           InPhase(tx, {RecoveryRequired}) /\ journal[tx].previous # None
             => selection' = selection \/ selection' = None \/ selection'.transaction # tx]_vars
  BY <1>1
<1> QED BY <1>2, Invariance, PTL DEF Spec, RecoveredStaysDown

-----------------------------------------------------------------------------
(* The files implement a reversible switch.                                *)

LEMMA MappedStutter ==
  ASSUME UNCHANGED <<capsule, head, proposal>>, capsule = None => UNCHANGED selection
  PROVE  UNCHANGED <<SlotInForce, PendingSwitch>>
BY DEF SlotInForce, PendingSwitch

\* While a capsule is pending: its two sides differ, and what is in force.
LEMMA MappedPending ==
  ASSUME IInv, capsule # None
  PROVE  /\ capsule.transaction \in Transaction
         /\ capsule.candidate \in Slot /\ capsule.candidate # capsule.previous
         /\ SlotInForce = IF head = capsule.candidate THEN head ELSE capsule.previous
         /\ PendingSwitch = [candidate |-> capsule.candidate,
                             offered   |-> proposal[capsule.transaction] # None]
         /\ PendingSwitch # None
<1>1. /\ capsule \in Capsule /\ capsule.candidate = Candidate(capsule.transaction, capsule.previous)
      /\ HasSuccessor(capsule.previous)
  BY DEF IInv, FilesInv, TypeOK, SelectionInv
<1>2. /\ capsule.transaction \in Transaction /\ capsule.candidate \in Slot
      /\ capsule.previous \in Slot \cup {None}
  BY <1>1 DEF Capsule
<1>3. capsule.candidate # capsule.previous
  BY <1>1, <1>2, CandidateIsSlot
<1>4. PendingSwitch = [candidate |-> capsule.candidate,
                       offered   |-> proposal[capsule.transaction] # None]
  BY DEF PendingSwitch
<1>5. PendingSwitch \in [candidate : Slot, offered : BOOLEAN]
  BY <1>2, <1>4
<1>6. PendingSwitch # None
  BY <1>5, NoneAssumption
<1> QED BY <1>2, <1>3, <1>4, <1>6 DEF SlotInForce

LEMMA NoProposal ==
  ASSUME IInv, capsule = None, NEW tx \in Transaction
  PROVE  proposal[tx] = None
<1> SUFFICES ASSUME proposal[tx] # None PROVE FALSE
  OBVIOUS
<1>1. proposal[tx] \in Proposal
  BY DEF IInv, FilesInv, TypeOK
<1>2. capsule = [transaction |-> tx, previous |-> proposal[tx].previous,
                 candidate |-> proposal[tx].successor]
  BY DEF IInv, FilesInv, ProposalInv
<1>3. capsule \in Capsule
  BY <1>1, <1>2 DEF Proposal, Capsule
<1> QED BY <1>3, Absent

LEMMA SaveCapsuleStarts ==
  ASSUME IInv, IInv', NEW p \in Process, SaveCapsule(p)
  PROVE  \E c \in Slot : Switch!Start(c)
<1> DEFINE previous == call[p].previous
           c        == Candidate(Tx(p), previous)
<1>1. /\ call[p] # None /\ call[p].op \in Switching /\ call[p].at = "checked"
      /\ UNCHANGED <<selection, proposal, head>>
      /\ capsule' = [transaction |-> Tx(p), previous |-> previous, candidate |-> c]
  BY DEF SaveCapsule, At
<1>2. capsule = None /\ selection = previous /\ HasSuccessor(previous)
  BY <1>1 DEF IInv, FilesInv, CallsKnow, Knows, SwitchKnows
<1>3. Tx(p) \in Transaction /\ previous \in Slot \cup {None}
  BY <1>1, CallFields DEF IInv, FilesInv
<1>4. c \in Slot /\ c # previous /\ c # None
  BY <1>2, <1>3, CandidateIsSlot, Absent
<1> HIDE DEF c
<1>5. /\ capsule'.transaction = Tx(p) /\ capsule'.previous = previous
      /\ capsule'.candidate = c
  BY <1>1
<1>6. capsule' # None
  <2>1. capsule' \in Capsule
    BY <1>1, <1>3, <1>4 DEF Capsule
  <2> QED BY <2>1, Absent
<1>7. PendingSwitch = None /\ SlotInForce = previous
  BY <1>2 DEF PendingSwitch, SlotInForce
<1>8. proposal'[Tx(p)] = None
  BY <1>1, <1>2, <1>3, NoProposal
<1>9. PendingSwitch' = [candidate |-> c, offered |-> FALSE]
  BY <1>5, <1>6, <1>8 DEF PendingSwitch
<1>10. head \in {None, previous}
  BY <1>2 DEF IInv, FilesInv, SelectionInv
<1>11. SlotInForce' = previous
  BY <1>1, <1>4, <1>5, <1>6, <1>10 DEF SlotInForce
<1> QED BY <1>4, <1>7, <1>9, <1>11 DEF Switch!Start

LEMMA EndUndoGivesUp ==
  ASSUME IInv, NEW p \in Process, EndRestore(p) \/ EndReconcile(p)
  PROVE  Switch!GiveUp
<1>1. /\ call[p] # None /\ call[p].op \in Undoing /\ call[p].at \in {"written", "recorded"}
      /\ capsule' = None /\ UNCHANGED selection
  BY DEF EndRestore, EndReconcile, RemoveCapsule, At, Undoing
<1>2. /\ UndoKnows(p) /\ capsule # None /\ head \in {None, call[p].previous}
      /\ \A tx \in Transaction : proposal[tx] = None
  BY <1>1, UndoFacts
<1>3. selection = call[p].previous /\ capsule.previous = call[p].previous
  BY <1>1, <1>2 DEF UndoKnows
<1>4. /\ capsule.transaction \in Transaction
      /\ capsule.candidate \in Slot /\ capsule.candidate # capsule.previous
      /\ SlotInForce = IF head = capsule.candidate THEN head ELSE capsule.previous
      /\ PendingSwitch = [candidate |-> capsule.candidate,
                          offered   |-> proposal[capsule.transaction] # None]
      /\ PendingSwitch # None
  BY <1>2, MappedPending
<1>5. SlotInForce = selection /\ ~PendingSwitch.offered
  BY <1>2, <1>3, <1>4, Absent
<1>6. PendingSwitch' = None /\ SlotInForce' = selection
  BY <1>1 DEF PendingSwitch, SlotInForce
<1> QED BY <1>4, <1>5, <1>6 DEF Switch!GiveUp, Switch!Undecided

LEMMA SaveProposalOffers ==
  ASSUME IInv, NEW p \in Process, SaveProposal(p)
  PROVE  Switch!Offer
<1> DEFINE new == [previous |-> capsule.previous, successor |-> selection]
<1>1. /\ call[p] # None /\ call[p].op = "propose" /\ call[p].at = "checked"
      /\ proposal' = [proposal EXCEPT ![Tx(p)] = new]
      /\ UNCHANGED <<selection, capsule, head>>
  BY DEF SaveProposal, At
<1>2. ProposalKnows(p)
  BY <1>1 DEF IInv, FilesInv, CallsKnow, Knows
<1>3. /\ capsule # None /\ capsule.transaction = Tx(p) /\ capsule.previous # None
      /\ selection = capsule.candidate /\ head = capsule.previous
      /\ proposal[Tx(p)] = None
  BY <1>2 DEF ProposalKnows, Pending, CapsuleOf
<1>4. /\ Tx(p) \in Transaction
      /\ capsule.candidate \in Slot /\ capsule.candidate # capsule.previous
      /\ SlotInForce = IF head = capsule.candidate THEN head ELSE capsule.previous
      /\ PendingSwitch = [candidate |-> capsule.candidate, offered |-> FALSE]
      /\ PendingSwitch # None
  BY <1>3, MappedPending
<1>5. new # None
  <2>1. new \in Proposal
    BY <1>3, <1>4 DEF IInv, FilesInv, TypeOK, Capsule, Proposal
  <2> QED BY <2>1, Absent
<1>6. proposal'[Tx(p)] # None
  BY <1>1, <1>4, <1>5 DEF IInv, FilesInv, TypeOK
<1>7. PendingSwitch' = [candidate |-> capsule.candidate, offered |-> TRUE]
  BY <1>1, <1>3, <1>6 DEF PendingSwitch
<1>8. UNCHANGED SlotInForce
  BY <1>1 DEF SlotInForce
<1>9. PendingSwitch.candidate = capsule.candidate /\ ~PendingSwitch.offered
  BY <1>4
<1> HIDE DEF new
<1> QED BY <1>4, <1>7, <1>8, <1>9 DEF Switch!Offer, Switch!Undecided

LEMMA CommitCommits ==
  ASSUME IInv, NEW tx \in Transaction, WitnessCommits(tx)
  PROVE  Switch!Commit
<1>1. /\ proposal[tx] # None /\ head' = proposal[tx].successor
      /\ UNCHANGED <<selection, capsule, proposal>>
  BY DEF WitnessCommits, files
<1>2. capsule = [transaction |-> tx, previous |-> proposal[tx].previous,
                 candidate |-> proposal[tx].successor]
  BY <1>1 DEF IInv, FilesInv, ProposalInv
<1>3. capsule # None
  <2>1. proposal[tx] \in Proposal
    BY <1>1 DEF IInv, FilesInv, TypeOK
  <2>2. capsule \in Capsule
    BY <1>2, <2>1 DEF Proposal, Capsule
  <2> QED BY <2>2, Absent
<1>4. capsule.transaction = tx /\ capsule.candidate = proposal[tx].successor
  BY <1>2
<1>5. /\ PendingSwitch = [candidate |-> capsule.candidate, offered |-> TRUE]
      /\ PendingSwitch # None
  BY <1>1, <1>3, <1>4, MappedPending
<1>6. UNCHANGED PendingSwitch
  BY <1>1 DEF PendingSwitch
<1>7. SlotInForce' = capsule.candidate
  BY <1>1, <1>3, <1>4 DEF SlotInForce
<1> QED BY <1>5, <1>6, <1>7 DEF Switch!Commit

\* A step that is none of these four kinds is a stutter of the switch.
LEMMA OtherStepsStutter ==
  ASSUME IInv, NEW p \in Process, Step(p),
         ~SaveCapsule(p), ~EndRestore(p), ~EndReconcile(p), ~SaveProposal(p)
  PROVE  UNCHANGED <<SlotInForce, PendingSwitch>>
<1>1. CASE SavePointer(p)
  <2>1. call[p] # None /\ call[p].op \in Switching /\ call[p].at = "written"
        /\ UNCHANGED <<capsule, head, proposal>>
    BY <1>1 DEF SavePointer, At
  <2>2. SwitchKnows(p) /\ Tx(p) \in Transaction /\ call[p].previous \in Slot \cup {None}
    BY <2>1, CallFields DEF IInv, FilesInv, CallsKnow, Knows
  <2>3. Candidate(Tx(p), call[p].previous) \in Slot
    BY <2>2, CandidateIsSlot DEF SwitchKnows
  <2>4. capsule # None
    <3>1. capsule \in Capsule
      BY <2>1, <2>2, <2>3 DEF SwitchKnows, Capsule
    <3> QED BY <3>1, Absent
  <2> QED BY <2>1, <2>4, MappedStutter
<1>2. CASE RestorePointer(p)
  <2>1. call[p] # None /\ call[p].op \in Undoing /\ call[p].at = "checked"
        /\ UNCHANGED <<capsule, head, proposal>>
    BY <1>2 DEF RestorePointer, At
  <2>2. capsule # None
    BY <2>1, UndoFacts
  <2> QED BY <2>1, <2>2, MappedStutter
<1>3. CASE ~SavePointer(p) /\ ~RestorePointer(p)
  <2>1. UNCHANGED <<selection, capsule, head, proposal>>
    BY <1>3 DEF Step, LockJournal, RecordCandidate, RequestIntent, Abort, RequireRecovery,
         ArmPrior, ArmWitnessed, MoveJournal, CheckUnboundSwitch, CheckPriorSwitch,
         CheckWitnessedSwitch, CheckRestore, CheckReconcile, CheckProposal, Keep,
         RecordRecovery, files
  <2> QED BY <2>1, MappedStutter
<1> QED BY <1>1, <1>2, <1>3

\* A pending candidate is given up freely until it is offered to the witness, and
\* then only the witness decides; every other step leaves the slot in force.
THEOREM SwitchIsReversible ==
  Spec => ImplementsReversibleSwitch
<1>1. Init => Switch!Init
  <2> SUFFICES ASSUME Init PROVE Switch!Init
    OBVIOUS
  <2>1. selection \in Slot \cup {None} /\ capsule = None
    BY DEF Init, Slot
  <2> QED BY <2>1 DEF Switch!Init, SlotInForce, PendingSwitch
<1>2. ASSUME IInv, IInv', [Next]_vars
      PROVE  Switch!Next \/ UNCHANGED <<SlotInForce, PendingSwitch>>
  <2>1. ASSUME NEW p \in Process, Step(p)
        PROVE  Switch!Next \/ UNCHANGED <<SlotInForce, PendingSwitch>>
    <3>1. CASE SaveCapsule(p)
      BY <1>2, <3>1, SaveCapsuleStarts DEF Switch!Next
    <3>2. CASE EndRestore(p) \/ EndReconcile(p)
      BY <1>2, <3>2, EndUndoGivesUp DEF Switch!Next
    <3>3. CASE SaveProposal(p)
      BY <1>2, <3>3, SaveProposalOffers DEF Switch!Next
    <3> QED BY <1>2, <2>1, <3>1, <3>2, <3>3, OtherStepsStutter
  <2>2. ASSUME NEW tx \in Transaction, WitnessCommits(tx)
        PROVE  Switch!Next
    BY <1>2, <2>2, CommitCommits DEF Switch!Next
  <2>3. ASSUME \/ \E p \in Process, op \in Operation, tx \in Transaction : Begin(p, op, tx)
               \/ \E p \in Process : Return(p) \/ Crash(p)
               \/ ClearSelectionLock
               \/ \E tx \in Transaction : ClearJournalLock(tx)
               \/ UNCHANGED vars
        PROVE  UNCHANGED <<SlotInForce, PendingSwitch>>
    <3>1. UNCHANGED <<selection, capsule, head, proposal>>
      BY <2>3 DEF Begin, Return, Crash, ClearSelectionLock, ClearJournalLock, vars, files
    <3> QED BY <3>1, MappedStutter
  <2> QED BY <1>2, <2>1, <2>2, <2>3 DEF Next
<1>3. IInv /\ IInv' /\ [Next]_vars => [Switch!Next]_<<SlotInForce, PendingSwitch>>
  BY <1>2
<1> QED BY <1>1, <1>3, Invariance, PTL DEF Spec, ImplementsReversibleSwitch, Switch!Spec

=============================================================================
