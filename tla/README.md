# TLA+ models of the Paper Data Suite

These modules model the parts of the suite that keep durable state and are
used by more than one process, machine or administrator.  They are translated
from `paper_data_suite/` and `scripts/`; the tests and `docs/` were read with them.

## The system

The suite is a Python package with a launcher (`pds`), a doctor, settings,
workspace and classroom tools, and a long-running design, "evergreen updates",
by which a teacher's machine may replace installed modules only under
independently administered evidence.

| part | state it keeps | operations | what is hard |
| --- | --- | --- | --- |
| checkpoint witness store (`evergreen_checkpoint_store`) | `witness_heads`, `issued_challenges` (SQLite) | `commit_receipt`, `answer_challenge` | competing successors, replayed challenges, pruning, a signer that fails after the commit |
| witness client (`evergreen_checkpoint_witness`) | an open challenge | `query_checkpoint_witness` | lost, late, repeated replies; clocks that differ |
| commit protocol (`evergreen_witness_commit_protocol`) | none of its own | `inspect_uncertain`, `commit_independently_approved_successor` | a lost acknowledgement |
| attempt ledger (`evergreen_witness_cas_fence`) | one row per installation | `reserve`, `dispatch_once`, `inspect_signed_head`, `observe` | crashes around the one commit, slow inspections |
| writer gate (`evergreen_witness_writer_quiescence`) | one row per installation, same database | `admit`, `dispatch_once`, `request_stop`, `certify_stopped_and_observe` | a stop against a dispatch, writers still running |
| plan service (`evergreen_plan_service_*`) | none of its own | admit, dispatch, reconcile a reviewed plan | each call is many steps over the two rows above |
| local transition (`evergreen_update_journal`, `_activation_slots`, `_witness_slot_transition`, `_local_receipt_recovery`, `_offline_commit_interlock`) | journal, selection pointer, recovery capsule, successor proposal, lock files | select, reconcile offline, persist a proposal | crashes between file replacements, stale locks, rollback against a commit that may have happened |
| recovery observation (`evergreen_recovery_*`, `_service_recovery_attestation`, `_plan_finalization_preflight` and the inspections under it) | consumed nonces and the last second of the service's clock | answer a challenge once; review an unfinished recovery | one use although signing fails or a clock is set back; reads that are not atomic; late and foreign answers |
| plan chain (`evergreen_plan_finalization_fence` to `_activation_readiness`, eighteen modules) | one append-once table each, in the service's database | reserve, preclaim, record, arm, dispatch, certify, inspect | a claim before each irreversible act, uncertainty after it, evidence that is stale when it is used |
| plan preparation (the other `evergreen_plan_*`, `_composition_review_plan`) | an isolated stage, a journal, the selection | review a composition, install, request and sign evidence, record, arm, select, draft | several plans from one baseline, bytes that change between looks, half filled stages |
| publishing (`evergreen_offline_publisher*`, `_quillan_issuance`, `_first_root_enrollment`) | key files, a review directory, signed envelopes | make keys, prepare, issue | files made one by one by programs that die; a review edited before it is signed |
| catalog and trust (`evergreen_catalog_*`, `_trust_*`) | a cached snapshot, a pinned keyring | save, preview, rotate | rollback of metadata or clock, a keyring that rotates under a cache |
| candidate audits (`evergreen_*_audit`, `_acceptance`, `_probe`, `_preflight`, `_witness_selected_stage`) | none; two lock files while they run | observe twice, probe, report | the files they read cannot be locked |
| workspace backup and restore (`workspace_*`) | an archive, a restored tree, staging directories | plan, stage, verify, publish | edits during a copy, deaths and failed clean-ups, a target that appears |
| settings, launching, workspace and classroom setup | settings file, Core's workspace and classroom data | plan, apply, select, launch | a plan applied to a state that has moved, partial failure, replacement without a lock |
| bootstrap (`scripts/bootstrap_windows.ps1`, `bootstrap*`, `environment_inspection`) | the target environment, its marker, a sentinel with the maker's nonce | plan, authenticate, make or keep, install, verify, mark, clean up | several scripts and releases at one path without a lock; a plan that is stale when it is applied; removal of one's own work only |
| everything else | none between calls | diagnosis, parsing, reporting | pure functions or I/O |

`PROJECT.json` lists every source file under one of its components, with the
reason where a component is not modelled.

The witness is the root of the evidence: a client asks it for the head of an
installation's receipt chain; the plan service asks the gate, the gate the
ledger, the ledger the commit protocol, and that the store.  The local side
reads signed heads and service observations and changes only its own files.
Before it come the releases that publishers sign, the catalog that lists them,
a composition planned from it, and a stage that is filled, audited and selected;
each hands the next a value that is verified afresh.  The desk commands (`pds
workspace`, `setup`, `launch`, `settings`) share nothing with updates.

## Modules

| module | models | state and actions |
| --- | --- | --- |
| `Receipts` | receipts as the witness compares them | `Continues`, `Appended`: the checks and the row of `commit_receipt`; a receipt is its own digest |
| `CheckpointStore` | the store, its clients and the transport | `head`, `issued` are the tables; `sent`, `replies` the network; `CommitReceipt`, `AnswerChallenge`, `AnswerLost`, `IssueChallenge`, `AcceptReply`, `QueryFails`, `Tick` |
| `FreshHeadRead` | what a query promises: one look at the head between call and return | implemented by `CheckpointStore` |
| `CommitRequests`, `CommitProtocol` | the commit request and the head it moves | a signed read is one step, which `FreshHeadRead` justifies |
| `CasFence` | the attempt ledger | one operator per transaction or read |
| `WriterQuiescence` | the gate | the same |
| `WitnessService` | processes that call gate, ledger and protocol at once | `job[p]` says where process `p` is in its method and what it has read; a step is one transaction, one read or one external call; `Fail` ends a method anywhere and undoes nothing |
| `PlanService` | the three plan calls over `WitnessService` | `plan[p]` is the call of process `p`, where it is and the rows it has read; its methods' steps are those of `WitnessService`; `outcomes` collects what calls returned; `Raise` ends a call and the method it waits for |
| `OneShotCas` | what the service promises about one update | implemented by `WitnessService` when the gate is exclusive |
| `SlotTransition` | the files under the software root and the processes that change them | `selection`, `capsule`, `journal`, `proposal`, the two kinds of lock file, and `head`, the receipt the witness holds; `call[p]` is the operation of process `p`, where it is in it, and the previous slot it keeps from its checks to its writes; a step is one file replacement or unlink, or the checks before it |
| `ReversibleSwitch` | what those files promise together | implemented by `SlotTransition` |
| `PlanRecords` | the rows of the plan chain, one table per stage | `row[s]` is the row of stage `s`; `ChainedTo`, `Open`, `Repeats`, `Record` are the comparisons and the insertion the stages share |
| `PlanChain` | the methods of the eighteen stages and what they see of the installation | `call[p]` is where process `p` is in its method and what it has read; `file`, `capsule`, `local`, `process`, `fenced` are what the callbacks report; a step is one reading, one signed head, one commit, or the one call of the service |
| `OneWayUpdate` | what the rows promise about the three acts | implemented by `PlanChain` |
| `ReleaseIssuance` | keys, review and signed release of a first module | `keyfile`, `review` are the files there are; `MakePrivateKey`, `MakePublicKey`, `Prepare`, `StartIssue`, `CompareReview`, `SignAndVerify`, `MakeNextFile`; a killed ceremony leaves what it made, `EditReview` is a hand |
| `ReleaseCatalog` | the documents, their verification, the cache, the pinned keyring | `Authenticates` is `_authenticate`; a save is `CallSave`, `TakeLock`, `ReadHistory`, `ReplaceCache`, `Unlock`, a preview one step; `Tick`, `SetBack`, `Rotate` are the clock and the provisioner |
| `CompositionReview` | the review of a composition | `planning` is the selection as the rounds leave it; one step a round |
| `PlanPreparation` | the calls from an isolated stage to a handed over draft | `preparers[p]` is what program `p` holds and where its call is; `bytes`, `record`, `pointer`, `capsule` the files; a look, a lock, the witness's answer and each write are steps |
| `CandidateAudit` | seven kinds of audit of a staged candidate | `Programs` has each audit as its sequence of reads, locks, checks and probes; `audits[a]` is how far auditor `a` is and what it saw; `Alter` writes to a file at any time |
| `RecoveryEvidence` | the recovery service and the review of an unfinished recovery | `claims`, `latest` are the ledger; `workers`, `reviews` where each is; `ReviewSteps` is the chain of reads with its locks |
| `EvergreenSupply` | the six above, one at a time | |
| `Workspaces`, `WorkspaceBackup`, `WorkspaceRestore`, `WorkspaceSelection`, `WorkspaceCustody` | the workspace commands | `tree`, `archive`, `staging`, `saved` are directories and the preference; `command[p]` is the command of process `p`; each file is copied, landed and hashed in steps of its own |
| `SnapshotStore` | what backups and restores promise together: a published tree is a tree that was | implemented by `WorkspaceCustody` |
| `ClassroomSetup` | assessment, plan, preflight and guarded writes of a setup | `core` is what Core holds; `setup[s]` what session `s` reviewed and has left to write; others change Core between any two writes |
| `SuiteLaunch` | the launcher and the suite settings | `settings` is the file, `errand[p]` a launch, clear or reset, split at its read, temporary file and replacement |
| `SuiteBootstrap` | the bootstrap script and the commands it calls | `target` is what is at the path, with the number of the directory; `scripts[s]` the plan, wheels and nonce that script `s` holds and where it is; `ScriptFails`, `BeginRemoval`, `EndRemoval` are its catch and finally, `Meddle` a hand |
| `PdsShell` | the desk commands and the bootstrap, one family at a time | |
| `CheckpointStore_proofs`, `WitnessService_proofs`, `PlanService_proofs`, `SlotTransition_proofs`, `PlanChain_proofs`, `PdsShell_proofs`, `EvergreenSupply_proofs` | theorems | |
| `MCCheckpointStore`, `MCWitnessService`, `MCPlanService`, `MCSlotTransition`, `MCPlanChain`, `MCPdsShell`, `MCEvergreenSupply` | small instances | |

In `SlotTransition` the operation names are short for: `verify`
(`begin_verified_update_intent`), `request` (`request_activation_intent`),
`abort` and `require_recovery` (`record_safe_disposition`), `arm_prior` and
`arm_witnessed` (the two bound armings), `switch`, `switch_prior`,
`switch_witnessed` (the three switches), `restore`
(`restore_previous_selection`), `reconcile`
(`reconcile_witness_bound_selection_offline`) and `propose`
(`persist_untrusted_successor_proposal`).  `Return` stands for every exception
and every return, `Crash` for a death that leaves the lock files.  A slot stands
for a selection, for the observation record of it and for the receipt of it.
The witness is external there: `WitnessCommits` takes a persisted proposal, as
the documented order of the slices has it (`docs/architecture`, slice 43); no
code in this repository connects the two.  The receipts handed to `propose`
are the caller's and are taken as those of the pending switch.  The capsule of a
committed switch is never cleared by this part: the plan's capsule clearance
chain does that, and is modelled in `PlanChain`.

`PlanChain` has the eighteen tables in the order in which their methods write
them; they are named in `PlanRecords`.  All methods but the first two have one
shape (begin, compare the chain, read, fetch a signed head, read again, insert,
commit), so each of them is `Begin` at its stage and continues in the shared
steps; `Sees` says what its readers must find.  The first two read before their
transaction and have steps of their own.  Three stages are claims: after their
commit the method calls the service once, outside the transaction.  `Ends`
stands for every exception, refusal and death, and rolls an open transaction
back.  What a reader sees is outside: the service takes and loses its fence,
others change the files while there is none, an interrupted write or deletion
leaves anything of its file, and the launched process beats or ends.  One
reading is one step, though it is several callbacks: the readings answer under
the service's fence.  That the service keeps the fence from the beginning of a
dispatching method to the end of its act is what the code asks of it (the
comment before the call in `evergreen_plan_local_receipt_dispatch.py`), and
`FenceLapses` relies on it: `ActsAsSeen` would not hold of a service that
does not.  Every fence has a digest of its own, so a reading that names a fence
names its `epoch`.

In `Workspaces` a content is the number of the edit that wrote it, so that no
later edit brings an earlier content back; links and special files, which every
walk refuses, and empty directories are left out; a walk over names and sizes is
one step.  What Core does when a workspace is selected, initialized or written
is external and taken from how the suite calls it.  In `ClassroomSetup` a school
year is not closed while setups run.

In `SuiteBootstrap` a call of pip installs its wheel or nothing, what else pip
resolves is external, and the two plans of the artifact commands are one look.  That
a person acts between two consecutive statements (the directory and its sentinel, the
comparison of the nonce and the removal) is left out.

In `ReleaseCatalog` a document is its claims and the keys that signed it, and
time is in half seconds, because a save keeps only whole ones.  After a rotation
of the keyring an old cache cannot be read and somebody has to remove it
(`RemoveCache`).  In `CandidateAudit` each file is written to once at most; a
mismatch ends an audit at the file where it is seen and not at the comparison
after the second observation, which refuses as well.  What the signed inputs
describe is looked at in memory and is chosen when an audit reports.  A killed
audit leaves its lock files, which no program takes away; a person does
(`RemoveDeadLocks`, and `RemoveDeadLock` of `PlanPreparation`).

In `PlanPreparation` results that a program holds are honest: they are values in
its memory.  The journal's own lock, which is always taken under the selection's,
and the details of an undo are in `SlotTransition`; `CommitDraft` stands for the
plan services, which persist, commit and read back what they are given.  The
draft of a successor is always refused by the code (second finding below);
`PriorReplaced` puts the check that its tests use in the place of the one that
refuses, and shows what the rest of the draft is good for.  With `FALSE` the
model has no drafts, as the program.

In `RecoveryEvidence` the seconds 60, 5 and 86400 of the code are 1, 1 and 2: all
that is used of them is that a challenge is kept for longer than its statement
verifies.  The reviewer's clock is right and read once, as in the code.  Reads
leave nothing behind, so that one review comes to its reads in a behaviour, after
others that were refused without.

What is abstracted: SHA-256 is injective; signatures, mTLS identities and the
caller's permission callbacks hold or raise; canonical encodings are the
records they encode.  A raising callback is `Fail` or `QueryFails`.

Operators whose comment begins "A faulty variant" are never used by a
specification: each is a definition as a plausible mistake would have left it,
and shows that a property notices the mistake.

## Runs

| run | what it asks | bounds |
| --- | --- | --- |
| `checkpoint_store` | one statement per challenge, mergeable statements, fresh observations, and the refinement of `FreshHeadRead` | 2 clients, 2 nonces, chain g, {a, b}, c; times 0..2 against windows of 1, skew 1 |
| `plan_service` | certificates, "no dispatch", what a reconciliation reported, and the refinement of `OneShotCas`, behind an exclusive gate | 2 processes, two competing requests |
| `plan_open` | the ledger's own promises, and that an interrupted admission stays fenced, when callers go past the gate | the same and a request at a wrong revision, with direct calls and one foreign commit |
| `plan_reconciled` | a dispatch that may have begun is reconciled, a requested stop certified | 2 processes, one request, `PlanLiveSpec` |
| `slot_transition` | a proposal pins both sides, the attested slot is kept, an undo is never ambiguous, a recovered transaction stays down, and the refinement of `ReversibleSwitch` | 2 processes, 2 transactions, 3 generations, journals bound to the installed slot or to nothing |
| `switch_undone` | a switch without a proposal is undone | 2 processes, 1 transaction, `LiveSpec` |
| `plan_chain` | the rows are one chain, each act is begun once and on what was read, certificates and reports stand while their fence does, and the refinement of `OneWayUpdate` | 2 processes, one request, 2 digests of the other files, 2 fences, 2 heartbeats |
| `pds_shell` | a published backup is a tree that was, at one moment, and verifies; staging is cleaned up by its owner only; the selected workspace exists; a completed setup stands, its classes are of one year and it can be run again; settings are never torn; a bootstrap removes its own work only, replaces nothing, and what it completes needs nothing more; and the refinement of `SnapshotStore` | 2 commands of 3 processes, 2 files, 3 edits, 1 backup name; 2 setups, 1 class, 2 years, one change by others; 2 launches, 3 applications, lists of 2; 2 scripts, 2 releases, 2 directories, one change by hand |
| `evergreen_supply` | an issued release stands together and can be enrolled; a saved catalog was good when it was saved, what is shown never goes back and a revocation is not forgotten; a reviewed plan is closed and changes nothing for nothing; a stage is one program's work and no update is lost; an audit reports a candidate as it was at one moment, in its place, and with every package vouched for; a challenge is answered once, a review goes by its own answer and was true at one moment | 2 ceremonies; 2 savers, 1 reader, 6 offers, 2 keyrings, 2 seconds; 3 catalogs of up to 4 modules, 4 rounds; 2 preparers, 2 candidates, 1 change of bytes; 1 auditor, 1 file of each sort, 2 of them written to; 2 reviews, 1 worker, clocks up to 3 |
| `roster_unreported` | the third finding below | as `pds_shell` |
| `switch_drafted` | the second finding below | as `slot_transition` |
| `stop_understated` | the first finding below | 2 processes, one request, direct calls |

Several properties are conjunctions of named parts, each with a comment of its
own: `WorkspacesStand`, `SetupsStand`, `SettingsStand`, `CatalogStands`,
`IssuedReleaseStands`, `CompositionStands`, `PreparationStands`, `AuditStands`,
`EvidenceStands`, `EnvironmentsStand`, `AttemptedOnce`, `GateTellsTruth`,
`SuccessorRecordStands` and `WordsStand`.  There is a
faulty variant of the code (a mutant) against every part of the first nine, of the
two type invariants of the same runs, and of `EnvironmentsStand` but its last part:
that what was completed needs nothing more is guarded twice, by the plan and by the
verification, and no single change breaks it.

Two nonces suffice for a replay and a second query; the times cross both
windows (challenge, pruning) at their boundary.  A process of `PlanService`
runs a plan call or a bare method of the gate or the ledger, and a method holds
one snapshot from its read to its write: two processes show each method against
each other one, and a `Raise` leaves a row for a third caller to find.  The
proofs cover any number of processes.
Every write of a local file is under the selection's lock or one journal's: two
processes show each exclusion, two transactions and three generations a switch
over a pending one, and the last generation a selection without a successor.
In `PlanChain` the write lock admits one method at a time and a second process
shows every method against a holder of a claim or of old evidence; the receipt
file holds the predecessor, the successor or neither; a second fence and a
second heartbeat show evidence that is stale.  With one request two reservations
still differ, in the digests they reserve.

In `pds_shell` contents have one length, so that only a hash tells two of them
apart; the sessions explored pair each command with each that shares files with
it, and a third process runs under another workspace root.  Two setups of
different years and one change by another program show every plan that is stale
when it is applied; three applications overflow a list of two.  Two scripts that ask
for one release or two, at a path with nothing, an environment, an unmarked one or
another directory, with a directory deleted and made again, show every plan that is
stale and every maker that fails after another came.  In
`evergreen_supply` the six offers hold a release, its revocation, the same
revision without it, a second module, one key for two modules and another set of
signatures; the three catalogs hold a requirement that leads to a revoked
release, an addition that a later round does not need, and two modules that chase
each other past the bound of rounds.  Two preparers give every order of two plans
over one baseline.  One auditor is enough because audits meet only at their
locks; two files written to, each once, and one file wrong at the start show a
swap between any two of its readings.  Two reviews and one worker show a late and
a foreign answer, and a clock that is set once, in either direction, every order
of purge and replay.

Deadlock is not checked where the system may stop: nonces and time are bounded
in `CheckpointStore`, rows are never deleted in `WitnessService` and `PlanChain`,
and nobody has to type a command in `PdsShell` or go on with an update in
`EvergreenSupply`.  It is
checked in `SlotTransition`, where a call can always end.

Fairness.  In `PlanLiveSpec` every call and every method ends (transports have
timeouts, supervisors kill writers); an operator repeats reconciliation and
certification (strongly fair, over all processes together, since two callers may
undo each other's comparison); and outages end: from some time on, a
reconciliation or a certification raises only where its next step is refused.
Nobody is obliged to reserve, dispatch or stop.  In `LiveSpec` of
`SlotTransition` calls end too, an operator removes an orphaned lock file (weakly
fair: the code never breaks one and asks for exactly this) and repeats a
restoration until it succeeds (strongly fair, since others may hold the lock in
between).  Nobody has to start, propose or commit an update.

## Proofs

Every invariant, every safety property of a step and every refinement that a
passing run checks is proved for every value of the constants that satisfies the
assumptions, and `PROJECT.json` names the theorem of each.  One
refinement needs a hypothesis: `ServiceIsOneShotCas`, and `PlansAreOneShotCas` of the
plan calls, speak of a service behind an exclusive gate (`GateIsExclusive`, a condition
on the constants), which is how the run `plan_service` sets them.

- `CheckpointStore_proofs`.  `AnsweredOnce` rests on `AnsweredInv`: a statement
  lies between its challenge and now, and its nonce is on record for as long as
  rows are kept.  A challenge that is still fresh is younger than the retention,
  so its nonce is found: this is where `Fresh <= Retention` is used.
  `StatementsMerge` adds `HeadInv` (the head has passed every statement or is
  it), `ObservationsFresh` adds `QueryInv` (challenges of open queries are
  distinct and were sent, so no earlier reply matches).  `WitnessReadsFreshHead`
  proves the refinement: a query has looked as soon as a reply to its challenge
  exists, and by `AnsweredOnce` there is only one.
- `WitnessService_proofs`.  `AttemptInv`: a process past the claim is the only
  one, and the ledger says a dispatch may have been sent.  `RecordInv` carries
  each inspector's snapshot to its write.
  Its second part adds `GateInv`: behind an exclusive gate a writer
  exists only while the gate says it may; a joined certifier has no writer left;
  the approval stays valid because nobody else commits.  From it the two gate
  promises, and the refinement of `OneShotCas`.
- `PlanService_proofs`.  `ServiceStep` shows that each step of a plan call is a
  step of `WitnessService` or changes none of its rows, so every theorem above
  holds of the calls (`PlansAreServiceRuns`), the refinement too (`PlansAreOneShotCas`).  `AbandonedStaysFenced` needs
  `AdmissionInv`: while an admission is under way it is the only one and none has
  ended.  `RecoveryStands` needs `Knows`, what a reconciliation may rely on once
  it holds a certificate, and `SettledStays`: behind a certified gate no claim is
  left, and a slower inspection either writes what the certificate says or is
  overtaken, because a record of the successor is final and a certified prior head
  leaves no inspector that saw the successor.

- `SlotTransition_proofs`.  `LocksHeld` ties each lock to the calls that use it,
  so that only one call at a time is past the selection's lock and one per
  journal (`Exclusive`).  `Knows` says what a call may still rely on between its
  checks and each of its writes; `StillKnows` that nobody else's step spoils it.
  `SelectionInv` and `ProposalInv` say how pointer, capsule, proposals and head
  agree.  None of the properties is inductive: that a proposal pins both sides
  needs to know that an undo past its interlock has no proposal to fear, which
  is `UndoKnows` under the selection's lock.  `SwitchIsReversible` maps the
  capsule's write to `Start`, its removal to `GiveUp`, the proposal to `Offer`.

- `PlanChain_proofs`.  Every step is one of five kinds: something outside, a
  reading, a write of a row, a call of the service, or a stutter.  `ChainInv`:
  whoever is about to write has found the chain before it whole and holds the
  lock, which makes `OneChain` inductive.  `ActInv`: a call past its claim is the
  only one of its stage and its act has not begun.  `SettledQuiet` is the heart:
  once an outcome is certified, is being certified, or was reported under the
  present fence, no call of that claim is left and the service has stopped.  With
  `FenceInv` (what an open transaction has read still holds under the fence it
  names) it gives the certificates and the reports.
  `UnsentIsAlone` shows that no act is under way while another is about to be
  begun, hence `ActsAsSeen`.  `ChainIsOneWay` maps the three claims to `Claim`,
  the calls of the service to `Do`, the two certificates and the reconciliation
  of the launch to `Settle`, and every other row to a stutter.

- `PdsShell_proofs`.  A behaviour is one family's, so each family has an
  invariant of its own, kept by its steps and left alone by the others.
  * Settings: `LaunchInv` says of a list that is on its way into the file what
    `SettingsNeverTorn` says of the file, and that what is in either was vouched for.
  * Bootstrap: `NoncesAreOwn`, that no two scripts and no two makings share a nonce,
    is what makes "the nonce in the sentinel is mine" mean "I made this directory";
    with `TargetsKept` it gives `EnvironmentsStand`.
  * Setups: `ApplyingRight` says that what a setup has written stands unless another
    program disturbed it, and that what it has yet to write is still allowed; its own
    writes block none of the rest, because the review compared the wishes with each
    other.  `CompletedStands` is this with nothing left to write.
  * Workspaces: `OneMoment` is the heart of `PublishedIsSnapshot`.  While a backup
    hashes its source again, file by file, there is one tree that was, with which the
    copy agrees in the files already hashed, and in those yet to be hashed wherever
    they still are what was copied.  The tree is that of the second walk; it serves
    because no content comes back.  From the same invariant `CustodyIsSnapshotStore`
    maps the publishing rename of a backup and of a restore to the steps of
    `SnapshotStore`, and everything in a staging directory to a stutter.
- `EvergreenSupply_proofs`.  One part at a time, as above.
  * Evidence: an answered challenge is not in the ledger for ever.  `LedgerRemembers`:
    it is there, or so old that its statement does not verify at any time the service's
    clock can still show; here `Retention >= Window + Skew` is used.  A second answer
    to it can therefore not overlap the first (`AnswersApart`), while signing fails and
    clocks are set in between.  `MomentFound` keeps the moment at which a review's reads
    were all true.
  * Composition: `PlanRight` bounds the rounds and says what a plan may have lost of
    its baseline on the way; that an accepted plan is closed is the last round's own
    comparison.
  * Issuance: `PreparedAt(t)`.  There is one second `t` at which the review was
    prepared, and every ceremony that has come past its reading holds
    documents of that `t`, whatever others left or wrote by hand.
  * Catalog: `CallStands` (whoever is past the call has the lock, and will write
    nothing older than the cache) and `ShownStands` (what was shown under the pinned
    keyring is in the cache or older).
  * Audits: `FirstHalf` and `SecondHalf` around the instant between the two
    observations.  Before it, what was seen is there or its file was written to since;
    after it, what was seen was there then or is not there now, so that the second
    reading, which finds it, proves that it was.  `LocksAre` adds the journal and the
    capsule for the audits that lock.  `ReportIs` is this at the end of a program.
    The facts about the programs, which are finite tables, are computed by cases; the
    closure over their steps is a finite iteration (`UpTo`), not an induction.
  * Preparation: `OwnIs`, that a stage is its maker's until it is armed; `LockIs`,
    that under the lock the selection stays what the plan was made for; `DraftIs`, that
    a draft the witness would still take is that of the pending switch, or its journal
    says undone.  The last one is why no update is lost.
  * `SupplyTyped` needs two bounds that no part's types give: who holds each lock, and
    that the witness moves at most once for each transaction that was drafted
    (`Passed`, a pigeonhole argument over the finite set of candidates).

Assumptions on constants, each named in the module that declares them:

- what the parsers and constructors check: `ReceiptAssumption`, `RequestAssumption`,
  `SlotAssumption` (a transaction is not the installed one), `ReviewAssumption`
  (finite catalogs of known components), `CatalogAssumption`, `IssuanceAssumption`
  (the three roles have three keys), `AuditAssumption` (a foreign content is not one
  that the signed inputs allow), `PreparationAssumption` (the baseline is none of the
  candidates), `ClassroomAssumption` (a pack does not clash with itself),
  `BootstrapAssumption` (a directory found at the start was made by no script),
  `LaunchAssumption` and `WorkspaceAssumption`;
- relations between the constants of the code: `WindowAssumption` (120 s, 300 s,
  60 s, 300 s) and `ServiceAssumption` (a challenge is kept for longer than its
  statement verifies);
- that a value which stands for none ("no row", "no head", "no file", "idle",
  "free", "dead", `Nobody`, `NoAudit`, `Nothing`) is not a record: TLC's model values
  are so by their kind, a prover has to be told.

Digests are injective and the server's clock does not go back; the store's
documentation asks for a monotonic UTC clock.

Only model-checked are the liveness properties, `DispatchIsReconciled`,
`StopIsCertified` and `SwitchIsUndone`: they rest on fairness, whose `ENABLED` the
prover does not handle.  The findings are counterexamples and need no proof.

## Findings

`request_stop` (`evergreen_witness_writer_quiescence.py:311-324`) reads the
ledger and then writes `STOP_REQUESTED_NO_DISPATCH` in another transaction that
compares only the gate's row.  A direct `ledger.dispatch_once` between them is
recorded as "no dispatch", which the comment above the code says must never
happen.  Behind an exclusive gate the property holds (`NoDispatchIsTrue`, a part of
`GateTellsTruth`).

`draft_witness_bound_successor_receipt` (`evergreen_successor_receipt_draft.py:289`)
requires a pending capsule and the candidate as the selected pointer, and then
verifies the previous slot with a function that refuses a pending capsule and
compares the selected pointer with the previous slot.  With every documented
precondition met it still raises, so no draft can be made; its tests replace
that verification.  The receipts of a proposal can today come from a caller
only.

`apply_setup_plan` (`classroom_apply.py:787`) lists a roster among the writes of a
failed setup only after its verification, and every other write before it.  A
roster that is committed and then found changed is missing from the report.

These behaviours are worth knowing and contradict no document, or only by a word:

- The unbound switch reads the journal without its lock, so that such a
  transaction can be selected just after its recovery was required;
  `RecoveredStaysDown` therefore speaks of bound transactions.
- `record_safe_disposition` on a transaction with a proposal makes every later
  forward inspection refuse, while the interlock refuses the rollback: the two
  files remain, for a person to read.
- The reservation of an activation asks for the heartbeat that the health row
  recorded, and there is one health row: the chain ends only for a process that
  does not beat between the two methods.
- A plan admission that raised after `gate.admit` can still be dispatched:
  `dispatch_admitted_plan_successor_once` rebuilds the expected admission from the
  review and trusts the two rows and a renewed approval.
- The closure of a composition review can lower the version of a module, where its
  docstring (`evergreen_composition_review_plan.py:247`) says "added or upgraded";
  and what one round adds remains although a later round no longer needs it.
- `_review` of an issuance compares files that it reads again and signs the bytes
  that it read first.  What is signed is verified against the wheel afterwards.
- A killed save of the catalog leaves its lock; a killed preparation or issuance
  leaves a directory that can never be completed; a killed installation leaves a
  stage that nobody goes on with.  Each needs a person.
- The bootstrap marks an environment before it takes its sentinel away.  A maker
  that fails in between (its sentinel changed, or Ctrl-C) withdraws an environment
  that another run may already keep; `withdrawn` leaves these behaviours out.
- `python -m venv` makes a target again that was deleted under its maker, and a kept
  one is filled from a plan that nobody compares again: `NothingReplaced` and
  `RerunHasNothingToDo` speak of paths that nobody meddled with, `OwnRemovedOnly`
  of all.  A killed run leaves an unmarked environment that every plan refuses.
- `docs/operations/windows-bootstrap.md` says that the suite wheel is installed
  without dependency resolution; the script resolves its third-party dependencies.
- The client of a recovery observation reads its clock once, before it asks: an
  answer that is signed in the next second is refused.

## Not modelled

`PROJECT.json` gives the reason for each component.  Left out are: the HTTP(S)
transport of the witness and its acceptance programs, which are adapters; the
local compatibility observation, the doctor, module operations and the
compatibility tables, which project what they read and keep nothing; the signed
lab launch, one guarded process over verified bytes; the Windows installer, whose
modules classify access lists, services and records and write nothing (its
compare-and-set proposal is a record for somebody else to apply); and the native
probes and release scripts, which run outside of the program.
Within modelled components, parsers and encoders are the records they read, and
command lines are the calls they make.

## Plan

Done: the witness, its service and its plan calls; the local transition; the
chain of plan records; the desk commands; the supply of an update from its
issuance to the evidence for its recovery; the bootstrap; proofs of the safety of all
of them.  What remains:

1. Compatibility decisions as operators against a reference definition.
