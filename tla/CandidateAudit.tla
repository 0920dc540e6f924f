----------------------------- MODULE CandidateAudit -----------------------------
(***************************************************************************)
(* The audits of a staged candidate.  None of them can lock the files that *)
(* it reads: wheels, the packages a pip run installed from them, the       *)
(* launchers and settings of the virtual environment, and its native       *)
(* programs.  So every audit observes the whole candidate twice, file by   *)
(* file, and reports it only if both observations agree.  Some of them run *)
(* the candidate's own code in between.                                    *)
(*                                                                         *)
(* catalog     inspect_catalog_bound_staged_bytes                          *)
(* journal     inspect_journal_bound_publisher_pip_candidate               *)
(* acceptance  accept_verified_candidate_runtime                           *)
(* contracts   accept_verified_candidate_public_contracts                  *)
(* publisher   accept_publisher_bound_candidate_public_contracts           *)
(* provider    probe_signed_operations_contract, and those of publication  *)
(*             and routing                                                 *)
(* witness     inspect_witness_pinned_selected_staged_bytes                *)
(***************************************************************************)
EXTENDS Naturals, Sequences, FiniteSets

CONSTANTS
  Auditor,         \* programs that audit
  AuditKind,       \* the kinds of audit that they make
  WheelFile, SiteFile, RuntimeFile, NativeFile,  \* the files of each sort
  Form,            \* per file: the contents that the signed inputs allow; a
                   \* path that must be free has its absence as its content
  Foreign,         \* any other content
  Composition,     \* what the signed inputs may describe
  MaxAltered,      \* bound on the files that are written to, each once
  MaxHead,         \* bound on the witness's head
  NoAudit          \* no audit, no lock, nothing reported

StagedFile == WheelFile \cup SiteFile \cup RuntimeFile \cup NativeFile

ASSUME AuditAssumption ==
  /\ AuditKind \subseteq {"catalog", "journal", "acceptance", "contracts", "publisher",
                   "provider", "witness"}
  /\ {} \notin {WheelFile, SiteFile, RuntimeFile, NativeFile}
  /\ \A f \in StagedFile : Foreign \notin Form[f]
  /\ NoAudit \notin Auditor /\ "dead" \notin Auditor \cup {NoAudit}
  /\ NoAudit \notin [content : [StagedFile -> {Foreign} \cup UNION {Form[f] : f \in StagedFile}],
                      selection : {1, 2}, head : 1..MaxHead,
                      journal : {"candidate_verified", "activation_armed"},
                      recovery : BOOLEAN]
  /\ MaxHead \in Nat \ {0}
  /\ \A c \in Composition : IsFiniteSet(c.wheels)

VARIABLES
  content,         \* per file: what is in it
  altered,         \* the files that somebody wrote to: each once at most
  selection,       \* the slot that is selected, 1 being the receipt's
  recovery,        \* is a recovery of the selection pending?
  head,            \* the witness's head, 1 being the receipt
  journal,         \* the phase of the update journal
  selectionLock,   \* the lock files: who made them, "dead" when that one
                   \* was killed, or NoAudit
  journalLock,
  audits,          \* per auditor: how far it is and what it saw
  reports          \* per auditor: what it reported last

auditVars == <<content, altered, selection, recovery, head, journal,
               selectionLock, journalLock, audits, reports>>
auditWorld == <<content, altered, selection, recovery, head, journal>>

-----------------------------------------------------------------------------
(* What the inputs describe: the wheels that are there, and what each says *)
(* that it requires; the roots and wheels of the signed lock; the edges    *)
(* that the prepared record has; the registered distributions, and the     *)
(* publishers' envelopes that were brought, are cached or revoke.          *)

\* _closure: breadth first from the roots, as far as the requirements lead.
Reached(c) ==
  LET after[n \in 0..Cardinality(c.wheels)] ==
        IF n = 0 THEN c.roots
        ELSE after[n - 1] \cup UNION {c.requires[w] : w \in after[n - 1] \cap c.wheels}
  IN after[Cardinality(c.wheels)]

\* A faulty variant: wheels that nothing requires are let in.
ClosedOrMore(c) == Reached(c) \subseteq c.wheels

\* inspect_closed_wheelhouse: every wheel is needed and none is missing.
ExactlyClosed(c) == Reached(c) = c.wheels

\* verify_publisher_bound_composition: every root is registered, and every
\* registered distribution brings its publisher's envelope, and no other.
PublisherBound(c) ==
  /\ c.roots \subseteq c.registered
  /\ c.envelopes = c.wheels \cap c.registered
  /\ c.envelopes # {}
  /\ c.envelopes \cap c.revoked = {}

\* verify_signed_locked_wheelhouse: the wheels are those that the roots locked.
LockMatches(c) == c.wheels = c.locked

\* verify_prepared_record_against_wheelhouse: the record is made once more
\* from the wheels, and is the same.
RecordMatches(c) ==
  c.edges = UNION {{<<w, r>> : r \in c.requires[w]} : w \in c.wheels}

CatalogBound(c) == c.envelopes \subseteq c.cached

Coherent(c, kind) ==
  /\ LockMatches(c) /\ ExactlyClosed(c) /\ RecordMatches(c)
  /\ kind \notin {"acceptance", "contracts"} => PublisherBound(c)
  /\ kind \in {"catalog", "witness"} => CatalogBound(c)

-----------------------------------------------------------------------------
(* The steps of each audit, in order.                                      *)

Pass(files) == [do |-> "read", files |-> files]
Step(name) == [do |-> name, files |-> {}]

\* audit_publisher_bound_pip_candidate: publishers, layout, environment and
\* publishers again.
PublisherPasses ==
  <<Pass(WheelFile), Pass(RuntimeFile), Pass(SiteFile), Pass(RuntimeFile), Pass(WheelFile)>>

\* verify_signed_staged_native_evidence
NativePasses == <<Pass(WheelFile), Pass(RuntimeFile), Pass(NativeFile)>>

Observation == PublisherPasses \o NativePasses

\* _observe of the public contracts: the whole installation as well.
ContractPasses == NativePasses \o <<Pass(WheelFile), Pass(RuntimeFile), Pass(SiteFile)>>

\* inspect_authenticated_provider_declaration: the wheel's declaration and
\* the installed one, between two audits by publisher.
DeclarationPasses ==
  PublisherPasses \o <<Pass(WheelFile), Pass(SiteFile)>> \o PublisherPasses

\* probe_signed_provider_import: it runs the candidate in its middle.
ImportPasses == DeclarationPasses \o NativePasses

Twice(passes) == passes \o <<Step("again")>> \o passes
AroundProbe(passes) == passes \o <<Step("again"), Step("probe")>> \o passes

\* Under the locks of the selection and of the journal.
Locked(steps) ==
  <<Step("lock selection"), Step("lock journal"), Step("recovery"), Step("journal")>>
    \o steps

CatalogAudit == Twice(Observation)

JournalAudit == Locked(Twice(Observation)) \o <<Step("journal"), Step("recovery")>>

AcceptanceAudit == Locked(AroundProbe(NativePasses))

PublicContracts ==
  Locked(AroundProbe(ContractPasses)) \o <<Step("journal"), Step("recovery"), Step("unlock")>>

\* The publishers' envelopes are verified before and after.
PublisherAudit ==
  <<Step("journal"), Pass(WheelFile)>> \o PublicContracts \o <<Pass(WheelFile)>>

\* The provider is imported, probed, and imported again.
ProviderAudit ==
  ImportPasses \o <<Step("probe")>> \o AroundProbe(ImportPasses)
    \o <<Step("probe")>> \o ImportPasses

WitnessAudit ==
  <<Step("selection"), Step("head")>> \o Twice(Observation) \o PublisherPasses
    \o <<Step("selection"), Step("head"), Step("selection")>>

Programs ==
  [catalog |-> CatalogAudit, journal |-> JournalAudit, acceptance |-> AcceptanceAudit,
   contracts |-> PublicContracts, publisher |-> PublisherAudit,
   provider |-> ProviderAudit, witness |-> WitnessAudit]

\* A faulty variant: one observation, and the result of it.
OncePrograms ==
  [kind \in DOMAIN Programs |->
     SelectSeq(Programs[kind], LAMBDA s : s.do # "read")
       \o (IF kind = "acceptance" THEN NativePasses ELSE Observation)]

ProgramOnce(kind) == OncePrograms[kind]

\* A faulty variant: nothing is looked up again after the observations.
UncheckedPrograms ==
  [kind \in DOMAIN Programs |->
     LET steps == Programs[kind]
         reads == {n \in DOMAIN steps : steps[n].do = "read"}
     IN SubSeq(steps, 1, CHOOSE n \in reads : \A m \in reads : m <= n)]

ProgramUnchecked(kind) == UncheckedPrograms[kind]

Program(kind) == Programs[kind]

-----------------------------------------------------------------------------
\* One file at most is wrong to begin with (a bound).
AuditInit ==
  /\ content \in {g \in [StagedFile -> {Foreign} \cup UNION {Form[f] : f \in StagedFile}] :
                   /\ \A f \in StagedFile : g[f] \in Form[f] \cup {Foreign}
                   /\ Cardinality({f \in StagedFile : g[f] = Foreign}) <= 1}
  /\ altered = {}
  /\ selection \in {1, 2}
  /\ recovery = FALSE
  /\ head = 1
  /\ journal = "candidate_verified"
  /\ selectionLock = NoAudit
  /\ journalLock = NoAudit
  /\ audits = [a \in Auditor |-> NoAudit]
  /\ reports = [a \in Auditor |-> NoAudit]

Running(a) == audits[a] # NoAudit
Current(a) == Program(audits[a].kind)[audits[a].at]
Doing(a, name) == Running(a) /\ audits[a].at <= Len(Program(audits[a].kind))
                             /\ Current(a).do = name

StartAudit(a) ==
  /\ ~Running(a)
  /\ \E kind \in AuditKind :
       audits' = [audits EXCEPT ![a] =
                   [kind |-> kind, at |-> 1, left |-> Program(kind)[1].files,
                    seen |-> <<>>, between |-> NoAudit]]
  /\ reports' = [reports EXCEPT ![a] = NoAudit]
  /\ UNCHANGED <<auditWorld, selectionLock, journalLock>>

\* A faulty variant: what is left to read is not filled for the next pass.
AdvancedEmpty(audit) == [audit EXCEPT !.at = @ + 1, !.left = {}]

\* The audit as it is one step further on.
Advanced(audit) ==
  LET program == Program(audit.kind)
  IN [audit EXCEPT !.at = @ + 1,
                   !.left = IF audit.at = Len(program) THEN {}
                            ELSE program[audit.at + 1].files]

\* finally: what the audit locked is unlocked, however it ends.
End(a) ==
  /\ audits' = [audits EXCEPT ![a] = NoAudit]
  /\ selectionLock' = IF selectionLock = a THEN NoAudit ELSE selectionLock
  /\ journalLock' = IF journalLock = a THEN NoAudit ELSE journalLock

GoOn(a) ==
  /\ audits' = [audits EXCEPT ![a] = Advanced(@)]
  /\ UNCHANGED <<selectionLock, journalLock>>

\* A wheel has the size and digest that its pin has.
WheelMatchesPin(f) == f \in WheelFile => content[f] \in Form[f]

\* An installed file is as the RECORD of its wheel has it.
SiteMatchesRecord(f) == f \in SiteFile => content[f] \in Form[f]

\* The settings, the launchers and the tree of the environment.
RuntimeAsPrepared(f) == f \in RuntimeFile => content[f] \in Form[f]

\* A native program has the digest in its signed evidence.
NativeMatchesEvidence(f) == f \in NativeFile => content[f] \in Form[f]

\* A file is as the signed inputs have it, and as it was when last seen.
AsSigned(a, f) ==
  /\ WheelMatchesPin(f) /\ SiteMatchesRecord(f)
  /\ RuntimeAsPrepared(f) /\ NativeMatchesEvidence(f)
  /\ f \in DOMAIN audits[a].seen => audits[a].seen[f] = content[f]

ReadFile(a, f) ==
  /\ Doing(a, "read") /\ f \in audits[a].left
  /\ IF AsSigned(a, f)
     THEN LET seen == [g \in DOMAIN audits[a].seen \cup {f} |->
                         IF g = f THEN content[f] ELSE audits[a].seen[g]]
              read == [audits[a] EXCEPT !.seen = seen, !.left = @ \ {f}]
          IN /\ audits' = [audits EXCEPT ![a] =
                             IF read.left = {} THEN Advanced(read) ELSE read]
             /\ UNCHANGED <<selectionLock, journalLock>>
     ELSE End(a)
  /\ UNCHANGED <<auditWorld, reports>>

\* The first observation is over and the second begins.
BeginAgain(a) ==
  /\ Doing(a, "again")
  /\ audits' = [audits EXCEPT ![a] =
                 [Advanced(@) EXCEPT !.between =
                   [content |-> content, selection |-> selection, head |-> head,
                    journal |-> journal, recovery |-> recovery]]]
  /\ UNCHANGED <<auditWorld, selectionLock, journalLock, reports>>

\* The lock files of the selection and of the journal; one who finds a lock
\* gives up, and gives back what it has.
LockSelection(a) ==
  /\ Doing(a, "lock selection")
  /\ IF selectionLock = NoAudit
     THEN /\ selectionLock' = a
          /\ audits' = [audits EXCEPT ![a] = Advanced(@)]
          /\ UNCHANGED journalLock
     ELSE End(a)
  /\ UNCHANGED <<auditWorld, reports>>

LockJournal(a) ==
  /\ Doing(a, "lock journal")
  /\ IF journalLock = NoAudit
     THEN /\ journalLock' = a
          /\ audits' = [audits EXCEPT ![a] = Advanced(@)]
          /\ UNCHANGED selectionLock
     ELSE End(a)
  /\ UNCHANGED <<auditWorld, reports>>

CheckRecovery(a) ==
  /\ Doing(a, "recovery")
  /\ IF recovery THEN End(a) ELSE GoOn(a)
  /\ UNCHANGED <<auditWorld, reports>>

CheckJournal(a) ==
  /\ Doing(a, "journal")
  /\ IF journal = "candidate_verified" THEN GoOn(a) ELSE End(a)
  /\ UNCHANGED <<auditWorld, reports>>

CheckSelection(a) ==
  /\ Doing(a, "selection")
  /\ IF selection = 1 THEN GoOn(a) ELSE End(a)
  /\ UNCHANGED <<auditWorld, reports>>

\* query_checkpoint_witness: a signed head that is the receipt, at the same
\* revision, or no answer.
QueryHead(a) ==
  /\ Doing(a, "head")
  /\ \/ head = 1 /\ GoOn(a)
     \/ End(a)
  /\ UNCHANGED <<auditWorld, reports>>

\* The public contracts give their locks back before the publishers are
\* verified once more.
UnlockBoth(a) ==
  /\ Doing(a, "unlock")
  /\ audits' = [audits EXCEPT ![a] = Advanced(@)]
  /\ selectionLock' = NoAudit /\ journalLock' = NoAudit
  /\ UNCHANGED <<auditWorld, reports>>

\* The candidate's own interpreter runs; when it fails, is late or leaves a
\* trace, the candidate is observed once more all the same and is refused.
ProbeRuntime(a) ==
  /\ Doing(a, "probe")
  /\ \/ GoOn(a)
     \/ End(a)
  /\ UNCHANGED <<auditWorld, reports>>

\* What the signed inputs describe is looked at in memory, with the first
\* observation; it is chosen here because no other step depends on it.
ReportAudit(a) ==
  /\ Running(a) /\ audits[a].at = Len(Program(audits[a].kind)) + 1
  /\ \E c \in Composition :
       /\ Coherent(c, audits[a].kind)
       /\ reports' = [reports EXCEPT ![a] =
                       [kind |-> audits[a].kind, composition |-> c,
                        seen |-> audits[a].seen, between |-> audits[a].between]]
  /\ End(a)
  /\ UNCHANGED auditWorld

\* A killed audit leaves its lock files, which nobody breaks.
KillAudit(a) ==
  /\ Running(a)
  /\ audits' = [audits EXCEPT ![a] = NoAudit]
  /\ selectionLock' = IF selectionLock = a THEN "dead" ELSE selectionLock
  /\ journalLock' = IF journalLock = a THEN "dead" ELSE journalLock
  /\ UNCHANGED <<auditWorld, reports>>

\* A person removes the lock files of a dead program.
RemoveDeadLocks ==
  /\ "dead" \in {selectionLock, journalLock}
  /\ selectionLock' = IF selectionLock = "dead" THEN NoAudit ELSE selectionLock
  /\ journalLock' = IF journalLock = "dead" THEN NoAudit ELSE journalLock
  /\ UNCHANGED <<auditWorld, audits, reports>>

AuditStep(a) ==
  \/ StartAudit(a) \/ BeginAgain(a) \/ LockSelection(a) \/ LockJournal(a)
  \/ CheckRecovery(a) \/ CheckJournal(a) \/ CheckSelection(a) \/ QueryHead(a)
  \/ UnlockBoth(a) \/ ProbeRuntime(a) \/ ReportAudit(a) \/ KillAudit(a)
  \/ \E f \in StagedFile : ReadFile(a, f)

\* Somebody, perhaps an installer, writes to a file, without any lock.
Alter(f) ==
  /\ f \notin altered /\ Cardinality(altered) < MaxAltered
  /\ \E c \in (Form[f] \cup {Foreign}) \ {content[f]} :
       content' = [content EXCEPT ![f] = c]
  /\ altered' = altered \cup {f}
  /\ UNCHANGED <<selection, recovery, head, journal, selectionLock, journalLock,
                 audits, reports>>

\* A switch of the slot, or its completion: under the lock of the selection.
SwitchSlot ==
  /\ selectionLock = NoAudit /\ ~recovery
  /\ selection = 1
  /\ selection' = 2 /\ recovery' = TRUE
  /\ UNCHANGED <<content, altered, head, journal, selectionLock, journalLock,
                 audits, reports>>

\* An update goes on under the lock of its journal.
AdvanceJournal ==
  /\ journalLock = NoAudit
  /\ journal = "candidate_verified"
  /\ journal' = "activation_armed"
  /\ UNCHANGED <<content, altered, selection, recovery, head, selectionLock,
                 journalLock, audits, reports>>

CommitHead ==
  /\ head < MaxHead
  /\ head' = head + 1
  /\ UNCHANGED <<content, altered, selection, recovery, journal, selectionLock,
                 journalLock, audits, reports>>

AuditNext ==
  \/ \E a \in Auditor : AuditStep(a)
  \/ \E f \in StagedFile : Alter(f)
  \/ SwitchSlot \/ AdvanceJournal \/ CommitHead \/ RemoveDeadLocks

AuditSpec == AuditInit /\ [][AuditNext]_auditVars

-----------------------------------------------------------------------------
AuditTypeOK ==
  /\ \A f \in StagedFile : content[f] \in Form[f] \cup {Foreign}
  /\ altered \subseteq StagedFile
  /\ head \in 1..MaxHead
  /\ selectionLock \in Auditor \cup {NoAudit, "dead"}
  /\ journalLock \in Auditor \cup {NoAudit, "dead"}
  /\ \A a \in Auditor : Running(a) =>
       /\ audits[a].kind \in AuditKind
       /\ audits[a].at \in 1..Len(Program(audits[a].kind)) + 1
       /\ DOMAIN audits[a].seen \subseteq StagedFile
       /\ Doing(a, "read") => audits[a].left # {}

\* What is reported was the whole candidate at one moment of the audit,
\* between its observations, although every file was read at another moment
\* and anybody may write to each file once meanwhile.
ReportedAtOneMoment ==
  \A a \in Auditor : reports[a] # NoAudit =>
    /\ reports[a].between # NoAudit
    /\ \A f \in DOMAIN reports[a].seen :
         /\ reports[a].seen[f] = reports[a].between.content[f]
         /\ reports[a].seen[f] \in Form[f]

\* At that same moment the receipt's slot was selected and the receipt was
\* the witness's head, or the journal had the unarmed candidate and no
\* recovery was pending: whichever of them the audit asks for.
ReportedInItsPlace ==
  \A a \in Auditor : reports[a] # NoAudit =>
    LET then == reports[a].between
    IN /\ reports[a].kind = "witness" => then.selection = 1 /\ then.head = 1
       /\ reports[a].kind \in {"journal", "acceptance", "contracts", "publisher"} =>
            then.journal = "candidate_verified" /\ ~then.recovery

\* Every package of a reported candidate is needed by a root, every one that
\* a root needs is there, and who is registered vouched for its own: there is
\* no smaller set of wheels closed under what the prepared record says that
\* they require (_closure, verify_publisher_bound_composition).
EveryPackageVouchedFor ==
  \A a \in Auditor : 
    reports[a] # NoAudit /\ reports[a].kind \notin {"acceptance", "contracts"} =>
    LET c == reports[a].composition
        ClosedUnder(wheels) == \A e \in c.edges : e[1] \in wheels => e[2] \in wheels
    IN /\ ClosedUnder(c.locked)
       /\ \A s \in SUBSET c.locked : c.roots \subseteq s /\ ClosedUnder(s) => s = c.locked
       /\ \A w \in c.locked : w \in c.registered => w \in c.envelopes \ c.revoked

\* All three: a report is of one candidate, at one moment, in its place, and of
\* no package that nobody answers for.
AuditStands == ReportedAtOneMoment /\ ReportedInItsPlace /\ EveryPackageVouchedFor
=============================================================================
