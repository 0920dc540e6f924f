---------------------------- MODULE ReleaseIssuance ----------------------------
(***************************************************************************)
(* How the first signed documents of a module come to be: keys are made    *)
(* offline, the documents are prepared for review in a new directory, and  *)
(* a ceremony signs what was reviewed and verifies what it signed.  Every  *)
(* file is made once and never replaced; a program may be killed between   *)
(* two files, and the files of the review may be edited by hand.           *)
(***************************************************************************)
EXTENDS ReleaseCatalog, Sequences, SequencesExt

CONSTANTS
  Role,            \* the three keys: root, module, integrator
  Ceremony,        \* programs that prepare or issue
  Module,          \* the module that is issued
  Source,          \* its repository and distribution
  Wheel,           \* the release that its official wheel makes
  OtherReleases,   \* releases that somebody may write in their place
  Validity,        \* how long the documents are valid: thirty days
  MaxByHand,       \* bound on the edits of the review directory
  MaxIssues        \* bound on the programs that are started

ASSUME IssuanceAssumption ==
  /\ Role = [root |-> Role.root, module |-> Role.module, integrator |-> Role.integrator]
  /\ Cardinality({Role.root, Role.module, Role.integrator}) = 3
  /\ Validity \in Nat /\ MaxByHand \in Nat /\ MaxIssues \in Nat

VARIABLES
  keyfile,         \* per key: the files there are of it, in the order made
  review,          \* the review directory, as ".", and the files in it
  ceremonies,      \* per ceremony: where it is and what it holds
  byHand,          \* edits made so far
  issues           \* programs started so far

issuanceVars == <<keyfile, review, ceremonies, byHand, issues>>

Keys == {Role.root, Role.module, Role.integrator}

\* The order in which the files are made.
ReviewNames == <<"policy", "registry", "module", "summary">>
SignedNames == <<"registryEnvelope", "moduleEnvelope", "result">>

Has(name) == name \in DOMAIN review

WithFile(name, content) ==
  [n \in DOMAIN review \cup {name} |-> IF n = name THEN content ELSE review[n]]

-----------------------------------------------------------------------------
(* What plan_documents derives from the wheel, the keys and the time.      *)

Policy == [revision |-> 1, keys |-> Keys, roots |-> {Role.root}, threshold |-> 1]

\* A faulty variant: every key of the ceremony may sign for the module.
RegistryOfAnyKey(now) ==
  [kind |-> "registry", id |-> "suite", source |-> Source, revision |-> 1,
   issued |-> Truncated(now), expires |-> Truncated(now) + Validity,
   body |-> [modules |-> [m \in {Module} |->
                            [source |-> Source, keys |-> Keys \ {Role.root}]],
             integrators |-> {}],
   signers |-> {}]

PlannedRegistry(now) ==
  [kind |-> "registry", id |-> "suite", source |-> Source, revision |-> 1,
   issued |-> Truncated(now), expires |-> Truncated(now) + Validity,
   body |-> [modules |-> [m \in {Module} |-> [source |-> Source, keys |-> {Role.module}]],
             integrators |-> {Role.integrator}],
   signers |-> {}]

PlannedModule(now, releases) ==
  [kind |-> "module_release", id |-> Module, source |-> Source, revision |-> 1,
   issued |-> Truncated(now), expires |-> Truncated(now) + Validity,
   body |-> releases, signers |-> {}]

Planned(now) ==
  [policy |-> Policy, registry |-> PlannedRegistry(now),
   module |-> PlannedModule(now, Wheel), summary |-> "review"]

-----------------------------------------------------------------------------
IssuanceInit ==
  /\ keyfile = [k \in Keys |-> <<>>]
  /\ review = [n \in {} |-> Absent]
  /\ ceremonies = [c \in Ceremony |-> Absent]
  /\ byHand = 0
  /\ issues = 0

\* keygen makes the private file and then the public one, both new.  When it
\* is killed between the two, the key has no public identity for good.
MakePrivateKey(k) ==
  /\ keyfile[k] = <<>>
  /\ keyfile' = [keyfile EXCEPT ![k] = <<"private">>]
  /\ UNCHANGED <<review, ceremonies, byHand, issues>>

\* A faulty variant: the public file does not ask for the private one.
MakePublicKeyFirst(k) ==
  /\ keyfile[k] \in {<<>>, <<"private">>}
  /\ keyfile' = [keyfile EXCEPT ![k] = Append(@, "public")]
  /\ UNCHANGED <<review, ceremonies, byHand, issues>>

MakePublicKey(k) ==
  /\ keyfile[k] = <<"private">>
  /\ keyfile' = [keyfile EXCEPT ![k] = <<"private", "public">>]
  /\ UNCHANGED <<review, ceremonies, byHand, issues>>

\* prepare: all three identities are read, and the directory must be new.
Prepare(c) ==
  /\ ceremonies[c] = Absent /\ issues < MaxIssues
  /\ \A k \in Keys : Contains(keyfile[k], "public")
  /\ ~Has(".")
  /\ review' = WithFile(".", "directory")
  /\ ceremonies' = [ceremonies EXCEPT ![c] =
                     [step |-> "preparing", left |-> ReviewNames, files |-> Planned(clock)]]
  /\ issues' = issues + 1
  /\ UNCHANGED <<keyfile, byHand>>

\* issue: no signed output may be there.  _review reads what is to be signed,
\* and the policy that it reads must be the pinned one.
StartIssue(c) ==
  /\ ceremonies[c] = Absent /\ issues < MaxIssues
  /\ \A i \in 1..Len(ReviewNames) : Has(ReviewNames[i])
  /\ \A i \in 1..Len(SignedNames) : ~Has(SignedNames[i])
  /\ review["policy"] = Policy
  /\ ceremonies' = [ceremonies EXCEPT ![c] =
                     [step |-> "read", registry |-> review["registry"],
                      module |-> review["module"]]]
  /\ issues' = issues + 1
  /\ UNCHANGED <<keyfile, review, byHand>>

\* The documents are derived again, as of the time the registry bears, and
\* compared with the files, which are read once more for it.
CompareReview(c) ==
  /\ ceremonies[c] # Absent /\ ceremonies[c].step = "read"
  /\ LET expected == Planned(ceremonies[c].registry.issued)
     IN IF \A i \in 1..Len(ReviewNames) :
             review[ReviewNames[i]] = expected[ReviewNames[i]]
        THEN ceremonies' = [ceremonies EXCEPT ![c].step = "compared"]
        ELSE ceremonies' = [ceremonies EXCEPT ![c] = Absent]
  /\ UNCHANGED <<keyfile, review, byHand, issues>>

Signed(document, key) == [document EXCEPT !.signers = {key}]

\* verify_signed_release_wheel: the signatures, and the release of the wheel
\* that is signed; of others that are listed it says nothing.
SignedVerifies(registry, module, now) ==
  /\ VerifyRegistry(registry, Policy, now, {})
  /\ VerifyModule(module, registry, Policy, now, {})
  /\ \A v \in DOMAIN Wheel :
       v \in DOMAIN module.body /\ module.body[v] = Wheel[v] /\ ~module.body[v]

\* What was read first is signed, if both keys are at hand.
SignAndVerify(c) ==
  /\ ceremonies[c] # Absent /\ ceremonies[c].step = "compared"
  /\ LET registry == Signed(ceremonies[c].registry, Role.root)
         module == Signed(ceremonies[c].module, Role.module)
         outputs == [registryEnvelope |-> registry, moduleEnvelope |-> module,
                     result |-> [registry |-> registry, module |-> module]]
     IN IF SignedVerifies(registry, module, clock)
        THEN ceremonies' = [ceremonies EXCEPT ![c] =
                             [step |-> "issuing", left |-> SignedNames, files |-> outputs]]
        ELSE ceremonies' = [ceremonies EXCEPT ![c] = Absent]
  /\ UNCHANGED <<keyfile, review, byHand, issues>>

\* A ceremony that has made the first of what it has to make.
Onward(ceremony) ==
  IF Len(ceremony.left) = 1 THEN Absent ELSE [ceremony EXCEPT !.left = Tail(@)]

\* A faulty variant: a file that is there already is kept, and the rest made.
MakeMissingFile(c, name) ==
  /\ review' = IF Has(name) THEN review ELSE WithFile(name, ceremonies[c].files[name])
  /\ ceremonies' = [ceremonies EXCEPT ![c] = Onward(@)]

\* _new_file: the file must not be there, or the program ends.
MakeFile(c, name) ==
  IF Has(name)
  THEN /\ ceremonies' = [ceremonies EXCEPT ![c] = Absent]
       /\ UNCHANGED review
  ELSE /\ review' = WithFile(name, ceremonies[c].files[name])
       /\ ceremonies' = [ceremonies EXCEPT ![c] = Onward(@)]

MakeNextFile(c) ==
  /\ ceremonies[c] # Absent /\ ceremonies[c].step \in {"preparing", "issuing"}
  /\ MakeFile(c, Head(ceremonies[c].left))
  /\ UNCHANGED <<keyfile, byHand, issues>>

KillCeremony(c) ==
  /\ ceremonies[c] # Absent
  /\ ceremonies' = [ceremonies EXCEPT ![c] = Absent]
  /\ UNCHANGED <<keyfile, review, byHand, issues>>

\* Somebody writes other releases, or the first ones, into the review.
EditReview ==
  /\ byHand < MaxByHand /\ Has("module")
  /\ \E releases \in OtherReleases \cup {Wheel} :
       /\ releases # review["module"].body
       /\ review' = [review EXCEPT !["module"].body = releases]
  /\ byHand' = byHand + 1
  /\ UNCHANGED <<keyfile, ceremonies, issues>>

IssuanceStep ==
  \/ \E k \in Keys : MakePrivateKey(k) \/ MakePublicKey(k)
  \/ \E c \in Ceremony :
       \/ Prepare(c) \/ StartIssue(c) \/ CompareReview(c) \/ SignAndVerify(c)
       \/ MakeNextFile(c) \/ KillCeremony(c)
  \/ EditReview

IssuanceNext ==
  \/ IssuanceStep /\ UNCHANGED catalogVars
  \/ Tick /\ UNCHANGED issuanceVars

-----------------------------------------------------------------------------
IssuanceTypeOK ==
  /\ \A k \in Keys : IsPrefix(keyfile[k], <<"private", "public">>)
  /\ DOMAIN review \subseteq {"."} \cup Range(ReviewNames) \cup Range(SignedNames)
  /\ \A c \in Ceremony : ceremonies[c] # Absent =>
       ceremonies[c].step \in {"preparing", "read", "compared", "issuing"}
  /\ byHand \in 0..MaxByHand /\ issues \in 0..MaxIssues

\* Whatever is edited meanwhile and whoever issues at the same time, a result
\* that is written stands beside envelopes of one ceremony, which are the
\* ones it names and which verify under the reviewed policy, for the wheel
\* (issue_envelopes, main).
IssuedStandsTogether ==
  Has("result") =>
    /\ Has("registryEnvelope") /\ Has("moduleEnvelope")
    /\ review["result"].registry = review["registryEnvelope"]
    /\ review["result"].module = review["moduleEnvelope"]
    /\ SignedVerifies(review["registryEnvelope"], review["moduleEnvelope"],
                      review["registryEnvelope"].issued)

-----------------------------------------------------------------------------
(* The review of a first enrollment: an approval from elsewhere names the  *)
(* policy, its roots and the keys of the module.                           *)

Approval ==
  [policy |-> Policy, roots |-> {Role.root}, threshold |-> 1,
   moduleKeys |-> {Role.module}, minimumRevision |-> 1]

FirstRootReviewed(approval, policy, registry, module, now) ==
  /\ policy = approval.policy
  /\ policy.revision >= approval.minimumRevision
  /\ policy.roots = approval.roots /\ policy.threshold = approval.threshold
  /\ VerifyRegistry(registry, policy, now, {})
  /\ Module \in DOMAIN registry.body.modules
  /\ registry.body.modules[Module] = [source |-> Source, keys |-> approval.moduleKeys]
  /\ VerifyModule(module, registry, policy, now, {})
  /\ module.id = Module
  /\ \A v \in DOMAIN module.body : ~module.body[v]

\* What a ceremony issued from a review that nobody edited passes the review
\* of a first enrollment as long as its documents are valid: the two programs
\* derive the module's identity, keys and releases in ways that agree.
IssuedIsEnrollable ==
  Has("result") /\ byHand = 0 =>
    \A now \in 0..MaxClock :
      InWindow(review["moduleEnvelope"], now) =>
        FirstRootReviewed(Approval, review["policy"], review["registryEnvelope"],
                          review["moduleEnvelope"], now)

\* Both: whoever finds a result finds one whole release, and one that the other
\* program will enroll.
IssuedReleaseStands == IssuedStandsTogether /\ IssuedIsEnrollable
=============================================================================
