--------------------------- MODULE RecoveryEvidence ---------------------------
(***************************************************************************)
(* The evidence for one successor that the witness has signed and that the *)
(* installation has not finished: a reviewer asks the recovery service,    *)
(* through HTTPS, for a statement that its writers have stopped, then      *)
(* reads the local files, the signed head and the installed bytes, several *)
(* times over, and reports.                                                *)
(*                                                                         *)
(* The service answers a challenge of 32 random bytes, here the review it  *)
(* was made for.  Its workers read a clock, ask the gate, reserve the      *)
(* challenge in a ledger they share and only then sign.  Requests may be   *)
(* delivered again and answers late or to anybody; the service's clock may *)
(* be set.  The reviewer's clock is right and is read once, at its start.  *)
(*                                                                         *)
(* A review reads and writes nothing; nothing waits for it.  The witness,  *)
(* the gate, the bytes and whoever finishes the update are as they please. *)
(***************************************************************************)
EXTENDS Naturals, Sequences

CONSTANTS
  MaxReviews,      \* bound: reviews, each with a challenge of its own
  Worker,          \* the service's workers, which share a ledger
  Window,          \* for how many seconds a statement verifies
  Skew,            \* how late a worker may sign
  Retention,       \* for how long the ledger keeps a challenge
  Budget,          \* how long a review may take
  MaxSecond,       \* bound: the last second of any clock
  MaxUpsets,       \* bound: the service's clock is set once, or the candidate's
                   \* bytes change so often
  NoStatement      \* no statement, no lock, no work

ASSUME ServiceAssumption ==
  /\ MaxReviews \in Nat /\ Window \in Nat \ {0} /\ Skew \in Nat /\ Budget \in Nat
  /\ MaxSecond \in Nat
  /\ Retention \in Nat /\ Retention >= Window + Skew

\* A review, and the challenge that it makes.
Reviewer == 1..MaxReviews

VARIABLES
  gate,            \* the writers: "sending", "stopped_prior", "stopped_next"
  signedHead,      \* the witness's head: "prior", "next", or a "later" one
  unfinished,      \* proposal, capsule, pointer and journal await the recovery
  sound,           \* the candidate's bytes are those its evidence was signed for
  second,          \* the time, and what the service's clock says
  serviceSecond,
  upsets,          \* how much of MaxUpsets is used
  claims,          \* the ledger: the second at which a challenge was reserved
  latest,          \* and the latest second it has seen
  answers,         \* statements signed for a challenge, in order
  workers,         \* what each worker is at
  reviews,         \* what each reviewer is at
  softwareHeld,    \* the lock on the software root
  stood            \* the reviews during which, at one moment, all was well

serviceVars  == <<serviceSecond, claims, latest, answers, workers>>
outsideVars  == <<gate, signedHead, unfinished, sound, second, upsets>>
evidenceVars == <<serviceVars, outsideVars, reviews, softwareHeld, stood>>

-----------------------------------------------------------------------------
(* The service: handle_service_recovery_observation and the nonce signer.  *)

EvidenceInit ==
  /\ gate = "sending" /\ signedHead = "prior"
  /\ unfinished = TRUE /\ sound = TRUE /\ upsets = 0
  /\ second = 0 /\ serviceSecond = 0
  /\ claims = << >> /\ latest = 0
  /\ answers = [r \in Reviewer |-> << >>]
  /\ workers = [w \in Worker |-> NoStatement]
  /\ reviews = [r \in Reviewer |->
       [at |-> "idle", since |-> 0, step |-> 1, statement |-> NoStatement]]
  /\ softwareHeld = NoStatement
  /\ stood = {}

Work(w, new) == workers' = [workers EXCEPT ![w] = new]
ServiceReads == UNCHANGED <<serviceSecond, claims, latest, answers>>
ServiceOnly  == UNCHANGED <<outsideVars, reviews, softwareHeld>>

UnderWay == {r \in Reviewer : reviews[r].at \in {"asked", "reviewing"}}

\* Bound: one review comes to its reads, after others that were refused
\* without, and ends the behaviour.  Reads leave nothing behind for a next
\* review, and what the service does meanwhile it might as well have done
\* before, for neither sees the other.
NoneHasRead == \A r \in Reviewer : reviews[r].at \in {"idle", "asked", "refused"}

Reading == \E r \in Reviewer : reviews[r].at = "reviewing"

\* The reviews that have sent their request.
Begun == {r \in Reviewer : reviews[r].at # "idle"}

\* A request may arrive at any time once it was sent, and more than once; its
\* second is the one in which it arrives.
TakeRequest(w, r) ==
  /\ workers[w] = NoStatement
  /\ r \in Begun
  /\ Work(w, [challenge |-> r, issued |-> serviceSecond, at |-> "taken", begun |-> {}])
  /\ ServiceReads /\ ServiceOnly

\* Then the gate is observed, which must have seen the writers stop with the
\* successor signed.
ObserveWriters(w) ==
  /\ workers[w] # NoStatement /\ workers[w].at = "taken"
  /\ gate = "stopped_next"
  /\ Work(w, [workers[w] EXCEPT !.at = "observed", !.begun = Begun])
  /\ ServiceReads /\ ServiceOnly

\* A faulty variant: the ledger's own clock is not looked at.
InOrderOfWork(current) == current \in Nat

InOrder(current) == current >= latest

\* DurableRecoveryNonceSigner.__call__, up to the commit.  The new row goes
\* in before the old ones go out.
ReserveChallenge(w) ==
  LET r       == workers[w].challenge
      current == serviceSecond
      kept    == {q \in DOMAIN claims : claims[q] + Retention >= current}
  IN /\ workers[w] # NoStatement /\ workers[w].at = "observed"
     /\ workers[w].issued \in {n \in 0..current : current - n <= Skew}
     /\ InOrder(current)
     /\ r \notin DOMAIN claims
     /\ claims' = [q \in kept \cup {r} |-> IF q = r THEN current ELSE claims[q]]
     /\ latest' = current
     /\ Work(w, [workers[w] EXCEPT !.at = "reserved"])
     /\ UNCHANGED <<serviceSecond, answers>> /\ ServiceOnly

\* The signature is made after the commit; the reply is on its way.
SignStatement(w) ==
  /\ workers[w] # NoStatement /\ workers[w].at = "reserved"
  /\ answers' = [answers EXCEPT ![workers[w].challenge] =
       Append(@, [issued |-> workers[w].issued, begun |-> workers[w].begun])]
  /\ Work(w, NoStatement)
  /\ UNCHANGED <<serviceSecond, claims, latest>> /\ ServiceOnly

\* A refusal, a signer that fails, a worker that is killed: what was reserved
\* stays so.
DropWork(w) ==
  /\ workers[w] # NoStatement
  /\ Work(w, NoStatement)
  /\ ServiceReads /\ ServiceOnly

SetServiceClock ==
  /\ NoneHasRead /\ upsets = 0
  /\ serviceSecond' \in (0..MaxSecond) \ {serviceSecond}
  /\ upsets' = MaxUpsets
  /\ UNCHANGED <<gate, signedHead, unfinished, sound, second>>
  /\ UNCHANGED <<claims, latest, answers, workers, reviews, softwareHeld>>

-----------------------------------------------------------------------------
(* The review: inspect_plan_finalization_preflight and the chain of        *)
(* inspections under it.  Each entry is one step of its program.           *)

LocalRead  == <<"lock", "head", "leave">>
Requalify  == <<"lock", "bytes", "head", "bytes", "leave">>
ReviewSteps == LocalRead \o Requalify \o LocalRead \o <<"verify">> \o LocalRead

Reviewing(r, step) ==
  /\ reviews[r].at = "reviewing" /\ reviews[r].step <= Len(ReviewSteps)
  /\ ReviewSteps[reviews[r].step] = step

\* time.monotonic() - started, which every level checks: no step is taken
\* that could only lead to a refusal.
InBudget(r) == second - reviews[r].since <= Budget

NextStep(r) == reviews' = [reviews EXCEPT ![r].step = @ + 1]
ReviewOnly  == UNCHANGED <<outsideVars, serviceVars>>

\* ProvisionedRecoveryObservationHttpsClient.fetch: a fresh challenge, sent
\* once.  Reviews would only meet at the lock, which refuses the second, so
\* that one is under way at a time.
StartReview(r) ==
  /\ reviews[r].at = "idle" /\ UnderWay = {} /\ 1..(r - 1) \subseteq Begun
  /\ reviews' = [reviews EXCEPT ![r].at = "asked", ![r].since = second]
  /\ ReviewOnly /\ UNCHANGED softwareHeld

\* A faulty variant: the challenge in the statement is not compared.
VerifiesForAny(r, q, n) ==
  LET now == reviews[r].since
  IN n \in DOMAIN answers[q]
     /\ answers[q][n].issued <= now /\ now < answers[q][n].issued + Window

\* verify_service_recovery_attestation, with the second of the start.
Verifies(r, q, n) ==
  LET now == reviews[r].since
  IN q = r /\ n \in DOMAIN answers[q]
     /\ answers[q][n].issued <= now /\ now < answers[q][n].issued + Window

\* The reply: any statement that the service ever signed may be in it.
TakeAnswer(r, q) ==
  /\ reviews[r].at = "asked" /\ InBudget(r) /\ NoneHasRead
  /\ \E n \in 1..Len(answers[q]) :
       /\ Verifies(r, q, n)
       /\ reviews' = [reviews EXCEPT ![r].at = "reviewing", ![r].statement = answers[q][n]]
  /\ ReviewOnly /\ UNCHANGED softwareHeld

\* _with_locks, and the proposal and its _snapshot.
LockSoftware(r) ==
  /\ Reviewing(r, "lock") /\ InBudget(r)
  /\ softwareHeld = NoStatement /\ unfinished
  /\ softwareHeld' = r
  /\ NextStep(r)
  /\ ReviewOnly

\* A faulty variant: a head that the successor is behind will do.
HeadPastPrior == signedHead # "prior"

\* inspect_uncertain_witness_commit: the head must be the successor's receipt,
\* as compare_recovery_convergence and the others demand of it.
HeadIsSuccessor == signedHead = "next"

ReadSignedHead(r) ==
  /\ Reviewing(r, "head") /\ InBudget(r)
  /\ HeadIsSuccessor
  /\ NextStep(r)
  /\ ReviewOnly /\ UNCHANGED softwareHeld

\* audit: pip's site and the native files, against what was signed for them.
AuditBytes(r) ==
  /\ Reviewing(r, "bytes") /\ InBudget(r)
  /\ sound
  /\ NextStep(r)
  /\ ReviewOnly /\ UNCHANGED softwareHeld

\* The proposal and the snapshot once more, and _release.
LeaveSoftware(r) ==
  /\ Reviewing(r, "leave") /\ InBudget(r)
  /\ unfinished
  /\ softwareHeld' = NoStatement
  /\ NextStep(r)
  /\ ReviewOnly

\* inspect_attested_forward_handoff verifies the statement again, with the
\* same second, and compares what was found.
VerifyAgain(r) ==
  /\ Reviewing(r, "verify") /\ InBudget(r)
  /\ \E q \in Reviewer : \E n \in 1..Len(answers[q]) :
       answers[q][n] = reviews[r].statement /\ Verifies(r, q, n)
  /\ NextStep(r)
  /\ ReviewOnly /\ UNCHANGED softwareHeld

ReportReview(r) ==
  /\ reviews[r].at = "reviewing" /\ reviews[r].step > Len(ReviewSteps)
  /\ InBudget(r)
  /\ reviews' = [reviews EXCEPT ![r].at = "reported", ![r].since = 0]
  /\ ReviewOnly /\ UNCHANGED softwareHeld

\* A faulty variant: a refusal leaves the lock.
RefuseAndKeep(r) ==
  /\ reviews[r].at \in {"asked", "reviewing"}
  /\ reviews' = [reviews EXCEPT ![r].since = 0,
                                ![r].at = IF @ = "asked" THEN "refused" ELSE "failed",
                                ![r].step = 1, ![r].statement = NoStatement]
  /\ ReviewOnly /\ UNCHANGED softwareHeld

\* A check fails, the budget is spent, the connection is lost.  There is no
\* retry: another review makes another challenge.
RefuseReview(r) ==
  /\ reviews[r].at \in {"asked", "reviewing"}
  /\ reviews' = [reviews EXCEPT ![r].since = 0,
                                ![r].at = IF @ = "asked" THEN "refused" ELSE "failed",
                                ![r].step = 1, ![r].statement = NoStatement]
  /\ softwareHeld' = IF softwareHeld = r THEN NoStatement ELSE softwareHeld
  /\ ReviewOnly

-----------------------------------------------------------------------------
(* The world.  What only a review's reads can see changes while there is   *)
(* one that reads: a change before that is one before its first read.      *)

WorldOnly == UNCHANGED <<serviceVars, reviews, softwareHeld>>

\* The writers' last request, and the gate's certificate of their end.
CommitSuccessor ==
  /\ gate = "sending" /\ signedHead = "prior"
  /\ signedHead' = "next"
  /\ UNCHANGED <<gate, unfinished, sound, second, upsets>> /\ WorldOnly

CertifyStopped ==
  /\ gate = "sending" /\ signedHead \in {"prior", "next"}
  /\ gate' = IF signedHead = "prior" THEN "stopped_prior" ELSE "stopped_next"
  /\ UNCHANGED <<signedHead, unfinished, sound, second, upsets>> /\ WorldOnly

\* Another update is committed after this one.
CommitLater ==
  /\ Reading /\ signedHead = "next"
  /\ signedHead' = "later"
  /\ UNCHANGED <<gate, unfinished, sound, second, upsets>> /\ WorldOnly

\* A protected finalizer, outside of the program, takes no lock of its.
FinishRecovery ==
  /\ Reading /\ unfinished /\ signedHead # "prior"
  /\ unfinished' = FALSE
  /\ UNCHANGED <<gate, signedHead, sound, second, upsets>> /\ WorldOnly

\* The candidate's files are changed, or put back.
ChangeCandidate ==
  /\ Reading /\ upsets < MaxUpsets
  /\ sound' = ~sound /\ upsets' = upsets + 1
  /\ UNCHANGED <<gate, signedHead, unfinished, second>> /\ WorldOnly

PassSecond ==
  /\ second < MaxSecond /\ serviceSecond < MaxSecond
  /\ second' = second + 1 /\ serviceSecond' = serviceSecond + 1
  /\ UNCHANGED <<gate, signedHead, unfinished, sound, upsets, claims, latest, answers, workers,
                 reviews, softwareHeld>>

WorkerStep(w) ==
  /\ NoneHasRead
  /\ \/ \E r \in Reviewer : TakeRequest(w, r)
     \/ ObserveWriters(w) \/ ReserveChallenge(w) \/ SignStatement(w) \/ DropWork(w)

ReviewerStep(r) ==
  \/ StartReview(r) \/ (\E q \in Reviewer : TakeAnswer(r, q))
  \/ LockSoftware(r) \/ ReadSignedHead(r) \/ AuditBytes(r) \/ LeaveSoftware(r)
  \/ VerifyAgain(r) \/ ReportReview(r) \/ RefuseReview(r)

WorldStep ==
  \/ CommitSuccessor \/ CertifyStopped \/ CommitLater \/ FinishRecovery
  \/ ChangeCandidate \/ PassSecond \/ SetServiceClock

\* The reviews that are between their first read and their last.
InReads == {r \in Reviewer : reviews[r].at = "reviewing" /\ reviews[r].step > 1}

AllIsWell == gate = "stopped_next" /\ signedHead = "next" /\ sound /\ unfinished

\* stood is no state of the program: it remembers what was true meanwhile.
EvidenceNext ==
  /\ (\E w \in Worker : WorkerStep(w)) \/ (\E r \in Reviewer : ReviewerStep(r)) \/ WorldStep
  /\ stood' = IF AllIsWell' THEN stood \cup InReads' ELSE stood

EvidenceSpec == EvidenceInit /\ [][EvidenceNext]_evidenceVars

-----------------------------------------------------------------------------
EvidenceTypeOK ==
  /\ DOMAIN claims \subseteq Reviewer
  /\ \A r \in DOMAIN claims : claims[r] \in 0..MaxSecond
  /\ latest \in 0..MaxSecond
  /\ \A w \in Worker : workers[w] # NoStatement =>
       workers[w] \in [challenge : Reviewer, issued : 0..MaxSecond,
                       at : {"taken", "observed", "reserved"}, begun : SUBSET Reviewer]
  /\ \A r \in Reviewer :
       /\ reviews[r].step \in 1..(Len(ReviewSteps) + 1)
       /\ \A n \in DOMAIN answers[r] :
            answers[r][n] \in [issued : 0..MaxSecond, begun : SUBSET Reviewer]
  /\ softwareHeld # NoStatement => reviews[softwareHeld].at = "reviewing"
  /\ stood \subseteq Reviewer

\* The ledger never lets two statements for one challenge verify at the same
\* second, although it forgets old challenges and its clock may be set: the
\* rows it forgets are of statements that no reader accepts any more.
ChallengeAnsweredOnce ==
  \A r \in Reviewer : \A m, n \in DOMAIN answers[r] :
    m = n \/ answers[r][m].issued + Window <= answers[r][n].issued
          \/ answers[r][n].issued + Window <= answers[r][m].issued

\* What a review goes by was observed for it: the service asked its gate after
\* the review had begun, whatever the clocks of both say.
StatementIsAnswer ==
  \A r \in Reviewer :
    reviews[r].at \in {"reviewing", "reported"} => r \in reviews[r].statement.begun

\* The reads of a review are none of them atomic with another, and bytes may
\* change and change back between them; but when it reports, there was one
\* moment between its first read and its last at which the writers had
\* stopped, the witness's head was the successor, its bytes were sound and the
\* recovery was pending.
ReviewedAtOneMoment ==
  \A r \in Reviewer : reviews[r].at = "reported" => r \in stood

\* All three: a recovery goes by one answer, which was observed for it, and by
\* bytes that stood while it was observed.
EvidenceStands == ChallengeAnsweredOnce /\ StatementIsAnswer /\ ReviewedAtOneMoment
=============================================================================
