------------------------ MODULE EvergreenSupply_proofs ------------------------
(***************************************************************************)
(* Proofs about the supply of an update, one part after another.  A        *)
(* behaviour is one part's, so that each part's steps are all that its     *)
(* variables see.                                                          *)
(***************************************************************************)
EXTENDS EvergreenSupply, SequenceTheorems, FiniteSetTheorems, WellFoundedInduction, TLAPS

-----------------------------------------------------------------------------
(* The evidence for a recovery.                                            *)

LEMMA EvidenceAlone ==
  /\ SupplyInit => EvidenceInit
  /\ [SupplyNext]_supplyVars => [EvidenceNext]_evidenceVars
BY DEF SupplyInit, SupplyNext, supplyVars, Releases, Compositions, Preparations, Audits, Evidence

Statement == [issued : 0..MaxSecond, begun : SUBSET Reviewer]

ServiceTypes ==
  /\ serviceSecond \in 0..MaxSecond
  /\ latest \in 0..MaxSecond
  /\ DOMAIN claims \subseteq Reviewer
  /\ \A r \in DOMAIN claims : claims[r] \in 0..MaxSecond
  /\ answers \in [Reviewer -> Seq(Statement)]
  /\ DOMAIN workers = Worker
  /\ \A w \in Worker : workers[w] # NoStatement =>
       workers[w] \in [challenge : Reviewer, issued : 0..MaxSecond,
                       at : {"taken", "observed", "reserved"}, begun : SUBSET Reviewer]

ReviewTypes ==
  /\ second \in 0..MaxSecond
  /\ reviews \in [Reviewer ->
       [at : {"idle", "asked", "reviewing", "reported", "refused", "failed"},
        since : 0..MaxSecond, step : 1..16, statement : Statement \cup {NoStatement}]]
  /\ softwareHeld \in Reviewer \cup {NoStatement}
  /\ stood \subseteq Reviewer

\* What stands where when one part of a program follows another.
LEMMA Following ==
  ASSUME NEW S, NEW s \in Seq(S), NEW t \in Seq(S)
  PROVE  /\ s \o t \in Seq(S)
         /\ Len(s \o t) = Len(s) + Len(t)
         /\ \A i \in 1..Len(s) : (s \o t)[i] = s[i]
         /\ \A i \in 1..Len(t) : (s \o t)[Len(s) + i] = t[i]
BY ConcatProperties

\* The program of a review, step by step.
LEMMA StepsAre ==
  /\ Len(ReviewSteps) = 15
  /\ ReviewSteps[1] = "lock" /\ ReviewSteps[2] = "head" /\ ReviewSteps[3] = "leave"
  /\ ReviewSteps[4] = "lock" /\ ReviewSteps[5] = "bytes" /\ ReviewSteps[6] = "head"
  /\ ReviewSteps[7] = "bytes" /\ ReviewSteps[8] = "leave" /\ ReviewSteps[9] = "lock"
  /\ ReviewSteps[10] = "head" /\ ReviewSteps[11] = "leave" /\ ReviewSteps[12] = "verify"
  /\ ReviewSteps[13] = "lock" /\ ReviewSteps[14] = "head" /\ ReviewSteps[15] = "leave"
<1> DEFINE Kind == {"lock", "head", "leave", "bytes", "verify"}
           First == LocalRead \o Requalify
           Second == First \o LocalRead
           Third == Second \o <<"verify">>
<1>1. LocalRead \in Seq(Kind) /\ Requalify \in Seq(Kind) /\ <<"verify">> \in Seq(Kind)
  BY DEF LocalRead, Requalify
<1>2. First \in Seq(Kind) /\ Second \in Seq(Kind) /\ Third \in Seq(Kind)
  BY <1>1, Following
<1> HIDE DEF Kind
<1>a. /\ Len(LocalRead) = 3 /\ LocalRead[1] = "lock" /\ LocalRead[2] = "head"
      /\ LocalRead[3] = "leave"
  BY DEF LocalRead
<1>b. /\ Len(<<"verify">>) = 1 /\ <<"verify">>[1] = "verify"
  OBVIOUS
<1>3. /\ Len(First) = 8
      /\ First[1] = "lock" /\ First[2] = "head" /\ First[3] = "leave"
      /\ First[4] = "lock" /\ First[5] = "bytes" /\ First[6] = "head"
      /\ First[7] = "bytes" /\ First[8] = "leave"
  BY DEF LocalRead, Requalify
<1>4. /\ Len(Second) = 11
      /\ Second[1] = "lock" /\ Second[2] = "head" /\ Second[3] = "leave"
      /\ Second[4] = "lock" /\ Second[5] = "bytes" /\ Second[6] = "head"
      /\ Second[7] = "bytes" /\ Second[8] = "leave" /\ Second[9] = "lock"
      /\ Second[10] = "head" /\ Second[11] = "leave"
  <2>1. /\ Len(Second) = 8 + 3
        /\ \A i \in 1..8 : Second[i] = First[i]
        /\ \A i \in 1..3 : Second[8 + i] = LocalRead[i]
    <3>1. /\ Len(Second) = Len(First) + Len(LocalRead)
          /\ \A i \in 1..Len(First) : Second[i] = First[i]
          /\ \A i \in 1..Len(LocalRead) : Second[Len(First) + i] = LocalRead[i]
      <4> HIDE DEF First
      <4> QED BY <1>1, <1>2, Following
    <3> HIDE DEF First, Second
    <3> QED BY <3>1, <1>3, <1>a
  <2> HIDE DEF First, Second
  <2>2. Second[8 + 1] = "lock" /\ Second[8 + 2] = "head" /\ Second[8 + 3] = "leave"
    BY <2>1, <1>a
  <2> QED BY <2>1, <2>2, <1>3
<1>5. /\ Len(Third) = 12
      /\ Third[1] = "lock" /\ Third[2] = "head" /\ Third[3] = "leave"
      /\ Third[4] = "lock" /\ Third[5] = "bytes" /\ Third[6] = "head"
      /\ Third[7] = "bytes" /\ Third[8] = "leave" /\ Third[9] = "lock"
      /\ Third[10] = "head" /\ Third[11] = "leave" /\ Third[12] = "verify"
  <2>1. /\ Len(Third) = 11 + 1
        /\ \A i \in 1..11 : Third[i] = Second[i]
        /\ \A i \in 1..1 : Third[11 + i] = <<"verify">>[i]
    <3>1. /\ Len(Third) = Len(Second) + Len(<<"verify">>)
          /\ \A i \in 1..Len(Second) : Third[i] = Second[i]
          /\ \A i \in 1..Len(<<"verify">>) : Third[Len(Second) + i] = <<"verify">>[i]
      <4> HIDE DEF Second
      <4> QED BY <1>1, <1>2, Following
    <3> HIDE DEF Second, Third
    <3> QED BY <3>1, <1>4, <1>b
  <2> HIDE DEF Second, Third
  <2>2. Third[11 + 1] = "verify"
    BY <2>1, <1>b
  <2> QED BY <2>1, <2>2, <1>4
<1>6. /\ Len(ReviewSteps) = 12 + 3
      /\ \A i \in 1..12 : ReviewSteps[i] = Third[i]
      /\ \A i \in 1..3 : ReviewSteps[12 + i] = LocalRead[i]
  <2>1. ReviewSteps = Third \o LocalRead
    BY DEF ReviewSteps
  <2> HIDE DEF Third
  <2>2. /\ Len(ReviewSteps) = Len(Third) + Len(LocalRead)
        /\ \A i \in 1..Len(Third) : ReviewSteps[i] = Third[i]
        /\ \A i \in 1..Len(LocalRead) : ReviewSteps[Len(Third) + i] = LocalRead[i]
    BY <1>1, <1>2, <2>1, Following
  <2> QED BY <2>2, <1>5, <1>a
<1> HIDE DEF Third
<1>7. /\ ReviewSteps[12 + 1] = "lock" /\ ReviewSteps[12 + 2] = "head"
      /\ ReviewSteps[12 + 3] = "leave"
  BY <1>6, <1>a
<1> QED
  BY <1>5, <1>6, <1>7

LEMMA EvidenceInitTypes == EvidenceInit => ServiceTypes /\ ReviewTypes
BY ServiceAssumption DEF EvidenceInit, ServiceTypes, ReviewTypes, Reviewer

\* What leaves the service's rows and workers alone.
ServiceStill == UNCHANGED <<claims, latest, answers, workers>>

LEMMA EvidenceActions ==
  ASSUME [EvidenceNext]_evidenceVars
  PROVE  \/ \E w \in Worker :
              /\ \/ \E r \in Reviewer : TakeRequest(w, r)
                 \/ ObserveWriters(w) \/ ReserveChallenge(w) \/ SignStatement(w) \/ DropWork(w)
              /\ NoneHasRead
         \/ (\E r \in Reviewer : ReviewerStep(r)) /\ ServiceStill /\ UNCHANGED serviceSecond
         \/ WorldStep /\ ServiceStill
         \/ UNCHANGED evidenceVars
<1>1. ASSUME NEW r \in Reviewer, ReviewerStep(r) PROVE ServiceStill /\ UNCHANGED serviceSecond
  BY <1>1 DEF ReviewerStep, StartReview, TakeAnswer, LockSoftware, ReadSignedHead, AuditBytes,
     LeaveSoftware, VerifyAgain, ReportReview, RefuseReview, ReviewOnly, serviceVars, ServiceStill
<1>2. ASSUME WorldStep PROVE ServiceStill
  BY <1>2 DEF WorldStep, CommitSuccessor, CertifyStopped, CommitLater, FinishRecovery,
     ChangeCandidate, PassSecond, SetServiceClock, WorldOnly, serviceVars, ServiceStill
<1> QED
  BY <1>1, <1>2 DEF EvidenceNext, WorkerStep

\* Which steps are which.
LEMMA StepOf ==
  ASSUME NEW n \in 1..16, n <= Len(ReviewSteps)
  PROVE  /\ n \in 1..15
         /\ ReviewSteps[n] = "lock" => n \in {1, 4, 9, 13}
         /\ ReviewSteps[n] = "head" => n \in {2, 6, 10, 14}
         /\ ReviewSteps[n] = "bytes" => n \in {5, 7}
         /\ ReviewSteps[n] = "leave" => n \in {3, 8, 11, 15}
         /\ ReviewSteps[n] = "verify" => n = 12
BY StepsAre

LEMMA ServiceTypesStep ==
  ServiceTypes /\ ReviewTypes /\ [EvidenceNext]_evidenceVars => ServiceTypes'
<1> SUFFICES ASSUME ServiceTypes, ReviewTypes, [EvidenceNext]_evidenceVars PROVE ServiceTypes'
  OBVIOUS
<1> USE DEF ServiceTypes, Statement
<1>1. ASSUME NEW w \in Worker, NEW r \in Reviewer, TakeRequest(w, r) PROVE ServiceTypes'
  BY <1>1 DEF TakeRequest, Work, ServiceReads
<1>2. ASSUME NEW w \in Worker, ObserveWriters(w) PROVE ServiceTypes'
  BY <1>2 DEF ObserveWriters, Work, ServiceReads, Begun
<1>3. ASSUME NEW w \in Worker, ReserveChallenge(w) PROVE ServiceTypes'
  <2> DEFINE r    == workers[w].challenge
             kept == {q \in DOMAIN claims : claims[q] + Retention >= serviceSecond}
  <2>1. /\ workers[w] # NoStatement /\ r \in Reviewer
        /\ claims' = [q \in kept \cup {r} |-> IF q = r THEN serviceSecond ELSE claims[q]]
        /\ latest' = serviceSecond
        /\ workers' = [workers EXCEPT ![w] = [workers[w] EXCEPT !.at = "reserved"]]
        /\ UNCHANGED <<serviceSecond, answers>>
    BY <1>3 DEF ReserveChallenge, Work
  <2>2. /\ DOMAIN claims' \subseteq Reviewer
        /\ \A q \in DOMAIN claims' : claims'[q] \in 0..MaxSecond
    BY <2>1
  <2>3. /\ DOMAIN workers' = Worker
        /\ \A v \in Worker : workers'[v] # NoStatement =>
             workers'[v] \in [challenge : Reviewer, issued : 0..MaxSecond,
                              at : {"taken", "observed", "reserved"}, begun : SUBSET Reviewer]
    BY <2>1
  <2> QED BY <2>1, <2>2, <2>3
<1>4. ASSUME NEW w \in Worker, SignStatement(w) PROVE ServiceTypes'
  <2> DEFINE r == workers[w].challenge
             e == [issued |-> workers[w].issued, begun |-> workers[w].begun]
  <2>1. /\ workers[w] # NoStatement /\ r \in Reviewer /\ e \in Statement
        /\ answers' = [answers EXCEPT ![r] = Append(answers[r], e)]
        /\ workers' = [workers EXCEPT ![w] = NoStatement]
        /\ UNCHANGED <<serviceSecond, claims, latest>>
    BY <1>4 DEF SignStatement, Work
  <2>2. Append(answers[r], e) \in Seq(Statement)
    <3>1. answers[r] \in Seq(Statement)
      BY <2>1
    <3> HIDE DEF e, Statement
    <3> QED BY <2>1, <3>1, AppendProperties
  <2>3. answers' \in [Reviewer -> Seq(Statement)]
    BY <2>1, <2>2
  <2> QED BY <2>1, <2>3
<1>5. ASSUME NEW w \in Worker, DropWork(w) PROVE ServiceTypes'
  BY <1>5 DEF DropWork, Work, ServiceReads
<1>6. ASSUME (\E r \in Reviewer : ReviewerStep(r)) /\ ServiceStill /\ UNCHANGED serviceSecond
      PROVE ServiceTypes'
  BY <1>6 DEF ServiceStill
<1>7. ASSUME WorldStep, ServiceStill PROVE ServiceTypes'
  <2>1. serviceSecond' \in 0..MaxSecond
    BY <1>7, ServiceAssumption DEF WorldStep, CommitSuccessor, CertifyStopped, CommitLater, FinishRecovery,
       ChangeCandidate, PassSecond, SetServiceClock, WorldOnly, serviceVars, ServiceTypes
  <2> QED BY <2>1, <1>7 DEF ServiceStill
<1>8. ASSUME UNCHANGED evidenceVars PROVE ServiceTypes'
  BY <1>8 DEF evidenceVars, serviceVars
<1> QED
  BY <1>1, <1>2, <1>3, <1>4, <1>5, <1>6, <1>7, <1>8, EvidenceActions

LEMMA ReviewTypesStep ==
  ServiceTypes /\ ReviewTypes /\ [EvidenceNext]_evidenceVars => ReviewTypes'
<1> SUFFICES ASSUME ServiceTypes, ReviewTypes, [EvidenceNext]_evidenceVars PROVE ReviewTypes'
  OBVIOUS
<1> DEFINE Now == second' \in 0..MaxSecond
           Rest == second' \in 0..MaxSecond /\ reviews' \in [Reviewer ->
                     [at : {"idle", "asked", "reviewing", "reported", "refused", "failed"},
                      since : 0..MaxSecond, step : 1..16, statement : Statement \cup {NoStatement}]]
                     /\ softwareHeld' \in Reviewer \cup {NoStatement}
<1>1. stood' \subseteq Reviewer
  <2>1. CASE EvidenceNext
    BY <2>1 DEF ReviewTypes, EvidenceNext, InReads
  <2> QED BY <2>1 DEF evidenceVars, ReviewTypes
<1>2. ASSUME NEW w \in Worker,
             \/ \E r \in Reviewer : TakeRequest(w, r)
             \/ ObserveWriters(w) \/ ReserveChallenge(w) \/ SignStatement(w) \/ DropWork(w)
      PROVE Rest
  BY <1>2 DEF TakeRequest, ObserveWriters, ReserveChallenge, SignStatement, DropWork, ServiceOnly,
     outsideVars, ReviewTypes
<1>3. ASSUME NEW r \in Reviewer, StartReview(r) PROVE Rest
  BY <1>3 DEF StartReview, ReviewOnly, outsideVars, ReviewTypes
<1>4. ASSUME NEW r \in Reviewer, NEW q \in Reviewer, TakeAnswer(r, q) PROVE Rest
  <2>1. PICK n \in 1..Len(answers[q]) :
          reviews' = [reviews EXCEPT ![r].at = "reviewing", ![r].statement = answers[q][n]]
    BY <1>4 DEF TakeAnswer
  <2>2. answers[q][n] \in Statement
    BY <2>1 DEF ServiceTypes
  <2>3. UNCHANGED <<second, softwareHeld>>
    BY <1>4 DEF TakeAnswer, ReviewOnly, outsideVars
  <2>4. reviews' = [reviews EXCEPT ![r] =
                      [reviews[r] EXCEPT !.at = "reviewing", !.statement = answers[q][n]]]
    BY <2>1
  <2> QED BY <2>2, <2>3, <2>4 DEF ReviewTypes
<1>5. ASSUME NEW r \in Reviewer,
             \/ LockSoftware(r) \/ ReadSignedHead(r) \/ AuditBytes(r) \/ LeaveSoftware(r)
             \/ VerifyAgain(r)
      PROVE Rest
  <2>1. reviews[r].step \in 1..15
    BY <1>5, StepsAre DEF LockSoftware, ReadSignedHead, AuditBytes, LeaveSoftware, VerifyAgain,
       Reviewing, ReviewTypes
  <2>2. NextStep(r) /\ ReviewOnly /\ softwareHeld' \in Reviewer \cup {NoStatement}
    BY <1>5 DEF LockSoftware, ReadSignedHead, AuditBytes, LeaveSoftware, VerifyAgain, ReviewTypes
  <2> QED BY <2>1, <2>2 DEF NextStep, ReviewOnly, outsideVars, ReviewTypes
<1>6. ASSUME NEW r \in Reviewer, ReportReview(r) PROVE Rest
  <2>1. 0 \in 0..MaxSecond
    BY ServiceAssumption
  <2>2. UNCHANGED <<second, softwareHeld>>
    BY <1>6 DEF ReportReview, ReviewOnly, outsideVars
  <2>3. reviews' = [reviews EXCEPT ![r].at = "reported", ![r].since = 0]
    BY <1>6 DEF ReportReview
  <2>4. reviews' = [reviews EXCEPT ![r] = [reviews[r] EXCEPT !.at = "reported", !.since = 0]]
    BY <2>3
  <2> QED BY <2>1, <2>2, <2>4 DEF ReviewTypes
<1>7. ASSUME NEW r \in Reviewer, RefuseReview(r) PROVE Rest
  BY <1>7, ServiceAssumption DEF RefuseReview, ReviewOnly, outsideVars, ReviewTypes
<1>8. ASSUME WorldStep PROVE Rest
  BY <1>8, ServiceAssumption DEF WorldStep, CommitSuccessor, CertifyStopped, CommitLater,
     FinishRecovery, ChangeCandidate, PassSecond, SetServiceClock, WorldOnly, ReviewTypes
<1>9. ASSUME UNCHANGED evidenceVars PROVE Rest
  BY <1>9 DEF evidenceVars, outsideVars, ReviewTypes
<1>10. Rest
  BY <1>2, <1>3, <1>4, <1>5, <1>6, <1>7, <1>8, <1>9, EvidenceActions DEF ReviewerStep
<1> QED
  BY <1>1, <1>10 DEF ReviewTypes

-----------------------------------------------------------------------------
(* What a review goes by was observed for it.                              *)

\* The writers stop once and for all, and before they have the successor is
\* signed: whoever has seen it may rely on it.
WritersStopped ==
  /\ gate = "stopped_next" => signedHead \in {"next", "later"}
  /\ \A w \in Worker :
       workers[w] # NoStatement /\ workers[w].at # "taken" => gate = "stopped_next"
  /\ \A r \in Reviewer : answers[r] # << >> => gate = "stopped_next"
  /\ \A r \in Reviewer : reviews[r].at = "reviewing" => gate = "stopped_next"

\* From the request to the statement a challenge belongs to a review that had
\* begun before the gate was asked.
ObservedForIt ==
  /\ \A w \in Worker : workers[w] # NoStatement =>
       /\ workers[w].challenge \in Begun
       /\ workers[w].at # "taken" => workers[w].challenge \in workers[w].begun
  /\ \A r \in Reviewer : \A n \in DOMAIN answers[r] : r \in answers[r][n].begun
  /\ StatementIsAnswer

\* Whoever holds the lock is at a step between one that takes it and one that
\* gives it back.
LockIsReviews ==
  softwareHeld # NoStatement =>
    /\ reviews[softwareHeld].at = "reviewing"
    /\ reviews[softwareHeld].step \in {2, 3, 5, 6, 7, 8, 10, 11, 14, 15}

\* What the moment of a review's first look at the bytes still lacked, its
\* next looks at the head and at the files make sure of.
MomentFound ==
  \A r \in Reviewer :
    /\ reviews[r].at \in {"idle", "asked"} => reviews[r].step = 1
    /\ reviews[r].at = "reviewing" =>
         /\ reviews[r].step > 5 => r \in stood \/ signedHead = "later" \/ ~unfinished
         /\ reviews[r].step > 6 => r \in stood \/ ~unfinished
         /\ reviews[r].step > 8 => r \in stood
    /\ reviews[r].at = "reported" => r \in stood

-----------------------------------------------------------------------------
(* The ledger.                                                             *)

Apart(i, j) == i + Window <= j \/ j + Window <= i

IsReserved(w) == workers[w] # NoStatement /\ workers[w].at = "reserved"

\* A challenge that was let through is one that the ledger still has, or one
\* whose statement no clock that the ledger accepts will see verify again.
Remembered(r, i) ==
  (r \in DOMAIN claims /\ i <= claims[r]) \/ i + Window + Skew <= latest

LedgerRemembers ==
  /\ \A r \in Reviewer : \A n \in DOMAIN answers[r] : Remembered(r, answers[r][n].issued)
  /\ \A w \in Worker : IsReserved(w) => Remembered(workers[w].challenge, workers[w].issued)

\* What is reserved and not yet signed counts as much as what is signed.
AnswersApart ==
  /\ ChallengeAnsweredOnce
  /\ \A w \in Worker : IsReserved(w) =>
       \A n \in DOMAIN answers[workers[w].challenge] :
         Apart(workers[w].issued, answers[workers[w].challenge][n].issued)
  /\ \A v, w \in Worker :
       v # w /\ IsReserved(v) /\ IsReserved(w) /\ workers[v].challenge = workers[w].challenge =>
         Apart(workers[v].issued, workers[w].issued)

EvidenceInv ==
  /\ ServiceTypes /\ ReviewTypes
  /\ WritersStopped /\ ObservedForIt /\ LockIsReviews /\ MomentFound
  /\ LedgerRemembers /\ AnswersApart

-----------------------------------------------------------------------------
(* Each of them is kept.                                                   *)

\* What a request changes for every worker but the one that is at work.
WorkerEffects(w) ==
  \/ \E r \in Reviewer : TakeRequest(w, r)
  \/ ObserveWriters(w) \/ ReserveChallenge(w) \/ SignStatement(w) \/ DropWork(w)

\* What a worker has in hand after a step is what it had, further on, or a
\* request that it has just taken.
LEMMA WorkAfter ==
  ASSUME ServiceTypes, NEW w \in Worker, WorkerEffects(w)
  PROVE  /\ \A v \in Worker \ {w} : workers'[v] = workers[v]
         /\ workers'[w] # NoStatement =>
              \/ /\ workers'[w].at = "taken" /\ workers'[w].challenge \in Begun
              \/ /\ workers[w] # NoStatement
                 /\ workers'[w].challenge = workers[w].challenge
                 /\ workers'[w].issued = workers[w].issued
                 /\ \/ /\ workers'[w].at = "observed" /\ workers[w].at = "taken"
                       /\ workers'[w].begun = Begun /\ gate = "stopped_next"
                    \/ /\ workers'[w].at = "reserved" /\ workers[w].at = "observed"
                       /\ workers'[w].begun = workers[w].begun
         /\ answers' # answers =>
              /\ SignStatement(w) /\ workers[w] # NoStatement /\ workers[w].at = "reserved"
              /\ workers[w].challenge \in Reviewer
              /\ answers' = [answers EXCEPT ![workers[w].challenge] =
                   Append(@, [issued |-> workers[w].issued, begun |-> workers[w].begun])]
              /\ workers'[w] = NoStatement
         /\ UNCHANGED <<outsideVars, reviews, softwareHeld>>
<1>1. CASE \E r \in Reviewer : TakeRequest(w, r)
  BY <1>1 DEF TakeRequest, Work, ServiceReads, ServiceOnly, ServiceTypes
<1>2. CASE ObserveWriters(w)
  BY <1>2 DEF ObserveWriters, Work, ServiceReads, ServiceOnly, ServiceTypes
<1>3. CASE ReserveChallenge(w)
  <2>1. /\ workers[w] # NoStatement /\ workers[w].at = "observed"
        /\ workers' = [workers EXCEPT ![w] = [workers[w] EXCEPT !.at = "reserved"]]
        /\ UNCHANGED <<serviceSecond, answers>> /\ ServiceOnly
    BY <1>3 DEF ReserveChallenge, Work
  <2> QED BY <2>1 DEF ServiceOnly, ServiceTypes
<1>4. CASE SignStatement(w)
  <2>1. /\ workers' = [workers EXCEPT ![w] = NoStatement] /\ ServiceOnly
        /\ workers[w] # NoStatement /\ workers[w].at = "reserved"
        /\ workers[w].challenge \in Reviewer
        /\ answers' = [answers EXCEPT ![workers[w].challenge] =
             Append(@, [issued |-> workers[w].issued, begun |-> workers[w].begun])]
    BY <1>4 DEF SignStatement, Work, ServiceTypes
  <2>2. workers'[w] = NoStatement /\ \A v \in Worker \ {w} : workers'[v] = workers[v]
    BY <2>1 DEF ServiceTypes
  <2> QED BY <1>4, <2>1, <2>2 DEF ServiceOnly
<1>5. CASE DropWork(w)
  BY <1>5 DEF DropWork, Work, ServiceReads, ServiceOnly, ServiceTypes
<1> QED
  BY <1>1, <1>2, <1>3, <1>4, <1>5 DEF WorkerEffects

\* What an answer adds.
LEMMA AnswerAdded ==
  ASSUME ServiceTypes, NEW c \in Reviewer, NEW e \in Statement,
         answers' = [answers EXCEPT ![c] = Append(@, e)]
  PROVE  /\ \A r \in Reviewer \ {c} : answers'[r] = answers[r]
         /\ DOMAIN answers'[c] = DOMAIN answers[c] \cup {Len(answers[c]) + 1}
         /\ Len(answers[c]) + 1 \notin DOMAIN answers[c]
         /\ \A n \in DOMAIN answers[c] : answers'[c][n] = answers[c][n]
         /\ answers'[c][Len(answers[c]) + 1] = e
<1>1. answers[c] \in Seq(Statement) /\ answers'[c] = Append(answers[c], e)
  BY DEF ServiceTypes
<1>2. \A r \in Reviewer \ {c} : answers'[r] = answers[r]
  BY DEF ServiceTypes
<1>3. /\ Len(answers'[c]) = Len(answers[c]) + 1
      /\ \A i \in 1..Len(answers[c]) : answers'[c][i] = answers[c][i]
      /\ answers'[c][Len(answers[c]) + 1] = e
      /\ answers'[c] \in Seq(Statement)
  <2> HIDE DEF Statement
  <2> QED BY <1>1, AppendProperties
<1>4. Len(answers[c]) \in Nat /\ DOMAIN answers[c] = 1..Len(answers[c])
      /\ DOMAIN answers'[c] = 1..Len(answers'[c])
  BY <1>1, <1>3
<1> QED
  BY <1>2, <1>3, <1>4

\* What a review does to the review that does it.
LEMMA ReviewAfter ==
  ASSUME ReviewTypes, NEW r \in Reviewer, ReviewerStep(r)
  PROVE  /\ \A q \in Reviewer \ {r} : reviews'[q] = reviews[q]
         /\ UNCHANGED <<outsideVars, serviceVars>>
         /\ \/ /\ reviews[r].at = "idle" /\ reviews'[r].at = "asked"
               /\ reviews'[r].step = reviews[r].step /\ UNCHANGED softwareHeld
            \/ /\ reviews[r].at = "asked" /\ reviews'[r].at = "reviewing"
               /\ reviews'[r].step = reviews[r].step
               /\ UNCHANGED softwareHeld
               /\ \E n \in 1..Len(answers[r]) : reviews'[r].statement = answers[r][n]
            \/ /\ reviews[r].at = "reviewing" /\ reviews'[r].at = "reviewing"
               /\ reviews[r].step \in 1..15 /\ reviews'[r].step = reviews[r].step + 1
               /\ reviews'[r].statement = reviews[r].statement
               /\ \/ /\ LockSoftware(r) /\ reviews[r].step \in {1, 4, 9, 13}
                     /\ softwareHeld = NoStatement /\ softwareHeld' = r
                  \/ /\ ReadSignedHead(r) /\ reviews[r].step \in {2, 6, 10, 14}
                     /\ signedHead = "next" /\ UNCHANGED softwareHeld
                  \/ /\ AuditBytes(r) /\ reviews[r].step \in {5, 7}
                     /\ sound /\ UNCHANGED softwareHeld
                  \/ /\ LeaveSoftware(r) /\ reviews[r].step \in {3, 8, 11, 15}
                     /\ unfinished /\ softwareHeld' = NoStatement
                  \/ VerifyAgain(r) /\ reviews[r].step = 12 /\ UNCHANGED softwareHeld
            \/ /\ reviews[r].at = "reviewing" /\ reviews'[r].at = "reported"
               /\ reviews[r].step = 16 /\ UNCHANGED softwareHeld
               /\ reviews'[r].statement = reviews[r].statement
            \/ /\ reviews[r].at \in {"asked", "reviewing"}
               /\ reviews'[r].at \in {"refused", "failed"}
               /\ softwareHeld' = IF softwareHeld = r THEN NoStatement ELSE softwareHeld
<1> DEFINE Row == [at : {"idle", "asked", "reviewing", "reported", "refused", "failed"},
                   since : 0..MaxSecond, step : 1..16, statement : Statement \cup {NoStatement}]
<1>0. reviews \in [Reviewer -> Row] /\ reviews[r] \in Row
  BY DEF ReviewTypes
<1>1. CASE StartReview(r)
  <2>1. reviews' = [reviews EXCEPT ![r] = [reviews[r] EXCEPT !.at = "asked", !.since = second]]
    BY <1>1 DEF StartReview
  <2> QED BY <1>0, <1>1, <2>1 DEF StartReview, ReviewOnly
<1>2. ASSUME NEW q \in Reviewer, TakeAnswer(r, q)
      PROVE  /\ \A p \in Reviewer \ {r} : reviews'[p] = reviews[p]
             /\ UNCHANGED <<outsideVars, serviceVars>>
             /\ reviews[r].at = "asked" /\ reviews'[r].at = "reviewing"
             /\ reviews'[r].step = reviews[r].step
             /\ UNCHANGED softwareHeld
             /\ \E n \in 1..Len(answers[r]) : reviews'[r].statement = answers[r][n]
  <2>1. PICK n \in 1..Len(answers[q]) :
          /\ Verifies(r, q, n)
          /\ reviews' = [reviews EXCEPT ![r].at = "reviewing", ![r].statement = answers[q][n]]
    BY <1>2 DEF TakeAnswer
  <2>2. q = r
    BY <2>1 DEF Verifies
  <2>3. reviews' = [reviews EXCEPT ![r] =
                      [reviews[r] EXCEPT !.at = "reviewing", !.statement = answers[r][n]]]
    BY <2>1, <2>2
  <2>4. /\ \A p \in Reviewer \ {r} : reviews'[p] = reviews[p]
        /\ reviews'[r].at = "reviewing" /\ reviews'[r].step = reviews[r].step
        /\ reviews'[r].statement = answers[r][n]
    BY <1>0, <2>3
  <2> QED BY <1>2, <2>1, <2>2, <2>4 DEF TakeAnswer, ReviewOnly
<1>3. ASSUME NextStep(r), ReviewOnly, reviews[r].step <= Len(ReviewSteps)
      PROVE  /\ \A p \in Reviewer \ {r} : reviews'[p] = reviews[p]
             /\ UNCHANGED <<outsideVars, serviceVars>>
             /\ reviews[r].step \in 1..15 /\ reviews'[r].step = reviews[r].step + 1
             /\ reviews'[r].statement = reviews[r].statement
             /\ reviews'[r].at = reviews[r].at
  BY <1>0, <1>3, StepsAre DEF NextStep, ReviewOnly
<1>4. ASSUME NEW s, Reviewing(r, s)
      PROVE  /\ reviews[r].at = "reviewing" /\ reviews[r].step \in 1..16
             /\ reviews[r].step <= Len(ReviewSteps)
             /\ ReviewSteps[reviews[r].step] = s
  BY <1>0, <1>4 DEF Reviewing
<1>5. CASE LockSoftware(r)
  BY <1>3, <1>4, <1>5, StepOf DEF LockSoftware
<1>6. CASE ReadSignedHead(r)
  <2>1. /\ Reviewing(r, "head") /\ NextStep(r) /\ ReviewOnly /\ UNCHANGED softwareHeld
        /\ signedHead = "next"
    BY <1>6 DEF ReadSignedHead, HeadIsSuccessor
  <2>2. /\ reviews[r].at = "reviewing" /\ reviews[r].step \in 1..16
        /\ reviews[r].step <= Len(ReviewSteps)
        /\ ReviewSteps[reviews[r].step] = "head"
    BY <1>4, <2>1
  <2>3. reviews[r].step \in {2, 6, 10, 14}
    BY <2>2, StepOf
  <2> QED BY <1>3, <1>6, <2>1, <2>2, <2>3
<1>7. CASE AuditBytes(r)
  BY <1>3, <1>4, <1>7, StepOf DEF AuditBytes
<1>8. CASE LeaveSoftware(r)
  BY <1>3, <1>4, <1>8, StepOf DEF LeaveSoftware
<1>9. CASE VerifyAgain(r)
  BY <1>3, <1>4, <1>9, StepOf DEF VerifyAgain
<1>10. CASE ReportReview(r)
  <2>1. reviews' = [reviews EXCEPT ![r] = [reviews[r] EXCEPT !.at = "reported", !.since = 0]]
    BY <1>10 DEF ReportReview
  <2>2. reviews[r].step = 16
    BY <1>0, <1>10, StepsAre DEF ReportReview
  <2> QED BY <1>0, <1>10, <2>1, <2>2 DEF ReportReview, ReviewOnly
<1>11. CASE RefuseReview(r)
  <2>1. reviews' = [reviews EXCEPT ![r] = [reviews[r] EXCEPT !.since = 0,
                     !.at = IF @ = "asked" THEN "refused" ELSE "failed",
                     !.step = 1, !.statement = NoStatement]]
    BY <1>11 DEF RefuseReview
  <2> QED BY <1>0, <1>11, <2>1 DEF RefuseReview, ReviewOnly
<1> QED
  BY <1>1, <1>2, <1>5, <1>6, <1>7, <1>8, <1>9, <1>10, <1>11 DEF ReviewerStep

\* Every step is a worker's, a review's, the world's or none.
LEMMA EvidenceCases ==
  ASSUME [EvidenceNext]_evidenceVars
  PROVE  \/ \E w \in Worker : WorkerEffects(w)
         \/ \E r \in Reviewer : ReviewerStep(r)
         \/ WorldStep /\ ServiceStill /\ UNCHANGED <<reviews, softwareHeld>>
         \/ UNCHANGED evidenceVars
<1>1. ASSUME WorldStep PROVE UNCHANGED <<reviews, softwareHeld>>
  BY <1>1 DEF WorldStep, CommitSuccessor, CertifyStopped, CommitLater, FinishRecovery,
     ChangeCandidate, PassSecond, SetServiceClock, WorldOnly
<1> QED
  BY <1>1, EvidenceActions DEF WorkerEffects

LEMMA WritersStoppedStep ==
  ServiceTypes /\ ReviewTypes /\ WritersStopped /\ [EvidenceNext]_evidenceVars => WritersStopped'
<1> SUFFICES ASSUME ServiceTypes, ReviewTypes, WritersStopped, [EvidenceNext]_evidenceVars
             PROVE  WritersStopped'
  OBVIOUS
<1>1. ASSUME NEW w \in Worker, WorkerEffects(w) PROVE WritersStopped'
  <2>1. UNCHANGED <<gate, signedHead, reviews>>
    BY <1>1, WorkAfter DEF outsideVars
  <2>2. \A v \in Worker : workers'[v] # NoStatement /\ workers'[v].at # "taken" =>
          gate = "stopped_next"
    BY <1>1, WorkAfter DEF WritersStopped
  <2>3. \A r \in Reviewer : answers'[r] # << >> => gate = "stopped_next"
    BY <1>1, WorkAfter DEF WritersStopped
  <2> QED BY <2>1, <2>2, <2>3 DEF WritersStopped
<1>2. ASSUME NEW r \in Reviewer, ReviewerStep(r) PROVE WritersStopped'
  <2>1. UNCHANGED <<gate, signedHead, workers, answers>>
    BY <1>2, ReviewAfter DEF outsideVars, serviceVars
  <2>2. \A n : n \in 1..Len(answers[r]) => answers[r] # << >>
    BY DEF ServiceTypes
  <2>3. \A q \in Reviewer : reviews'[q].at = "reviewing" => gate = "stopped_next"
    BY <1>2, <2>2, ReviewAfter DEF WritersStopped
  <2> QED BY <2>1, <2>3 DEF WritersStopped
<1>3. ASSUME WorldStep, ServiceStill, UNCHANGED reviews PROVE WritersStopped'
  <2>1. /\ gate = "stopped_next" => gate' = "stopped_next"
        /\ gate' = "stopped_next" /\ gate # "stopped_next" => signedHead' = "next"
        /\ signedHead \in {"next", "later"} => signedHead' \in {"next", "later"}
    BY <1>3 DEF WorldStep, CommitSuccessor, CertifyStopped, CommitLater, FinishRecovery,
       ChangeCandidate, PassSecond, SetServiceClock
  <2> QED BY <1>3, <2>1 DEF WritersStopped, ServiceStill
<1>4. ASSUME UNCHANGED evidenceVars PROVE WritersStopped'
  BY <1>4 DEF evidenceVars, serviceVars, outsideVars, WritersStopped
<1> QED
  BY <1>1, <1>2, <1>3, <1>4, EvidenceCases

LEMMA ObservedForItStep ==
  ServiceTypes /\ ReviewTypes /\ ObservedForIt /\ [EvidenceNext]_evidenceVars => ObservedForIt'
<1> SUFFICES ASSUME ServiceTypes, ReviewTypes, ObservedForIt, [EvidenceNext]_evidenceVars
             PROVE  ObservedForIt'
  OBVIOUS
<1>1. ASSUME NEW w \in Worker, WorkerEffects(w) PROVE ObservedForIt'
  <2>1. UNCHANGED reviews
    BY <1>1, WorkAfter
  <2>2. UNCHANGED Begun /\ UNCHANGED StatementIsAnswer
    BY <2>1 DEF Begun, StatementIsAnswer
  <2>3. \A v \in Worker : workers'[v] # NoStatement =>
          /\ workers'[v].challenge \in Begun
          /\ workers'[v].at # "taken" => workers'[v].challenge \in workers'[v].begun
    BY <1>1, WorkAfter DEF ObservedForIt
  <2>4. \A r \in Reviewer : \A n \in DOMAIN answers'[r] : r \in answers'[r][n].begun
    <3>1. CASE answers' = answers
      BY <3>1 DEF ObservedForIt
    <3>2. CASE answers' # answers
      <4> DEFINE c == workers[w].challenge
                 e == [issued |-> workers[w].issued, begun |-> workers[w].begun]
      <4>1. /\ c \in Reviewer /\ workers[w] # NoStatement /\ workers[w].at = "reserved"
            /\ answers' = [answers EXCEPT ![c] = Append(@, e)]
        BY <1>1, <3>2, WorkAfter
      <4>2. e \in Statement /\ e.begun = workers[w].begun /\ c \in e.begun
        BY <4>1 DEF ServiceTypes, Statement, ObservedForIt
      <4> HIDE DEF c, e
      <4> QED BY <4>1, <4>2, AnswerAdded DEF ObservedForIt
    <3> QED BY <3>1, <3>2
  <2> QED BY <2>2, <2>3, <2>4 DEF ObservedForIt
<1>2. ASSUME NEW r \in Reviewer, ReviewerStep(r) PROVE ObservedForIt'
  <2>1. UNCHANGED <<workers, answers>>
    BY <1>2, ReviewAfter DEF serviceVars
  <2>2. Begun \subseteq Begun'
    BY <1>2, ReviewAfter DEF Begun
  <2>3. StatementIsAnswer'
    <3>1. \A n \in 1..Len(answers[r]) : r \in answers[r][n].begun
      BY DEF ObservedForIt, ServiceTypes
    <3> QED BY <1>2, <3>1, ReviewAfter DEF ObservedForIt, StatementIsAnswer
  <2> QED BY <2>1, <2>2, <2>3 DEF ObservedForIt
<1>3. ASSUME ServiceStill, UNCHANGED reviews PROVE ObservedForIt'
  BY <1>3 DEF ObservedForIt, ServiceStill, StatementIsAnswer, Begun
<1> QED
  BY <1>1, <1>2, <1>3, EvidenceCases DEF evidenceVars, serviceVars, ServiceStill

LEMMA LockIsReviewsStep ==
  ServiceTypes /\ ReviewTypes /\ LockIsReviews /\ [EvidenceNext]_evidenceVars => LockIsReviews'
<1> SUFFICES ASSUME ServiceTypes, ReviewTypes, LockIsReviews, [EvidenceNext]_evidenceVars
             PROVE  LockIsReviews'
  OBVIOUS
<1>1. ASSUME NEW r \in Reviewer, ReviewerStep(r) PROVE LockIsReviews'
  <2>1. CASE softwareHeld' = softwareHeld /\ softwareHeld # r
    BY <1>1, <2>1, ReviewAfter DEF LockIsReviews, ReviewTypes
  <2>2. CASE softwareHeld' = softwareHeld /\ softwareHeld = r /\ r # NoStatement
    <3>1. reviews[r].at = "reviewing" /\ reviews[r].step \in {2, 3, 5, 6, 7, 8, 10, 11, 14, 15}
      BY <2>2 DEF LockIsReviews
    <3> QED BY <1>1, <2>2, <3>1, ReviewAfter DEF LockIsReviews
  <2>3. CASE softwareHeld' # softwareHeld \/ softwareHeld' = NoStatement
    BY <1>1, <2>3, ReviewAfter DEF LockIsReviews
  <2> QED BY <2>1, <2>2, <2>3
<1>2. ASSUME UNCHANGED <<reviews, softwareHeld>> PROVE LockIsReviews'
  BY <1>2 DEF LockIsReviews
<1> QED
  BY <1>1, <1>2, WorkAfter, EvidenceCases DEF evidenceVars

LEMMA MomentFoundStep ==
  ServiceTypes /\ ReviewTypes /\ WritersStopped /\ MomentFound /\ [EvidenceNext]_evidenceVars
    => MomentFound'
<1> SUFFICES ASSUME ServiceTypes, ReviewTypes, WritersStopped, MomentFound,
                    [EvidenceNext]_evidenceVars
             PROVE  MomentFound'
  OBVIOUS
<1>0. stood \subseteq stood'
  BY DEF EvidenceNext, evidenceVars
<1>1. ASSUME NEW r \in Reviewer, ReviewerStep(r) PROVE MomentFound'
  <2>1. UNCHANGED <<gate, signedHead, unfinished, sound>>
    BY <1>1, ReviewAfter DEF outsideVars
  <2>2. \A q \in Reviewer \ {r} : reviews'[q] = reviews[q]
    BY <1>1, ReviewAfter
  <2>3. ASSUME reviews[r].at = "reviewing", reviews[r].step = 5, reviews'[r].at = "reviewing",
               reviews'[r].step = 6, sound
        PROVE  r \in stood' \/ signedHead = "later" \/ ~unfinished
    <3>1. gate = "stopped_next" /\ signedHead \in {"next", "later"}
      BY <2>3 DEF WritersStopped
    <3>2. CASE signedHead = "next" /\ unfinished
      <4>1. AllIsWell' /\ r \in InReads'
        BY <2>1, <2>3, <3>1, <3>2 DEF AllIsWell, InReads
      <4>2. EvidenceNext
        BY <2>3 DEF evidenceVars
      <4> QED BY <4>1, <4>2 DEF EvidenceNext
    <3> QED BY <3>1, <3>2
  <2>4. reviews[r].at = "reviewing" /\ reviews'[r].at = "reviewing" =>
          /\ reviews'[r].step > 5 => r \in stood' \/ signedHead = "later" \/ ~unfinished
          /\ reviews'[r].step > 6 => r \in stood' \/ ~unfinished
          /\ reviews'[r].step > 8 => r \in stood'
    <3> SUFFICES ASSUME reviews[r].at = "reviewing", reviews'[r].at = "reviewing"
                 PROVE  /\ reviews'[r].step > 5 => r \in stood' \/ signedHead = "later" \/ ~unfinished
                        /\ reviews'[r].step > 6 => r \in stood' \/ ~unfinished
                        /\ reviews'[r].step > 8 => r \in stood'
      OBVIOUS
    <3>1. /\ reviews[r].step \in 1..15 /\ reviews'[r].step = reviews[r].step + 1
          /\ reviews[r].step = 5 => sound
          /\ reviews[r].step = 6 => signedHead = "next"
          /\ reviews[r].step = 8 => unfinished
      BY <1>1, ReviewAfter
    <3>2. /\ reviews[r].step > 5 => r \in stood \/ signedHead = "later" \/ ~unfinished
          /\ reviews[r].step > 6 => r \in stood \/ ~unfinished
          /\ reviews[r].step > 8 => r \in stood
      BY DEF MomentFound
    <3>3. CASE reviews[r].step = 5
      BY <2>3, <3>1, <3>3
    <3>4. CASE reviews[r].step # 5
      BY <1>0, <3>1, <3>2, <3>4
    <3> QED BY <3>3, <3>4
  <2>5. reviews[r].at = "asked" /\ reviews'[r].at = "reviewing" => reviews'[r].step = 1
    BY <1>1, ReviewAfter DEF MomentFound
  <2>6. reviews'[r].at = "reported" => r \in stood
    BY <1>1, ReviewAfter DEF MomentFound
  <2>7. reviews'[r].at \in {"idle", "asked"} => reviews'[r].step = 1
    BY <1>1, ReviewAfter DEF MomentFound
  <2>8. reviews'[r].at = "reviewing" => reviews[r].at \in {"asked", "reviewing"}
    BY <1>1, ReviewAfter
  <2>9. ASSUME NEW q \in Reviewer PROVE MomentFound!(q)'
    <3>1. CASE q # r
      BY <1>0, <2>1, <2>2, <3>1 DEF MomentFound
    <3>2. CASE q = r
      BY <1>0, <2>1, <2>4, <2>5, <2>6, <2>7, <2>8, <3>2
    <3> QED BY <3>1, <3>2
  <2> QED
    BY <2>9 DEF MomentFound
<1>2. ASSUME NEW w \in Worker, WorkerEffects(w) PROVE MomentFound'
  BY <1>0, <1>2, WorkAfter DEF MomentFound, outsideVars
<1>3. ASSUME WorldStep, UNCHANGED reviews PROVE MomentFound'
  <2>1. /\ signedHead = "later" => signedHead' = "later"
        /\ ~unfinished => ~unfinished'
    BY <1>3 DEF WorldStep, CommitSuccessor, CertifyStopped, CommitLater, FinishRecovery,
       ChangeCandidate, PassSecond, SetServiceClock
  <2> QED BY <1>0, <1>3, <2>1 DEF MomentFound
<1>4. ASSUME UNCHANGED evidenceVars PROVE MomentFound'
  BY <1>4 DEF evidenceVars, outsideVars, MomentFound
<1> QED
  BY <1>1, <1>2, <1>3, <1>4, EvidenceCases

\* What a step does to the ledger and to the work that is reserved.
LEMMA LedgerAfter ==
  ASSUME ServiceTypes, NEW w \in Worker, WorkerEffects(w)
  PROVE  \/ /\ UNCHANGED <<claims, latest>>
            /\ \A v \in Worker : IsReserved(v)' =>
                 /\ IsReserved(v)
                 /\ workers'[v].challenge = workers[v].challenge
                 /\ workers'[v].issued = workers[v].issued
         \/ /\ UNCHANGED answers
            /\ workers[w] # NoStatement /\ workers[w].at = "observed"
            /\ workers[w].challenge \in Reviewer
            /\ workers[w].challenge \notin DOMAIN claims
            /\ workers[w].issued <= latest' /\ latest' - workers[w].issued <= Skew
            /\ latest' >= latest /\ latest' \in Nat
            /\ workers[w].challenge \in DOMAIN claims'
            /\ claims'[workers[w].challenge] = latest'
            /\ \A q \in DOMAIN claims :
                 \/ q \in DOMAIN claims' /\ claims'[q] = claims[q]
                 \/ claims[q] + Retention < latest'
            /\ workers'[w].challenge = workers[w].challenge
            /\ workers'[w].issued = workers[w].issued
            /\ \A v \in Worker \ {w} : workers'[v] = workers[v]
<1>1. CASE ReserveChallenge(w)
  <2> DEFINE r    == workers[w].challenge
             kept == {q \in DOMAIN claims : claims[q] + Retention >= serviceSecond}
  <2>1. /\ workers[w] # NoStatement /\ workers[w].at = "observed"
        /\ workers[w].issued \in {n \in 0..serviceSecond : serviceSecond - n <= Skew}
        /\ serviceSecond >= latest
        /\ r \notin DOMAIN claims
        /\ claims' = [q \in kept \cup {r} |-> IF q = r THEN serviceSecond ELSE claims[q]]
        /\ latest' = serviceSecond
        /\ workers' = [workers EXCEPT ![w] = [workers[w] EXCEPT !.at = "reserved"]]
        /\ UNCHANGED answers
    BY <1>1 DEF ReserveChallenge, Work, InOrder
  <2>2. \A q \in DOMAIN claims :
          \/ q \in DOMAIN claims' /\ claims'[q] = claims[q]
          \/ claims[q] + Retention < latest'
    BY <2>1, ServiceAssumption DEF ServiceTypes
  <2>3. r \in DOMAIN claims' /\ claims'[r] = latest'
    BY <2>1
  <2>4. r \in Reviewer /\ \A v \in Worker \ {w} : workers'[v] = workers[v]
    BY <2>1 DEF ServiceTypes
  <2>5. workers'[w].challenge = r /\ workers'[w].issued = workers[w].issued
    BY <2>1 DEF ServiceTypes
  <2>6. latest' \in Nat /\ latest' >= latest
    BY <2>1 DEF ServiceTypes
  <2> HIDE DEF r, kept
  <2>7. workers[w].issued <= latest' /\ latest' - workers[w].issued <= Skew
    BY <2>1 DEF ServiceTypes
  <2> QED BY <2>1, <2>2, <2>3, <2>4, <2>5, <2>6, <2>7 DEF r
<1>2. CASE ~ReserveChallenge(w)
  <2>1. UNCHANGED <<claims, latest>>
    BY <1>2 DEF WorkerEffects, TakeRequest, ObserveWriters, SignStatement, DropWork, ServiceReads
  <2>2. workers'[w] = NoStatement \/ workers'[w].at \in {"taken", "observed"}
    <3>1. CASE \E r \in Reviewer : TakeRequest(w, r)
      BY <3>1 DEF TakeRequest, Work, ServiceTypes
    <3>2. CASE ObserveWriters(w)
      BY <3>2 DEF ObserveWriters, Work, ServiceTypes
    <3>3. CASE SignStatement(w) \/ DropWork(w)
      BY <3>3 DEF SignStatement, DropWork, Work, ServiceTypes
    <3> QED BY <1>2, <3>1, <3>2, <3>3 DEF WorkerEffects
  <2> QED BY <2>1, <2>2, WorkAfter DEF IsReserved
<1> QED
  BY <1>1, <1>2

\* A token of the ledger's remains one.
LEMMA RememberedStays ==
  ASSUME ServiceTypes, NEW r \in Reviewer, NEW i \in 0..MaxSecond, Remembered(r, i),
         latest' \in Nat, latest' >= latest,
         \A q \in DOMAIN claims :
           (q \in DOMAIN claims' /\ claims'[q] = claims[q]) \/ claims[q] + Retention < latest'
  PROVE  Remembered(r, i)'
BY ServiceAssumption DEF Remembered, ServiceTypes

LEMMA LedgerStep ==
  /\ ServiceTypes /\ ReviewTypes /\ LedgerRemembers /\ AnswersApart
  /\ [EvidenceNext]_evidenceVars
  => LedgerRemembers' /\ AnswersApart'
<1> SUFFICES ASSUME ServiceTypes, ReviewTypes, LedgerRemembers, AnswersApart,
                    [EvidenceNext]_evidenceVars
             PROVE  LedgerRemembers' /\ AnswersApart'
  OBVIOUS
<1>0. /\ \A r \in Reviewer : \A n \in DOMAIN answers[r] : answers[r][n].issued \in 0..MaxSecond
      /\ \A v \in Worker : workers[v] # NoStatement =>
           workers[v].challenge \in Reviewer /\ workers[v].issued \in 0..MaxSecond
  <2>1. ASSUME NEW r \in Reviewer, NEW n \in DOMAIN answers[r]
        PROVE  answers[r][n] \in Statement
    BY DEF ServiceTypes
  <2>2. \A e \in Statement : e.issued \in 0..MaxSecond
    BY DEF Statement
  <2> QED BY <2>1, <2>2 DEF ServiceTypes
<1>1. ASSUME NEW w \in Worker, WorkerEffects(w), UNCHANGED <<claims, latest>>, answers' # answers,
             \A v \in Worker : IsReserved(v)' =>
               /\ IsReserved(v)
               /\ workers'[v].challenge = workers[v].challenge
               /\ workers'[v].issued = workers[v].issued
      PROVE  LedgerRemembers' /\ AnswersApart'
  <2> DEFINE c == workers[w].challenge
             e == [issued |-> workers[w].issued, begun |-> workers[w].begun]
             new == Len(answers[c]) + 1
  <2>1. /\ c \in Reviewer /\ IsReserved(w) /\ workers'[w] = NoStatement
        /\ answers' = [answers EXCEPT ![c] = Append(@, e)]
    BY <1>1, WorkAfter DEF IsReserved
  <2>2. e \in Statement /\ e.issued = workers[w].issued
    BY <2>1 DEF ServiceTypes, Statement, IsReserved
  <2> HIDE DEF e
  <2>3. /\ \A r \in Reviewer \ {c} : answers'[r] = answers[r]
        /\ DOMAIN answers'[c] = DOMAIN answers[c] \cup {new} /\ new \notin DOMAIN answers[c]
        /\ \A n \in DOMAIN answers[c] : answers'[c][n] = answers[c][n]
        /\ answers'[c][new].issued = workers[w].issued
    <3> HIDE DEF c
    <3> QED BY <2>1, <2>2, AnswerAdded
  <2>4. ~IsReserved(w)'
    BY <2>1 DEF IsReserved
  <2> HIDE DEF new, c
  <2>5. /\ Remembered(c, workers[w].issued)
        /\ \A n \in DOMAIN answers[c] : Apart(workers[w].issued, answers[c][n].issued)
    BY <2>1 DEF LedgerRemembers, AnswersApart, c
  <2>6. \A r \in Reviewer : \A i : Remembered(r, i)' <=> Remembered(r, i)
    BY <1>1 DEF Remembered
  <2>7. \A r \in Reviewer : \A n \in DOMAIN answers'[r] : Remembered(r, answers'[r][n].issued)
    BY <2>3, <2>5 DEF LedgerRemembers
  <2>8. \A v \in Worker : IsReserved(v)' => Remembered(workers'[v].challenge, workers'[v].issued)
    BY <1>1 DEF LedgerRemembers
  <2>9. ASSUME NEW r \in Reviewer, NEW m \in DOMAIN answers'[r], NEW n \in DOMAIN answers'[r], m # n
        PROVE  Apart(answers'[r][m].issued, answers'[r][n].issued)
    <3>1. \A q \in Reviewer : \A j, k \in DOMAIN answers[q] :
            j # k => Apart(answers[q][j].issued, answers[q][k].issued)
      BY DEF AnswersApart, ChallengeAnsweredOnce, Apart
    <3>2. \A k \in DOMAIN answers[c] : Apart(answers[c][k].issued, workers[w].issued)
      BY <2>5 DEF Apart
    <3>3. CASE r # c
      BY <2>3, <2>9, <3>1, <3>3
    <3>4. CASE r = c /\ m # new /\ n # new
      BY <2>3, <2>9, <3>1, <3>4
    <3>5. CASE r = c /\ m = new /\ n # new
      BY <2>3, <2>5, <3>5
    <3>6. CASE r = c /\ m # new /\ n = new
      BY <2>3, <3>2, <3>6
    <3> QED BY <2>9, <3>3, <3>4, <3>5, <3>6
  <2>10. ASSUME NEW v \in Worker, IsReserved(v)'
         PROVE  \A n \in DOMAIN answers'[workers'[v].challenge] :
                  Apart(workers'[v].issued, answers'[workers'[v].challenge][n].issued)
    <3>1. /\ v # w /\ IsReserved(v) /\ workers'[v].challenge = workers[v].challenge
          /\ workers'[v].issued = workers[v].issued
      BY <1>1, <2>4, <2>10
    <3>2. /\ workers[v].challenge \in Reviewer
          /\ \A n \in DOMAIN answers[workers[v].challenge] :
               Apart(workers[v].issued, answers[workers[v].challenge][n].issued)
          /\ workers[v].challenge = c => Apart(workers[v].issued, workers[w].issued)
      BY <1>0, <2>1, <3>1 DEF AnswersApart, IsReserved, c
    <3> QED BY <2>3, <3>1, <3>2
  <2>11. \A u, v \in Worker :
           u # v /\ IsReserved(u)' /\ IsReserved(v)' /\ workers'[u].challenge = workers'[v].challenge =>
             Apart(workers'[u].issued, workers'[v].issued)
    BY <1>1 DEF AnswersApart
  <2>12. LedgerRemembers'
    BY <1>0, <1>1, <2>7, <2>8 DEF LedgerRemembers, Remembered
  <2>13. ChallengeAnsweredOnce'
    BY <2>9 DEF ChallengeAnsweredOnce, Apart
  <2> QED
    BY <2>10, <2>11, <2>12, <2>13 DEF AnswersApart, Apart
<1>2. ASSUME UNCHANGED <<claims, latest, answers>>,
             \A v \in Worker : IsReserved(v)' =>
               /\ IsReserved(v)
               /\ workers'[v].challenge = workers[v].challenge
               /\ workers'[v].issued = workers[v].issued
      PROVE  LedgerRemembers' /\ AnswersApart'
  <2>1. LedgerRemembers'
    BY <1>2 DEF LedgerRemembers, Remembered
  <2>2. ChallengeAnsweredOnce'
    BY <1>2 DEF AnswersApart, ChallengeAnsweredOnce
  <2> QED BY <1>2, <2>1, <2>2 DEF AnswersApart, Apart
<1>3. ASSUME NEW w \in Worker, UNCHANGED answers,
             workers[w] # NoStatement, workers[w].at = "observed",
             workers[w].challenge \in Reviewer, workers[w].challenge \notin DOMAIN claims,
             workers[w].issued <= latest', latest' - workers[w].issued <= Skew,
             latest' >= latest, latest' \in Nat,
             workers[w].challenge \in DOMAIN claims', claims'[workers[w].challenge] = latest',
             \A q \in DOMAIN claims :
               (q \in DOMAIN claims' /\ claims'[q] = claims[q]) \/ claims[q] + Retention < latest',
             workers'[w].challenge = workers[w].challenge,
             workers'[w].issued = workers[w].issued,
             \A v \in Worker \ {w} : workers'[v] = workers[v]
      PROVE  LedgerRemembers' /\ AnswersApart'
  <2> DEFINE c == workers[w].challenge
  <2>1. \A r \in Reviewer : \A i \in 0..MaxSecond : Remembered(r, i) => Remembered(r, i)'
    BY <1>3, RememberedStays
  <2>2. Remembered(c, workers[w].issued)'
    BY <1>3 DEF Remembered
  <2>3. \A v \in Worker \ {w} : IsReserved(v)' => IsReserved(v)
    BY <1>3 DEF IsReserved
  <2>4. LedgerRemembers'
    <3>1. \A r \in Reviewer : \A n \in DOMAIN answers[r] : Remembered(r, answers[r][n].issued)'
      BY <1>0, <1>3, <2>1 DEF LedgerRemembers
    <3>2. ASSUME NEW v \in Worker, IsReserved(v)'
          PROVE  Remembered(workers[v].challenge, workers[v].issued)'
      <4>1. CASE v = w
        BY <1>3, <2>2, <4>1 DEF Remembered
      <4>2. CASE v # w
        <5>1. /\ IsReserved(v) /\ workers'[v] = workers[v]
              /\ workers[v].challenge \in Reviewer /\ workers[v].issued \in 0..MaxSecond
          BY <1>0, <1>3, <2>3, <3>2, <4>2 DEF IsReserved
        <5>2. Remembered(workers[v].challenge, workers[v].issued)
          BY <5>1 DEF LedgerRemembers
        <5> QED BY <2>1, <5>1, <5>2 DEF Remembered
      <4> QED BY <4>1, <4>2
    <3> QED BY <1>3, <3>1, <3>2 DEF LedgerRemembers, Remembered
  <2>5. \A i \in 0..MaxSecond : Remembered(c, i) => Apart(workers[w].issued, i)
    <3>1. workers[w].issued \in 0..MaxSecond /\ latest \in 0..MaxSecond
      BY <1>0, <1>3 DEF ServiceTypes
    <3> QED BY <1>3, <3>1, ServiceAssumption DEF Remembered, Apart
  <2>6. \A n \in DOMAIN answers[c] : Apart(workers[w].issued, answers[c][n].issued)
    BY <1>0, <1>3, <2>5 DEF LedgerRemembers
  <2>7. ASSUME NEW v \in Worker, v # w, IsReserved(v), workers[v].challenge = c
        PROVE  Apart(workers[w].issued, workers[v].issued)
    BY <1>0, <2>5, <2>7 DEF LedgerRemembers, IsReserved
  <2>8. ChallengeAnsweredOnce'
    BY <1>3 DEF AnswersApart, ChallengeAnsweredOnce
  <2>9. \A v \in Worker : IsReserved(v)' =>
          \A n \in DOMAIN answers[workers'[v].challenge] :
            Apart(workers'[v].issued, answers[workers'[v].challenge][n].issued)
    BY <1>3, <2>3, <2>6 DEF AnswersApart
  <2>10. \A u, v \in Worker :
           u # v /\ IsReserved(u)' /\ IsReserved(v)' /\ workers'[u].challenge = workers'[v].challenge =>
             Apart(workers'[u].issued, workers'[v].issued)
    <3> SUFFICES ASSUME NEW u \in Worker, NEW v \in Worker, u # v, IsReserved(u)', IsReserved(v)',
                        workers'[u].challenge = workers'[v].challenge
                 PROVE  Apart(workers'[u].issued, workers'[v].issued)
      OBVIOUS
    <3>1. CASE u # w /\ v # w
      BY <1>3, <2>3, <3>1 DEF AnswersApart
    <3>2. CASE u = w
      BY <1>3, <2>3, <2>7, <3>2
    <3>3. CASE v = w
      <4>1. Apart(workers[v].issued, workers[u].issued)
        BY <1>3, <2>3, <2>7, <3>3
      <4> QED BY <1>3, <3>3, <4>1 DEF Apart
    <3> QED BY <3>1, <3>2, <3>3
  <2> QED
    BY <1>3, <2>4, <2>8, <2>9, <2>10 DEF AnswersApart, Apart
<1>4. ASSUME NEW w \in Worker, WorkerEffects(w) PROVE LedgerRemembers' /\ AnswersApart'
  <2>1. CASE /\ UNCHANGED <<claims, latest>>
             /\ \A v \in Worker : IsReserved(v)' =>
                  /\ IsReserved(v)
                  /\ workers'[v].challenge = workers[v].challenge
                  /\ workers'[v].issued = workers[v].issued
    BY <1>1, <1>2, <1>4, <2>1
  <2> QED BY <1>3, <1>4, <2>1, LedgerAfter
<1>5. ASSUME UNCHANGED <<claims, latest, answers, workers>>
      PROVE  LedgerRemembers' /\ AnswersApart'
  BY <1>2, <1>5 DEF IsReserved
<1>6. ASSUME NEW r \in Reviewer, ReviewerStep(r) PROVE UNCHANGED <<claims, latest, answers, workers>>
  BY <1>6, ReviewAfter DEF serviceVars
<1> QED
  BY <1>4, <1>5, <1>6, EvidenceCases DEF ServiceStill, evidenceVars, serviceVars

-----------------------------------------------------------------------------
(* A review's report is of one moment, and by an answer of its own.        *)

LEMMA EvidenceInvInit == EvidenceInit => EvidenceInv
<1> SUFFICES ASSUME EvidenceInit PROVE EvidenceInv
  OBVIOUS
<1>1. \A r \in Reviewer : answers[r] = << >> /\ DOMAIN answers[r] = {}
  BY DEF EvidenceInit
<1>2. \A w \in Worker : workers[w] = NoStatement
  BY DEF EvidenceInit
<1>3. \A r \in Reviewer : reviews[r].at = "idle" /\ reviews[r].step = 1
  BY DEF EvidenceInit
<1>4. WritersStopped
  BY <1>1, <1>2, <1>3 DEF WritersStopped, EvidenceInit
<1>5. ObservedForIt
  BY <1>1, <1>2, <1>3 DEF ObservedForIt, StatementIsAnswer
<1>6. LockIsReviews
  BY DEF LockIsReviews, EvidenceInit
<1>7. MomentFound
  BY <1>3 DEF MomentFound
<1>8. LedgerRemembers
  BY <1>1, <1>2 DEF LedgerRemembers, IsReserved
<1>9. AnswersApart
  BY <1>1, <1>2 DEF AnswersApart, IsReserved, ChallengeAnsweredOnce
<1> QED
  BY <1>4, <1>5, <1>6, <1>7, <1>8, <1>9, EvidenceInitTypes DEF EvidenceInv

LEMMA EvidenceInvStep == EvidenceInv /\ [EvidenceNext]_evidenceVars => EvidenceInv'
BY ServiceTypesStep, ReviewTypesStep, WritersStoppedStep, ObservedForItStep, LockIsReviewsStep,
   MomentFoundStep, LedgerStep DEF EvidenceInv

LEMMA EvidenceInvMeans == EvidenceInv => EvidenceTypeOK /\ EvidenceStands
<1> SUFFICES ASSUME EvidenceInv PROVE EvidenceTypeOK /\ EvidenceStands
  OBVIOUS
<1>1. EvidenceStands
  <2>1. ReviewedAtOneMoment
    BY DEF EvidenceInv, MomentFound, ReviewedAtOneMoment
  <2> QED BY <2>1 DEF EvidenceInv, EvidenceStands, AnswersApart, ObservedForIt
<1>2. \A r \in Reviewer :
        /\ reviews[r].step \in 1..(Len(ReviewSteps) + 1)
        /\ \A n \in DOMAIN answers[r] :
             answers[r][n] \in [issued : 0..MaxSecond, begun : SUBSET Reviewer]
  <2>1. \A r \in Reviewer : \A n \in DOMAIN answers[r] : answers[r][n] \in Statement
    BY DEF EvidenceInv, ServiceTypes
  <2>2. \A r \in Reviewer : reviews[r].step \in 1..(Len(ReviewSteps) + 1)
    BY StepsAre DEF EvidenceInv, ReviewTypes
  <2> QED BY <2>1, <2>2 DEF Statement
<1>3. EvidenceTypeOK
  BY <1>2 DEF EvidenceInv, ServiceTypes, ReviewTypes, LockIsReviews, EvidenceTypeOK
<1> QED BY <1>1, <1>3

LEMMA EvidenceAlways == SupplySpec => []EvidenceInv
<1>1. SupplyInit => EvidenceInv
  BY EvidenceAlone, EvidenceInvInit
<1>2. EvidenceInv /\ [SupplyNext]_supplyVars => EvidenceInv'
  BY EvidenceAlone, EvidenceInvStep
<1> QED BY <1>1, <1>2, PTL DEF SupplySpec

\* The recovery service never lets two statements for one challenge verify at
\* the same second, a review goes by a statement that was observed for it, and
\* what it reports held at one moment: for any clock, retention and number of
\* reviews and workers (recovery_observation_service.py, plan_recovery.py).
THEOREM EvidenceSound == SupplySpec => []EvidenceStands
BY EvidenceAlways, EvidenceInvMeans, PTL

-----------------------------------------------------------------------------
(* The composition that is planned.                                        *)

LEMMA ReviewAlone ==
  /\ SupplyInit => ReviewInit
  /\ [SupplyNext]_supplyVars => [ReviewNext]_planning
BY DEF SupplyInit, SupplyNext, supplyVars, Releases, Compositions, Preparations, Audits, Evidence

\* Of finitely many releases one is the newest.
LEMMA NewestIs ==
  ASSUME NEW S, IsFiniteSet(S), S # {}, \A r \in S : r.version \in Nat
  PROVE  \E r \in S : \A s \in S : s.version <= r.version
<1> DEFINE Above(r) == {s \in S : s.version > r.version}
           All == {Above(r) : r \in S}
<1>1. All \subseteq FiniteSubsetsOf(S) /\ All # {}
  <2>1. ASSUME NEW r \in S PROVE Above(r) \in FiniteSubsetsOf(S)
    BY FS_Subset DEF FiniteSubsetsOf
  <2> QED BY <2>1
<1>2. PICK least \in All : \A other \in All : ~(<<other, least>> \in StrictSubsetOrdering(S))
  BY <1>1, FS_StrictSubsetOrderingWellFounded, WFMin
<1>3. PICK r \in S : least = Above(r)
  OBVIOUS
<1>4. ASSUME NEW s \in S, s.version > r.version PROVE FALSE
  <2>1. Above(s) \subseteq Above(r) /\ s \in Above(r) /\ s \notin Above(s)
    BY <1>4
  <2>2. Above(s) \in SUBSET S /\ Above(r) \in SUBSET S /\ Above(s) \in All
    OBVIOUS
  <2> HIDE DEF Above
  <2>3. <<Above(s), Above(r)>> \in StrictSubsetOrdering(S)
    BY <2>1, <2>2 DEF StrictSubsetOrdering
  <2> QED BY <1>2, <1>3, <2>2, <2>3
<1>5. \A s \in S : s.version <= r.version
  BY <1>4
<1> QED BY <1>5

\* Some selection on the way refused the version that was there before.
RefusedOnTheWay(plan, m) ==
  \E selected \in plan.seen : \E n \in DOMAIN selected :
    /\ m \in DOMAIN selected[n].needs
    /\ plan.before[m].version \notin selected[n].needs[m]

AsAsked(plan) == Overlay(plan.catalog, plan.before, plan.targets)

Listed(plan, selected) ==
  /\ DOMAIN selected \subseteq DOMAIN plan.catalog
  /\ \A m \in DOMAIN selected : selected[m] \in plan.catalog[m]

\* A plan on its way: what it keeps of the baseline it keeps unless it was refused, and
\* in the first round nothing was chosen yet.
PlanRight(plan) ==
  /\ DOMAIN plan = {"catalog", "before", "targets", "selected", "round", "seen", "status"}
  /\ plan.catalog \in Catalogs
  /\ Listed(plan, plan.before)
  /\ Listed(plan, plan.selected)
  /\ plan.round \in 0..MaxRounds
  /\ IsFiniteSet(plan.seen) /\ Cardinality(plan.seen) = plan.round
  /\ plan.status \in {"open", "planned", "refused"}
  /\ \A m \in DOMAIN plan.before \ DOMAIN plan.targets :
       /\ m \in DOMAIN plan.selected
       /\ plan.selected[m] = plan.before[m] \/ RefusedOnTheWay(plan, m)
  /\ plan.status = "open" /\ plan.round = 0 => plan.selected = AsAsked(plan)
  /\ plan.status = "open" /\ plan.round > 0 => ~NeedsMet(AsAsked(plan))
  /\ plan.status = "planned" =>
       NeedsMet(plan.selected) /\ \A m \in DOMAIN plan.selected : Usable(plan.selected[m])
  /\ plan.status = "refused" =>
       \/ AsAsked(plan) = <<>> \/ ~NeedsMet(AsAsked(plan))
       \/ \E m \in DOMAIN AsAsked(plan) : ~Usable(AsAsked(plan)[m])

ReviewInv == planning # NoReview => PlanRight(planning)

LEMMA ListedReleases ==
  ASSUME NEW plan, plan.catalog \in Catalogs, NEW m \in DOMAIN plan.catalog
  PROVE  /\ m \in Component /\ IsFiniteSet(plan.catalog[m])
         /\ \A r \in plan.catalog[m] : r.version \in Nat /\ DOMAIN r.needs \subseteq Component
         /\ \A r, s \in plan.catalog[m] : r.version = s.version => r = s
BY ReviewAssumption

\* What is chosen will do, and is what was there before where that will do.
LEMMA ChoiceIs ==
  ASSUME planning.catalog \in Catalogs, Listed(planning, planning.before),
         NEW m, NEW selected, Eligible(m, selected) # {}
  PROVE  /\ m \in DOMAIN planning.catalog
         /\ Choice(m, selected) \in Eligible(m, selected)
         /\ Choice(m, selected) \in planning.catalog[m]
<1> DEFINE eligible == Eligible(m, selected)
           retained == IF m \in DOMAIN planning.before
                       THEN {r \in eligible : r.version = planning.before[m].version}
                       ELSE {}
<1>1. m \in DOMAIN planning.catalog /\ eligible \subseteq planning.catalog[m]
  BY DEF Eligible
<1>2. IsFiniteSet(eligible) /\ \A r \in eligible : r.version \in Nat
  BY <1>1, ListedReleases, FS_Subset
<1>3. \E r \in eligible : \A s \in eligible : s.version <= r.version
  BY <1>2, NewestIs
<1>4. Choice(m, selected) = IF retained # {} THEN CHOOSE r \in retained : TRUE
                            ELSE CHOOSE r \in eligible : \A s \in eligible : s.version <= r.version
  BY DEF Choice
<1>5. retained \subseteq eligible
  OBVIOUS
<1> HIDE DEF eligible, retained
<1>6. Choice(m, selected) \in eligible
  BY <1>3, <1>4, <1>5
<1> QED BY <1>1, <1>6 DEF eligible

\* Nothing but a refusal makes a release of the baseline open.
LEMMA OpenIsRefused ==
  ASSUME NEW selected, NEW m \in OpenNeeds(selected, selected), m \in DOMAIN selected
  PROVE  \E n \in DOMAIN selected : /\ m \in DOMAIN selected[n].needs
                                    /\ selected[m].version \notin selected[n].needs[m]
BY DEF OpenNeeds, Needed, Suits, Needing

LEMMA OverlayIs ==
  ASSUME NEW catalog \in Catalogs, NEW before \in Baselines(catalog), NEW targets,
         TargetsStand(catalog, before, targets)
  PROVE  /\ DOMAIN before \subseteq DOMAIN catalog
         /\ \A m \in DOMAIN before : before[m] \in catalog[m]
         /\ DOMAIN Overlay(catalog, before, targets) \subseteq DOMAIN catalog
         /\ \A m \in DOMAIN Overlay(catalog, before, targets) :
              Overlay(catalog, before, targets)[m] \in catalog[m]
         /\ \A m \in DOMAIN before \ DOMAIN targets :
              /\ m \in DOMAIN Overlay(catalog, before, targets)
              /\ Overlay(catalog, before, targets)[m] = before[m]
<1>1. DOMAIN before \subseteq DOMAIN catalog
  BY DEF Baselines
<1>2. \A m \in DOMAIN before : before[m] \in catalog[m]
  BY DEF Baselines
<1>3. \A m \in DOMAIN targets : targets[m] # Removed =>
        m \in DOMAIN catalog /\ \E r \in catalog[m] : r.version = targets[m]
  BY DEF TargetsStand
<1> QED BY <1>1, <1>2, <1>3 DEF Overlay

LEMMA BeginReviewStep ==
  ASSUME BeginReview PROVE ReviewInv'
<1>0. PICK catalog \in Catalogs : \E before \in Baselines(catalog), targets \in Targets(catalog) :
        LET selected == Overlay(catalog, before, targets)
        IN /\ TargetsStand(catalog, before, targets)
           /\ planning' = [catalog |-> catalog, before |-> before, targets |-> targets,
                           selected |-> selected, round |-> 0, seen |-> {},
                           status |-> IF selected = <<>> THEN "refused" ELSE "open"]
  BY DEF BeginReview
<1>1. PICK before \in Baselines(catalog), targets \in Targets(catalog) :
        /\ TargetsStand(catalog, before, targets)
        /\ planning' = [catalog |-> catalog, before |-> before, targets |-> targets,
                        selected |-> Overlay(catalog, before, targets), round |-> 0, seen |-> {},
                        status |-> IF Overlay(catalog, before, targets) = <<>>
                                   THEN "refused" ELSE "open"]
  BY <1>0
<1> DEFINE asked == Overlay(catalog, before, targets)
           word == IF asked = <<>> THEN "refused" ELSE "open"
           new == [catalog |-> catalog, before |-> before, targets |-> targets,
                   selected |-> asked, round |-> 0, seen |-> {}, status |-> word]
<1>2. /\ Listed(new, before) /\ Listed(new, asked)
      /\ \A m \in DOMAIN before \ DOMAIN targets : m \in DOMAIN asked /\ asked[m] = before[m]
  BY <1>1, OverlayIs DEF Listed
<1>3. IsFiniteSet({}) /\ Cardinality({}) = 0 /\ 0 \in 0..MaxRounds
  BY FS_EmptySet, ReviewAssumption
<1>4. AsAsked(new) = asked
  BY DEF AsAsked
<1>5. /\ word \in {"open", "planned", "refused"} /\ word # "planned"
      /\ word = "refused" => asked = <<>>
  OBVIOUS
<1> HIDE DEF asked, word
<1>6. PlanRight(new)
  BY <1>2, <1>3, <1>4, <1>5 DEF PlanRight
<1>7. planning' = new
  BY <1>1 DEF asked, word
<1> QED BY <1>6, <1>7 DEF ReviewInv

LEMMA NextRoundStep ==
  ASSUME ReviewInv, NextRound PROVE ReviewInv'
<1> DEFINE selected == planning.selected
           open == OpenNeeds(selected, selected)
           chosen == [m \in DOMAIN selected \cup open |->
                        IF m \in open THEN Choice(m, selected) ELSE selected[m]]
           refused == [planning EXCEPT !.status = "refused"]
           word == IF \A m \in DOMAIN selected : Usable(selected[m]) THEN "planned" ELSE "refused"
           settled == [planning EXCEPT !.status = word]
           further == [planning EXCEPT !.selected = chosen, !.round = @ + 1,
                                       !.seen = @ \cup {selected}]
           Stops == selected \in planning.seen \/ planning.round = MaxRounds \/ Unresolvable(open)
<1>1. /\ PlanRight(planning) /\ planning.status = "open"
      /\ planning' = IF Stops THEN refused ELSE IF open = {} THEN settled ELSE further
  BY DEF NextRound, ReviewInv
<1>2. /\ planning.catalog \in Catalogs /\ Listed(planning, planning.before)
      /\ Listed(planning, selected) /\ planning.round \in 0..MaxRounds
      /\ IsFiniteSet(planning.seen) /\ Cardinality(planning.seen) = planning.round
      /\ MaxRounds \in Nat \ {0}
  BY <1>1, ReviewAssumption DEF PlanRight
<1>3. planning.round = 0 => selected = AsAsked(planning) /\ planning.seen = {}
  BY <1>1, <1>2, FS_EmptySet DEF PlanRight
<1>4. planning.round > 0 => ~NeedsMet(AsAsked(planning))
  BY <1>1 DEF PlanRight
<1>5. NeedsMet(selected) <=> open = {}
  BY DEF NeedsMet
<1>6. ASSUME Stops PROVE PlanRight(refused)
  <2>1. ~NeedsMet(AsAsked(planning))
    <3>1. CASE planning.round = 0
      <4>1. Unresolvable(open)
        BY <1>2, <1>3, <1>6, <3>1
      <4>2. open # {}
        BY <4>1 DEF Unresolvable
      <4> QED BY <1>3, <1>5, <3>1, <4>2
    <3>2. CASE planning.round # 0
      BY <1>2, <1>4, <3>2
    <3> QED BY <3>1, <3>2
  <2>2. /\ DOMAIN refused = DOMAIN planning /\ refused.status = "refused"
        /\ refused.catalog = planning.catalog /\ refused.before = planning.before
        /\ refused.targets = planning.targets /\ refused.selected = selected
        /\ refused.round = planning.round /\ refused.seen = planning.seen
    BY <1>1 DEF PlanRight
  <2> HIDE DEF refused, selected
  <2> QED BY <1>1, <2>1, <2>2 DEF PlanRight, Listed, RefusedOnTheWay, AsAsked, selected
<1>7. ASSUME ~Stops, open = {} PROVE PlanRight(settled)
  <2>1. /\ word \in {"planned", "refused"}
        /\ word = "planned" => \A m \in DOMAIN selected : Usable(selected[m])
        /\ word = "refused" => \E m \in DOMAIN selected : ~Usable(selected[m])
    OBVIOUS
  <2>2. /\ DOMAIN settled = DOMAIN planning /\ settled.status = word
        /\ settled.catalog = planning.catalog /\ settled.before = planning.before
        /\ settled.targets = planning.targets /\ settled.selected = selected
        /\ settled.round = planning.round /\ settled.seen = planning.seen
    BY <1>1 DEF PlanRight
  <2>3. NeedsMet(selected)
    BY <1>5, <1>7
  <2>4. \/ selected = AsAsked(planning) \/ ~NeedsMet(AsAsked(planning))
    BY <1>2, <1>3, <1>4
  <2> HIDE DEF settled, selected, word, open
  <2>5. AsAsked(settled) = AsAsked(planning)
    BY <2>2 DEF AsAsked
  <2>6. \A m : RefusedOnTheWay(settled, m) <=> RefusedOnTheWay(planning, m)
    BY <2>2 DEF RefusedOnTheWay
  <2>7. \A s : Listed(settled, s) <=> Listed(planning, s)
    BY <2>2 DEF Listed
  <2> QED BY <1>1, <2>1, <2>2, <2>3, <2>4, <2>5, <2>6, <2>7 DEF PlanRight, selected
<1>8. ASSUME ~Stops, open # {} PROVE PlanRight(further)
  <2>1. /\ DOMAIN further = DOMAIN planning /\ further.status = "open"
        /\ further.catalog = planning.catalog /\ further.before = planning.before
        /\ further.targets = planning.targets /\ further.selected = chosen
        /\ further.round = planning.round + 1 /\ further.seen = planning.seen \cup {selected}
    BY <1>1 DEF PlanRight
  <2>2. /\ IsFiniteSet(further.seen) /\ Cardinality(further.seen) = further.round
        /\ further.round \in 0..MaxRounds /\ further.round > 0
    <3>1. /\ IsFiniteSet(planning.seen \cup {selected})
          /\ Cardinality(planning.seen \cup {selected}) = planning.round + 1
      BY <1>2, <1>8, FS_AddElement
    <3>2. planning.round + 1 \in 0..MaxRounds /\ planning.round + 1 > 0
      BY <1>2, <1>8
    <3> QED BY <2>1, <3>1, <3>2
  <2>3. \A m \in open : Eligible(m, selected) # {}
    BY <1>8 DEF Unresolvable
  <2>4. \A m \in open : m \in DOMAIN planning.catalog /\ Choice(m, selected) \in planning.catalog[m]
    BY <1>2, <2>3, ChoiceIs
  <2>5. /\ DOMAIN chosen = DOMAIN selected \cup open
        /\ \A m \in DOMAIN selected \cup open :
             chosen[m] = IF m \in open THEN Choice(m, selected) ELSE selected[m]
    OBVIOUS
  <2>6. Listed(further, chosen) /\ Listed(further, planning.before)
    BY <1>2, <2>1, <2>4, <2>5 DEF Listed
  <2>7. ASSUME NEW m \in DOMAIN planning.before \ DOMAIN planning.targets
        PROVE  m \in DOMAIN chosen
               /\ (chosen[m] = planning.before[m] \/ RefusedOnTheWay(further, m))
    <3>1. /\ m \in DOMAIN selected
          /\ selected[m] = planning.before[m] \/ RefusedOnTheWay(planning, m)
      BY <1>1 DEF PlanRight
    <3>2. CASE RefusedOnTheWay(planning, m)
      BY <2>1, <2>5, <3>1, <3>2 DEF RefusedOnTheWay
    <3>3. CASE selected[m] = planning.before[m] /\ m \notin open
      BY <2>5, <3>1, <3>3
    <3>4. CASE selected[m] = planning.before[m] /\ m \in open
      <4>1. \E n \in DOMAIN selected : /\ m \in DOMAIN selected[n].needs
                                       /\ planning.before[m].version \notin selected[n].needs[m]
        BY <3>1, <3>4, OpenIsRefused
      <4>2. selected \in further.seen
        BY <2>1
      <4> QED BY <2>1, <2>5, <3>1, <4>1, <4>2 DEF RefusedOnTheWay
    <3> QED BY <3>1, <3>2, <3>3, <3>4
  <2>8. ~NeedsMet(AsAsked(planning))
    BY <1>2, <1>3, <1>4, <1>5, <1>8
  <2> HIDE DEF further, selected, chosen
  <2>9. AsAsked(further) = AsAsked(planning)
    BY <2>1 DEF AsAsked
  <2> QED BY <1>1, <2>1, <2>2, <2>6, <2>7, <2>8, <2>9 DEF PlanRight
<1> HIDE DEF Stops, refused, settled, further, open
<1> QED BY <1>1, <1>6, <1>7, <1>8 DEF ReviewInv

LEMMA ReviewAlways == SupplySpec => []ReviewInv
<1>1. SupplyInit => ReviewInv
  BY ReviewAlone DEF ReviewInit, ReviewInv
<1>2. ReviewInv /\ [SupplyNext]_supplyVars => ReviewInv'
  <2> SUFFICES ASSUME ReviewInv, [SupplyNext]_supplyVars PROVE ReviewInv'
    OBVIOUS
  <2>1. CASE UNCHANGED planning
    BY <2>1 DEF ReviewInv
  <2>2. CASE EndReview
    BY <2>2 DEF EndReview, ReviewInv
  <2> QED BY <2>1, <2>2, ReviewAlone, BeginReviewStep, NextRoundStep DEF ReviewNext
<1> QED BY <1>1, <1>2, PTL DEF SupplySpec

LEMMA ReviewInvMeans == ReviewInv => ReviewTypeOK /\ CompositionStands
<1> SUFFICES ASSUME ReviewInv, planning # NoReview PROVE ReviewTypeOK /\ CompositionStands
  BY DEF ReviewTypeOK, CompositionStands, ReviewedPlanStands, NothingChangesForNothing,
     TargetsThatStandArePlanned, Reviewed
<1>1. PlanRight(planning)
  BY DEF ReviewInv
<1>2. ReviewTypeOK
  BY <1>1 DEF PlanRight, Listed, ReviewTypeOK
<1>3. ASSUME planning.status = "planned", NEW m \in DOMAIN planning.selected
      PROVE  /\ planning.selected[m].ok /\ ~planning.selected[m].revoked
             /\ \A n \in DOMAIN planning.selected[m].needs :
                  /\ n \in DOMAIN planning.selected
                  /\ planning.selected[n].version \in planning.selected[m].needs[n]
  <2>1. Usable(planning.selected[m]) /\ OpenNeeds(planning.selected, planning.selected) = {}
    BY <1>1, <1>3 DEF PlanRight, NeedsMet
  <2>2. m \in DOMAIN planning.catalog /\ planning.selected[m] \in planning.catalog[m]
    BY <1>1 DEF PlanRight, Listed
  <2>3. DOMAIN planning.selected[m].needs \subseteq Component
    BY <1>1, <2>2, ListedReleases DEF PlanRight
  <2>4. ASSUME NEW n \in DOMAIN planning.selected[m].needs
        PROVE  /\ n \in DOMAIN planning.selected
               /\ planning.selected[n].version \in planning.selected[m].needs[n]
    <3>1. m \in Needing(planning.selected, n)
      BY DEF Needing
    <3>2. n \in Needed(planning.selected)
      BY <2>3, <3>1 DEF Needed
    <3>3. n \in DOMAIN planning.selected /\ Suits(planning.selected, n, planning.selected[n].version)
      BY <2>1, <3>2 DEF OpenNeeds
    <3> QED BY <3>1, <3>3 DEF Suits
  <2> QED BY <2>1, <2>4 DEF Usable
<1>4. ASSUME planning.status = "planned", NEW m \in DOMAIN Shown \ DOMAIN planning.targets
      PROVE  /\ Shown[m] # "REMOVE"
             /\ Shown[m] \in {"UPGRADE", "DOWNGRADE"} => RefusedOnTheWay(planning, m)
  <2>1. /\ m \in DOMAIN planning.before =>
             /\ m \in DOMAIN planning.selected
             /\ planning.selected[m] = planning.before[m] \/ RefusedOnTheWay(planning, m)
        /\ m \in DOMAIN planning.before \cup DOMAIN planning.selected
    BY <1>1 DEF PlanRight, Shown
  <2>2. Shown[m] = Change(m)
    BY <2>1 DEF Shown
  <2> QED BY <2>1, <2>2 DEF Change
<1>5. NothingChangesForNothing
  BY <1>4 DEF NothingChangesForNothing, Reviewed, RefusedOnTheWay
<1>6. TargetsThatStandArePlanned
  BY <1>1 DEF PlanRight, TargetsThatStandArePlanned, Reviewed, AsAsked
<1>7. ReviewedPlanStands
  BY <1>3 DEF ReviewedPlanStands, Reviewed
<1> QED BY <1>2, <1>5, <1>6, <1>7 DEF CompositionStands

\* Whatever the catalog, the baseline and the targets are, the composition that is
\* planned can be run, changes nothing that no release refused, and is refused only
\* if it does not already stand (plan_authenticated_composition_review).
THEOREM CompositionSound == SupplySpec => []CompositionStands
BY ReviewInvMeans, ReviewAlways, PTL

-----------------------------------------------------------------------------
(* The release that is issued.                                             *)

LEMMA IssuanceAlone ==
  /\ SupplyInit => IssuanceInit /\ CatalogInit
  /\ [SupplyNext]_supplyVars =>
       \/ IssuanceStep /\ UNCHANGED catalogVars
       \/ CatalogNext /\ UNCHANGED issuanceVars
       \/ UNCHANGED <<catalogVars, issuanceVars>>
BY DEF SupplyInit, SupplyNext, supplyVars, Releases, Compositions, Preparations, Audits, Evidence,
   IssuanceNext, CatalogNext

\* What is left to make, after none, one, two or three files.
ReviewLists == {ReviewNames, <<"registry", "module", "summary">>, <<"module", "summary">>, <<"summary">>}
SignedLists == {SignedNames, <<"moduleEnvelope", "result">>, <<"result">>}

ReviewFiles == {"policy", "registry", "module", "summary"}
SignedFiles == {"registryEnvelope", "moduleEnvelope", "result"}

LEMMA ListsGoOn ==
  /\ \A left \in ReviewLists :
       /\ Head(left) \in ReviewFiles
       /\ Len(left) # 1 => Tail(left) \in ReviewLists
       /\ Len(left) = 1 => Head(left) = "summary"
  /\ \A left \in SignedLists :
       /\ Head(left) \in SignedFiles
       /\ Len(left) # 1 => Tail(left) \in SignedLists
       /\ left = SignedNames => /\ Head(left) = "registryEnvelope"
                                /\ Tail(left) = <<"moduleEnvelope", "result">>
       /\ left = <<"moduleEnvelope", "result">> => /\ Head(left) = "moduleEnvelope"
                                                   /\ Tail(left) = <<"result">>
       /\ left = <<"result">> => Head(left) = "result" /\ Len(left) = 1
       /\ Len(left) = 1 => left = <<"result">>
  /\ SignedNames # <<"moduleEnvelope", "result">> /\ SignedNames # <<"result">>
  /\ <<"moduleEnvelope", "result">> # <<"result">>
BY DEF ReviewLists, SignedLists, ReviewNames, SignedNames, ReviewFiles, SignedFiles

LEMMA NamesAre ==
  /\ \A P : (\A i \in 1..Len(ReviewNames) : ReviewNames[i] \in P) <=> ReviewFiles \subseteq P
  /\ \A P : (\A i \in 1..Len(SignedNames) : SignedNames[i] \notin P) <=> SignedFiles \cap P = {}
  /\ Range(ReviewNames) = ReviewFiles /\ Range(SignedNames) = SignedFiles
  /\ ReviewNames \in ReviewLists /\ SignedNames \in SignedLists
<1>1. /\ Len(ReviewNames) = 4 /\ Len(SignedNames) = 3
      /\ ReviewNames[1] = "policy" /\ ReviewNames[2] = "registry"
      /\ ReviewNames[3] = "module" /\ ReviewNames[4] = "summary"
      /\ SignedNames[1] = "registryEnvelope" /\ SignedNames[2] = "moduleEnvelope"
      /\ SignedNames[3] = "result"
      /\ DOMAIN ReviewNames = 1..4 /\ DOMAIN SignedNames = 1..3
  BY DEF ReviewNames, SignedNames
<1>2. 1..4 = {1, 2, 3, 4} /\ 1..3 = {1, 2, 3}
  OBVIOUS
<1> QED BY <1>1, <1>2 DEF ReviewFiles, SignedFiles, ReviewLists, SignedLists, Range

\* What a release may be, given whether anybody has edited the review.
ReleasesNow == IF byHand = 0 THEN {Wheel} ELSE OtherReleases \cup {Wheel}
ModulesAt(t) == {PlannedModule(t, releases) : releases \in ReleasesNow}
RegistryEnvelope(t) == Signed(PlannedRegistry(t), Role.root)
ModuleEnvelopes(t) == {Signed(document, Role.module) : document \in ModulesAt(t)}
Outputs(t, m) ==
  [registryEnvelope |-> RegistryEnvelope(t), moduleEnvelope |-> m,
   result |-> [registry |-> RegistryEnvelope(t), module |-> m]]
Good(t, m) == SignedVerifies(RegistryEnvelope(t), m, Truncated(t))

WholeReview == ReviewFiles \subseteq DOMAIN review

\* The review as it was prepared at a time, but for the releases in it.
ReviewAt(t) ==
  /\ DOMAIN review \subseteq {"."} \cup ReviewFiles \cup SignedFiles
  /\ "policy" \in DOMAIN review => review["policy"] = Policy
  /\ "registry" \in DOMAIN review => review["registry"] = PlannedRegistry(t)
  /\ "module" \in DOMAIN review => review["module"] \in ModulesAt(t)
  /\ "result" \in DOMAIN review =>
       /\ WholeReview
       /\ {"registryEnvelope", "moduleEnvelope"} \subseteq DOMAIN review
       /\ review["registryEnvelope"] = RegistryEnvelope(t)
       /\ \E m \in ModuleEnvelopes(t) :
            /\ review["moduleEnvelope"] = m /\ Good(t, m)
            /\ review["result"] = [registry |-> RegistryEnvelope(t), module |-> m]

\* A ceremony that signs has made what it no longer has to make.
MadeSoFar(t, m, left) ==
  /\ left # SignedNames =>
       "registryEnvelope" \in DOMAIN review /\ review["registryEnvelope"] = RegistryEnvelope(t)
  /\ left = <<"result">> =>
       "moduleEnvelope" \in DOMAIN review /\ review["moduleEnvelope"] = m

PreparingAt(c, t) ==
  /\ "." \in DOMAIN review
  /\ \E left \in ReviewLists :
       ceremonies[c] = [step |-> "preparing", left |-> left, files |-> Planned(t)]

ReadingAt(c, t) ==
  /\ "." \in DOMAIN review /\ WholeReview
  /\ \E m \in ModulesAt(t), step \in {"read", "compared"} :
       ceremonies[c] = [step |-> step, registry |-> PlannedRegistry(t), module |-> m]

IssuingAt(c, t) ==
  /\ "." \in DOMAIN review /\ WholeReview
  /\ \E m \in ModuleEnvelopes(t), left \in SignedLists :
       /\ ceremonies[c] = [step |-> "issuing", left |-> left, files |-> Outputs(t, m)]
       /\ Good(t, m) /\ MadeSoFar(t, m, left)

CeremonyAt(c, t) ==
  ceremonies[c] = Absent \/ PreparingAt(c, t) \/ ReadingAt(c, t) \/ IssuingAt(c, t)

PreparedAt(t) == ReviewAt(t) /\ \A c \in Ceremony : CeremonyAt(c, t)

IssuedInv ==
  /\ clock \in Nat /\ byHand \in 0..MaxByHand /\ issues \in 0..MaxIssues
  /\ DOMAIN ceremonies = Ceremony
  /\ "." \notin DOMAIN review => review = [n \in {} |-> Absent]
  /\ \E t \in Nat : PreparedAt(t)

LEMMA TimesAre ==
  \A t \in Nat : Truncated(t) \in Nat /\ Truncated(Truncated(t)) = Truncated(t)
BY DEF Truncated

\* The two documents of one moment, signed, are good when they were signed.
LEMMA EnvelopesAre ==
  ASSUME NEW t \in Nat, NEW m \in ModuleEnvelopes(t)
  PROVE  /\ RegistryEnvelope(t).issued = Truncated(t) /\ m.issued = Truncated(t)
         /\ RegistryEnvelope(t).expires = Truncated(t) + Validity
         /\ m.expires = Truncated(t) + Validity /\ m.id = Module
         /\ RegistryEnvelope(t).body = PlannedRegistry(t).body
         /\ byHand = 0 => m.body = Wheel
<1>1. PICK releases \in ReleasesNow : m = Signed(PlannedModule(t, releases), Role.module)
  BY DEF ModuleEnvelopes, ModulesAt
<1> QED BY <1>1 DEF Signed, PlannedModule, PlannedRegistry, RegistryEnvelope, ReleasesNow

LEMMA GoodWhenSigned ==
  ASSUME NEW t \in Nat, NEW now \in Nat, NEW m \in ModuleEnvelopes(t),
         SignedVerifies(RegistryEnvelope(t), m, now)
  PROVE  Good(t, m)
<1> DEFINE r == RegistryEnvelope(t)
<1>1. Truncated(t) \in Nat /\ Validity \in Nat
  BY TimesAre, IssuanceAssumption
<1>2. InWindow(r, now) /\ InWindow(m, now)
  BY DEF SignedVerifies, VerifyRegistry, VerifyModule
<1>3. InWindow(r, Truncated(t)) /\ InWindow(m, Truncated(t))
  BY <1>1, <1>2, EnvelopesAre DEF InWindow
<1> HIDE DEF r
<1>4. SignedVerifies(r, m, now)
  BY DEF r
<1>5. SignedVerifies(r, m, Truncated(t))
  BY <1>3, <1>4 DEF SignedVerifies, VerifyRegistry, VerifyModule
<1> QED BY <1>5 DEF Good, r

\* What the first enrollment asks besides the window is what the ceremony verified.
LEMMA EnrollableIs ==
  ASSUME NEW t \in Nat, NEW m \in ModuleEnvelopes(t), Good(t, m), byHand = 0,
         NEW now, InWindow(m, now)
  PROVE  FirstRootReviewed(Approval, Policy, RegistryEnvelope(t), m, now)
<1> DEFINE r == RegistryEnvelope(t)
<1>1. /\ r.body = PlannedRegistry(t).body /\ m.id = Module /\ m.body = Wheel
      /\ InWindow(r, now)
  BY EnvelopesAre DEF InWindow
<1>2. SignedVerifies(r, m, Truncated(t))
  BY DEF Good
<1> HIDE DEF r
<1>3. VerifyRegistry(r, Policy, now, {}) /\ VerifyModule(m, r, Policy, now, {})
  BY <1>1, <1>2 DEF SignedVerifies, VerifyRegistry, VerifyModule
<1>4. \A v \in DOMAIN m.body : ~m.body[v]
  BY <1>1, <1>2 DEF SignedVerifies
<1>5. /\ Module \in DOMAIN r.body.modules
      /\ r.body.modules[Module] = [source |-> Source, keys |-> {Role.module}]
  BY <1>1 DEF PlannedRegistry
<1>6. /\ Approval.policy = Policy /\ Policy.revision >= Approval.minimumRevision
      /\ Policy.roots = Approval.roots /\ Policy.threshold = Approval.threshold
      /\ Approval.moduleKeys = {Role.module}
  BY DEF Approval, Policy
<1> HIDE DEF Approval, Policy
<1>7. FirstRootReviewed(Approval, Policy, r, m, now)
  BY <1>1, <1>3, <1>4, <1>5, <1>6 DEF FirstRootReviewed
<1> QED BY <1>7 DEF r

\* What is added to a review takes nothing from a ceremony.
LEMMA CeremonyStays ==
  ASSUME NEW c, NEW t, ceremonies'[c] = ceremonies[c], CeremonyAt(c, t),
         DOMAIN review \subseteq DOMAIN review',
         \A n \in DOMAIN review \ {"module"} : review'[n] = review[n],
         ReleasesNow \subseteq ReleasesNow'
  PROVE  CeremonyAt(c, t)'
<1>1. ModulesAt(t) \subseteq ModulesAt(t)'
  BY DEF ModulesAt
<1>2. ModuleEnvelopes(t) \subseteq ModuleEnvelopes(t)'
  BY <1>1 DEF ModuleEnvelopes
<1>3. WholeReview => WholeReview'
  BY DEF WholeReview
<1>4. \A m, left : MadeSoFar(t, m, left) => MadeSoFar(t, m, left)'
  BY DEF MadeSoFar
<1> QED BY <1>1, <1>2, <1>3, <1>4 DEF CeremonyAt, PreparingAt, ReadingAt, IssuingAt

LEMMA ReviewStays ==
  ASSUME NEW t, ReviewAt(t), UNCHANGED <<review, byHand>>
  PROVE  ReviewAt(t)'
BY DEF ReviewAt, ModulesAt, ModuleEnvelopes, ReleasesNow, WholeReview

\* One ceremony goes on, or ends, and the review stays as it is.
LEMMA CeremonyTurns ==
  ASSUME IssuedInv, NEW t \in Nat, PreparedAt(t), NEW c \in Ceremony, NEW new,
         ceremonies' = [ceremonies EXCEPT ![c] = new],
         UNCHANGED <<review, byHand, clock>>, issues' \in 0..MaxIssues, CeremonyAt(c, t)'
  PROVE  IssuedInv'
<1>1. \A d \in Ceremony \ {c} : CeremonyAt(d, t)'
  BY CeremonyStays DEF IssuedInv, PreparedAt, ReleasesNow
<1>2. ReviewAt(t)'
  BY ReviewStays DEF PreparedAt
<1>3. PreparedAt(t)'
  BY <1>1, <1>2 DEF PreparedAt
<1> QED BY <1>3 DEF IssuedInv

LEMMA NothingTurns ==
  ASSUME IssuedInv, UNCHANGED <<review, ceremonies, byHand, issues>>, clock' \in Nat
  PROVE  IssuedInv'
<1>1. PICK t \in Nat : PreparedAt(t)
  BY DEF IssuedInv
<1>2. \A d \in Ceremony : CeremonyAt(d, t)'
  BY <1>1, CeremonyStays DEF PreparedAt, ReleasesNow
<1>3. PreparedAt(t)'
  BY <1>1, <1>2, ReviewStays DEF PreparedAt
<1> QED BY <1>3 DEF IssuedInv

LEMMA ClockStep ==
  ASSUME clock \in Nat, CatalogNext \/ UNCHANGED catalogVars PROVE clock' \in Nat
<1>1. CASE CatalogNext
  BY <1>1 DEF CatalogNext, SaverStep, CallSave, TakeLock, ReadHistory, ReplaceCache, Unlock,
     KillSaver, Preview, RemoveLock, Tick, SetBack, Rotate, RemoveCache
<1>2. CASE UNCHANGED catalogVars
  BY <1>2 DEF catalogVars
<1> QED BY <1>1, <1>2

\* The review directory is made once, so that all of it is as of one time.
LEMMA PrepareStep ==
  ASSUME IssuedInv, NEW c \in Ceremony, Prepare(c), UNCHANGED clock PROVE IssuedInv'
<1>0. PICK t \in Nat : t = clock
  BY DEF IssuedInv
<1> DEFINE new == [step |-> "preparing", left |-> ReviewNames, files |-> Planned(t)]
<1>1. /\ "." \notin DOMAIN review /\ review' = WithFile(".", "directory")
      /\ ceremonies' = [ceremonies EXCEPT ![c] = new]
      /\ issues < MaxIssues /\ issues' = issues + 1 /\ byHand' = byHand
  BY <1>0 DEF Prepare, Has
<1>2. /\ clock \in Nat /\ issues \in 0..MaxIssues /\ DOMAIN ceremonies = Ceremony
      /\ MaxIssues \in Nat /\ DOMAIN review = {}
  BY <1>1, IssuanceAssumption DEF IssuedInv
<1>3. DOMAIN review' = {"."}
  BY <1>1, <1>2 DEF WithFile
<1>4. \A d \in Ceremony : ceremonies[d] = Absent
  BY <1>1 DEF IssuedInv, PreparedAt, CeremonyAt, PreparingAt, ReadingAt, IssuingAt
<1>5. \A d \in Ceremony \ {c} : ceremonies'[d] = Absent
  BY <1>1, <1>2, <1>4
<1>6. ceremonies'[c] = new
  BY <1>1, <1>2
<1>8. CeremonyAt(c, t)'
  BY <1>3, <1>6, NamesAre DEF CeremonyAt, PreparingAt
<1>9. \A d \in Ceremony : CeremonyAt(d, t)'
  BY <1>5, <1>8 DEF CeremonyAt
<1>10. ReviewAt(t)'
  BY <1>3 DEF ReviewAt
<1>11. PreparedAt(t)'
  BY <1>9, <1>10 DEF PreparedAt
<1>12. issues' \in 0..MaxIssues /\ DOMAIN ceremonies' = Ceremony
  BY <1>1, <1>2
<1> QED BY <1>1, <1>2, <1>3, <1>11, <1>12 DEF IssuedInv

LEMMA StartIssueStep ==
  ASSUME IssuedInv, NEW c \in Ceremony, StartIssue(c), UNCHANGED clock PROVE IssuedInv'
<1>1. PICK t \in Nat : PreparedAt(t)
  BY DEF IssuedInv
<1> DEFINE m == review["module"]
           r == review["registry"]
           new == [step |-> "read", registry |-> r, module |-> m]
<1>2. /\ \A i \in 1..Len(ReviewNames) : ReviewNames[i] \in DOMAIN review
      /\ ceremonies' = [ceremonies EXCEPT ![c] = new]
      /\ issues < MaxIssues /\ issues' = issues + 1 /\ UNCHANGED <<review, byHand>>
  BY DEF StartIssue, Has
<1>3. WholeReview
  BY <1>2, NamesAre DEF WholeReview
<1>4. r = PlannedRegistry(t) /\ m \in ModulesAt(t) /\ "." \in DOMAIN review
  <2>1. ReviewFiles = {"policy", "registry", "module", "summary"}
    BY DEF ReviewFiles
  <2>2. "registry" \in DOMAIN review /\ "module" \in DOMAIN review
    BY <1>3, <2>1 DEF WholeReview
  <2>3. "." \in DOMAIN review
    BY <2>2 DEF IssuedInv
  <2> QED BY <1>1, <2>2, <2>3 DEF PreparedAt, ReviewAt
<1> HIDE DEF m, r
<1>5. ceremonies'[c] = [step |-> "read", registry |-> PlannedRegistry(t), module |-> m]
  BY <1>2, <1>4 DEF IssuedInv
<1>6. m \in ModulesAt(t)' /\ WholeReview' /\ "." \in DOMAIN review'
  BY <1>2, <1>3, <1>4 DEF ModulesAt, ReleasesNow, WholeReview
<1>7. CeremonyAt(c, t)'
  BY <1>5, <1>6 DEF CeremonyAt, ReadingAt
<1>8. issues' \in 0..MaxIssues
  BY <1>2, IssuanceAssumption DEF IssuedInv
<1> HIDE DEF new
<1> QED BY <1>1, <1>2, <1>7, <1>8, CeremonyTurns

\* What a ceremony that has read, or compared, holds.
LEMMA HeldIs ==
  ASSUME NEW t, NEW c, CeremonyAt(c, t), ceremonies[c] # Absent,
         ceremonies[c].step \in {"read", "compared"}
  PROVE  /\ "." \in DOMAIN review /\ WholeReview
         /\ \E m \in ModulesAt(t) :
              ceremonies[c] = [step |-> ceremonies[c].step, registry |-> PlannedRegistry(t),
                               module |-> m]
<1>1. ~PreparingAt(c, t)
  <2> SUFFICES ASSUME PreparingAt(c, t) PROVE FALSE
    OBVIOUS
  <2>1. PICK left, files : ceremonies[c] = [step |-> "preparing", left |-> left, files |-> files]
    BY DEF PreparingAt
  <2>2. ceremonies[c].step = "preparing"
    BY <2>1
  <2> QED BY <2>2
<1>2. ~IssuingAt(c, t)
  <2> SUFFICES ASSUME IssuingAt(c, t) PROVE FALSE
    OBVIOUS
  <2>1. PICK left, files : ceremonies[c] = [step |-> "issuing", left |-> left, files |-> files]
    BY DEF IssuingAt
  <2>2. ceremonies[c].step = "issuing"
    BY <2>1
  <2> QED BY <2>2
<1>3. ReadingAt(c, t)
  BY <1>1, <1>2 DEF CeremonyAt
<1>4. PICK m \in ModulesAt(t), step \in {"read", "compared"} :
        ceremonies[c] = [step |-> step, registry |-> PlannedRegistry(t), module |-> m]
  BY <1>3 DEF ReadingAt
<1>5. ceremonies[c].step = step
  BY <1>4
<1> QED BY <1>3, <1>4, <1>5 DEF ReadingAt

LEMMA EndsStep ==
  ASSUME IssuedInv, NEW c \in Ceremony, ceremonies' = [ceremonies EXCEPT ![c] = Absent],
         UNCHANGED <<review, byHand, issues, clock>>
  PROVE  IssuedInv'
<1>1. PICK t \in Nat : PreparedAt(t)
  BY DEF IssuedInv
<1>2. CeremonyAt(c, t)' /\ issues' \in 0..MaxIssues
  BY DEF IssuedInv, CeremonyAt
<1> QED BY <1>1, <1>2, CeremonyTurns

LEMMA CompareStep ==
  ASSUME IssuedInv, NEW c \in Ceremony, CompareReview(c), UNCHANGED clock PROVE IssuedInv'
<1>1. PICK t \in Nat : PreparedAt(t)
  BY DEF IssuedInv
<1> DEFINE new == [ceremonies[c] EXCEPT !.step = "compared"]
<1>2. /\ ceremonies[c] # Absent /\ ceremonies[c].step = "read"
      /\ UNCHANGED <<review, byHand, issues>>
      /\ \/ ceremonies' = [ceremonies EXCEPT ![c] = new]
         \/ ceremonies' = [ceremonies EXCEPT ![c] = Absent]
  BY DEF CompareReview
<1>3. PICK m \in ModulesAt(t) :
        /\ "." \in DOMAIN review /\ WholeReview
        /\ ceremonies[c] = [step |-> "read", registry |-> PlannedRegistry(t), module |-> m]
  <2>1. CeremonyAt(c, t) /\ ceremonies[c].step \in {"read", "compared"}
    BY <1>1, <1>2 DEF PreparedAt
  <2>2. PICK m \in ModulesAt(t) :
          ceremonies[c] = [step |-> ceremonies[c].step, registry |-> PlannedRegistry(t),
                           module |-> m]
    BY <1>2, <2>1, HeldIs
  <2> QED BY <1>2, <2>1, <2>2, HeldIs
<1>4. CASE ceremonies' = [ceremonies EXCEPT ![c] = new]
  <2> DEFINE r == PlannedRegistry(t)
  <2>1. ceremonies[c] = [step |-> "read", registry |-> r, module |-> m]
    BY <1>3
  <2> HIDE DEF r
  <2>2. new = [step |-> "compared", registry |-> r, module |-> m]
    BY <2>1
  <2> HIDE DEF new
  <2>3. ceremonies'[c] = [step |-> "compared", registry |-> PlannedRegistry(t), module |-> m]
    BY <1>4, <2>2 DEF IssuedInv, r
  <2>4. m \in ModulesAt(t)' /\ WholeReview' /\ "." \in DOMAIN review'
    BY <1>2, <1>3 DEF ModulesAt, ReleasesNow, WholeReview
  <2>5. CeremonyAt(c, t)'
    BY <2>3, <2>4 DEF CeremonyAt, ReadingAt
  <2>6. issues' \in 0..MaxIssues
    BY <1>2 DEF IssuedInv
  <2> QED BY <1>1, <1>2, <1>4, <2>5, <2>6, CeremonyTurns
<1>5. CASE ceremonies' = [ceremonies EXCEPT ![c] = Absent]
  BY <1>2, <1>5, EndsStep
<1> QED BY <1>2, <1>4, <1>5

LEMMA SignStep ==
  ASSUME IssuedInv, NEW c \in Ceremony, SignAndVerify(c), UNCHANGED clock PROVE IssuedInv'
<1>1. PICK t \in Nat : PreparedAt(t)
  BY DEF IssuedInv
<1> DEFINE r == Signed(ceremonies[c].registry, Role.root)
           s == Signed(ceremonies[c].module, Role.module)
           outputs == [registryEnvelope |-> r, moduleEnvelope |-> s,
                       result |-> [registry |-> r, module |-> s]]
           new == [step |-> "issuing", left |-> SignedNames, files |-> outputs]
<1>2. /\ ceremonies[c] # Absent /\ ceremonies[c].step = "compared"
      /\ UNCHANGED <<review, byHand, issues>>
      /\ \/ SignedVerifies(r, s, clock) /\ ceremonies' = [ceremonies EXCEPT ![c] = new]
         \/ ceremonies' = [ceremonies EXCEPT ![c] = Absent]
  BY DEF SignAndVerify
<1>3. PICK m \in ModulesAt(t) :
        /\ "." \in DOMAIN review /\ WholeReview
        /\ ceremonies[c] = [step |-> "compared", registry |-> PlannedRegistry(t), module |-> m]
  <2>1. CeremonyAt(c, t) /\ ceremonies[c].step \in {"read", "compared"}
    BY <1>1, <1>2 DEF PreparedAt
  <2>2. PICK m \in ModulesAt(t) :
          ceremonies[c] = [step |-> ceremonies[c].step, registry |-> PlannedRegistry(t),
                           module |-> m]
    BY <1>2, <2>1, HeldIs
  <2> QED BY <1>2, <2>1, <2>2, HeldIs
<1>4. ceremonies[c].registry = PlannedRegistry(t) /\ ceremonies[c].module = m
  BY <1>3
<1>5. PICK e \in ModuleEnvelopes(t) : r = RegistryEnvelope(t) /\ s = e
  BY <1>4 DEF RegistryEnvelope, ModuleEnvelopes
<1>6. CASE SignedVerifies(r, s, clock) /\ ceremonies' = [ceremonies EXCEPT ![c] = new]
  <2>1. outputs = Outputs(t, e)
    BY <1>5 DEF Outputs
  <2>2. Good(t, e)
    <3> HIDE DEF r, s
    <3> QED BY <1>5, <1>6, GoodWhenSigned DEF IssuedInv
  <2> HIDE DEF outputs, r, s
  <2>3. ceremonies'[c] = [step |-> "issuing", left |-> SignedNames, files |-> Outputs(t, e)]
    BY <1>6, <2>1 DEF IssuedInv
  <2>4. e \in ModuleEnvelopes(t)' /\ WholeReview' /\ "." \in DOMAIN review'
    BY <1>2, <1>3 DEF ModuleEnvelopes, ModulesAt, ReleasesNow, WholeReview
  <2>5. MadeSoFar(t, e, SignedNames)'
    BY ListsGoOn DEF MadeSoFar
  <2>6. CeremonyAt(c, t)'
    BY <2>2, <2>3, <2>4, <2>5, NamesAre DEF CeremonyAt, IssuingAt
  <2>7. issues' \in 0..MaxIssues
    BY <1>2 DEF IssuedInv
  <2> HIDE DEF new
  <2> QED BY <1>1, <1>2, <1>6, <2>6, <2>7, CeremonyTurns
<1>7. CASE ceremonies' = [ceremonies EXCEPT ![c] = Absent]
  BY <1>2, <1>7, EndsStep
<1> QED BY <1>2, <1>6, <1>7

LEMMA EditReviewStep ==
  ASSUME IssuedInv, EditReview, UNCHANGED clock PROVE IssuedInv'
<1>1. PICK t \in Nat : PreparedAt(t)
  BY DEF IssuedInv
<1>2. PICK releases \in OtherReleases \cup {Wheel} :
        /\ byHand < MaxByHand /\ "module" \in DOMAIN review
        /\ review' = [review EXCEPT !["module"].body = releases]
        /\ byHand' = byHand + 1 /\ UNCHANGED <<ceremonies, issues>>
  BY DEF EditReview, Has
<1>3. byHand \in 0..MaxByHand /\ byHand' \in 0..MaxByHand /\ byHand' # 0
  BY <1>2, IssuanceAssumption DEF IssuedInv
<1>4. ReleasesNow \subseteq ReleasesNow' /\ ReleasesNow' = OtherReleases \cup {Wheel}
  BY <1>3 DEF ReleasesNow
<1> DEFINE new == [review["module"] EXCEPT !.body = releases]
<1>5. new \in ModulesAt(t)'
  <2>1. PICK before \in ReleasesNow : review["module"] = PlannedModule(t, before)
    BY <1>1, <1>2 DEF PreparedAt, ReviewAt, ModulesAt
  <2>2. new = PlannedModule(t, releases)
    BY <2>1 DEF PlannedModule
  <2> QED BY <1>4, <2>2 DEF ModulesAt
<1>6. review' = [review EXCEPT !["module"] = new]
  BY <1>2
<1> HIDE DEF new
<1>7. /\ DOMAIN review' = DOMAIN review /\ review'["module"] = new
      /\ \A n \in DOMAIN review \ {"module"} : review'[n] = review[n]
  BY <1>2, <1>6
<1>8. \A d \in Ceremony : CeremonyAt(d, t)'
  BY <1>1, <1>2, <1>4, <1>7, CeremonyStays DEF PreparedAt
<1>9. ModuleEnvelopes(t) \subseteq ModuleEnvelopes(t)'
  BY <1>4 DEF ModuleEnvelopes, ModulesAt
<1>10. ReviewAt(t)'
  BY <1>1, <1>5, <1>7, <1>9 DEF PreparedAt, ReviewAt, WholeReview
<1>11. PreparedAt(t)'
  BY <1>8, <1>10 DEF PreparedAt
<1>12. "." \in DOMAIN review'
  BY <1>2, <1>7 DEF IssuedInv
<1> QED BY <1>2, <1>3, <1>11, <1>12 DEF IssuedInv

\* A file is added to the review, and the ceremony that made it goes on.
LEMMA FileIsAdded ==
  ASSUME IssuedInv, NEW t \in Nat, PreparedAt(t), NEW c \in Ceremony, NEW name, NEW put, NEW new,
         name \notin DOMAIN review, "." \in DOMAIN review, review' = WithFile(name, put),
         ceremonies' = [ceremonies EXCEPT ![c] = new],
         UNCHANGED <<byHand, issues, clock>>, CeremonyAt(c, t)', ReviewAt(t)'
  PROVE  IssuedInv'
<1>1. /\ DOMAIN review' = DOMAIN review \cup {name}
      /\ \A n \in DOMAIN review : review'[n] = review[n]
  BY DEF WithFile
<1>2. \A d \in Ceremony \ {c} : CeremonyAt(d, t)'
  BY <1>1, CeremonyStays DEF IssuedInv, PreparedAt, ReleasesNow
<1>3. PreparedAt(t)'
  BY <1>2 DEF PreparedAt
<1> QED BY <1>1, <1>3 DEF IssuedInv

\* A file of the review is made while no result is there.
LEMMA PreparedFileStep ==
  ASSUME IssuedInv, NEW t \in Nat, PreparedAt(t), NEW c \in Ceremony, PreparingAt(c, t),
         MakeFile(c, Head(ceremonies[c].left)), UNCHANGED <<keyfile, byHand, issues, clock>>
  PROVE  IssuedInv'
<1>1. PICK left \in ReviewLists :
        ceremonies[c] = [step |-> "preparing", left |-> left, files |-> Planned(t)]
  BY DEF PreparingAt
<1>2. /\ ceremonies[c].left = left /\ ceremonies[c].files = Planned(t)
      /\ ceremonies[c].step = "preparing"
  BY <1>1
<1>3. PICK name : name = Head(left)
  OBVIOUS
<1>4. name \in ReviewFiles
  BY <1>3, ListsGoOn
<1>5. CASE name \in DOMAIN review
  BY <1>2, <1>3, <1>5, EndsStep DEF MakeFile, Has
<1>6. CASE name \notin DOMAIN review
  <2> DEFINE new == IF Len(ceremonies[c].left) = 1 THEN Absent
                    ELSE [ceremonies[c] EXCEPT !.left = Tail(ceremonies[c].left)]
             p == Planned(t)
  <2>1. review' = WithFile(name, p[name]) /\ ceremonies' = [ceremonies EXCEPT ![c] = new]
    <3>1. MakeFile(c, name)
      BY <1>2, <1>3
    <3>2. review' = WithFile(name, ceremonies[c].files[name])
      BY <1>6, <3>1 DEF MakeFile, Has
    <3>3. ceremonies' = [ceremonies EXCEPT ![c] = new]
      BY <1>6, <3>1 DEF MakeFile, Has, Onward
    <3> QED BY <1>2, <3>2, <3>3
  <2>2. /\ DOMAIN review' = DOMAIN review \cup {name} /\ review'[name] = p[name]
        /\ \A n \in DOMAIN review : review'[n] = review[n]
    BY <1>6, <2>1 DEF WithFile
  <2>3. /\ p["policy"] = Policy /\ p["registry"] = PlannedRegistry(t)
        /\ p["module"] = PlannedModule(t, Wheel)
    BY DEF Planned
  <2>4. PlannedModule(t, Wheel) \in ModulesAt(t)' /\ ModulesAt(t)' = ModulesAt(t)
    BY DEF ModulesAt, ReleasesNow
  <2>5. ceremonies[c] = [step |-> "preparing", left |-> left, files |-> p]
    BY <1>1
  <2> HIDE DEF p
  <2>6. new = Absent \/ \E rest \in ReviewLists :
                          new = [step |-> "preparing", left |-> rest, files |-> p]
    <3>1. CASE Len(left) = 1
      BY <1>2, <3>1
    <3>2. CASE Len(left) # 1
      <4>1. new = [step |-> "preparing", left |-> Tail(left), files |-> p]
        <5>1. new = [ceremonies[c] EXCEPT !.left = Tail(left)]
          BY <1>2, <3>2
        <5>2. PICK rest : rest = Tail(left)
          OBVIOUS
        <5>3. [ceremonies[c] EXCEPT !.left = rest] = [step |-> "preparing", left |-> rest, files |-> p]
          BY <2>5
        <5> HIDE DEF new
        <5> QED BY <5>1, <5>2, <5>3
      <4> QED BY <3>2, <4>1, ListsGoOn
    <3> QED BY <3>1, <3>2
  <2> HIDE DEF new
  <2>7. ceremonies'[c] = new /\ "." \in DOMAIN review
    BY <2>1 DEF IssuedInv, PreparingAt
  <2>8. CeremonyAt(c, t)'
    BY <2>2, <2>6, <2>7 DEF CeremonyAt, PreparingAt, p
  <2>9. "result" \notin DOMAIN review /\ name # "result" /\ DOMAIN review \subseteq {"."} \cup ReviewFiles \cup SignedFiles
    <3>1. ReviewAt(t) /\ name # "result"
      BY <1>4 DEF PreparedAt, ReviewFiles
    <3> QED BY <1>4, <1>6, <3>1 DEF ReviewAt, WholeReview
  <2>10. /\ "policy" \in DOMAIN review' => review'["policy"] = Policy
         /\ "registry" \in DOMAIN review' => review'["registry"] = PlannedRegistry(t)
         /\ "module" \in DOMAIN review' => review'["module"] \in ModulesAt(t)'
    BY <2>2, <2>3, <2>4 DEF PreparedAt, ReviewAt
  <2>11. ReviewAt(t)'
    BY <1>4, <2>2, <2>9, <2>10 DEF ReviewAt
  <2> QED BY <1>6, <2>1, <2>7, <2>8, <2>11, FileIsAdded
<1> QED BY <1>5, <1>6

\* A signed file is made.  The result is the last, and by then this ceremony has
\* made the two others.
LEMMA SignedFileStep ==
  ASSUME IssuedInv, NEW t \in Nat, PreparedAt(t), NEW c \in Ceremony, IssuingAt(c, t),
         MakeFile(c, Head(ceremonies[c].left)), UNCHANGED <<keyfile, byHand, issues, clock>>
  PROVE  IssuedInv'
<1>1. PICK m \in ModuleEnvelopes(t), left \in SignedLists :
        /\ ceremonies[c] = [step |-> "issuing", left |-> left, files |-> Outputs(t, m)]
        /\ Good(t, m) /\ MadeSoFar(t, m, left)
  BY DEF IssuingAt
<1> DEFINE out == Outputs(t, m)
           r == RegistryEnvelope(t)
           result == [registry |-> r, module |-> m]
<1>2. /\ out["registryEnvelope"] = r /\ out["moduleEnvelope"] = m /\ out["result"] = result
      /\ ceremonies[c] = [step |-> "issuing", left |-> left, files |-> out]
      /\ WholeReview /\ "." \in DOMAIN review
  BY <1>1 DEF Outputs, IssuingAt
<1>3. /\ ceremonies[c].left = left /\ ceremonies[c].files = out
      /\ ceremonies[c].step = "issuing"
  BY <1>1
<1> HIDE DEF out
<1>4. PICK name : name = Head(left)
  OBVIOUS
<1>5. CASE name \in DOMAIN review
  BY <1>3, <1>4, <1>5, EndsStep DEF MakeFile, Has
<1>6. CASE name \notin DOMAIN review
  <2> DEFINE new == IF Len(ceremonies[c].left) = 1 THEN Absent
                    ELSE [ceremonies[c] EXCEPT !.left = Tail(ceremonies[c].left)]
  <2>1. review' = WithFile(name, out[name]) /\ ceremonies' = [ceremonies EXCEPT ![c] = new]
    <3>1. MakeFile(c, name)
      BY <1>3, <1>4
    <3>2. review' = WithFile(name, ceremonies[c].files[name])
      BY <1>6, <3>1 DEF MakeFile, Has
    <3>3. ceremonies' = [ceremonies EXCEPT ![c] = new]
      BY <1>6, <3>1 DEF MakeFile, Has, Onward
    <3> QED BY <1>3, <3>2, <3>3
  <2>2. /\ DOMAIN review' = DOMAIN review \cup {name} /\ review'[name] = out[name]
        /\ \A n \in DOMAIN review : review'[n] = review[n]
    BY <1>6, <2>1 DEF WithFile
  <2>3. new = IF Len(left) = 1 THEN Absent
              ELSE [step |-> "issuing", left |-> Tail(left), files |-> out]
    <3>1. new = IF Len(left) = 1 THEN Absent ELSE [ceremonies[c] EXCEPT !.left = Tail(left)]
      BY <1>3
    <3> HIDE DEF new
    <3>2. [ceremonies[c] EXCEPT !.left = Tail(left)]
            = [step |-> "issuing", left |-> Tail(left), files |-> out]
      <4>1. PICK rest : rest = Tail(left)
        OBVIOUS
      <4>2. [ceremonies[c] EXCEPT !.left = rest] = [step |-> "issuing", left |-> rest, files |-> out]
        BY <1>2
      <4> QED BY <4>1, <4>2
    <3> QED BY <3>1, <3>2
  <2> HIDE DEF new
  <2>4. ceremonies'[c] = new
    BY <2>1 DEF IssuedInv
  <2>5. /\ ModulesAt(t)' = ModulesAt(t) /\ ModuleEnvelopes(t)' = ModuleEnvelopes(t)
        /\ Good(t, m)' /\ Outputs(t, m)' = out /\ RegistryEnvelope(t)' = r
    BY <1>1 DEF ModulesAt, ModuleEnvelopes, ReleasesNow, Good, Outputs, out, RegistryEnvelope
  <2>6. /\ DOMAIN review' \subseteq {"."} \cup ReviewFiles \cup SignedFiles
        /\ name \notin ReviewFiles
        /\ name \in SignedFiles
        /\ WholeReview'
    <3>1. name \in SignedFiles
      BY <1>4, ListsGoOn
    <3> QED BY <1>2, <2>2, <3>1 DEF PreparedAt, ReviewAt, WholeReview, ReviewFiles, SignedFiles
  <2>7. /\ "policy" \in DOMAIN review' => review'["policy"] = Policy
        /\ "registry" \in DOMAIN review' => review'["registry"] = PlannedRegistry(t)
        /\ "module" \in DOMAIN review' => review'["module"] \in ModulesAt(t)'
    BY <2>2, <2>5, <2>6 DEF PreparedAt, ReviewAt, ReviewFiles
  <2>8. ("result" \in DOMAIN review') =>
          /\ {"registryEnvelope", "moduleEnvelope"} \subseteq DOMAIN review'
          /\ review'["registryEnvelope"] = r
          /\ \E e \in ModuleEnvelopes(t) :
               /\ review'["moduleEnvelope"] = e /\ Good(t, e)
               /\ review'["result"] = [registry |-> r, module |-> e]
    <3>1. CASE "result" \in DOMAIN review
      <4>1. /\ {"registryEnvelope", "moduleEnvelope"} \subseteq DOMAIN review
            /\ review["registryEnvelope"] = r
            /\ \E e \in ModuleEnvelopes(t) :
                 /\ review["moduleEnvelope"] = e /\ Good(t, e)
                 /\ review["result"] = [registry |-> r, module |-> e]
        BY <3>1 DEF PreparedAt, ReviewAt
      <4> HIDE DEF r
      <4> QED BY <2>2, <3>1, <4>1
    <3>2. CASE "result" \notin DOMAIN review /\ left = <<"result">>
      <4>1. name = "result"
        BY <1>4, <3>2, ListsGoOn
      <4>2. /\ "registryEnvelope" \in DOMAIN review /\ review["registryEnvelope"] = r
            /\ "moduleEnvelope" \in DOMAIN review /\ review["moduleEnvelope"] = m
        BY <1>1, <3>2, ListsGoOn DEF MadeSoFar
      <4> HIDE DEF r
      <4> QED BY <1>1, <1>2, <2>2, <4>1, <4>2
    <3>3. CASE "result" \notin DOMAIN review /\ left # <<"result">>
      <4>1. name # "result"
        <5>1. left = SignedNames \/ left = <<"moduleEnvelope", "result">>
          BY <3>3 DEF SignedLists
        <5> QED BY <1>4, <5>1, ListsGoOn
      <4> QED BY <2>2, <3>3, <4>1
    <3> QED BY <3>1, <3>2, <3>3
  <2>9. ReviewAt(t)'
    <3>1. \A e : Good(t, e)' = Good(t, e)
      BY DEF Good
    <3> QED BY <2>5, <2>6, <2>7, <2>8, <3>1 DEF ReviewAt
  <2>10. CeremonyAt(c, t)'
    <3>1. CASE Len(left) = 1
      BY <2>3, <2>4, <3>1 DEF CeremonyAt
    <3>2. CASE Len(left) # 1
      <4>1. new = [step |-> "issuing", left |-> Tail(left), files |-> out] /\ Tail(left) \in SignedLists
        BY <2>3, <3>2, ListsGoOn
      <4>2. MadeSoFar(t, m, Tail(left))'
        <5>1. CASE left = SignedNames
          BY <1>2, <1>4, <2>2, <2>5, <5>1, ListsGoOn DEF MadeSoFar
        <5>2. CASE left = <<"moduleEnvelope", "result">>
          BY <1>1, <1>2, <1>4, <2>2, <2>5, <5>2, ListsGoOn DEF MadeSoFar
        <5> QED BY <3>2, <5>1, <5>2, ListsGoOn DEF SignedLists
      <4>3. IssuingAt(c, t)'
        BY <1>1, <1>2, <2>2, <2>4, <2>5, <2>6, <4>1, <4>2 DEF IssuingAt
      <4> QED BY <4>3 DEF CeremonyAt
    <3> QED BY <3>1, <3>2
  <2> QED BY <1>2, <1>6, <2>1, <2>4, <2>9, <2>10, FileIsAdded
<1> QED BY <1>5, <1>6

LEMMA MakeNextFileStep ==
  ASSUME IssuedInv, NEW c \in Ceremony, MakeNextFile(c), UNCHANGED clock PROVE IssuedInv'
<1>1. PICK t \in Nat : PreparedAt(t)
  BY DEF IssuedInv
<1>2. /\ ceremonies[c] # Absent /\ ceremonies[c].step \in {"preparing", "issuing"}
      /\ MakeFile(c, Head(ceremonies[c].left)) /\ UNCHANGED <<keyfile, byHand, issues>>
  BY DEF MakeNextFile
<1>3. ~ReadingAt(c, t)
  <2> SUFFICES ASSUME ReadingAt(c, t) PROVE FALSE
    OBVIOUS
  <2>1. PICK step \in {"read", "compared"} :
          \E m, r : ceremonies[c] = [step |-> step, registry |-> r, module |-> m]
    BY DEF ReadingAt
  <2>2. ceremonies[c].step = step
    BY <2>1
  <2> QED BY <1>2, <2>2
<1>4. PreparingAt(c, t) \/ IssuingAt(c, t)
  BY <1>1, <1>2, <1>3 DEF PreparedAt, CeremonyAt
<1> QED BY <1>1, <1>2, <1>4, PreparedFileStep, SignedFileStep

LEMMA IssuedInvInit == SupplyInit => IssuedInv
<1> SUFFICES ASSUME IssuanceInit, CatalogInit PROVE IssuedInv
  BY IssuanceAlone
<1>1. /\ clock \in Nat /\ byHand = 0 /\ issues = 0 /\ DOMAIN ceremonies = Ceremony
      /\ \A c \in Ceremony : ceremonies[c] = Absent
      /\ review = [n \in {} |-> Absent] /\ DOMAIN review = {}
  BY DEF IssuanceInit, CatalogInit
<1>2. byHand \in 0..MaxByHand /\ issues \in 0..MaxIssues
  BY <1>1, IssuanceAssumption
<1>3. PreparedAt(0)
  BY <1>1 DEF PreparedAt, ReviewAt, CeremonyAt
<1> QED BY <1>1, <1>2, <1>3 DEF IssuedInv

LEMMA IssuedInvStep == IssuedInv /\ [SupplyNext]_supplyVars => IssuedInv'
<1> SUFFICES ASSUME IssuedInv, [SupplyNext]_supplyVars PROVE IssuedInv'
  OBVIOUS
<1>1. CASE IssuanceStep /\ UNCHANGED catalogVars
  <2>1. UNCHANGED clock
    BY <1>1 DEF catalogVars
  <2>2. CASE \E k \in Keys : MakePrivateKey(k) \/ MakePublicKey(k)
    BY <2>1, <2>2, NothingTurns DEF MakePrivateKey, MakePublicKey, IssuedInv
  <2>3. ASSUME NEW c \in Ceremony,
               \/ Prepare(c) \/ StartIssue(c) \/ CompareReview(c) \/ SignAndVerify(c)
               \/ MakeNextFile(c) \/ KillCeremony(c)
        PROVE  IssuedInv'
    <3>1. CASE KillCeremony(c)
      BY <2>1, <3>1, EndsStep DEF KillCeremony
    <3> QED BY <2>1, <2>3, <3>1, PrepareStep, StartIssueStep, CompareStep, SignStep, MakeNextFileStep
  <2>4. CASE EditReview
    BY <2>1, <2>4, EditReviewStep
  <2> QED BY <1>1, <2>2, <2>3, <2>4 DEF IssuanceStep
<1>2. CASE (CatalogNext \/ UNCHANGED catalogVars) /\ UNCHANGED issuanceVars
  <2>1. clock' \in Nat
    BY <1>2, ClockStep DEF IssuedInv
  <2> QED BY <1>2, <2>1, NothingTurns DEF issuanceVars
<1> QED BY <1>1, <1>2, IssuanceAlone DEF catalogVars, issuanceVars

LEMMA IssuedAlways == SupplySpec => []IssuedInv
BY IssuedInvInit, IssuedInvStep, PTL DEF SupplySpec

LEMMA IssuedInvMeans == IssuedInv => IssuedReleaseStands
<1> SUFFICES ASSUME IssuedInv, "result" \in DOMAIN review PROVE IssuedReleaseStands
  BY DEF IssuedReleaseStands, IssuedStandsTogether, IssuedIsEnrollable, Has
<1>1. PICK t \in Nat : PreparedAt(t)
  BY DEF IssuedInv
<1> DEFINE r == RegistryEnvelope(t)
<1>2. PICK m \in ModuleEnvelopes(t) :
        /\ review["moduleEnvelope"] = m /\ Good(t, m)
        /\ review["result"] = [registry |-> r, module |-> m]
        /\ review["registryEnvelope"] = r
        /\ {"registryEnvelope", "moduleEnvelope"} \subseteq DOMAIN review
        /\ review["policy"] = Policy
  <2>1. "policy" \in DOMAIN review /\ review["policy"] = Policy
    BY <1>1 DEF PreparedAt, ReviewAt, WholeReview, ReviewFiles
  <2> QED BY <1>1, <2>1 DEF PreparedAt, ReviewAt
<1>3. r.issued = Truncated(t) /\ SignedVerifies(r, m, Truncated(t))
  BY <1>2, EnvelopesAre DEF Good
<1>4. byHand = 0 => \A now \in 0..MaxClock : InWindow(m, now) =>
                      FirstRootReviewed(Approval, Policy, r, m, now)
  BY <1>2, EnrollableIs
<1> HIDE DEF r
<1>5. IssuedStandsTogether
  BY <1>2, <1>3 DEF IssuedStandsTogether, Has
<1>6. IssuedIsEnrollable
  BY <1>2, <1>4 DEF IssuedIsEnrollable, Has
<1> QED BY <1>5, <1>6 DEF IssuedReleaseStands

\* Whoever issues at the same time, is killed, or edits the review meanwhile: a result
\* that is there stands beside the envelopes of one ceremony, which verify for the wheel
\* and which a first enrollment takes (issue_envelopes, review_initial_trust).
THEOREM IssuedSound == SupplySpec => []IssuedReleaseStands
BY IssuedAlways, IssuedInvMeans, PTL

-----------------------------------------------------------------------------
(* The catalog: what is kept of it and what is shown.                      *)

DocumentsOf(o) == {o.registry} \cup o.modules \cup o.integrations

\* No identity has two documents.
Unique(documents) == \A d, e \in documents : d.id = e.id => d = e

LEMMA TruncatedIs ==
  \A now \in Nat : /\ Truncated(now) \in Nat /\ Truncated(now) <= now
                   /\ \A t \in Nat : t % 2 = 0 /\ t <= now => t <= Truncated(now)
BY DEF Truncated

LEMMA SnapshotIs ==
  ASSUME NEW sn \in CachedSnapshot
  PROVE  /\ sn.trust \in Trust /\ sn.trust.revision \in Nat /\ sn.accepted \in 0..MaxClock
         /\ IsFiniteSet(sn.modules) /\ IsFiniteSet(sn.integrations)
         /\ \A d \in DocumentsOf(sn) :
              d.revision \in Nat /\ d.issued \in Nat /\ d.issued % 2 = 0 /\ d.expires \in Nat
         /\ sn # Absent
<1>1. PICK o \in Offer, now \in 0..MaxClock, t \in Trust :
        sn = [registry |-> o.registry, modules |-> o.modules, integrations |-> o.integrations,
              accepted |-> now, trust |-> t]
  BY DEF CachedSnapshot
<1>2. /\ sn.trust = t /\ sn.accepted = now /\ sn.modules = o.modules
      /\ sn.integrations = o.integrations /\ sn.registry = o.registry
  BY <1>1
<1>3. sn # Absent
  BY CatalogAssumption
<1> QED BY <1>2, <1>3, CatalogAssumption DEF DocumentsOf

\* As many identities as documents: no identity twice.
LEMMA UniqueIs ==
  ASSUME NEW documents, IsFiniteSet(documents),
         Cardinality(Ids(documents)) = Cardinality(documents)
  PROVE  Unique(documents)
<1> DEFINE f == [d \in documents |-> d.id]
<1>1. f \in Surjection(documents, Ids(documents))
  BY DEF Surjection, Ids
<1>2. f \in Injection(documents, Ids(documents))
  BY <1>1, FS_Surjection
<1> QED BY <1>2 DEF Unique, Injection, IsInjective

\* The documents that continue others.
LEMMA ContinuesOn ==
  ASSUME NEW a, NEW b, NEW c, a.revision \in Nat, b.revision \in Nat, c.revision \in Nat,
         Continues(b, {a}), Continues(c, {b})
  PROVE  Continues(c, {a})
<1>1. b.revision >= a.revision /\ (b.revision = a.revision => Digest(b) = Digest(a))
  BY DEF Continues
<1>2. c.revision >= b.revision /\ (c.revision = b.revision => Digest(c) = Digest(b))
  BY DEF Continues
<1>3. c.revision >= a.revision
  BY <1>1, <1>2
<1>4. ASSUME c.revision = a.revision PROVE Digest(c) = Digest(a)
  <2>1. c.revision = b.revision /\ b.revision = a.revision
    BY <1>1, <1>2, <1>4
  <2> QED BY <1>1, <1>2, <2>1
<1> QED BY <1>3, <1>4 DEF Continues

LEMMA NotBeforeIsOrder ==
  ASSUME NEW a \in CachedSnapshot, NEW b \in CachedSnapshot, NEW c \in CachedSnapshot
  PROVE  /\ NotBefore(a, a)
         /\ NotBefore(b, a) /\ NotBefore(c, b) => NotBefore(c, a)
<1>1. NotBefore(a, a)
  <2>1. a.accepted >= a.accepted
    BY SnapshotIs
  <2>2. \A d \in DocumentsOf(a) : Continues(d, {d})
    BY SnapshotIs DEF Continues
  <2> QED BY <2>1, <2>2 DEF NotBefore, Of, DocumentsOf
<1>2. ASSUME NotBefore(b, a), NotBefore(c, b) PROVE NotBefore(c, a)
  <2>1. c.accepted >= a.accepted
    BY <1>2, SnapshotIs DEF NotBefore
  <2>2. Continues(c.registry, {a.registry})
    BY <1>2, SnapshotIs, ContinuesOn DEF NotBefore, DocumentsOf
  <2>3. ASSUME NEW m \in a.modules PROVE \E n \in Of(c.modules, m.id) : Continues(n, {m})
    <3>1. PICK n \in Of(b.modules, m.id) : Continues(n, {m})
      BY <1>2 DEF NotBefore
    <3>2. n \in b.modules /\ n.id = m.id
      BY DEF Of
    <3>3. PICK k \in Of(c.modules, n.id) : Continues(k, {n})
      BY <1>2, <3>2 DEF NotBefore
    <3>4. k \in c.modules
      BY DEF Of
    <3>5. m.revision \in Nat /\ n.revision \in Nat /\ k.revision \in Nat
      BY <3>2, <3>4, SnapshotIs DEF DocumentsOf
    <3>6. Continues(k, {m})
      BY <3>1, <3>3, <3>5, ContinuesOn
    <3> QED BY <3>2, <3>6
  <2>4. ASSUME NEW m \in a.integrations PROVE \E n \in Of(c.integrations, m.id) : Continues(n, {m})
    <3>1. PICK n \in Of(b.integrations, m.id) : Continues(n, {m})
      BY <1>2 DEF NotBefore
    <3>2. n \in b.integrations /\ n.id = m.id
      BY DEF Of
    <3>3. PICK k \in Of(c.integrations, n.id) : Continues(k, {n})
      BY <1>2, <3>2 DEF NotBefore
    <3>4. k \in c.integrations
      BY DEF Of
    <3>5. m.revision \in Nat /\ n.revision \in Nat /\ k.revision \in Nat
      BY <3>2, <3>4, SnapshotIs DEF DocumentsOf
    <3>6. Continues(k, {m})
      BY <3>1, <3>3, <3>5, ContinuesOn
    <3> QED BY <3>2, <3>6
  <2> QED BY <2>1, <2>2, <2>3, <2>4 DEF NotBefore
<1> QED BY <1>1, <1>2

LEMMA VoicesAre ==
  ASSUME NEW sn
  PROVE  /\ \A v \in Voices(sn) :
              \/ /\ v.role = <<"registry">> /\ v.signers = sn.registry.signers
                 /\ v.issued = sn.registry.issued /\ v.expires = sn.registry.expires
              \/ \E m \in sn.modules :
                   /\ v.role = <<"module_release", m.id>> /\ v.signers = m.signers
                   /\ v.issued = m.issued /\ v.expires = m.expires
              \/ \E i \in sn.integrations :
                   /\ v.role = <<"integration">> /\ v.signers = i.signers
                   /\ v.issued = i.issued /\ v.expires = i.expires
         /\ \A d \in DocumentsOf(sn) : \E v \in Voices(sn) :
              v.issued = d.issued /\ v.expires = d.expires
<1> DEFINE Voice(role, d) ==
             [role |-> role, signers |-> d.signers, issued |-> d.issued, expires |-> d.expires]
<1>1. \A role, d : /\ Voice(role, d).role = role /\ Voice(role, d).signers = d.signers
                   /\ Voice(role, d).issued = d.issued /\ Voice(role, d).expires = d.expires
  OBVIOUS
<1>2. Voices(sn) = {Voice(<<"registry">>, sn.registry)}
                     \cup {Voice(<<"module_release", m.id>>, m) : m \in sn.modules}
                     \cup {Voice(<<"integration">>, i) : i \in sn.integrations}
  BY Zenon DEF Voices
<1> HIDE DEF Voice
<1>3. ASSUME NEW d \in DocumentsOf(sn)
      PROVE  \E v \in Voices(sn) : v.issued = d.issued /\ v.expires = d.expires
  <2>1. PICK role : Voice(role, d) \in Voices(sn)
    BY <1>2 DEF DocumentsOf
  <2> QED BY <1>1, <2>1
<1>4. ASSUME NEW v \in Voices(sn)
      PROVE  \/ v = Voice(<<"registry">>, sn.registry)
             \/ \E m \in sn.modules : v = Voice(<<"module_release", m.id>>, m)
             \/ \E i \in sn.integrations : v = Voice(<<"integration">>, i)
  BY <1>2
<1>5. ASSUME NEW v \in Voices(sn)
      PROVE  \/ /\ v.role = <<"registry">> /\ v.signers = sn.registry.signers
                /\ v.issued = sn.registry.issued /\ v.expires = sn.registry.expires
             \/ \E m \in sn.modules :
                  /\ v.role = <<"module_release", m.id>> /\ v.signers = m.signers
                  /\ v.issued = m.issued /\ v.expires = m.expires
             \/ \E i \in sn.integrations :
                  /\ v.role = <<"integration">> /\ v.signers = i.signers
                  /\ v.issued = i.issued /\ v.expires = i.expires
  <2>1. CASE v = Voice(<<"registry">>, sn.registry)
    BY <1>1, <2>1
  <2>2. CASE \E m \in sn.modules : v = Voice(<<"module_release", m.id>>, m)
    <3>1. PICK m \in sn.modules : v = Voice(<<"module_release", m.id>>, m)
      BY <2>2
    <3> QED BY <1>1, <3>1
  <2>3. CASE \E i \in sn.integrations : v = Voice(<<"integration">>, i)
    <3>1. PICK i \in sn.integrations : v = Voice(<<"integration">>, i)
      BY <2>3
    <3> QED BY <1>1, <3>1
  <2> QED BY <1>4, <2>1, <2>2, <2>3
<1> QED BY <1>3, <1>5

LEMMA VoiceIsDocument ==
  ASSUME NEW sn, NEW v \in Voices(sn)
  PROVE  \E d \in DocumentsOf(sn) :
           v.issued = d.issued /\ v.expires = d.expires /\ v.signers = d.signers
BY VoicesAre DEF DocumentsOf

\* The historical time is that of a document, and no document is later.
LEMMA HistoricalTimeIs ==
  ASSUME NEW sn \in CachedSnapshot, NEW now \in Nat, \A d \in DocumentsOf(sn) : d.issued <= now
  PROVE  /\ \E d \in DocumentsOf(sn) : HistoricalTime(sn) = d.issued
         /\ \A d \in DocumentsOf(sn) : d.issued <= HistoricalTime(sn)
         /\ \A v \in Voices(sn) : v.issued <= HistoricalTime(sn)
<1> DEFINE times == {v.issued : v \in Voices(sn)}
           Above == {n \in Nat : \A v \in Voices(sn) : v.issued <= n}
<1>1. times \subseteq Nat /\ times # {}
  <2>1. \A v \in Voices(sn) : v.issued \in Nat
    BY VoiceIsDocument, SnapshotIs
  <2>2. Voices(sn) # {}
    BY VoicesAre DEF DocumentsOf
  <2> QED BY <2>1, <2>2
<1>2. now \in Above
  BY VoiceIsDocument
<1>3. PICK least \in Above : \A n \in Above : ~(<<n, least>> \in OpToRel(<, Nat))
  BY <1>2, NatLessThanWellFounded, WFMin
<1>4. least \in Nat /\ \A v \in Voices(sn) : v.issued <= least
  OBVIOUS
<1>5. least \in times
  <2> SUFFICES ASSUME least \notin times PROVE FALSE
    OBVIOUS
  <2>1. \A v \in Voices(sn) : v.issued \in Nat /\ v.issued <= least /\ v.issued # least
    BY <1>1, <1>4
  <2>2. least # 0
    BY <1>1, <2>1
  <2>3. least - 1 \in Above
    BY <1>4, <2>1, <2>2
  <2>4. <<least - 1, least>> \in OpToRel(<, Nat)
    BY <1>4, <2>2 DEF OpToRel
  <2> QED BY <1>3, <2>3, <2>4
<1>6. \E t \in times : \A v \in Voices(sn) : v.issued <= t
  BY <1>4, <1>5
<1>7. HistoricalTime(sn) \in times /\ \A v \in Voices(sn) : v.issued <= HistoricalTime(sn)
  BY <1>6 DEF HistoricalTime
<1>8. \E d \in DocumentsOf(sn) : HistoricalTime(sn) = d.issued
  BY <1>7, VoiceIsDocument
<1>9. \A d \in DocumentsOf(sn) : d.issued <= HistoricalTime(sn)
  BY <1>7, VoicesAre
<1> QED BY <1>7, <1>8, <1>9

OneRole(sn) ==
  \A v, u \in Voices(sn) : v.signers \cap u.signers # {} => v.role = u.role

\* What is true of every snapshot that was ever saved.
Kept(sn) ==
  /\ GoodHistory(sn, sn.trust) /\ OneRole(sn)
  /\ Unique(sn.modules) /\ Unique(sn.integrations)
  /\ sn.accepted % 2 = 0

\* What authenticated documents are, by themselves.
LEMMA AuthenticIs ==
  ASSUME NEW o, NEW trust, NEW now, NEW previous, Authenticates(o, trust, now, previous)
  PROVE  /\ \A d \in DocumentsOf(o) : InWindow(d, now)
         /\ Cardinality(Ids(o.modules)) = Cardinality(o.modules)
         /\ Cardinality(Ids(o.integrations)) = Cardinality(o.integrations)
<1>1. InWindow(o.registry, now)
  BY DEF Authenticates, VerifyRegistry
<1>2. \A m \in o.modules : InWindow(m, now)
  BY DEF Authenticates, VerifyModule
<1>3. \A i \in o.integrations : InWindow(i, now)
  BY DEF Authenticates, VerifyIntegration
<1> QED BY <1>1, <1>2, <1>3 DEF Authenticates, DocumentsOf

\* They are authentic at any moment of their windows, taken by themselves.
LEMMA AuthenticAgain ==
  ASSUME NEW o, NEW trust, NEW now, NEW previous, Authenticates(o, trust, now, previous),
         NEW then, \A d \in DocumentsOf(o) : InWindow(d, then)
  PROVE  Authenticates(o, trust, then, Absent)
<1>1. VerifyRegistry(o.registry, trust, then, {})
  BY DEF Authenticates, VerifyRegistry, DocumentsOf, Continues
<1>2. \A m \in o.modules : VerifyModule(m, o.registry, trust, then, {})
  BY DEF Authenticates, VerifyModule, DocumentsOf, Continues
<1>3. \A i \in o.integrations : VerifyIntegration(i, o.registry, trust, then, {})
  BY DEF Authenticates, VerifyIntegration, DocumentsOf, Continues
<1>4. /\ Cardinality(o.modules) <= MaxDocuments
      /\ Cardinality(Ids(o.modules)) = Cardinality(o.modules)
      /\ Cardinality(o.integrations) <= MaxDocuments
      /\ Cardinality(Ids(o.integrations)) = Cardinality(o.integrations)
  BY DEF Authenticates
<1>5. Ids({}) = {} /\ \A id : Of({}, id) = {}
  BY DEF Ids, Of
<1> QED BY <1>1, <1>2, <1>3, <1>4, <1>5 DEF Authenticates

\* No key of theirs speaks in two roles.
LEMMA AuthenticRoles ==
  ASSUME NEW o, NEW trust, NEW now, NEW previous, Authenticates(o, trust, now, previous)
  PROVE  OneRole(o)
<1> DEFINE modules == o.registry.body.modules
           integrators == o.registry.body.integrators
<1>1. /\ o.registry.signers \subseteq trust.roots
      /\ integrators \cap trust.roots = {}
      /\ \A id \in DOMAIN modules :
           /\ modules[id].keys \cap (trust.roots \cup integrators) = {}
           /\ \A other \in DOMAIN modules \ {id} : modules[id].keys \cap modules[other].keys = {}
  BY DEF Authenticates, VerifyRegistry, Authorised, SeparateDelegations
<1>2. \A m \in o.modules : m.id \in DOMAIN modules /\ m.signers \subseteq modules[m.id].keys
  BY DEF Authenticates, VerifyModule, Authorised
<1>3. \A i \in o.integrations : i.signers \subseteq integrators
  BY DEF Authenticates, VerifyIntegration, Authorised
<1> HIDE DEF modules, integrators
<1> DEFINE Speaks(v) ==
             \/ v.role = <<"registry">> /\ v.signers \subseteq trust.roots
             \/ \E id \in DOMAIN modules : /\ v.role = <<"module_release", id>>
                                           /\ v.signers \subseteq modules[id].keys
             \/ v.role = <<"integration">> /\ v.signers \subseteq integrators
<1>4. \A v \in Voices(o) : Speaks(v)
  BY <1>1, <1>2, <1>3, VoicesAre
<1>5. ASSUME NEW v, NEW u, Speaks(v), Speaks(u), NEW key, key \in v.signers, key \in u.signers
      PROVE  v.role = u.role
  <2>1. CASE v.role = <<"registry">> /\ v.signers \subseteq trust.roots
    BY <1>1, <1>5, <2>1
  <2>2. CASE v.role = <<"integration">> /\ v.signers \subseteq integrators
    BY <1>1, <1>5, <2>2
  <2>3. ASSUME NEW id \in DOMAIN modules, v.role = <<"module_release", id>>,
               v.signers \subseteq modules[id].keys
        PROVE  v.role = u.role
    <3>1. key \notin trust.roots /\ key \notin integrators
      BY <1>1, <1>5, <2>3
    <3>2. PICK other \in DOMAIN modules : /\ u.role = <<"module_release", other>>
                                          /\ u.signers \subseteq modules[other].keys
      BY <1>5, <3>1
    <3>3. id = other
      BY <1>1, <1>5, <2>3, <3>2
    <3> QED BY <2>3, <3>2, <3>3
  <2> QED BY <1>5, <2>1, <2>2, <2>3
<1> HIDE DEF Speaks
<1> QED BY <1>4, <1>5 DEF OneRole

\* What is saved is kept, and is not before what was there.
LEMMA SavedIs ==
  ASSUME NEW offer \in Offer, NEW now \in 0..MaxClock, NEW trust \in Trust,
         NEW call, call.now = now, call.trust = trust,
         NEW previous, previous # Absent => previous \in CachedSnapshot /\ Kept(previous),
         Acceptable(offer, call, previous),
         NEW sn, sn = NewSnapshot(offer, call)
  PROVE  /\ sn \in CachedSnapshot /\ Kept(sn)
         /\ previous # Absent => sn.trust = previous.trust /\ NotBefore(sn, previous)
<1>1. /\ now \in Nat /\ Truncated(now) \in 0..MaxClock /\ Truncated(now) <= now
      /\ Truncated(now) % 2 = 0
  BY CatalogAssumption DEF Truncated
<1>2. PICK when \in 0..MaxClock : when = Truncated(now)
  BY <1>1
<1>3. sn = [registry |-> offer.registry, modules |-> offer.modules,
            integrations |-> offer.integrations, accepted |-> when, trust |-> trust]
  BY <1>2 DEF NewSnapshot
<1>4. /\ sn.registry = offer.registry /\ sn.modules = offer.modules
      /\ sn.integrations = offer.integrations /\ sn.accepted = when /\ sn.trust = trust
  BY <1>3
<1>5. sn \in CachedSnapshot
  BY <1>3 DEF CachedSnapshot
<1>6. Authenticates(sn, trust, now, previous)
  <2>1. Authenticates(offer, trust, now, previous)
    BY DEF Acceptable
  <2> QED BY <1>4, <2>1 DEF Authenticates
<1>7. \A d \in DocumentsOf(sn) : InWindow(d, now)
  BY <1>6, AuthenticIs
<1>8. /\ \A d \in DocumentsOf(sn) : d.issued <= HistoricalTime(sn)
      /\ \E d \in DocumentsOf(sn) : HistoricalTime(sn) = d.issued
  BY <1>1, <1>5, <1>7, HistoricalTimeIs DEF InWindow
<1>9. HistoricalTime(sn) \in Nat /\ HistoricalTime(sn) <= when
  BY <1>1, <1>2, <1>5, <1>7, <1>8, TruncatedIs, SnapshotIs DEF InWindow
<1>10. \A d \in DocumentsOf(sn) : InWindow(d, HistoricalTime(sn)) /\ when < d.expires
  BY <1>1, <1>2, <1>5, <1>7, <1>8, <1>9, SnapshotIs DEF InWindow
<1>11. GoodHistory(sn, sn.trust)
  <2>1. Authenticates(sn, sn.trust, HistoricalTime(sn), Absent)
    BY <1>4, <1>6, <1>10, AuthenticAgain
  <2>2. \A v \in Voices(sn) : sn.accepted < v.expires
    BY <1>4, <1>10, VoiceIsDocument
  <2> QED BY <1>4, <1>9, <2>1, <2>2 DEF GoodHistory
<1>12. Kept(sn)
  <2>1. Unique(sn.modules) /\ Unique(sn.integrations)
    BY <1>5, <1>6, AuthenticIs, SnapshotIs, UniqueIs
  <2>2. sn.accepted % 2 = 0
    BY <1>1, <1>2, <1>4
  <2> QED BY <1>6, <1>11, <2>1, <2>2, AuthenticRoles DEF Kept
<1>13. ASSUME previous # Absent PROVE sn.trust = previous.trust /\ NotBefore(sn, previous)
  <2>1. GoodHistory(previous, trust) /\ now >= previous.accepted
    BY <1>13 DEF Acceptable
  <2>2. previous.trust = trust
    BY <2>1 DEF GoodHistory
  <2>3. sn.accepted >= previous.accepted
    <3>1. previous.accepted \in Nat /\ previous.accepted % 2 = 0
      BY <1>13, SnapshotIs DEF Kept
    <3> QED BY <1>1, <1>2, <1>4, <2>1, <3>1, TruncatedIs
  <2>4. Continues(sn.registry, {previous.registry})
    BY <1>6, <1>13 DEF Authenticates, VerifyRegistry
  <2>5. ASSUME NEW m \in previous.modules PROVE \E n \in Of(sn.modules, m.id) : Continues(n, {m})
    <3>1. PICK n \in sn.modules : n.id = m.id
      <4>1. Ids(previous.modules) \subseteq Ids(sn.modules)
        BY <1>6, <1>13 DEF Authenticates
      <4> QED BY <4>1 DEF Ids
    <3>2. VerifyModule(n, sn.registry, trust, now, Of(previous.modules, n.id))
      BY <1>6, <1>13 DEF Authenticates
    <3> QED BY <3>1, <3>2 DEF VerifyModule, Continues, Of
  <2>6. ASSUME NEW m \in previous.integrations
        PROVE  \E n \in Of(sn.integrations, m.id) : Continues(n, {m})
    <3>1. PICK n \in sn.integrations : n.id = m.id
      <4>1. Ids(previous.integrations) \subseteq Ids(sn.integrations)
        BY <1>6, <1>13 DEF Authenticates
      <4> QED BY <4>1 DEF Ids
    <3>2. VerifyIntegration(n, sn.registry, trust, now, Of(previous.integrations, n.id))
      BY <1>6, <1>13 DEF Authenticates
    <3> QED BY <3>1, <3>2 DEF VerifyIntegration, Continues, Of
  <2> QED BY <1>4, <2>2, <2>3, <2>4, <2>5, <2>6 DEF NotBefore
<1> QED BY <1>5, <1>12, <1>13

\* Who is past the call holds the lock, and what it will write is not before what is
\* in the cache.
CallStands(s) ==
  saves[s] # Absent /\ saves[s].step # "called" =>
    /\ lock = s
    /\ saves[s].step = "written" =>
         /\ Kept(saves[s].snapshot)
         /\ cache # Absent => /\ saves[s].snapshot.trust = cache.trust
                              /\ NotBefore(saves[s].snapshot, cache)

\* What was shown under the keyring that is pinned is in the cache, or before it.
ShownStands(q) ==
  shown[q] # Absent =>
    /\ shown[q].snapshot \in CachedSnapshot /\ Kept(shown[q].snapshot)
    /\ shown[q].snapshot.trust.revision <= pinned.revision
    /\ \A id \in DOMAIN shown[q].findings : \A v \in Reported :
         shown[q].findings[id][v] = Finding(shown[q].snapshot, id, v)
    /\ shown[q].snapshot.trust = pinned =>
         cache # Absent /\ cache.trust = pinned /\ NotBefore(cache, shown[q].snapshot)

CatalogInv ==
  /\ CatalogTypeOK
  /\ DOMAIN shown = Reader
  /\ cache # Absent => Kept(cache)
  /\ \A s \in Saver : CallStands(s)
  /\ \A q \in Reader : ShownStands(q)

LEMMA CallIs ==
  \A call \in SaveCall :
    /\ call.step \in {"called", "locked", "written", "over"} /\ call # Absent
    /\ call.step \in {"called", "locked"} =>
         /\ call.trust \in Trust /\ call.now \in 0..MaxClock
         /\ [call EXCEPT !.step = "locked"] \in SaveCall
    /\ call.step = "written" => call.snapshot \in CachedSnapshot
<1> SUFFICES ASSUME NEW call \in SaveCall
             PROVE  /\ call.step \in {"called", "locked", "written", "over"} /\ call # Absent
                    /\ call.step \in {"called", "locked"} =>
                         /\ call.trust \in Trust /\ call.now \in 0..MaxClock
                         /\ [call EXCEPT !.step = "locked"] \in SaveCall
                    /\ call.step = "written" => call.snapshot \in CachedSnapshot
  OBVIOUS
<1>1. call # Absent
  BY CatalogAssumption
<1>2. CASE call \in [step : {"called", "locked"}, trust : Trust, now : 0..MaxClock]
  BY <1>1, <1>2 DEF SaveCall
<1>3. CASE call \in [step : {"written"}, snapshot : CachedSnapshot]
  BY <1>1, <1>3
<1>4. CASE call \in [step : {"over"}]
  BY <1>1, <1>4
<1> QED BY <1>2, <1>3, <1>4 DEF SaveCall

LEMMA ShownStays ==
  ASSUME NEW q, ShownStands(q), UNCHANGED <<cache, pinned>>, shown'[q] = shown[q]
  PROVE  ShownStands(q)'
BY DEF ShownStands

LEMMA CallStays ==
  ASSUME NEW s, CallStands(s), UNCHANGED <<cache, lock>>, saves'[s] = saves[s]
  PROVE  CallStands(s)'
BY DEF CallStands

\* A saver takes a step that changes neither the cache nor the keyring.
LEMMA SaverTurns ==
  ASSUME CatalogInv, NEW s \in Saver, NEW new \in SaveCall \cup {Absent},
         saves' = [saves EXCEPT ![s] = new],
         UNCHANGED <<cache, clock, setBacks, pinned, shown>>,
         lock' \in Saver \cup {Absent}, CallStands(s)',
         \A t \in Saver \ {s} : CallStands(t)'
  PROVE  CatalogInv'
<1>1. saves' \in [Saver -> SaveCall \cup {Absent}]
  BY DEF CatalogInv, CatalogTypeOK
<1>2. \A q \in Reader : ShownStands(q)'
  BY ShownStays DEF CatalogInv
<1>3. CatalogTypeOK'
  BY <1>1 DEF CatalogInv, CatalogTypeOK
<1> QED BY <1>2, <1>3 DEF CatalogInv

LEMMA CallSaveStep ==
  ASSUME CatalogInv, NEW s \in Saver, CallSave(s) PROVE CatalogInv'
<1> DEFINE new == [step |-> "called", trust |-> pinned, now |-> clock]
<1>1. /\ saves' = [saves EXCEPT ![s] = new]
      /\ UNCHANGED <<cache, lock, clock, setBacks, pinned, shown>>
  BY DEF CallSave
<1>2. new \in SaveCall /\ new.step = "called"
  BY DEF CatalogInv, CatalogTypeOK, SaveCall
<1> HIDE DEF new
<1>3. saves'[s] = new /\ \A t \in Saver \ {s} : saves'[t] = saves[t]
  BY <1>1 DEF CatalogInv, CatalogTypeOK
<1>4. CallStands(s)'
  BY <1>2, <1>3 DEF CallStands
<1>5. \A t \in Saver \ {s} : CallStands(t)'
  BY <1>1, <1>3, CallStays DEF CatalogInv
<1>6. lock' \in Saver \cup {Absent}
  BY <1>1 DEF CatalogInv, CatalogTypeOK
<1> QED BY <1>1, <1>2, <1>4, <1>5, <1>6, SaverTurns

\* While a saver holds the lock, no other is past its call.
LEMMA OthersOnlyCalled ==
  ASSUME CatalogInv, NEW s \in Saver \cup {Absent}, lock = s, NEW t \in Saver \ {s}
  PROVE  saves[t] = Absent \/ saves[t].step = "called"
BY CatalogAssumption DEF CatalogInv, CallStands

LEMMA OnlyCalledStands ==
  ASSUME NEW t, saves[t] = Absent \/ saves[t].step = "called", saves'[t] = saves[t]
  PROVE  CallStands(t)'
BY DEF CallStands

LEMMA TakeLockStep ==
  ASSUME CatalogInv, NEW s \in Saver, TakeLock(s) PROVE CatalogInv'
<1> DEFINE new == [saves[s] EXCEPT !.step = "locked"]
<1>1. /\ saves[s] # Absent /\ saves[s].step = "called"
      /\ UNCHANGED <<cache, clock, setBacks, pinned, shown>>
  BY DEF TakeLock
<1>2. saves[s] \in SaveCall
  BY <1>1 DEF CatalogInv, CatalogTypeOK
<1>3. new \in SaveCall /\ new.step = "locked"
  BY <1>1, <1>2, CallIs
<1> HIDE DEF new
<1>4. CASE lock = Absent /\ lock' = s /\ saves' = [saves EXCEPT ![s] = new]
  <2>1. saves'[s] = new /\ \A t \in Saver \ {s} : saves'[t] = saves[t]
    BY <1>4 DEF CatalogInv, CatalogTypeOK
  <2>2. CallStands(s)'
    BY <1>3, <1>4, <2>1 DEF CallStands
  <2>3. \A t \in Saver \ {s} : CallStands(t)'
    BY <1>4, <2>1, OthersOnlyCalled, OnlyCalledStands, CatalogAssumption
  <2> QED BY <1>1, <1>3, <1>4, <2>2, <2>3, SaverTurns
<1>5. CASE saves' = [saves EXCEPT ![s] = Absent] /\ UNCHANGED lock
  <2>1. saves'[s] = Absent /\ \A t \in Saver \ {s} : saves'[t] = saves[t]
    BY <1>5 DEF CatalogInv, CatalogTypeOK
  <2>2. CallStands(s)' /\ \A t \in Saver \ {s} : CallStands(t)'
    BY <1>1, <1>5, <2>1, CallStays DEF CatalogInv, CallStands
  <2>3. lock' \in Saver \cup {Absent}
    BY <1>5 DEF CatalogInv, CatalogTypeOK
  <2> QED BY <1>1, <1>5, <2>2, <2>3, SaverTurns
<1> QED BY <1>4, <1>5 DEF TakeLock, new

LEMMA ReadHistoryStep ==
  ASSUME CatalogInv, NEW s \in Saver, ReadHistory(s) PROVE CatalogInv'
<1>1. PICK call : call = saves[s]
  OBVIOUS
<1>2. PICK previous : previous = cache
  OBVIOUS
<1>3. PICK offer \in Offer :
        saves' = [saves EXCEPT ![s] =
                   IF Acceptable(offer, call, previous)
                   THEN [step |-> "written", snapshot |-> NewSnapshot(offer, call)]
                   ELSE [step |-> "over"]]
  BY <1>1, <1>2 DEF ReadHistory
<1>4. /\ call # Absent /\ call.step = "locked"
      /\ UNCHANGED <<cache, lock, clock, setBacks, pinned, shown>>
  BY <1>1 DEF ReadHistory
<1>5. call \in SaveCall /\ call.trust \in Trust /\ call.now \in 0..MaxClock
  BY <1>1, <1>4, CallIs DEF CatalogInv, CatalogTypeOK
<1>6. lock = s /\ lock' \in Saver \cup {Absent}
  BY <1>1, <1>4 DEF CatalogInv, CallStands
<1>7. previous # Absent => previous \in CachedSnapshot /\ Kept(previous)
  BY <1>2 DEF CatalogInv, CatalogTypeOK
<1>8. CASE Acceptable(offer, call, previous)
  <2>1. PICK sn : sn = NewSnapshot(offer, call)
    OBVIOUS
  <2>2. /\ sn \in CachedSnapshot /\ Kept(sn)
        /\ previous # Absent => sn.trust = previous.trust /\ NotBefore(sn, previous)
    BY <1>5, <1>7, <1>8, <2>1, SavedIs
  <2>3. PICK new : new = [step |-> "written", snapshot |-> sn]
    OBVIOUS
  <2>4. new \in SaveCall /\ new.step = "written" /\ new.snapshot = sn
    BY <2>2, <2>3 DEF SaveCall
  <2>5. saves' = [saves EXCEPT ![s] = new]
    BY <1>3, <1>8, <2>1, <2>3
  <2>6. saves'[s] = new /\ \A t \in Saver \ {s} : saves'[t] = saves[t]
    BY <2>5 DEF CatalogInv, CatalogTypeOK
  <2>7. CallStands(s)'
    BY <1>2, <1>4, <1>6, <2>2, <2>4, <2>6 DEF CallStands
  <2>8. \A t \in Saver \ {s} : CallStands(t)'
    BY <1>4, <2>6, CallStays DEF CatalogInv
  <2> QED BY <1>4, <1>6, <2>4, <2>5, <2>7, <2>8, SaverTurns
<1>9. CASE ~Acceptable(offer, call, previous)
  <2>1. PICK new : new = [step |-> "over"]
    OBVIOUS
  <2>2. new \in SaveCall /\ new.step = "over"
    BY <2>1 DEF SaveCall
  <2>3. saves' = [saves EXCEPT ![s] = new]
    BY <1>3, <1>9, <2>1
  <2>4. saves'[s] = new /\ \A t \in Saver \ {s} : saves'[t] = saves[t]
    BY <2>3 DEF CatalogInv, CatalogTypeOK
  <2>5. CallStands(s)'
    BY <1>4, <1>6, <2>2, <2>4 DEF CallStands
  <2>6. \A t \in Saver \ {s} : CallStands(t)'
    BY <1>4, <2>4, CallStays DEF CatalogInv
  <2> QED BY <1>4, <1>6, <2>2, <2>3, <2>5, <2>6, SaverTurns
<1> QED BY <1>8, <1>9

LEMMA ReplaceCacheStep ==
  ASSUME CatalogInv, NEW s \in Saver, ReplaceCache(s) PROVE CatalogInv'
<1>1. PICK sn : sn = saves[s].snapshot
  OBVIOUS
<1>2. PICK new : new = [step |-> "over"]
  OBVIOUS
<1>3. /\ saves[s] # Absent /\ saves[s].step = "written" /\ cache' = sn
      /\ saves' = [saves EXCEPT ![s] = new]
      /\ UNCHANGED <<lock, clock, setBacks, pinned, shown>>
  BY <1>1, <1>2 DEF ReplaceCache
<1>4. sn \in CachedSnapshot /\ sn # Absent
  BY <1>1, <1>3, CallIs, SnapshotIs DEF CatalogInv, CatalogTypeOK
<1>5. /\ lock = s /\ Kept(sn)
      /\ cache # Absent => sn.trust = cache.trust /\ NotBefore(sn, cache)
  BY <1>1, <1>3 DEF CatalogInv, CallStands
<1>6. new \in SaveCall /\ new.step = "over"
  BY <1>2 DEF SaveCall
<1>7. saves'[s] = new /\ \A t \in Saver \ {s} : saves'[t] = saves[t]
  BY <1>3 DEF CatalogInv, CatalogTypeOK
<1>8. CallStands(s)'
  BY <1>3, <1>5, <1>6, <1>7 DEF CallStands
<1>9. \A t \in Saver \ {s} : CallStands(t)'
  BY <1>5, <1>7, OthersOnlyCalled, OnlyCalledStands
<1>10. ASSUME NEW q \in Reader PROVE ShownStands(q)'
  <2>1. PICK old : old = shown[q].snapshot
    OBVIOUS
  <2>2. shown'[q] = shown[q]
    BY <1>3
  <2>3. ASSUME shown[q] # Absent, old.trust = pinned
        PROVE  sn.trust = pinned /\ NotBefore(sn, old)
    <3>1. cache # Absent /\ cache.trust = pinned /\ NotBefore(cache, old) /\ old \in CachedSnapshot
      BY <2>1, <2>3 DEF CatalogInv, ShownStands
    <3>2. PICK here \in CachedSnapshot : here = cache
      BY <3>1 DEF CatalogInv, CatalogTypeOK
    <3>3. NotBefore(here, old) /\ NotBefore(sn, here)
      BY <1>5, <3>1, <3>2
    <3> QED BY <1>4, <1>5, <3>1, <3>3, NotBeforeIsOrder
  <2> QED BY <1>3, <1>4, <2>1, <2>2, <2>3 DEF CatalogInv, ShownStands
<1>11. CatalogTypeOK'
  <2>1. saves' \in [Saver -> SaveCall \cup {Absent}]
    BY <1>3, <1>6 DEF CatalogInv, CatalogTypeOK
  <2> QED BY <1>3, <1>4, <2>1 DEF CatalogInv, CatalogTypeOK
<1> QED BY <1>3, <1>5, <1>8, <1>9, <1>10, <1>11 DEF CatalogInv

LEMMA SaverEndsStep ==
  ASSUME CatalogInv, NEW s \in Saver, Unlock(s) \/ KillSaver(s) PROVE CatalogInv'
<1>1. /\ saves' = [saves EXCEPT ![s] = Absent]
      /\ UNCHANGED <<cache, clock, setBacks, pinned, shown>>
  BY DEF Unlock, KillSaver
<1>2. saves'[s] = Absent /\ \A t \in Saver \ {s} : saves'[t] = saves[t]
  BY <1>1 DEF CatalogInv, CatalogTypeOK
<1>3. CallStands(s)'
  BY <1>2 DEF CallStands
<1>4. CASE Unlock(s)
  <2>1. lock = s /\ lock' = Absent
    BY <1>4 DEF Unlock, CatalogInv, CallStands
  <2>2. \A t \in Saver \ {s} : CallStands(t)'
    BY <1>2, <2>1, OthersOnlyCalled, OnlyCalledStands
  <2> QED BY <1>1, <1>3, <2>1, <2>2, SaverTurns
<1>5. CASE KillSaver(s)
  <2>1. UNCHANGED lock /\ lock' \in Saver \cup {Absent}
    BY <1>5 DEF KillSaver, CatalogInv, CatalogTypeOK
  <2>2. \A t \in Saver \ {s} : CallStands(t)'
    BY <1>1, <1>2, <2>1, CallStays DEF CatalogInv
  <2> QED BY <1>1, <1>3, <2>1, <2>2, SaverTurns
<1> QED BY <1>4, <1>5

\* A lock is only removed when nobody is past its call.
LEMMA RemoveLockStep ==
  ASSUME CatalogInv, RemoveLock PROVE CatalogInv'
<1>1. /\ lock # Absent /\ saves[lock] = Absent /\ lock' = Absent
      /\ UNCHANGED <<cache, clock, setBacks, pinned, saves, shown>>
  BY DEF RemoveLock
<1>2. \A t \in Saver : saves[t] = Absent \/ saves[t].step = "called"
  BY <1>1 DEF CatalogInv, CallStands
<1>3. \A t \in Saver : CallStands(t)'
  BY <1>1, <1>2, OnlyCalledStands
<1>4. \A q \in Reader : ShownStands(q)'
  BY <1>1, ShownStays DEF CatalogInv
<1> QED BY <1>1, <1>3, <1>4 DEF CatalogInv, CatalogTypeOK

LEMMA PreviewStep ==
  ASSUME CatalogInv, NEW r \in Reader, Preview(r) PROVE CatalogInv'
<1>1. /\ cache # Absent /\ cache.trust = pinned
      /\ UNCHANGED <<cache, lock, clock, setBacks, pinned, saves>>
  BY DEF Preview, GoodNow
<1>2. PICK sn \in CachedSnapshot : sn = cache
  BY <1>1 DEF CatalogInv, CatalogTypeOK
<1>3. PICK findings :
        /\ findings = [id \in DOMAIN sn.registry.body.modules |->
                         [v \in Reported |-> Finding(sn, id, v)]]
        /\ shown' = [shown EXCEPT ![r] = [snapshot |-> sn, findings |-> findings]]
  BY <1>2 DEF Preview
<1>4. /\ shown'[r] = [snapshot |-> sn, findings |-> findings]
      /\ \A q \in Reader \ {r} : shown'[q] = shown[q]
      /\ DOMAIN shown' = Reader
  BY <1>3 DEF CatalogInv
<1>5. shown'[r].snapshot = sn /\ shown'[r].findings = findings
  BY <1>4
<1>6. \A id \in DOMAIN findings : \A v \in Reported : findings[id][v] = Finding(sn, id, v)
  BY <1>3
<1>7. Kept(sn) /\ sn.trust = pinned /\ NotBefore(sn, sn) /\ sn.trust.revision <= pinned.revision
  BY <1>1, <1>2, NotBeforeIsOrder, SnapshotIs DEF CatalogInv
<1>8. ShownStands(r)'
  BY <1>1, <1>2, <1>5, <1>6, <1>7 DEF ShownStands
<1>9. \A q \in Reader \ {r} : ShownStands(q)'
  BY <1>1, <1>4, ShownStays DEF CatalogInv
<1>10. \A s \in Saver : CallStands(s)'
  BY <1>1, CallStays DEF CatalogInv
<1> QED BY <1>1, <1>4, <1>8, <1>9, <1>10 DEF CatalogInv, CatalogTypeOK

LEMMA TimeStep ==
  ASSUME CatalogInv, clock' \in 0..MaxClock, setBacks' \in 0..MaxSetBacks,
         UNCHANGED <<cache, lock, pinned, saves, shown>>
  PROVE  CatalogInv'
<1>1. \A s \in Saver : CallStands(s)'
  BY CallStays DEF CatalogInv
<1>2. \A q \in Reader : ShownStands(q)'
  BY ShownStays DEF CatalogInv
<1> QED BY <1>1, <1>2 DEF CatalogInv, CatalogTypeOK

\* The successor's revision is above that of everything that was shown.
LEMMA RotateStep ==
  ASSUME CatalogInv, Rotate PROVE CatalogInv'
<1>1. PICK t \in Transition :
        /\ pinned' = t.successor /\ t.successor.revision > pinned.revision
        /\ UNCHANGED <<cache, lock, clock, setBacks, saves, shown>>
  BY DEF Rotate, VerifiedTransition
<1>2. /\ pinned' \in Trust /\ pinned'.revision > pinned.revision
      /\ pinned.revision \in Nat /\ pinned'.revision \in Nat
  BY <1>1, CatalogAssumption DEF CatalogInv, CatalogTypeOK
<1>3. ASSUME NEW q \in Reader, shown[q] # Absent
      PROVE  /\ shown[q].snapshot.trust.revision <= pinned'.revision
             /\ shown[q].snapshot.trust # pinned'
  <2>1. /\ shown[q].snapshot.trust.revision \in Nat
        /\ shown[q].snapshot.trust.revision <= pinned.revision
    BY <1>3, SnapshotIs DEF CatalogInv, ShownStands
  <2> QED BY <1>2, <2>1
<1>4. \A q \in Reader : ShownStands(q)'
  BY <1>1, <1>3 DEF CatalogInv, ShownStands
<1>5. \A s \in Saver : CallStands(s)'
  BY <1>1, CallStays DEF CatalogInv
<1> QED BY <1>1, <1>2, <1>4, <1>5 DEF CatalogInv, CatalogTypeOK

LEMMA RemoveCacheStep ==
  ASSUME CatalogInv, RemoveCache PROVE CatalogInv'
<1>1. /\ cache.trust # pinned /\ cache' = Absent
      /\ UNCHANGED <<lock, clock, setBacks, pinned, saves, shown>>
  BY DEF RemoveCache
<1>2. \A q \in Reader : ShownStands(q)'
  BY <1>1 DEF CatalogInv, ShownStands
<1>3. \A s \in Saver : CallStands(s)'
  BY <1>1 DEF CatalogInv, CallStands
<1> QED BY <1>1, <1>2, <1>3 DEF CatalogInv, CatalogTypeOK

LEMMA CatalogInvStep == CatalogInv /\ [CatalogNext]_catalogVars => CatalogInv'
<1> SUFFICES ASSUME CatalogInv, [CatalogNext]_catalogVars PROVE CatalogInv'
  OBVIOUS
<1>1. CASE \E s \in Saver : SaverStep(s)
  BY <1>1, CallSaveStep, TakeLockStep, ReadHistoryStep, ReplaceCacheStep, SaverEndsStep DEF SaverStep
<1>2. CASE Tick
  <2>1. clock' \in 0..MaxClock
    BY <1>2, CatalogAssumption DEF Tick, CatalogInv, CatalogTypeOK
  <2>2. setBacks' \in 0..MaxSetBacks /\ UNCHANGED <<cache, lock, pinned, saves, shown>>
    BY <1>2 DEF Tick, CatalogInv, CatalogTypeOK
  <2> QED BY <2>1, <2>2, TimeStep
<1>3. CASE SetBack
  <2>1. clock' \in 0..MaxClock /\ setBacks' \in 0..MaxSetBacks
    BY <1>3, CatalogAssumption DEF SetBack, CatalogInv, CatalogTypeOK
  <2>2. UNCHANGED <<cache, lock, pinned, saves, shown>>
    BY <1>3 DEF SetBack
  <2> QED BY <2>1, <2>2, TimeStep
<1>4. CASE UNCHANGED catalogVars
  <2>1. /\ clock' \in 0..MaxClock /\ setBacks' \in 0..MaxSetBacks
        /\ UNCHANGED <<cache, lock, pinned, saves, shown>>
    BY <1>4 DEF catalogVars, CatalogInv, CatalogTypeOK
  <2> QED BY <2>1, TimeStep
<1> QED BY <1>1, <1>2, <1>3, <1>4, PreviewStep, RemoveLockStep, RotateStep, RemoveCacheStep
        DEF CatalogNext

LEMMA CatalogInvInit == CatalogInit => CatalogInv
BY CatalogAssumption DEF CatalogInit, CatalogInv, CatalogTypeOK, CallStands, ShownStands

LEMMA CatalogAlone ==
  /\ SupplyInit => CatalogInit
  /\ [SupplyNext]_supplyVars => [CatalogNext]_catalogVars
BY IssuanceAlone DEF catalogVars

LEMMA CatalogAlways == SupplySpec => []CatalogInv
BY CatalogAlone, CatalogInvInit, CatalogInvStep, PTL DEF SupplySpec

LEMMA CatalogInvMeans == CatalogInv => SavedIsGoodHistory /\ OneRolePerKey
BY DEF CatalogInv, Kept, OneRole, SavedIsGoodHistory, OneRolePerKey

\* What a reader is shown was in the cache, under the keyring that is pinned.
LEMMA ShownIs ==
  ASSUME CatalogInv, [CatalogNext]_catalogVars, NEW r \in Reader, shown'[r] # shown[r]
  PROVE  /\ shown'[r].snapshot = cache /\ cache # Absent /\ cache.trust = pinned
         /\ cache \in CachedSnapshot /\ Kept(cache)
         /\ \A id \in DOMAIN shown'[r].findings : \A v \in Reported :
              shown'[r].findings[id][v] = Finding(cache, id, v)
<1>1. Preview(r)
  <2>1. shown' # shown
    OBVIOUS
  <2>2. PICK q \in Reader : Preview(q)
    BY <2>1 DEF CatalogNext, SaverStep, CallSave, TakeLock, ReadHistory, ReplaceCache, Unlock,
       KillSaver, RemoveLock, Tick, SetBack, Rotate, RemoveCache, catalogVars
  <2>3. q = r
    BY <2>2 DEF Preview, CatalogInv
  <2> QED BY <2>2, <2>3
<1>2. PICK sn : sn = cache
  OBVIOUS
<1>3. PICK findings :
        /\ findings = [id \in DOMAIN sn.registry.body.modules |->
                         [v \in Reported |-> Finding(sn, id, v)]]
        /\ shown' = [shown EXCEPT ![r] = [snapshot |-> sn, findings |-> findings]]
  BY <1>1, <1>2 DEF Preview
<1>4. shown'[r] = [snapshot |-> sn, findings |-> findings]
  BY <1>3 DEF CatalogInv
<1>5. shown'[r].snapshot = sn /\ shown'[r].findings = findings
  BY <1>4
<1>6. \A id \in DOMAIN findings : \A v \in Reported : findings[id][v] = Finding(sn, id, v)
  BY <1>3
<1> QED BY <1>1, <1>2, <1>5, <1>6 DEF Preview, GoodNow, CatalogInv, CatalogTypeOK

\* A revocation and a match of one version are findings of different bodies.
LEMMA FindingsDiffer ==
  ASSUME NEW then, NEW now, Unique(then.modules), Unique(now.modules),
         NEW m \in then.modules, NEW n \in now.modules, n.id = m.id, Digest(n) = Digest(m),
         NEW v, Finding(then, m.id, v) = "signed_version_revoked",
         Finding(now, m.id, v) = "signed_version_match"
  PROVE  FALSE
<1>1. Of(then.modules, m.id) = {m} /\ Of(now.modules, m.id) = {n}
  BY DEF Of, Unique
<1>2. n.body = m.body
  <2>1. Digest(n).body = n.body /\ Digest(m).body = m.body
    BY DEF Digest
  <2> QED BY <2>1
<1>3. v \notin {"not_reported", "metadata_unreadable"}
  BY DEF Finding
<1>4. v \in DOMAIN m.body /\ m.body[v]
  <2>1. v \in DOMAIN m.body
    BY <1>1, <1>3 DEF Finding
  <2> QED BY <1>1, <1>3, <2>1 DEF Finding
<1> QED BY <1>1, <1>2, <1>3, <1>4 DEF Finding

LEMMA CatalogStepMeans ==
  CatalogInv /\ [CatalogNext]_catalogVars =>
    /\ \A r, q \in Reader :
         /\ shown'[r] # shown[r]
         /\ shown[q] # Absent
         /\ shown[q].snapshot.trust = shown'[r].snapshot.trust
         => NotBefore(shown'[r].snapshot, shown[q].snapshot)
    /\ \A r, q \in Reader : \A v \in Reported :
         shown'[r] # shown[r] /\ shown[q] # Absent =>
           LET then == shown[q].snapshot  now == shown'[r].snapshot
           IN \A m \in then.modules : \A n \in Of(now.modules, m.id) :
                /\ now.trust = then.trust
                /\ m.id \in DOMAIN shown[q].findings \cap DOMAIN shown'[r].findings
                /\ shown[q].findings[m.id][v] = "signed_version_revoked"
                /\ shown'[r].findings[m.id][v] = "signed_version_match"
                => n.revision > m.revision
<1> SUFFICES ASSUME CatalogInv, [CatalogNext]_catalogVars, NEW r \in Reader, NEW q \in Reader,
                    shown'[r] # shown[r], shown[q] # Absent,
                    shown[q].snapshot.trust = shown'[r].snapshot.trust
             PROVE  /\ NotBefore(shown'[r].snapshot, shown[q].snapshot)
                    /\ \A v \in Reported, m \in shown[q].snapshot.modules :
                         \A n \in Of(shown'[r].snapshot.modules, m.id) :
                           /\ m.id \in DOMAIN shown[q].findings \cap DOMAIN shown'[r].findings
                           /\ shown[q].findings[m.id][v] = "signed_version_revoked"
                           /\ shown'[r].findings[m.id][v] = "signed_version_match"
                           => n.revision > m.revision
  OBVIOUS
<1>1. /\ shown'[r].snapshot = cache /\ cache # Absent /\ cache.trust = pinned
      /\ cache \in CachedSnapshot /\ Kept(cache)
      /\ \A id \in DOMAIN shown'[r].findings : \A v \in Reported :
           shown'[r].findings[id][v] = Finding(cache, id, v)
  BY ShownIs
<1>2. PICK then : then = shown[q].snapshot
  OBVIOUS
<1>3. PICK now : now = cache
  OBVIOUS
<1>4. /\ then \in CachedSnapshot /\ Kept(then) /\ NotBefore(now, then)
      /\ \A id \in DOMAIN shown[q].findings : \A v \in Reported :
           shown[q].findings[id][v] = Finding(then, id, v)
  BY <1>1, <1>2, <1>3 DEF CatalogInv, ShownStands
<1>5. ASSUME NEW v \in Reported, NEW m \in then.modules, NEW n \in Of(now.modules, m.id),
             Finding(then, m.id, v) = "signed_version_revoked",
             Finding(now, m.id, v) = "signed_version_match"
      PROVE  n.revision > m.revision
  <2>1. n \in now.modules /\ n.id = m.id /\ Unique(then.modules) /\ Unique(now.modules)
    BY <1>1, <1>3, <1>4 DEF Of, Kept
  <2>2. PICK k \in Of(now.modules, m.id) : Continues(k, {m})
    BY <1>4 DEF NotBefore
  <2>3. k = n
    BY <2>1, <2>2 DEF Of, Unique
  <2>4. n.revision >= m.revision /\ (n.revision = m.revision => Digest(n) = Digest(m))
    BY <2>2, <2>3 DEF Continues
  <2>5. Digest(n) # Digest(m)
    BY <1>5, <2>1, FindingsDiffer
  <2>6. n.revision \in Nat /\ m.revision \in Nat
    BY <1>1, <1>3, <1>4, <2>1, SnapshotIs DEF DocumentsOf
  <2> QED BY <2>4, <2>5, <2>6
<1>6. NotBefore(shown'[r].snapshot, shown[q].snapshot)
  BY <1>1, <1>2, <1>3, <1>4
<1>7. ASSUME NEW v \in Reported, NEW m \in shown[q].snapshot.modules,
             NEW n \in Of(shown'[r].snapshot.modules, m.id),
             m.id \in DOMAIN shown[q].findings \cap DOMAIN shown'[r].findings,
             shown[q].findings[m.id][v] = "signed_version_revoked",
             shown'[r].findings[m.id][v] = "signed_version_match"
      PROVE  n.revision > m.revision
  <2>1. Finding(then, m.id, v) = "signed_version_revoked" /\ Finding(now, m.id, v) = "signed_version_match"
    BY <1>1, <1>3, <1>4, <1>7
  <2> QED BY <1>1, <1>2, <1>3, <1>5, <1>7, <2>1
<1> QED BY <1>6, <1>7

\* Whatever the clocks do, whoever saves at the same time or is killed, and however
\* the roots rotate: the cache verifies as the history of the next save, no key in it
\* has two roles, and what is shown under one keyring never goes back, nor forgets
\* a revocation (save_catalog_cache, load_catalog_cache, compare_local_catalog_metadata).
THEOREM CatalogSound == SupplySpec => CatalogStands
<1>1. CatalogInv /\ [SupplyNext]_supplyVars =>
        [\A r, q \in Reader :
           /\ shown'[r] # shown[r]
           /\ shown[q] # Absent
           /\ shown[q].snapshot.trust = shown'[r].snapshot.trust
           => NotBefore(shown'[r].snapshot, shown[q].snapshot)]_catalogVars
  BY CatalogAlone, CatalogStepMeans
<1>2. CatalogInv /\ [SupplyNext]_supplyVars =>
        [\A r, q \in Reader : \A v \in Reported :
           shown'[r] # shown[r] /\ shown[q] # Absent =>
             LET then == shown[q].snapshot  now == shown'[r].snapshot
             IN \A m \in then.modules : \A n \in Of(now.modules, m.id) :
                  /\ now.trust = then.trust
                  /\ m.id \in DOMAIN shown[q].findings \cap DOMAIN shown'[r].findings
                  /\ shown[q].findings[m.id][v] = "signed_version_revoked"
                  /\ shown'[r].findings[m.id][v] = "signed_version_match"
                  => n.revision > m.revision]_catalogVars
  BY CatalogAlone, CatalogStepMeans
<1>3. SupplySpec => ShownNeverGoesBack
  BY <1>1, CatalogAlways, PTL DEF ShownNeverGoesBack, SupplySpec
<1>4. SupplySpec => RevocationNotForgotten
  BY <1>2, CatalogAlways, PTL DEF RevocationNotForgotten, SupplySpec
<1>5. SupplySpec => []SavedIsGoodHistory /\ []OneRolePerKey
  BY CatalogInvMeans, CatalogAlways, PTL
<1> QED BY <1>3, <1>4, <1>5, PTL DEF CatalogStands

-----------------------------------------------------------------------------
(* The audits: what their programs are made of.                            *)

StepName == {"read", "again", "probe", "lock selection", "lock journal", "recovery", "journal",
             "unlock", "selection", "head"}
StepRecord == [do : StepName, files : SUBSET StagedFile]
StepsOf(s) == {s[n] : n \in 1..Len(s)}
FilesOf(steps) == UNION {step.files : step \in steps}

LEMMA StepIs ==
  /\ \A name \in StepName : /\ Step(name) \in StepRecord
                            /\ Step(name).do = name /\ Step(name).files = {}
  /\ \A files \in SUBSET StagedFile : /\ Pass(files) \in StepRecord
                                      /\ Pass(files).do = "read" /\ Pass(files).files = files
<1>1. ASSUME NEW name \in StepName
      PROVE  Step(name) \in StepRecord /\ Step(name).do = name /\ Step(name).files = {}
  BY DEF Step, StepRecord
<1>2. ASSUME NEW files \in SUBSET StagedFile
      PROVE  Pass(files) \in StepRecord /\ Pass(files).do = "read" /\ Pass(files).files = files
  <2>1. "read" \in StepName
    BY DEF StepName
  <2>2. Pass(files) \in StepRecord
    BY <2>1 DEF Pass, StepRecord
  <2> QED BY <2>2 DEF Pass
<1> QED BY <1>1, <1>2

LEMMA TuplesAre ==
  /\ \A v \in StepRecord : /\ <<v>> \in Seq(StepRecord) /\ StepsOf(<<v>>) = {v}
                           /\ Len(<<v>>) = 1 /\ <<v>>[1] = v
  /\ \A v, w \in StepRecord : <<v, w>> \in Seq(StepRecord) /\ StepsOf(<<v, w>>) = {v, w}
  /\ \A v, w, x \in StepRecord :
       <<v, w, x>> \in Seq(StepRecord) /\ StepsOf(<<v, w, x>>) = {v, w, x}
  /\ \A v, w, x, y \in StepRecord :
       <<v, w, x, y>> \in Seq(StepRecord) /\ StepsOf(<<v, w, x, y>>) = {v, w, x, y}
  /\ \A v, w, x, y, z \in StepRecord :
       <<v, w, x, y, z>> \in Seq(StepRecord) /\ StepsOf(<<v, w, x, y, z>>) = {v, w, x, y, z}
<1>1. /\ 1..1 = {1} /\ 1..2 = {1, 2} /\ 1..3 = {1, 2, 3} /\ 1..4 = {1, 2, 3, 4}
      /\ 1..5 = {1, 2, 3, 4, 5}
  OBVIOUS
<1>2. ASSUME NEW v \in StepRecord
      PROVE  /\ <<v>> \in Seq(StepRecord) /\ StepsOf(<<v>>) = {v}
             /\ Len(<<v>>) = 1 /\ <<v>>[1] = v
  BY <1>1 DEF StepsOf
<1>3. ASSUME NEW v \in StepRecord, NEW w \in StepRecord
      PROVE  <<v, w>> \in Seq(StepRecord) /\ StepsOf(<<v, w>>) = {v, w}
  <2>1. Len(<<v, w>>) = 2 /\ <<v, w>>[1] = v /\ <<v, w>>[2] = w
    OBVIOUS
  <2> QED BY <1>1, <2>1 DEF StepsOf
<1>4. ASSUME NEW v \in StepRecord, NEW w \in StepRecord, NEW x \in StepRecord
      PROVE  <<v, w, x>> \in Seq(StepRecord) /\ StepsOf(<<v, w, x>>) = {v, w, x}
  <2> DEFINE s == <<v, w, x>>
  <2>1. Len(s) = 3 /\ s[1] = v /\ s[2] = w /\ s[3] = x /\ s \in Seq(StepRecord)
    OBVIOUS
  <2> HIDE DEF s
  <2>2. StepsOf(s) = {v, w, x}
    BY <1>1, <2>1 DEF StepsOf
  <2> QED BY <2>1, <2>2 DEF s
<1>5. ASSUME NEW v \in StepRecord, NEW w \in StepRecord, NEW x \in StepRecord, NEW y \in StepRecord
      PROVE  <<v, w, x, y>> \in Seq(StepRecord) /\ StepsOf(<<v, w, x, y>>) = {v, w, x, y}
  <2> DEFINE s == <<v, w, x, y>>
  <2>1. Len(s) = 4 /\ s[1] = v /\ s[2] = w /\ s[3] = x /\ s[4] = y /\ s \in Seq(StepRecord)
    OBVIOUS
  <2> HIDE DEF s
  <2>2. StepsOf(s) = {v, w, x, y}
    BY <1>1, <2>1 DEF StepsOf
  <2> QED BY <2>1, <2>2 DEF s
<1>6. ASSUME NEW v \in StepRecord, NEW w \in StepRecord, NEW x \in StepRecord,
             NEW y \in StepRecord, NEW z \in StepRecord
      PROVE  <<v, w, x, y, z>> \in Seq(StepRecord) /\ StepsOf(<<v, w, x, y, z>>) = {v, w, x, y, z}
  <2> DEFINE s == <<v, w, x, y, z>>
  <2>1. /\ Len(s) = 5 /\ s[1] = v /\ s[2] = w /\ s[3] = x /\ s[4] = y /\ s[5] = z
        /\ s \in Seq(StepRecord)
    OBVIOUS
  <2> HIDE DEF s
  <2>2. StepsOf(s) = {v, w, x, y, z}
    BY <1>1, <2>1 DEF StepsOf
  <2> QED BY <2>1, <2>2 DEF s
<1> QED BY <1>2, <1>3, <1>4, <1>5, <1>6

LEMMA StepsOfConcat ==
  ASSUME NEW s \in Seq(StepRecord), NEW t \in Seq(StepRecord)
  PROVE  s \o t \in Seq(StepRecord) /\ StepsOf(s \o t) = StepsOf(s) \cup StepsOf(t)
<1>1. /\ s \o t \in Seq(StepRecord) /\ Len(s \o t) = Len(s) + Len(t)
      /\ \A i \in 1..Len(s) + Len(t) : (s \o t)[i] = IF i <= Len(s) THEN s[i] ELSE t[i - Len(s)]
      /\ Len(s) \in Nat /\ Len(t) \in Nat
  BY ConcatProperties
<1> DEFINE u == s \o t
<1>2. /\ Len(u) = Len(s) + Len(t)
      /\ \A i \in 1..Len(s) + Len(t) : u[i] = IF i <= Len(s) THEN s[i] ELSE t[i - Len(s)]
  BY <1>1
<1> HIDE DEF u
<1>3. StepsOf(u) \subseteq StepsOf(s) \cup StepsOf(t)
  <2> SUFFICES ASSUME NEW i \in 1..Len(u) PROVE u[i] \in StepsOf(s) \cup StepsOf(t)
    BY DEF StepsOf
  <2>1. CASE i <= Len(s)
    <3>1. i \in 1..Len(s) /\ u[i] = s[i]
      BY <1>1, <1>2, <2>1
    <3> QED BY <3>1 DEF StepsOf
  <2>2. CASE ~(i <= Len(s))
    <3>1. i - Len(s) \in 1..Len(t) /\ u[i] = t[i - Len(s)]
      BY <1>1, <1>2, <2>2
    <3> QED BY <3>1 DEF StepsOf
  <2> QED BY <2>1, <2>2
<1>4. ASSUME NEW i \in 1..Len(s) PROVE s[i] \in StepsOf(u)
  <2>1. i \in 1..Len(u) /\ u[i] = s[i]
    BY <1>1, <1>2
  <2> QED BY <2>1 DEF StepsOf
<1>5. ASSUME NEW i \in 1..Len(t) PROVE t[i] \in StepsOf(u)
  <2>1. i + Len(s) \in 1..Len(u) /\ ~(i + Len(s) <= Len(s)) /\ (i + Len(s)) - Len(s) = i
    BY <1>1, <1>2
  <2>2. u[i + Len(s)] = t[i]
    BY <1>1, <1>2, <2>1
  <2> QED BY <2>1, <2>2 DEF StepsOf
<1>6. StepsOf(s) \cup StepsOf(t) \subseteq StepsOf(u)
  BY <1>4, <1>5 DEF StepsOf
<1>7. u \in Seq(StepRecord) /\ StepsOf(u) = StepsOf(s) \cup StepsOf(t)
  BY <1>1, <1>3, <1>6 DEF u
<1> QED BY <1>7 DEF u

W == Pass(WheelFile)
R == Pass(RuntimeFile)
S == Pass(SiteFile)
N == Pass(NativeFile)

LEMMA PassesAre ==
  /\ W \in StepRecord /\ R \in StepRecord /\ S \in StepRecord /\ N \in StepRecord
  /\ PublisherPasses \in Seq(StepRecord) /\ StepsOf(PublisherPasses) = {W, R, S}
  /\ NativePasses \in Seq(StepRecord) /\ StepsOf(NativePasses) = {W, R, N}
  /\ Observation \in Seq(StepRecord) /\ StepsOf(Observation) = {W, R, S, N}
  /\ ContractPasses \in Seq(StepRecord) /\ StepsOf(ContractPasses) = {W, R, S, N}
  /\ DeclarationPasses \in Seq(StepRecord) /\ StepsOf(DeclarationPasses) = {W, R, S}
  /\ ImportPasses \in Seq(StepRecord) /\ StepsOf(ImportPasses) = {W, R, S, N}
<1>1. W \in StepRecord /\ R \in StepRecord /\ S \in StepRecord /\ N \in StepRecord
  BY StepIs DEF W, R, S, N, StagedFile
<1>2. PublisherPasses \in Seq(StepRecord) /\ StepsOf(PublisherPasses) = {W, R, S}
  <2>1. PublisherPasses = <<W, R, S, R, W>>
    BY DEF PublisherPasses, W, R, S
  <2>2. /\ <<W, R, S, R, W>> \in Seq(StepRecord)
        /\ StepsOf(<<W, R, S, R, W>>) = {W, R, S, R, W}
    BY <1>1, TuplesAre
  <2> QED BY <2>1, <2>2
<1>3. NativePasses \in Seq(StepRecord) /\ StepsOf(NativePasses) = {W, R, N}
  <2>1. NativePasses = <<W, R, N>>
    BY DEF NativePasses, W, R, N
  <2> QED BY <1>1, <2>1, TuplesAre
<1>4. Observation \in Seq(StepRecord) /\ StepsOf(Observation) = {W, R, S, N}
  BY <1>2, <1>3, StepsOfConcat DEF Observation
<1>5. ContractPasses \in Seq(StepRecord) /\ StepsOf(ContractPasses) = {W, R, S, N}
  <2>1. ContractPasses = NativePasses \o <<W, R, S>>
    BY DEF ContractPasses, W, R, S
  <2>2. <<W, R, S>> \in Seq(StepRecord) /\ StepsOf(<<W, R, S>>) = {W, R, S}
    BY <1>1, TuplesAre
  <2>3. /\ NativePasses \o <<W, R, S>> \in Seq(StepRecord)
        /\ StepsOf(NativePasses \o <<W, R, S>>) = {W, R, N} \cup {W, R, S}
    BY <1>3, <2>2, StepsOfConcat
  <2> QED BY <2>1, <2>3
<1>6. DeclarationPasses \in Seq(StepRecord) /\ StepsOf(DeclarationPasses) = {W, R, S}
  <2>1. DeclarationPasses = (PublisherPasses \o <<W, S>>) \o PublisherPasses
    BY DEF DeclarationPasses, W, S
  <2>2. <<W, S>> \in Seq(StepRecord) /\ StepsOf(<<W, S>>) = {W, S}
    BY <1>1, TuplesAre
  <2>3. /\ PublisherPasses \o <<W, S>> \in Seq(StepRecord)
        /\ StepsOf(PublisherPasses \o <<W, S>>) = {W, R, S} \cup {W, S}
    BY <1>2, <2>2, StepsOfConcat
  <2>4. /\ (PublisherPasses \o <<W, S>>) \o PublisherPasses \in Seq(StepRecord)
        /\ StepsOf((PublisherPasses \o <<W, S>>) \o PublisherPasses)
             = ({W, R, S} \cup {W, S}) \cup {W, R, S}
    BY <1>2, <2>3, StepsOfConcat
  <2> QED BY <2>1, <2>4
<1>7. ImportPasses \in Seq(StepRecord) /\ StepsOf(ImportPasses) = {W, R, S, N}
  <2>1. StepsOf(ImportPasses) = {W, R, S} \cup {W, R, N} /\ ImportPasses \in Seq(StepRecord)
    BY <1>3, <1>6, StepsOfConcat DEF ImportPasses
  <2> QED BY <2>1
<1> QED BY <1>1, <1>2, <1>3, <1>4, <1>5, <1>6, <1>7

\* A program up to the step that begins again, and from there on.
LockSteps == <<Step("lock selection"), Step("lock journal"), Step("recovery"), Step("journal")>>
Probed(passes) == <<Step("probe")>> \o passes
Rechecked == <<Step("journal"), Step("recovery"), Step("unlock")>>

FirstPart ==
  [catalog |-> Observation,
   journal |-> LockSteps \o Observation,
   acceptance |-> LockSteps \o NativePasses,
   contracts |-> LockSteps \o ContractPasses,
   publisher |-> <<Step("journal"), W>> \o (LockSteps \o ContractPasses),
   provider |-> (ImportPasses \o <<Step("probe")>>) \o ImportPasses,
   witness |-> <<Step("selection"), Step("head")>> \o Observation]

SecondPart ==
  [catalog |-> Observation,
   journal |-> Observation \o <<Step("journal"), Step("recovery")>>,
   acceptance |-> Probed(NativePasses),
   contracts |-> Probed(ContractPasses) \o Rechecked,
   publisher |-> (Probed(ContractPasses) \o Rechecked) \o <<W>>,
   provider |-> Probed(ImportPasses) \o Probed(ImportPasses),
   witness |-> Observation
                 \o (PublisherPasses \o <<Step("selection"), Step("head"), Step("selection")>>)]

Kinds == {"catalog", "journal", "acceptance", "contracts", "publisher", "provider", "witness"}
LockKinds == {"journal", "acceptance", "contracts", "publisher"}
Again == <<Step("again")>>

LEMMA Associative ==
  \A s, t, u \in Seq(StepRecord) :
    s \o t \in Seq(StepRecord) /\ (s \o t) \o u = s \o (t \o u)
BY ConcatAssociative, ConcatProperties

Then(s, t) == s \o t

LEMMA ThenIs ==
  \A s, t, u \in Seq(StepRecord) :
    Then(s, t) \in Seq(StepRecord) /\ Then(Then(s, t), u) = Then(s, Then(t, u))
BY Associative DEF Then

LEMMA NamesOfSteps ==
  /\ \A name \in StepName : Step(name) \in StepRecord
  /\ Again \in Seq(StepRecord) /\ StepsOf(Again) = {Step("again")}
  /\ <<Step("probe")>> \in Seq(StepRecord) /\ StepsOf(<<Step("probe")>>) = {Step("probe")}
  /\ LockSteps \in Seq(StepRecord)
  /\ StepsOf(LockSteps) = {Step("lock selection"), Step("lock journal"), Step("recovery"),
                           Step("journal")}
  /\ Rechecked \in Seq(StepRecord)
  /\ StepsOf(Rechecked) = {Step("journal"), Step("recovery"), Step("unlock")}
<1>1. \A name \in StepName : Step(name) \in StepRecord
  BY StepIs
<1>2. /\ Step("again") \in StepRecord /\ Step("probe") \in StepRecord
      /\ Step("lock selection") \in StepRecord /\ Step("lock journal") \in StepRecord
      /\ Step("recovery") \in StepRecord /\ Step("journal") \in StepRecord
      /\ Step("unlock") \in StepRecord
  BY <1>1 DEF StepName
<1>3. /\ Again \in Seq(StepRecord) /\ StepsOf(Again) = {Step("again")}
      /\ <<Step("probe")>> \in Seq(StepRecord) /\ StepsOf(<<Step("probe")>>) = {Step("probe")}
  BY <1>2, TuplesAre DEF Again
<1>4. /\ LockSteps \in Seq(StepRecord)
      /\ StepsOf(LockSteps) = {Step("lock selection"), Step("lock journal"), Step("recovery"),
                               Step("journal")}
  <2> DEFINE v == Step("lock selection")
             w == Step("lock journal")
             x == Step("recovery")
             y == Step("journal")
  <2>1. /\ v \in StepRecord /\ w \in StepRecord /\ x \in StepRecord /\ y \in StepRecord
        /\ LockSteps = <<v, w, x, y>>
    BY <1>2 DEF LockSteps
  <2> HIDE DEF v, w, x, y
  <2>2. LockSteps \in Seq(StepRecord) /\ StepsOf(LockSteps) = {v, w, x, y}
    BY <2>1, TuplesAre
  <2> QED BY <2>2 DEF v, w, x, y
<1>5. /\ Rechecked \in Seq(StepRecord)
      /\ StepsOf(Rechecked) = {Step("journal"), Step("recovery"), Step("unlock")}
  <2> DEFINE v == Step("journal")
             w == Step("recovery")
             x == Step("unlock")
  <2>1. /\ v \in StepRecord /\ w \in StepRecord /\ x \in StepRecord
        /\ Rechecked = <<v, w, x>>
    BY <1>2 DEF Rechecked
  <2> HIDE DEF v, w, x
  <2>2. Rechecked \in Seq(StepRecord) /\ StepsOf(Rechecked) = {v, w, x}
    BY <2>1, TuplesAre
  <2> QED BY <2>2 DEF v, w, x
<1> QED BY <1>1, <1>3, <1>4, <1>5

LEMMA ProbedIs ==
  ASSUME NEW p \in Seq(StepRecord)
  PROVE  /\ Probed(p) \in Seq(StepRecord) /\ StepsOf(Probed(p)) = {Step("probe")} \cup StepsOf(p)
         /\ AroundProbe(p) = (p \o Again) \o Probed(p)
         /\ Twice(p) = (p \o Again) \o p
<1>1. Probed(p) \in Seq(StepRecord) /\ StepsOf(Probed(p)) = {Step("probe")} \cup StepsOf(p)
  BY NamesOfSteps, StepsOfConcat DEF Probed
<1>2. <<Step("again"), Step("probe")>> = Again \o <<Step("probe")>>
  BY DEF Again
<1> DEFINE probe == <<Step("probe")>>
<1>3. AroundProbe(p) = (p \o (Again \o probe)) \o p
  BY <1>2 DEF AroundProbe
<1>4. /\ Again \in Seq(StepRecord) /\ probe \in Seq(StepRecord)
      /\ Probed(p) = probe \o p
  BY NamesOfSteps DEF Probed
<1> HIDE DEF probe
<1>5. p \o (Again \o probe) = (p \o Again) \o probe
  BY <1>4, Associative
<1>6. p \o Again \in Seq(StepRecord)
  BY <1>4, Associative
<1>7. ((p \o Again) \o probe) \o p = (p \o Again) \o (probe \o p)
  BY <1>4, <1>6, Associative
<1> QED BY <1>1, <1>3, <1>4, <1>5, <1>7 DEF Twice, Again

LEMMA SplitAround ==
  \A l, p, q, t \in Seq(StepRecord) :
    /\ Then(l, Then(Then(p, Again), q)) = Then(Then(Then(l, p), Again), q)
    /\ Then(Then(l, Then(Then(p, Again), q)), t) = Then(Then(Then(l, p), Again), Then(q, t))
<1> TAKE l, p, q, t \in Seq(StepRecord)
<1>1. Again \in Seq(StepRecord)
  BY NamesOfSteps
<1> DEFINE pa == Then(p, Again)
           lp == Then(l, p)
<1>2. /\ pa \in Seq(StepRecord) /\ lp \in Seq(StepRecord)
      /\ Then(l, pa) \in Seq(StepRecord) /\ Then(l, pa) = Then(lp, Again)
  BY <1>1, ThenIs
<1>3. Then(l, Then(pa, q)) = Then(Then(l, pa), q)
  <2> HIDE DEF pa, lp
  <2> QED BY <1>2, ThenIs
<1>4. Then(Then(Then(l, pa), q), t) = Then(Then(l, pa), Then(q, t))
  <2> HIDE DEF pa, lp
  <2> QED BY <1>2, ThenIs
<1> QED BY <1>2, <1>3, <1>4, Zenon

LEMMA ProgramsAre ==
  \A kind \in Kinds : Program(kind) = (FirstPart[kind] \o Again) \o SecondPart[kind]
<1> DEFINE Q == Probed(ContractPasses)
           probe == <<Step("probe")>>
           I == Probed(ImportPasses)
           check == <<Step("journal"), Step("recovery")>>
           first == <<Step("journal"), W>>
           begun == <<Step("selection"), Step("head")>>
           ended == <<Step("selection"), Step("head"), Step("selection")>>
           wheels == <<W>>
<1>1. /\ LockSteps \in Seq(StepRecord) /\ Again \in Seq(StepRecord)
      /\ Rechecked \in Seq(StepRecord) /\ probe \in Seq(StepRecord)
  BY NamesOfSteps
<1>2. check \in Seq(StepRecord) /\ first \in Seq(StepRecord) /\ begun \in Seq(StepRecord)
      /\ ended \in Seq(StepRecord) /\ wheels \in Seq(StepRecord)
  <2>1. /\ Step("journal") \in StepRecord /\ Step("recovery") \in StepRecord /\ W \in StepRecord
        /\ Step("selection") \in StepRecord /\ Step("head") \in StepRecord
    BY NamesOfSteps, PassesAre DEF StepName
  <2> QED BY <2>1, TuplesAre
<1>3. Q \in Seq(StepRecord) /\ I \in Seq(StepRecord)
  BY PassesAre, ProbedIs
<1>m. /\ Observation \in Seq(StepRecord) /\ NativePasses \in Seq(StepRecord)
      /\ ContractPasses \in Seq(StepRecord) /\ ImportPasses \in Seq(StepRecord)
      /\ PublisherPasses \in Seq(StepRecord) /\ Probed(NativePasses) \in Seq(StepRecord)
  BY PassesAre, ProbedIs
<1> HIDE DEF Q, I, probe, check, first, begun, ended, wheels
<1>4. Program("catalog") = (FirstPart["catalog"] \o Again) \o SecondPart["catalog"]
  BY PassesAre, ProbedIs DEF Program, Programs, CatalogAudit, FirstPart, SecondPart
<1>5. Program("journal") = (FirstPart["journal"] \o Again) \o SecondPart["journal"]
  <2>1. Program("journal") = (LockSteps \o ((Observation \o Again) \o Observation)) \o check
    BY PassesAre, ProbedIs DEF Program, Programs, JournalAudit, Locked, LockSteps, check
  <2>2. FirstPart["journal"] = LockSteps \o Observation /\ SecondPart["journal"] = Observation \o check
    BY DEF FirstPart, SecondPart, check
  <2>3. (LockSteps \o ((Observation \o Again) \o Observation)) \o check
          = ((LockSteps \o Observation) \o Again) \o (Observation \o check)
    <3>1. Then(Then(LockSteps, Then(Then(Observation, Again), Observation)), check)
            = Then(Then(Then(LockSteps, Observation), Again), Then(Observation, check))
      BY <1>1, <1>2, <1>m, SplitAround, SMTT(30)
    <3> QED BY <3>1 DEF Then
  <2> QED BY <2>1, <2>2, <2>3, Zenon
<1>6. Program("acceptance") = (FirstPart["acceptance"] \o Again) \o SecondPart["acceptance"]
  <2>1. Program("acceptance") = LockSteps \o ((NativePasses \o Again) \o Probed(NativePasses))
    BY PassesAre, ProbedIs DEF Program, Programs, AcceptanceAudit, Locked, LockSteps
  <2>2. FirstPart["acceptance"] = LockSteps \o NativePasses /\ SecondPart["acceptance"] = Probed(NativePasses)
    BY DEF FirstPart, SecondPart
  <2>3. LockSteps \o ((NativePasses \o Again) \o Probed(NativePasses))
          = ((LockSteps \o NativePasses) \o Again) \o Probed(NativePasses)
    <3>1. Then(LockSteps, Then(Then(NativePasses, Again), Probed(NativePasses)))
            = Then(Then(Then(LockSteps, NativePasses), Again), Probed(NativePasses))
      BY <1>1, <1>m, SplitAround
    <3> QED BY <3>1 DEF Then
  <2> QED BY <2>1, <2>2, <2>3, Zenon
<1>7. PublicContracts = ((LockSteps \o ContractPasses) \o Again) \o (Q \o Rechecked)
  <2>1. PublicContracts = (LockSteps \o ((ContractPasses \o Again) \o Q)) \o Rechecked
    BY PassesAre, ProbedIs DEF PublicContracts, Locked, LockSteps, Q, Rechecked
  <2>2. (LockSteps \o ((ContractPasses \o Again) \o Q)) \o Rechecked
          = ((LockSteps \o ContractPasses) \o Again) \o (Q \o Rechecked)
    <3>1. Then(Then(LockSteps, Then(Then(ContractPasses, Again), Q)), Rechecked)
            = Then(Then(Then(LockSteps, ContractPasses), Again), Then(Q, Rechecked))
      BY <1>1, <1>3, <1>m, SplitAround
    <3> QED BY <3>1 DEF Then
  <2> QED BY <2>1, <2>2, Zenon
<1>8. Program("contracts") = (FirstPart["contracts"] \o Again) \o SecondPart["contracts"]
  BY <1>7 DEF Program, Programs, FirstPart, SecondPart, Q
<1>9. Program("publisher") = (FirstPart["publisher"] \o Again) \o SecondPart["publisher"]
  <2> DEFINE p == LockSteps \o ContractPasses
             q == Q \o Rechecked
  <2>1. Program("publisher") = (first \o PublicContracts) \o wheels
    BY DEF Program, Programs, PublisherAudit, first, wheels, W
  <2>2. p \in Seq(StepRecord) /\ q \in Seq(StepRecord)
    BY <1>1, <1>3, PassesAre, Associative
  <2>3. PublicContracts = (p \o Again) \o q
    BY <1>7
  <2>4. FirstPart["publisher"] = first \o p /\ SecondPart["publisher"] = q \o wheels
    BY DEF FirstPart, SecondPart, first, wheels, Q
  <2> HIDE DEF p, q
  <2>5. (first \o ((p \o Again) \o q)) \o wheels = ((first \o p) \o Again) \o (q \o wheels)
    <3>1. Then(Then(first, Then(Then(p, Again), q)), wheels)
            = Then(Then(Then(first, p), Again), Then(q, wheels))
      BY <1>2, <2>2, SplitAround
    <3> QED BY <3>1 DEF Then
  <2> QED BY <2>1, <2>3, <2>4, <2>5, Zenon
<1>10. Program("provider") = (FirstPart["provider"] \o Again) \o SecondPart["provider"]
  <2> DEFINE l == ImportPasses \o probe
             a == (ImportPasses \o Again) \o I
  <2>1. Program("provider") = ((l \o a) \o probe) \o ImportPasses
    <3>1. AroundProbe(ImportPasses) = a
      BY PassesAre, ProbedIs DEF I
    <3> QED BY <3>1 DEF Program, Programs, ProviderAudit, probe
  <2>2. l \in Seq(StepRecord) /\ a \in Seq(StepRecord)
    <3>1. ImportPasses \o Again \in Seq(StepRecord)
      BY <1>1, PassesAre, Associative
    <3> QED BY <1>1, <1>3, <3>1, PassesAre, Associative
  <2>3. l \o a = ((l \o ImportPasses) \o Again) \o I /\ (l \o a) \o I = ((l \o ImportPasses) \o Again) \o (I \o I)
    <3> HIDE DEF l
    <3>1. a = Then(Then(ImportPasses, Again), I)
      BY DEF Then
    <3>2. /\ Then(l, Then(Then(ImportPasses, Again), I)) = Then(Then(Then(l, ImportPasses), Again), I)
          /\ Then(Then(l, Then(Then(ImportPasses, Again), I)), I)
               = Then(Then(Then(l, ImportPasses), Again), Then(I, I))
      BY <1>3, <1>m, <2>2, SplitAround
    <3> QED BY <3>2 DEF Then
  <2>4. l \o a \in Seq(StepRecord)
    <3> HIDE DEF l, a
    <3> QED BY <2>2, Associative
  <2>5. ((l \o a) \o probe) \o ImportPasses = (l \o a) \o (probe \o ImportPasses)
    <3> HIDE DEF l, a
    <3>1. Then(Then(Then(l, a), probe), ImportPasses) = Then(Then(l, a), Then(probe, ImportPasses))
      <4>1. Then(l, a) \in Seq(StepRecord)
        BY <2>4 DEF Then
      <4> QED BY <1>1, <1>m, <4>1, ThenIs
    <3> QED BY <3>1 DEF Then
  <2>6. probe \o ImportPasses = I
    BY DEF I, Probed, probe
  <2>7. FirstPart["provider"] = l \o ImportPasses /\ SecondPart["provider"] = I \o I
    BY DEF FirstPart, SecondPart, probe, I
  <2> HIDE DEF l, a
  <2> QED BY <2>1, <2>3, <2>5, <2>6, <2>7
<1>11. Program("witness") = (FirstPart["witness"] \o Again) \o SecondPart["witness"]
  <2> DEFINE a == (Observation \o Again) \o Observation
             t == PublisherPasses \o ended
  <2>1. Program("witness") = ((begun \o a) \o PublisherPasses) \o ended
    <3>1. Twice(Observation) = a
      BY PassesAre, ProbedIs
    <3> QED BY <3>1 DEF Program, Programs, WitnessAudit, begun, ended
  <2>2. a \in Seq(StepRecord) /\ t \in Seq(StepRecord)
    <3>1. Observation \o Again \in Seq(StepRecord)
      BY <1>1, PassesAre, Associative
    <3> QED BY <1>2, <3>1, PassesAre, Associative
  <2>3. begun \o a \in Seq(StepRecord)
    <3> HIDE DEF a
    <3> QED BY <1>2, <2>2, Associative
  <2>4. ((begun \o a) \o PublisherPasses) \o ended = (begun \o a) \o t
    <3> HIDE DEF a
    <3>1. Then(Then(Then(begun, a), PublisherPasses), ended)
            = Then(Then(begun, a), Then(PublisherPasses, ended))
      <4>1. Then(begun, a) \in Seq(StepRecord)
        BY <2>3 DEF Then
      <4> QED BY <1>2, <1>m, <4>1, ThenIs
    <3> QED BY <3>1 DEF Then
  <2>5. (begun \o a) \o t = ((begun \o Observation) \o Again) \o (Observation \o t)
    <3> HIDE DEF t
    <3>1. Then(Then(begun, Then(Then(Observation, Again), Observation)), t)
            = Then(Then(Then(begun, Observation), Again), Then(Observation, t))
      BY <1>2, <1>m, <2>2, SplitAround
    <3> QED BY <3>1 DEF Then
  <2>6. FirstPart["witness"] = begun \o Observation /\ SecondPart["witness"] = Observation \o t
    BY DEF FirstPart, SecondPart, begun, ended
  <2> HIDE DEF a, t
  <2> QED BY <2>1, <2>4, <2>5, <2>6
<1> QED BY <1>4, <1>5, <1>6, <1>8, <1>9, <1>10, <1>11 DEF Kinds

\* What stands in each half, and where the unlocking stands.
LEMMA HalvesAre ==
  /\ \A kind \in Kinds : FirstPart[kind] \in Seq(StepRecord) /\ SecondPart[kind] \in Seq(StepRecord)
  /\ StepsOf(FirstPart["catalog"]) = {W, R, S, N}
  /\ StepsOf(SecondPart["catalog"]) = {W, R, S, N}
  /\ StepsOf(FirstPart["journal"]) = StepsOf(LockSteps) \cup {W, R, S, N}
  /\ StepsOf(SecondPart["journal"]) = {W, R, S, N} \cup {Step("journal"), Step("recovery")}
  /\ StepsOf(FirstPart["acceptance"]) = StepsOf(LockSteps) \cup {W, R, N}
  /\ StepsOf(SecondPart["acceptance"]) = {Step("probe")} \cup {W, R, N}
  /\ StepsOf(FirstPart["contracts"]) = StepsOf(LockSteps) \cup {W, R, S, N}
  /\ StepsOf(SecondPart["contracts"]) = ({Step("probe")} \cup {W, R, S, N}) \cup StepsOf(Rechecked)
  /\ StepsOf(FirstPart["publisher"]) = {Step("journal"), W} \cup (StepsOf(LockSteps) \cup {W, R, S, N})
  /\ StepsOf(SecondPart["publisher"])
       = (({Step("probe")} \cup {W, R, S, N}) \cup StepsOf(Rechecked)) \cup {W}
  /\ StepsOf(FirstPart["provider"]) = {W, R, S, N} \cup {Step("probe")}
  /\ StepsOf(SecondPart["provider"]) = {W, R, S, N} \cup {Step("probe")}
  /\ StepsOf(FirstPart["witness"]) = {Step("selection"), Step("head")} \cup {W, R, S, N}
  /\ StepsOf(SecondPart["witness"]) = {W, R, S, N} \cup {Step("selection"), Step("head")}
<1> DEFINE begun == <<Step("selection"), Step("head")>>
           ended == <<Step("selection"), Step("head"), Step("selection")>>
           first == <<Step("journal"), W>>
           check == <<Step("journal"), Step("recovery")>>
           probe == <<Step("probe")>>
           wheels == <<W>>
           I == Probed(ImportPasses)
           Q == Probed(ContractPasses)
<1>1. /\ begun \in Seq(StepRecord) /\ StepsOf(begun) = {Step("selection"), Step("head")}
      /\ ended \in Seq(StepRecord) /\ StepsOf(ended) = {Step("selection"), Step("head")}
      /\ first \in Seq(StepRecord) /\ StepsOf(first) = {Step("journal"), W}
      /\ check \in Seq(StepRecord) /\ StepsOf(check) = {Step("journal"), Step("recovery")}
      /\ wheels \in Seq(StepRecord) /\ StepsOf(wheels) = {W}
  <2>1. /\ Step("journal") \in StepRecord /\ Step("recovery") \in StepRecord /\ W \in StepRecord
        /\ Step("selection") \in StepRecord /\ Step("head") \in StepRecord
    BY NamesOfSteps, PassesAre DEF StepName
  <2>2. /\ begun \in Seq(StepRecord) /\ StepsOf(begun) = {Step("selection"), Step("head")}
        /\ first \in Seq(StepRecord) /\ StepsOf(first) = {Step("journal"), W}
        /\ check \in Seq(StepRecord) /\ StepsOf(check) = {Step("journal"), Step("recovery")}
        /\ wheels \in Seq(StepRecord) /\ StepsOf(wheels) = {W}
    BY <2>1, TuplesAre
  <2>3. ended \in Seq(StepRecord) /\ StepsOf(ended) = {Step("selection"), Step("head")}
    <3>1. /\ ended \in Seq(StepRecord)
          /\ StepsOf(ended) = {Step("selection"), Step("head"), Step("selection")}
      BY <2>1, TuplesAre
    <3> QED BY <3>1
  <2> QED BY <2>2, <2>3
<1>2. /\ LockSteps \in Seq(StepRecord) /\ Rechecked \in Seq(StepRecord)
      /\ probe \in Seq(StepRecord) /\ StepsOf(probe) = {Step("probe")}
  BY NamesOfSteps
<1>3. /\ I \in Seq(StepRecord) /\ StepsOf(I) = {Step("probe")} \cup {W, R, S, N}
      /\ Q \in Seq(StepRecord) /\ StepsOf(Q) = {Step("probe")} \cup {W, R, S, N}
      /\ Probed(NativePasses) \in Seq(StepRecord)
      /\ StepsOf(Probed(NativePasses)) = {Step("probe")} \cup {W, R, N}
  BY PassesAre, ProbedIs
<1>4. /\ FirstPart["catalog"] = Observation /\ SecondPart["catalog"] = Observation
      /\ FirstPart["journal"] = LockSteps \o Observation /\ SecondPart["journal"] = Observation \o check
      /\ FirstPart["acceptance"] = LockSteps \o NativePasses
      /\ SecondPart["acceptance"] = Probed(NativePasses)
      /\ FirstPart["contracts"] = LockSteps \o ContractPasses /\ SecondPart["contracts"] = Q \o Rechecked
      /\ FirstPart["publisher"] = first \o (LockSteps \o ContractPasses)
      /\ SecondPart["publisher"] = (Q \o Rechecked) \o wheels
      /\ FirstPart["provider"] = (ImportPasses \o probe) \o ImportPasses
      /\ SecondPart["provider"] = I \o I
      /\ FirstPart["witness"] = begun \o Observation
      /\ SecondPart["witness"] = Observation \o (PublisherPasses \o ended)
  BY Zenon DEF FirstPart, SecondPart
<1> HIDE DEF begun, ended, first, check, probe, wheels, I, Q
<1> DEFINE o == Observation
           c == ContractPasses
           n == NativePasses
           i == ImportPasses
           u == PublisherPasses
<1>5. /\ o \in Seq(StepRecord) /\ StepsOf(o) = {W, R, S, N}
      /\ c \in Seq(StepRecord) /\ StepsOf(c) = {W, R, S, N}
      /\ n \in Seq(StepRecord) /\ StepsOf(n) = {W, R, N}
      /\ i \in Seq(StepRecord) /\ StepsOf(i) = {W, R, S, N}
      /\ u \in Seq(StepRecord) /\ StepsOf(u) = {W, R, S}
  BY PassesAre
<1> HIDE DEF o, c, n, i, u
<1>6. /\ LockSteps \o o \in Seq(StepRecord) /\ StepsOf(LockSteps \o o) = StepsOf(LockSteps) \cup StepsOf(o)
      /\ o \o check \in Seq(StepRecord) /\ StepsOf(o \o check) = StepsOf(o) \cup StepsOf(check)
      /\ LockSteps \o n \in Seq(StepRecord) /\ StepsOf(LockSteps \o n) = StepsOf(LockSteps) \cup StepsOf(n)
  BY <1>1, <1>2, <1>5, StepsOfConcat
<1>7. /\ LockSteps \o c \in Seq(StepRecord) /\ StepsOf(LockSteps \o c) = StepsOf(LockSteps) \cup StepsOf(c)
      /\ Q \o Rechecked \in Seq(StepRecord)
      /\ StepsOf(Q \o Rechecked) = StepsOf(Q) \cup StepsOf(Rechecked)
      /\ i \o probe \in Seq(StepRecord) /\ StepsOf(i \o probe) = StepsOf(i) \cup StepsOf(probe)
      /\ I \o I \in Seq(StepRecord) /\ StepsOf(I \o I) = StepsOf(I) \cup StepsOf(I)
  <2>1. LockSteps \o c \in Seq(StepRecord) /\ StepsOf(LockSteps \o c) = StepsOf(LockSteps) \cup StepsOf(c)
    BY <1>1, <1>2, <1>5, StepsOfConcat
  <2>2. /\ Q \o Rechecked \in Seq(StepRecord)
        /\ StepsOf(Q \o Rechecked) = StepsOf(Q) \cup StepsOf(Rechecked)
    BY <1>1, <1>2, <1>3, StepsOfConcat
  <2>3. i \o probe \in Seq(StepRecord) /\ StepsOf(i \o probe) = StepsOf(i) \cup StepsOf(probe)
    BY <1>1, <1>2, <1>5, StepsOfConcat
  <2>4. I \o I \in Seq(StepRecord) /\ StepsOf(I \o I) = StepsOf(I) \cup StepsOf(I)
    BY <1>1, <1>2, <1>3, StepsOfConcat
  <2> QED BY <2>1, <2>2, <2>3, <2>4, Zenon
<1>8. /\ begun \o o \in Seq(StepRecord) /\ StepsOf(begun \o o) = StepsOf(begun) \cup StepsOf(o)
      /\ u \o ended \in Seq(StepRecord) /\ StepsOf(u \o ended) = StepsOf(u) \cup StepsOf(ended)
  BY <1>1, <1>2, <1>5, StepsOfConcat
<1> DEFINE lc == LockSteps \o c
           qr == Q \o Rechecked
           ip == i \o probe
           ue == u \o ended
<1>9. /\ lc \in Seq(StepRecord) /\ qr \in Seq(StepRecord) /\ ip \in Seq(StepRecord)
      /\ ue \in Seq(StepRecord)
  BY <1>7, <1>8
<1>10. /\ first \o lc \in Seq(StepRecord) /\ StepsOf(first \o lc) = StepsOf(first) \cup StepsOf(lc)
       /\ qr \o wheels \in Seq(StepRecord) /\ StepsOf(qr \o wheels) = StepsOf(qr) \cup StepsOf(wheels)
       /\ ip \o i \in Seq(StepRecord) /\ StepsOf(ip \o i) = StepsOf(ip) \cup StepsOf(i)
       /\ o \o ue \in Seq(StepRecord) /\ StepsOf(o \o ue) = StepsOf(o) \cup StepsOf(ue)
  <2> HIDE DEF lc, qr, ip, ue
  <2> QED BY <1>1, <1>5, <1>9, StepsOfConcat
<1>11. \A kind \in Kinds : FirstPart[kind] \in Seq(StepRecord) /\ SecondPart[kind] \in Seq(StepRecord)
  BY <1>3, <1>4, <1>5, <1>6, <1>7, <1>8, <1>10, Zenon DEF Kinds, o, c, n, i, u
<1>12. /\ StepsOf(FirstPart["catalog"]) = {W, R, S, N}
       /\ StepsOf(SecondPart["catalog"]) = {W, R, S, N}
  BY <1>4, <1>5, Zenon DEF o
<1>13. /\ StepsOf(FirstPart["journal"]) = StepsOf(LockSteps) \cup {W, R, S, N}
       /\ StepsOf(SecondPart["journal"]) = {W, R, S, N} \cup {Step("journal"), Step("recovery")}
       /\ StepsOf(FirstPart["acceptance"]) = StepsOf(LockSteps) \cup {W, R, N}
       /\ StepsOf(SecondPart["acceptance"]) = {Step("probe")} \cup {W, R, N}
  BY <1>1, <1>3, <1>4, <1>5, <1>6, Zenon DEF o, n
<1>14. /\ StepsOf(FirstPart["contracts"]) = StepsOf(LockSteps) \cup {W, R, S, N}
       /\ StepsOf(SecondPart["contracts"]) = ({Step("probe")} \cup {W, R, S, N}) \cup StepsOf(Rechecked)
       /\ StepsOf(FirstPart["publisher"])
            = {Step("journal"), W} \cup (StepsOf(LockSteps) \cup {W, R, S, N})
       /\ StepsOf(SecondPart["publisher"])
            = (({Step("probe")} \cup {W, R, S, N}) \cup StepsOf(Rechecked)) \cup {W}
  BY <1>1, <1>3, <1>4, <1>5, <1>7, <1>10, Zenon DEF c
<1>15. StepsOf(FirstPart["provider"]) = ({W, R, S, N} \cup {Step("probe")}) \cup {W, R, S, N}
  BY <1>2, <1>4, <1>5, <1>7, <1>10, Zenon DEF i
<1>16. StepsOf(SecondPart["provider"]) = ({Step("probe")} \cup {W, R, S, N}) \cup ({Step("probe")} \cup {W, R, S, N})
  BY <1>3, <1>4, <1>7, Zenon
<1>17. /\ StepsOf(FirstPart["witness"]) = {Step("selection"), Step("head")} \cup {W, R, S, N}
       /\ StepsOf(SecondPart["witness"]) = {W, R, S, N} \cup ({W, R, S} \cup {Step("selection"), Step("head")})
  BY <1>1, <1>4, <1>5, <1>8, <1>10, Zenon DEF o, u
<1>18. /\ ({W, R, S, N} \cup {Step("probe")}) \cup {W, R, S, N} = {W, R, S, N} \cup {Step("probe")}
       /\ ({Step("probe")} \cup {W, R, S, N}) \cup ({Step("probe")} \cup {W, R, S, N})
            = {W, R, S, N} \cup {Step("probe")}
       /\ {W, R, S, N} \cup ({W, R, S} \cup {Step("selection"), Step("head")})
            = {W, R, S, N} \cup {Step("selection"), Step("head")}
  OBVIOUS
<1> QED BY <1>11, <1>12, <1>13, <1>14, <1>15, <1>16, <1>17, <1>18, Zenon

\* Where a program begins again, takes its locks and gives them back.
HalfWay(kind) == Len(FirstPart[kind]) + 1
LockingAt(kind) == IF kind = "publisher" THEN 3 ELSE 1
UnlockingAt(kind) ==
  IF kind \in {"contracts", "publisher"}
  THEN HalfWay(kind) + Len(Probed(ContractPasses)) + 3
  ELSE Len(Program(kind)) + 1

LEMMA ThenStands ==
  ASSUME NEW s \in Seq(StepRecord), NEW t \in Seq(StepRecord)
  PROVE  /\ Then(s, t) \in Seq(StepRecord)
         /\ Len(Then(s, t)) = Len(s) + Len(t)
         /\ \A i \in 1..Len(s) : Then(s, t)[i] = s[i]
         /\ \A i \in 1..Len(t) : Then(s, t)[Len(s) + i] = t[i]
BY Following DEF Then

LEMMA ProgramIs ==
  ASSUME NEW kind \in Kinds
  PROVE  /\ Program(kind) \in Seq(StepRecord)
         /\ Len(FirstPart[kind]) \in Nat /\ Len(SecondPart[kind]) \in Nat
         /\ Len(Program(kind)) = HalfWay(kind) + Len(SecondPart[kind])
         /\ \A i \in 1..Len(FirstPart[kind]) : Program(kind)[i] = FirstPart[kind][i]
         /\ Program(kind)[HalfWay(kind)] = Step("again")
         /\ \A i \in 1..Len(SecondPart[kind]) : Program(kind)[HalfWay(kind) + i] = SecondPart[kind][i]
<1> DEFINE f == FirstPart[kind]
           b == SecondPart[kind]
           fa == Then(f, Again)
           p == Then(fa, b)
<1>1. f \in Seq(StepRecord) /\ b \in Seq(StepRecord) /\ Program(kind) = p
  BY HalvesAre, ProgramsAre DEF Then
<1>2. Again \in Seq(StepRecord) /\ Len(Again) = 1 /\ Again[1] = Step("again")
  BY NamesOfSteps DEF Again
<1>3. Len(f) \in Nat /\ Len(b) \in Nat /\ HalfWay(kind) = Len(f) + 1
  BY <1>1, LenProperties DEF HalfWay
<1> HIDE DEF f, b
<1>4. /\ fa \in Seq(StepRecord) /\ Len(fa) = Len(f) + 1
      /\ \A i \in 1..Len(f) : fa[i] = f[i]
      /\ fa[Len(f) + 1] = Step("again")
  <2>1. /\ fa \in Seq(StepRecord) /\ Len(fa) = Len(f) + Len(Again)
        /\ \A i \in 1..Len(f) : fa[i] = f[i]
        /\ \A i \in 1..Len(Again) : fa[Len(f) + i] = Again[i]
    BY <1>1, <1>2, ThenStands
  <2> QED BY <1>2, <1>3, <2>1
<1> HIDE DEF fa
<1>5. /\ p \in Seq(StepRecord) /\ Len(p) = Len(fa) + Len(b)
      /\ \A i \in 1..Len(fa) : p[i] = fa[i]
      /\ \A i \in 1..Len(b) : p[Len(fa) + i] = b[i]
  BY <1>1, <1>4, ThenStands
<1> HIDE DEF p
<1>6. \A i \in 1..Len(f) : p[i] = f[i]
  BY <1>3, <1>4, <1>5
<1>7. p[HalfWay(kind)] = Step("again")
  BY <1>3, <1>4, <1>5
<1>8. /\ Len(p) = HalfWay(kind) + Len(b)
      /\ \A i \in 1..Len(b) : p[HalfWay(kind) + i] = b[i]
  BY <1>3, <1>4, <1>5
<1> QED BY <1>1, <1>3, <1>5, <1>6, <1>7, <1>8 DEF f, b

\* A step of a program is one of its halves' or begins the second.
LEMMA WhereItStands ==
  ASSUME NEW kind \in Kinds, NEW i \in 1..Len(Program(kind))
  PROVE  /\ Program(kind)[i] \in StepRecord
         /\ HalfWay(kind) \in 1..Len(Program(kind))
         /\ i < HalfWay(kind) => Program(kind)[i] \in StepsOf(FirstPart[kind])
         /\ i = HalfWay(kind) => Program(kind)[i] = Step("again")
         /\ i > HalfWay(kind) =>
              /\ i - HalfWay(kind) \in 1..Len(SecondPart[kind])
              /\ Program(kind)[i] = SecondPart[kind][i - HalfWay(kind)]
              /\ Program(kind)[i] \in StepsOf(SecondPart[kind])
<1> DEFINE p == Program(kind)
           f == FirstPart[kind]
           b == SecondPart[kind]
           h == HalfWay(kind)
<1>1. /\ p \in Seq(StepRecord) /\ Len(f) \in Nat /\ Len(b) \in Nat
      /\ Len(p) = h + Len(b) /\ h = Len(f) + 1
      /\ \A j \in 1..Len(f) : p[j] = f[j]
      /\ p[h] = Step("again")
      /\ \A j \in 1..Len(b) : p[h + j] = b[j]
  BY ProgramIs DEF HalfWay
<1>2. i \in 1..Len(p)
  OBVIOUS
<1> HIDE DEF p, f, b, h
<1>3. p[i] \in StepRecord /\ h \in 1..Len(p)
  BY <1>1, <1>2, ElementOfSeq
<1>4. ASSUME i < h PROVE p[i] \in StepsOf(f)
  <2>1. i \in 1..Len(f) /\ p[i] = f[i]
    BY <1>1, <1>2, <1>4
  <2> QED BY <2>1 DEF StepsOf
<1>5. ASSUME i > h PROVE i - h \in 1..Len(b) /\ p[i] = b[i - h] /\ p[i] \in StepsOf(b)
  <2>1. i - h \in 1..Len(b) /\ h + (i - h) = i
    BY <1>1, <1>2, <1>5
  <2>2. p[i] = b[i - h]
    BY <1>1, <2>1
  <2> QED BY <2>1, <2>2 DEF StepsOf
<1>6. i = h => p[i] = Step("again")
  BY <1>1
<1> QED BY <1>3, <1>4, <1>5, <1>6 DEF p, f, b, h

Reads == {W, R, S, N}
Looks == {Step("probe"), Step("recovery"), Step("journal"), Step("selection"), Step("head")}
Locks == {Step("lock selection"), Step("lock journal")}

LEMMA KindsOfStep ==
  /\ \A s \in Reads : s.do = "read" /\ s.files \subseteq StagedFile
  /\ \A s \in Looks : /\ s.do \in {"probe", "recovery", "journal", "selection", "head"}
                      /\ s.files = {}
  /\ \A s \in Locks : s.do \in {"lock selection", "lock journal"} /\ s.files = {}
  /\ Step("unlock").do = "unlock" /\ Step("unlock").files = {}
  /\ Step("again").do = "again" /\ Step("again").files = {}
BY DEF Reads, Looks, Locks, W, R, S, N, Pass, Step, StagedFile

LEMMA FilledReads ==
  ASSUME AuditAssumption
  PROVE  \A s \in Reads : s.files # {}
BY DEF AuditAssumption, Reads, W, R, S, N, Pass

LEMMA HalvesHold ==
  ASSUME NEW kind \in Kinds
  PROVE  /\ StepsOf(FirstPart[kind]) \subseteq Reads \cup Looks \cup Locks
         /\ StepsOf(SecondPart[kind]) \subseteq Reads \cup Looks \cup {Step("unlock")}
         /\ StepsOf(FirstPart[kind]) \cap Reads = StepsOf(SecondPart[kind]) \cap Reads
<1> DEFINE j == Step("journal")
           r == Step("recovery")
           p == Step("probe")
           c == Step("selection")
           d == Step("head")
           l == Step("lock selection")
           m == Step("lock journal")
           u == Step("unlock")
<1>1. /\ StepsOf(LockSteps) = {l, m, r, j} /\ StepsOf(Rechecked) = {j, r, u}
      /\ Looks = {p, r, j, c, d} /\ Locks = {l, m} /\ Reads = {W, R, S, N}
  BY NamesOfSteps DEF Looks, Locks, Reads
<1>2. {p, r, j, c, d, l, m, u} \cap Reads = {}
  BY DEF Reads, W, R, S, N, Pass, Step
<1>3. /\ StepsOf(FirstPart["catalog"]) = {W, R, S, N}
      /\ StepsOf(SecondPart["catalog"]) = {W, R, S, N}
      /\ StepsOf(FirstPart["journal"]) = {l, m, r, j} \cup {W, R, S, N}
      /\ StepsOf(SecondPart["journal"]) = {W, R, S, N} \cup {j, r}
      /\ StepsOf(FirstPart["acceptance"]) = {l, m, r, j} \cup {W, R, N}
      /\ StepsOf(SecondPart["acceptance"]) = {p} \cup {W, R, N}
      /\ StepsOf(FirstPart["contracts"]) = {l, m, r, j} \cup {W, R, S, N}
      /\ StepsOf(SecondPart["contracts"]) = ({p} \cup {W, R, S, N}) \cup {j, r, u}
      /\ StepsOf(FirstPart["publisher"]) = {j, W} \cup ({l, m, r, j} \cup {W, R, S, N})
      /\ StepsOf(SecondPart["publisher"])
           = (({p} \cup {W, R, S, N}) \cup {j, r, u}) \cup {W}
      /\ StepsOf(FirstPart["provider"]) = {W, R, S, N} \cup {p}
      /\ StepsOf(SecondPart["provider"]) = {W, R, S, N} \cup {p}
      /\ StepsOf(FirstPart["witness"]) = {c, d} \cup {W, R, S, N}
      /\ StepsOf(SecondPart["witness"]) = {W, R, S, N} \cup {c, d}
  BY <1>1, HalvesAre, Zenon
<1> HIDE DEF j, r, p, c, d, l, m, u
<1>4. CASE kind = "catalog"
  BY <1>1, <1>2, <1>3, <1>4
<1>5. CASE kind = "journal"
  BY <1>1, <1>2, <1>3, <1>5 DEF u
<1>6. CASE kind = "acceptance"
  BY <1>1, <1>2, <1>3, <1>6 DEF u
<1>7. CASE kind = "contracts"
  BY <1>1, <1>2, <1>3, <1>7 DEF u
<1>8. CASE kind = "publisher"
  BY <1>1, <1>2, <1>3, <1>8 DEF u
<1>9. CASE kind = "provider"
  BY <1>1, <1>2, <1>3, <1>9 DEF u
<1>10. CASE kind = "witness"
  BY <1>1, <1>2, <1>3, <1>10 DEF u
<1> QED BY <1>4, <1>5, <1>6, <1>7, <1>8, <1>9, <1>10 DEF Kinds

LEMMA RecheckedStands ==
  LET n == Len(Probed(ContractPasses))
      q == Then(Probed(ContractPasses), Rechecked)
  IN /\ n \in Nat /\ q \in Seq(StepRecord) /\ Len(q) = n + 3
     /\ \A k \in 1..n + 3 : q[k].do = "unlock" => k = n + 3
<1> DEFINE p == Probed(ContractPasses)
           n == Len(p)
           q == Then(p, Rechecked)
<1>1. p \in Seq(StepRecord) /\ StepsOf(p) \subseteq Reads \cup Looks
  <2>1. /\ ContractPasses \in Seq(StepRecord) /\ StepsOf(ContractPasses) = {W, R, S, N}
    BY PassesAre
  <2>2. p \in Seq(StepRecord) /\ StepsOf(p) = {Step("probe")} \cup {W, R, S, N}
    BY <2>1, ProbedIs
  <2> QED BY <2>2 DEF Reads, Looks
<1>2. n \in Nat
  BY <1>1, LenProperties
<1>3. /\ Rechecked \in Seq(StepRecord) /\ Len(Rechecked) = 3
      /\ Rechecked[1].do = "journal" /\ Rechecked[2].do = "recovery"
  <2>1. Len(Rechecked) = 3 /\ Rechecked[1] = Step("journal") /\ Rechecked[2] = Step("recovery")
    BY DEF Rechecked
  <2>2. Step("journal").do = "journal" /\ Step("recovery").do = "recovery"
    BY DEF Step
  <2> QED BY <2>1, <2>2, NamesOfSteps
<1>4. \A s \in Reads \cup Looks : s.do # "unlock"
  BY KindsOfStep
<1> HIDE DEF p
<1>5. /\ q \in Seq(StepRecord) /\ Len(q) = n + 3
      /\ \A k \in 1..n : q[k] = p[k]
      /\ \A k \in 1..3 : q[n + k] = Rechecked[k]
  <2>1. /\ q \in Seq(StepRecord) /\ Len(q) = Len(p) + Len(Rechecked)
        /\ \A k \in 1..Len(p) : q[k] = p[k]
        /\ \A k \in 1..Len(Rechecked) : q[Len(p) + k] = Rechecked[k]
    BY <1>1, <1>3, ThenStands
  <2> QED BY <1>3, <2>1
<1> HIDE DEF q
<1>6. ASSUME NEW k \in 1..n + 3, q[k].do = "unlock" PROVE k = n + 3
  <2>1. CASE k \in 1..n
    <3>1. p[k] \in StepsOf(p)
      BY <2>1 DEF StepsOf
    <3> QED BY <1>1, <1>4, <1>5, <1>6, <2>1, <3>1
  <2>2. CASE k = n + 1
    BY <1>3, <1>5, <1>6, <2>2
  <2>3. CASE k = n + 2
    BY <1>3, <1>5, <1>6, <2>3
  <2> QED BY <1>2, <2>1, <2>2, <2>3
<1>7. n \in Nat /\ q \in Seq(StepRecord) /\ Len(q) = n + 3
      /\ \A k \in 1..n + 3 : q[k].do = "unlock" => k = n + 3
  BY <1>2, <1>5, <1>6
<1> QED BY <1>7, Zenon DEF p, q

\* The locks are given back once, by the public contracts, near the end.
LEMMA WhereUnlocked ==
  ASSUME NEW kind \in Kinds
  PROVE  /\ HalfWay(kind) \in Nat /\ UnlockingAt(kind) \in Nat
         /\ HalfWay(kind) < UnlockingAt(kind) /\ UnlockingAt(kind) <= Len(Program(kind)) + 1
         /\ \A i \in 1..Len(Program(kind)) :
              Program(kind)[i].do = "unlock" =>
                kind \in {"contracts", "publisher"} /\ i = UnlockingAt(kind)
<1> DEFINE p == Program(kind)
           h == HalfWay(kind)
           n == Len(Probed(ContractPasses))
           q == Then(Probed(ContractPasses), Rechecked)
           b == SecondPart[kind]
<1>1. /\ n \in Nat /\ q \in Seq(StepRecord) /\ Len(q) = n + 3
      /\ \A k \in 1..n + 3 : q[k].do = "unlock" => k = n + 3
  BY RecheckedStands, Zenon
<1>2. /\ h \in Nat /\ Len(b) \in Nat /\ Len(p) = h + Len(b)
  <2>1. /\ Len(FirstPart[kind]) \in Nat /\ Len(SecondPart[kind]) \in Nat
        /\ Len(Program(kind)) = HalfWay(kind) + Len(SecondPart[kind])
    BY ProgramIs
  <2>2. HalfWay(kind) \in Nat
    BY <2>1 DEF HalfWay
  <2> QED BY <2>1, <2>2
<1>3. /\ <<W>> \in Seq(StepRecord) /\ Len(<<W>>) = 1 /\ <<W>>[1] = W /\ W.do = "read"
  BY PassesAre, TuplesAre, KindsOfStep DEF Reads
<1>4. ASSUME kind \in {"contracts", "publisher"}
      PROVE  /\ n + 3 <= Len(b)
             /\ \A k \in 1..Len(b) : b[k].do = "unlock" => k = n + 3
  <2>1. CASE kind = "contracts"
    <3>1. b = q
      BY <2>1 DEF SecondPart, Then
    <3> HIDE DEF b, q, n
    <3> QED BY <1>1, <3>1
  <2>2. CASE kind = "publisher"
    <3> DEFINE w == <<W>>
    <3>1. b = Then(q, w)
      BY <2>2 DEF SecondPart, Then
    <3>2. w \in Seq(StepRecord) /\ Len(w) = 1 /\ w[1].do = "read"
      BY <1>3
    <3> HIDE DEF b, q, n, w
    <3>3. /\ Len(b) = n + 4
          /\ \A k \in 1..n + 3 : b[k] = q[k]
          /\ b[n + 4].do = "read"
      <4>1. /\ Len(b) = Len(q) + 1 /\ \A k \in 1..Len(q) : b[k] = q[k]
            /\ \A k \in 1..Len(w) : b[Len(q) + k] = w[k]
        <5>1. /\ Len(b) = Len(q) + Len(w) /\ \A k \in 1..Len(q) : b[k] = q[k]
              /\ \A k \in 1..Len(w) : b[Len(q) + k] = w[k]
          BY <1>1, <3>1, <3>2, ThenStands
        <5> QED BY <3>2, <5>1
      <4>2. (n + 3) + 1 = n + 4 /\ 1 \in 1..1
        BY <1>1
      <4> QED BY <1>1, <3>2, <4>1, <4>2
    <3> QED BY <1>1, <3>3
  <2> QED BY <1>4, <2>1, <2>2
<1>5. h < UnlockingAt(kind) /\ UnlockingAt(kind) \in Nat /\ UnlockingAt(kind) <= Len(p) + 1
  <2>1. CASE kind \in {"contracts", "publisher"}
    <3>1. UnlockingAt(kind) = h + n + 3
      BY <2>1 DEF UnlockingAt
    <3> HIDE DEF h, n, b, p
    <3> QED BY <1>1, <1>2, <1>4, <2>1, <3>1
  <2>2. CASE kind \notin {"contracts", "publisher"}
    <3>1. UnlockingAt(kind) = Len(p) + 1
      BY <2>2 DEF UnlockingAt
    <3> HIDE DEF h, n, b, p
    <3> QED BY <1>2, <3>1
  <2> QED BY <2>1, <2>2
<1>6. ASSUME NEW i \in 1..Len(p), p[i].do = "unlock"
      PROVE  kind \in {"contracts", "publisher"} /\ i = UnlockingAt(kind)
  <2>1. i > h
    <3>1. \A s \in Reads \cup Looks \cup Locks : s.do # "unlock"
      BY KindsOfStep
    <3>2. ~(i < h)
      BY <1>6, <3>1, WhereItStands, HalvesHold
    <3>3. i # h
      BY <1>6, WhereItStands, KindsOfStep
    <3> HIDE DEF h
    <3> QED BY <1>2, <3>2, <3>3
  <2>2. i - h \in 1..Len(b) /\ p[i] = b[i - h] /\ p[i] \in StepsOf(b)
    BY <2>1, WhereItStands
  <2>3. kind \in {"contracts", "publisher"}
    <3>1. \A s \in Reads \cup Looks : s.do # "unlock"
      BY KindsOfStep
    <3>2. kind \notin {"contracts", "publisher"} => StepsOf(b) \subseteq Reads \cup Looks
      <4>1. /\ StepsOf(SecondPart["catalog"]) = {W, R, S, N}
            /\ StepsOf(SecondPart["journal"]) = {W, R, S, N} \cup {Step("journal"), Step("recovery")}
            /\ StepsOf(SecondPart["acceptance"]) = {Step("probe")} \cup {W, R, N}
            /\ StepsOf(SecondPart["provider"]) = {W, R, S, N} \cup {Step("probe")}
            /\ StepsOf(SecondPart["witness"]) = {W, R, S, N} \cup {Step("selection"), Step("head")}
        BY HalvesAre, Zenon
      <4>2. {W, R, S, N} \subseteq Reads /\ {W, R, N} \subseteq Reads
            /\ Step("probe") \in Looks /\ Step("journal") \in Looks /\ Step("recovery") \in Looks
            /\ Step("selection") \in Looks /\ Step("head") \in Looks
        BY DEF Reads, Looks
      <4> QED BY <4>1, <4>2 DEF Kinds
    <3> QED BY <1>6, <2>2, <3>1, <3>2
  <2>4. i - h = n + 3
    BY <1>4, <1>6, <2>2, <2>3
  <2>5. UnlockingAt(kind) = h + n + 3
    BY <2>3 DEF UnlockingAt
  <2>6. i \in Nat
    BY <1>2
  <2> HIDE DEF h, n, p, b
  <2> QED BY <1>1, <1>2, <2>3, <2>4, <2>5, <2>6
<1> QED BY <1>2, <1>5, <1>6

LEMMA LockStepsStand ==
  /\ LockSteps \in Seq(StepRecord) /\ Len(LockSteps) = 4
  /\ LockSteps[1] = Step("lock selection") /\ LockSteps[2] = Step("lock journal")
  /\ LockSteps[3] = Step("recovery") /\ LockSteps[4] = Step("journal")
BY NamesOfSteps DEF LockSteps

\* The audits that lock do so first, and look at once at what they locked.
LEMMA WhereLocked ==
  ASSUME NEW kind \in LockKinds
  PROVE  LET l == LockingAt(kind)
         IN /\ l \in 1..3 /\ l + 3 < HalfWay(kind)
            /\ Program(kind)[l].do = "lock selection" /\ Program(kind)[l + 1].do = "lock journal"
            /\ Program(kind)[l + 2].do = "recovery" /\ Program(kind)[l + 3].do = "journal"
<1> DEFINE f == FirstPart[kind]
           l == LockingAt(kind)
           p == Program(kind)
<1>0. kind \in Kinds
  BY DEF Kinds, LockKinds
<1>1. PICK t \in Seq(StepRecord) :
        IF kind = "publisher" THEN f = Then(<<Step("journal"), W>>, Then(LockSteps, t))
                              ELSE f = Then(LockSteps, t)
  <2>1. /\ Observation \in Seq(StepRecord) /\ NativePasses \in Seq(StepRecord)
        /\ ContractPasses \in Seq(StepRecord)
    BY PassesAre
  <2>2. /\ kind = "journal" => f = Then(LockSteps, Observation)
        /\ kind = "acceptance" => f = Then(LockSteps, NativePasses)
        /\ kind = "contracts" => f = Then(LockSteps, ContractPasses)
        /\ kind = "publisher" => f = Then(<<Step("journal"), W>>, Then(LockSteps, ContractPasses))
    <3>1. /\ FirstPart["journal"] = LockSteps \o Observation
          /\ FirstPart["acceptance"] = LockSteps \o NativePasses
          /\ FirstPart["contracts"] = LockSteps \o ContractPasses
          /\ FirstPart["publisher"] = <<Step("journal"), W>> \o (LockSteps \o ContractPasses)
      BY Zenon DEF FirstPart
    <3>2. /\ FirstPart["journal"] = Then(LockSteps, Observation)
          /\ FirstPart["acceptance"] = Then(LockSteps, NativePasses)
          /\ FirstPart["contracts"] = Then(LockSteps, ContractPasses)
          /\ FirstPart["publisher"] = Then(<<Step("journal"), W>>, Then(LockSteps, ContractPasses))
      BY <3>1, Zenon DEF Then
    <3> QED BY <3>2, Zenon
  <2> HIDE DEF f
  <2> QED BY <2>1, <2>2, Zenon DEF LockKinds
<1>2. /\ \A i \in 1..Len(f) : p[i] = f[i]
      /\ HalfWay(kind) = Len(f) + 1
  BY <1>0, ProgramIs DEF HalfWay
<1> DEFINE g == Then(LockSteps, t)
<1>3. /\ Len(g) \in Nat /\ Len(g) >= 4 /\ g \in Seq(StepRecord)
      /\ g[1] = Step("lock selection") /\ g[2] = Step("lock journal")
      /\ g[3] = Step("recovery") /\ g[4] = Step("journal")
  <2>1. /\ g \in Seq(StepRecord) /\ Len(g) = 4 + Len(t) /\ \A i \in 1..4 : g[i] = LockSteps[i]
    <3>1. /\ g \in Seq(StepRecord) /\ Len(g) = Len(LockSteps) + Len(t)
          /\ \A i \in 1..Len(LockSteps) : g[i] = LockSteps[i]
      BY LockStepsStand, ThenStands
    <3> QED BY <3>1, LockStepsStand
  <2>2. Len(t) \in Nat
    BY LenProperties
  <2> HIDE DEF g
  <2>3. g[1] = LockSteps[1] /\ g[2] = LockSteps[2] /\ g[3] = LockSteps[3] /\ g[4] = LockSteps[4]
    BY <2>1
  <2>4. Len(g) \in Nat /\ Len(g) >= 4
    BY <2>1, <2>2
  <2> QED BY <2>1, <2>3, <2>4, LockStepsStand
<1> HIDE DEF g
<1>a. Len(g) \in Nat /\ Len(g) >= 4
  BY <1>3
<1>b. 1 \in 1..Len(g) /\ 2 \in 1..Len(g) /\ 3 \in 1..Len(g) /\ 4 \in 1..Len(g)
  BY <1>a
<1>4. /\ Step("lock selection").do = "lock selection" /\ Step("lock journal").do = "lock journal"
      /\ Step("recovery").do = "recovery" /\ Step("journal").do = "journal"
  BY DEF Step
<1>5. CASE kind = "publisher"
  <2> DEFINE a == <<Step("journal"), W>>
  <2>1. a \in Seq(StepRecord) /\ Len(a) = 2
    <3>1. Step("journal") \in StepRecord /\ W \in StepRecord
      BY NamesOfSteps, PassesAre DEF StepName
    <3> QED BY <3>1, TuplesAre
  <2>2. f = Then(a, g) /\ l = 3
    BY <1>1, <1>5 DEF LockingAt, g
  <2> HIDE DEF a, g, f
  <2>3. /\ Len(f) = 2 + Len(g) /\ \A i \in 1..Len(g) : f[2 + i] = g[i]
    <3>1. /\ Len(f) = Len(a) + Len(g) /\ \A i \in 1..Len(g) : f[Len(a) + i] = g[i]
      BY <1>3, <2>1, <2>2, ThenStands
    <3> QED BY <2>1, <3>1
  <2>4. Len(f) >= 6 /\ f[3] = g[1] /\ f[4] = g[2] /\ f[5] = g[3] /\ f[6] = g[4]
    <3>1. f[2 + 1] = g[1] /\ f[2 + 2] = g[2] /\ f[2 + 3] = g[3] /\ f[2 + 4] = g[4]
      BY <1>b, <2>3
    <3>2. 2 + 1 = 3 /\ 2 + 2 = 4 /\ 2 + 3 = 5 /\ 2 + 4 = 6
      OBVIOUS
    <3>3. Len(f) >= 6
      BY <1>a, <2>3
    <3> QED BY <3>1, <3>2, <3>3
  <2>5. /\ p[3] = f[3] /\ p[4] = f[4] /\ p[5] = f[5] /\ p[6] = f[6] /\ HalfWay(kind) > 6
    <3>1. 3 \in 1..Len(f) /\ 4 \in 1..Len(f) /\ 5 \in 1..Len(f) /\ 6 \in 1..Len(f)
      <4>1. Len(f) = 2 + Len(g)
        BY <2>3
      <4> QED BY <1>a, <4>1
    <3>2. HalfWay(kind) > 6
      <4>1. Len(f) = 2 + Len(g) /\ HalfWay(kind) = Len(f) + 1
        BY <1>2, <2>3
      <4> QED BY <1>a, <4>1
    <3> QED BY <1>2, <3>1, <3>2
  <2> HIDE DEF l, p
  <2>6. l + 1 = 4 /\ l + 2 = 5 /\ l + 3 = 6 /\ l \in 1..3
    BY <2>2
  <2>7. /\ l \in 1..3 /\ l + 3 < HalfWay(kind)
        /\ p[l].do = "lock selection" /\ p[l + 1].do = "lock journal"
        /\ p[l + 2].do = "recovery" /\ p[l + 3].do = "journal"
    BY <1>3, <1>4, <2>2, <2>4, <2>5, <2>6
  <2> QED BY <2>7 DEF l, p
<1>6. CASE kind # "publisher"
  <2>2. f = g /\ l = 1
    BY <1>1, <1>6 DEF LockingAt, g
  <2> HIDE DEF g, f
  <2>5. /\ p[1] = g[1] /\ p[2] = g[2] /\ p[3] = g[3] /\ p[4] = g[4] /\ HalfWay(kind) > 4
    <3>1. 1 \in 1..Len(f) /\ 2 \in 1..Len(f) /\ 3 \in 1..Len(f) /\ 4 \in 1..Len(f)
      BY <1>b, <2>2
    <3>2. HalfWay(kind) > 4
      <4>1. HalfWay(kind) = Len(g) + 1
        BY <1>2, <2>2
      <4> QED BY <1>a, <4>1
    <3> QED BY <1>2, <2>2, <3>1, <3>2
  <2> HIDE DEF l, p
  <2>6. l + 1 = 2 /\ l + 2 = 3 /\ l + 3 = 4 /\ l \in 1..3
    BY <2>2
  <2>7. /\ l \in 1..3 /\ l + 3 < HalfWay(kind)
        /\ p[l].do = "lock selection" /\ p[l + 1].do = "lock journal"
        /\ p[l + 2].do = "recovery" /\ p[l + 3].do = "journal"
    BY <1>3, <1>4, <2>2, <2>5, <2>6
  <2> QED BY <2>7 DEF l, p
<1> QED BY <1>5, <1>6

-----------------------------------------------------------------------------
(* The inductive invariant of the audits.                                  *)

Moment ==
  [content : [StagedFile -> {Foreign} \cup UNION {Form[f] : f \in StagedFile}],
   selection : {1, 2}, head : 1..MaxHead,
   journal : {"candidate_verified", "activation_armed"},
   recovery : BOOLEAN]

\* An audit that is at a step, with files of it left to read, has met a file
\* after another step.
Met(kind, at, left, start, f) ==
  \E i \in 1..Len(Program(kind)) :
    start < i /\ f \in Program(kind)[i].files /\ (i < at \/ (i = at /\ f \notin left))

ReadFirst(kind) == FilesOf(StepsOf(FirstPart[kind]) \cap Reads)

WorldIs ==
  /\ content \in [StagedFile -> {Foreign} \cup UNION {Form[f] : f \in StagedFile}]
  /\ \A f \in StagedFile : content[f] \in Form[f] \cup {Foreign}
  /\ altered \subseteq StagedFile
  /\ selection \in {1, 2} /\ recovery \in BOOLEAN /\ head \in 1..MaxHead
  /\ journal \in {"candidate_verified", "activation_armed"}
  /\ DOMAIN audits = Auditor /\ DOMAIN reports = Auditor
  /\ selectionLock \in Auditor \cup {NoAudit, "dead"}
  /\ journalLock \in Auditor \cup {NoAudit, "dead"}

\* Where an audit is, and what it has left to read there.
PlaceIs(kind, at, left) ==
  /\ kind \in Kinds \cap AuditKind /\ at \in 1..Len(Program(kind)) + 1
  /\ at <= Len(Program(kind)) =>
       left \subseteq Program(kind)[at].files /\ (Program(kind)[at].do = "read" => left # {})

\* What it saw is what it met, and all as the signed inputs have it.
SeenIs(kind, at, left, seen) ==
  /\ DOMAIN seen \subseteq ReadFirst(kind)
  /\ \A f : Met(kind, at, left, 0, f) => f \in DOMAIN seen
  /\ \A f \in DOMAIN seen : seen[f] \in Form[f]

\* Before it begins again: what it saw is still there, or has been written to.
FirstHalf(seen, between) ==
  /\ between = NoAudit
  /\ \A f \in DOMAIN seen : content[f] = seen[f] \/ f \in altered

\* After that: what it saw was there in between, or is not there any more; and
\* what it met again was.
SecondHalf(kind, at, left, seen, between) ==
  /\ between \in Moment
  /\ \A f \in DOMAIN seen :
       /\ seen[f] = between.content[f] \/ (f \in altered /\ content[f] # seen[f])
       /\ Met(kind, at, left, HalfWay(kind), f) => seen[f] = between.content[f]
  /\ between.selection = 2 => selection = 2
  /\ between.head <= head
  /\ \A i \in 1..Len(Program(kind)) : HalfWay(kind) < i /\ i < at =>
       /\ Program(kind)[i].do = "selection" => between.selection = 1
       /\ Program(kind)[i].do = "head" => between.head = 1
  /\ kind \in LockKinds => between.journal = "candidate_verified" /\ ~between.recovery

\* An audit that locks has its locks until it gives them back, and under them
\* what it looked at stays.
LocksAre(a, kind, at) ==
  LET l == LockingAt(kind)
  IN /\ l < at /\ at <= UnlockingAt(kind) => selectionLock = a
     /\ l + 1 < at /\ at <= UnlockingAt(kind) => journalLock = a
     /\ l + 2 < at /\ at <= HalfWay(kind) => ~recovery
     /\ l + 3 < at /\ at <= HalfWay(kind) => journal = "candidate_verified"

AuditIs(u) ==
  /\ u = [kind |-> u.kind, at |-> u.at, left |-> u.left, seen |-> u.seen,
          between |-> u.between]
  /\ PlaceIs(u.kind, u.at, u.left)
  /\ SeenIs(u.kind, u.at, u.left, u.seen)
  /\ u.at <= HalfWay(u.kind) => FirstHalf(u.seen, u.between)
  /\ u.at > HalfWay(u.kind) => SecondHalf(u.kind, u.at, u.left, u.seen, u.between)

LocksHeld(a, u) == u.kind \in LockKinds => LocksAre(a, u.kind, u.at)

ReportIs(r) ==
  /\ r.between \in Moment
  /\ \A f \in DOMAIN r.seen : r.seen[f] = r.between.content[f] /\ r.seen[f] \in Form[f]
  /\ r.kind = "witness" => r.between.selection = 1 /\ r.between.head = 1
  /\ r.kind \in LockKinds => r.between.journal = "candidate_verified" /\ ~r.between.recovery
  /\ r.composition \in Composition /\ Coherent(r.composition, r.kind)

AllAudits ==
  \A a \in Auditor : audits[a] = NoAudit
    \/ \E u : u = audits[a] /\ AuditIs(u) /\ LocksHeld(a, u)

AllReports ==
  \A a \in Auditor : reports[a] = NoAudit \/ \E r : r = reports[a] /\ ReportIs(r)

AuditInv == WorldIs /\ AllAudits /\ AllReports

LEMMA AuditAlone ==
  /\ SupplyInit => AuditInit
  /\ [SupplyNext]_supplyVars => [AuditNext]_auditVars
BY DEF SupplyInit, SupplyNext, supplyVars, Releases, Compositions, Preparations, Audits, Evidence

LEMMA KindsAre ==
  ASSUME AuditAssumption
  PROVE  AuditKind \subseteq Kinds /\ NoAudit \notin Moment /\ NoAudit \notin Auditor
         /\ "dead" \notin Auditor /\ NoAudit # "dead" /\ MaxHead \in Nat \ {0}
BY DEF AuditAssumption, Kinds, Moment

\* A step has files if it reads, and only then.
LEMMA StepFiles ==
  ASSUME AuditAssumption, NEW kind \in Kinds, NEW i \in 1..Len(Program(kind))
  PROVE  /\ Program(kind)[i].do = "read" => Program(kind)[i] \in Reads
         /\ Program(kind)[i].do = "read" => Program(kind)[i].files # {}
         /\ Program(kind)[i].do # "read" => Program(kind)[i].files = {}
         /\ Program(kind)[i].files \subseteq StagedFile
         /\ Program(kind)[i].do = "again" <=> i = HalfWay(kind)
<1> DEFINE s == Program(kind)[i]
<1>1. \/ i < HalfWay(kind) /\ s \in StepsOf(FirstPart[kind])
      \/ i = HalfWay(kind) /\ s = Step("again")
      \/ i > HalfWay(kind) /\ s \in StepsOf(SecondPart[kind])
  <2>1. HalfWay(kind) \in Nat /\ i \in Nat
    BY WhereItStands
  <2>2. i < HalfWay(kind) \/ i = HalfWay(kind) \/ i > HalfWay(kind)
    BY <2>1
  <2> QED BY <2>2, WhereItStands
<1>2. s \in Reads \cup Looks \cup Locks \cup {Step("unlock")} \/ (i = HalfWay(kind) /\ s = Step("again"))
  BY <1>1, HalvesHold
<1>3. i < HalfWay(kind) \/ i > HalfWay(kind) => i # HalfWay(kind)
  BY WhereItStands
<1>4. s \in Reads \cup Looks \cup Locks \cup {Step("unlock")} => i # HalfWay(kind)
  BY <1>1, <1>3, KindsOfStep, HalvesHold
<1> HIDE DEF s
<1>5. CASE s \in Reads
  <2>1. s.do = "read" /\ s.files \subseteq StagedFile /\ s.files # {}
    BY <1>5, KindsOfStep, FilledReads
  <2> QED BY <1>4, <1>5, <2>1 DEF s
<1>6. CASE s \in Looks \cup Locks \cup {Step("unlock")}
  <2>1. s.do # "read" /\ s.do # "again" /\ s.files = {}
    BY <1>6, KindsOfStep
  <2> QED BY <1>4, <1>6, <2>1 DEF s
<1>7. CASE i = HalfWay(kind) /\ s = Step("again")
  <2>1. s.do = "again" /\ s.files = {}
    BY <1>7, KindsOfStep
  <2> QED BY <1>7, <2>1 DEF s
<1> QED BY <1>2, <1>5, <1>6, <1>7

\* An audit goes on to its next step.
NextFiles(kind, at) ==
  IF at = Len(Program(kind)) THEN {} ELSE Program(kind)[at + 1].files

LEMMA OnePlaceOn ==
  ASSUME AuditAssumption, NEW kind \in Kinds \cap AuditKind,
         NEW at \in 1..Len(Program(kind)), NEW left
  PROVE  /\ PlaceIs(kind, at + 1, NextFiles(kind, at))
         /\ \A start \in Nat : \A f : Met(kind, at + 1, NextFiles(kind, at), start, f) =>
              \/ Met(kind, at, left, start, f)
              \/ start < at /\ f \in Program(kind)[at].files /\ f \in left
<1> DEFINE next == NextFiles(kind, at)
<1>a. next = IF at = Len(Program(kind)) THEN {} ELSE Program(kind)[at + 1].files
  BY DEF NextFiles
<1> HIDE DEF next
<1>1. Len(Program(kind)) \in Nat
  BY ProgramIs, LenProperties
<1>2. PlaceIs(kind, at + 1, next)
  <2>1. at + 1 \in 1..Len(Program(kind)) + 1
    BY <1>1
  <2>2. ASSUME at + 1 <= Len(Program(kind))
        PROVE  /\ next = Program(kind)[at + 1].files
               /\ Program(kind)[at + 1].do = "read" => next # {}
    <3>1. at + 1 \in 1..Len(Program(kind)) /\ at # Len(Program(kind))
      BY <1>1, <2>2
    <3> QED BY <1>a, <3>1, StepFiles
  <2> QED BY <2>1, <2>2 DEF PlaceIs
<1>3. ASSUME NEW start \in Nat, NEW f, Met(kind, at + 1, next, start, f)
      PROVE  \/ Met(kind, at, left, start, f)
             \/ start < at /\ f \in Program(kind)[at].files /\ f \in left
  <2>1. PICK i \in 1..Len(Program(kind)) :
          /\ start < i /\ f \in Program(kind)[i].files
          /\ i < at + 1 \/ (i = at + 1 /\ f \notin next)
    BY <1>3 DEF Met
  <2>2. ~(i = at + 1 /\ f \notin next)
    BY <1>1, <1>a, <2>1
  <2>3. i < at \/ i = at
    BY <1>1, <2>1, <2>2
  <2> QED BY <2>1, <2>3 DEF Met
<1> QED BY <1>2, <1>3 DEF next

\* An audit reads one of the files of its step, not the last.
LEMMA OneFileOn ==
  ASSUME NEW kind, NEW at, NEW left, NEW g,
         PlaceIs(kind, at, left), left \ {g} # {}
  PROVE  /\ PlaceIs(kind, at, left \ {g})
         /\ \A start \in Nat : \A f : Met(kind, at, left \ {g}, start, f) =>
              Met(kind, at, left, start, f) \/ (start < at /\ f = g)
BY DEF PlaceIs, Met

\* Past the middle, every file that the first half reads has been met.
LEMMA FirstHalfMet ==
  ASSUME NEW kind \in Kinds, NEW at \in 1..Len(Program(kind)) + 1, NEW left, NEW g,
         at > HalfWay(kind), g \in ReadFirst(kind)
  PROVE  Met(kind, at, left, 0, g)
<1>1. PICK s \in StepsOf(FirstPart[kind]) : g \in s.files
  BY DEF ReadFirst, FilesOf
<1>2. PICK i \in 1..Len(FirstPart[kind]) : s = FirstPart[kind][i]
  BY <1>1 DEF StepsOf
<1>3. /\ Len(FirstPart[kind]) \in Nat /\ Len(SecondPart[kind]) \in Nat
      /\ Len(Program(kind)) = HalfWay(kind) + Len(SecondPart[kind])
      /\ HalfWay(kind) = Len(FirstPart[kind]) + 1
      /\ Program(kind)[i] = FirstPart[kind][i]
  BY ProgramIs DEF HalfWay
<1>4. i \in 1..Len(Program(kind)) /\ 0 < i /\ i < at
  <2>1. /\ Len(FirstPart[kind]) \in Nat /\ Len(SecondPart[kind]) \in Nat
        /\ Len(Program(kind)) = HalfWay(kind) + Len(SecondPart[kind])
        /\ HalfWay(kind) = Len(FirstPart[kind]) + 1
    BY <1>3
  <2> DEFINE m == Len(FirstPart[kind])
             n == Len(SecondPart[kind])
             p == Len(Program(kind))
             h == HalfWay(kind)
  <2>2. m \in Nat /\ n \in Nat /\ p = h + n /\ h = m + 1
    BY <2>1
  <2>3. i \in 1..m
    OBVIOUS
  <2>4. at \in 1..p + 1 /\ at > h
    OBVIOUS
  <2> HIDE DEF m, n, p, h
  <2>5. i \in 1..p /\ 0 < i /\ i < at
    BY <2>2, <2>3, <2>4
  <2> QED BY <2>5 DEF p, h
<1> QED BY <1>1, <1>2, <1>3, <1>4 DEF Met

\* At the end, all of them have been met again.
LEMMA SecondHalfMet ==
  ASSUME NEW kind \in Kinds, NEW left, NEW g, g \in ReadFirst(kind)
  PROVE  Met(kind, Len(Program(kind)) + 1, left, HalfWay(kind), g)
<1>1. PICK s \in StepsOf(SecondPart[kind]) : g \in s.files
  BY HalvesHold DEF ReadFirst, FilesOf
<1>2. PICK i \in 1..Len(SecondPart[kind]) : s = SecondPart[kind][i]
  BY <1>1 DEF StepsOf
<1>3. /\ Len(FirstPart[kind]) \in Nat /\ Len(SecondPart[kind]) \in Nat
      /\ Len(Program(kind)) = HalfWay(kind) + Len(SecondPart[kind])
      /\ HalfWay(kind) = Len(FirstPart[kind]) + 1
      /\ Program(kind)[HalfWay(kind) + i] = SecondPart[kind][i]
  BY ProgramIs DEF HalfWay
<1>4. /\ HalfWay(kind) + i \in 1..Len(Program(kind)) /\ HalfWay(kind) < HalfWay(kind) + i
      /\ HalfWay(kind) + i < Len(Program(kind)) + 1
  <2>1. /\ Len(FirstPart[kind]) \in Nat /\ Len(SecondPart[kind]) \in Nat
        /\ Len(Program(kind)) = HalfWay(kind) + Len(SecondPart[kind])
        /\ HalfWay(kind) = Len(FirstPart[kind]) + 1
    BY <1>3
  <2> DEFINE m == Len(FirstPart[kind])
             n == Len(SecondPart[kind])
             p == Len(Program(kind))
             h == HalfWay(kind)
  <2>2. m \in Nat /\ n \in Nat /\ p = h + n /\ h = m + 1
    BY <2>1
  <2>3. i \in 1..n
    OBVIOUS
  <2> HIDE DEF m, n, p, h
  <2>5. h + i \in 1..p /\ h < h + i /\ h + i < p + 1
    BY <2>2, <2>3
  <2> QED BY <2>5 DEF p, h
<1> QED BY <1>1, <1>2, <1>3, <1>4 DEF Met

\* The witness and the slot are looked at after the middle.
LEMMA WitnessLooks ==
  /\ \E i \in 1..Len(Program("witness")) :
       HalfWay("witness") < i /\ Program("witness")[i].do = "selection"
  /\ \E i \in 1..Len(Program("witness")) :
       HalfWay("witness") < i /\ Program("witness")[i].do = "head"
<1>1. "witness" \in Kinds
  BY DEF Kinds
<1> DEFINE b == SecondPart["witness"]
           p == Program("witness")
           h == HalfWay("witness")
<1>2. /\ Len(FirstPart["witness"]) \in Nat /\ Len(b) \in Nat
      /\ Len(p) = h + Len(b) /\ h = Len(FirstPart["witness"]) + 1
      /\ \A i \in 1..Len(b) : p[h + i] = b[i]
  BY <1>1, ProgramIs DEF HalfWay
<1>3. Step("selection") \in StepsOf(b) /\ Step("head") \in StepsOf(b)
  BY HalvesAre
<1>4. Step("selection").do = "selection" /\ Step("head").do = "head"
  BY DEF Step
<1>5. ASSUME NEW s \in StepsOf(b)
      PROVE  \E i \in 1..Len(p) : h < i /\ p[i] = s
  <2>1. PICK i \in 1..Len(b) : s = b[i]
    BY DEF StepsOf
  <2> HIDE DEF b, p, h
  <2>2. h + i \in 1..Len(p) /\ h < h + i /\ p[h + i] = s
    BY <1>2, <2>1
  <2> QED BY <2>2
<1> HIDE DEF b, p, h
<1>6. /\ \E i \in 1..Len(p) : h < i /\ p[i].do = "selection"
      /\ \E i \in 1..Len(p) : h < i /\ p[i].do = "head"
  BY <1>3, <1>4, <1>5
<1> QED BY <1>6 DEF p, h

\* What is in the world stays with an audit while nobody touches it.
LEMMA AuditStays ==
  ASSUME UNCHANGED auditWorld, NEW u, AuditIs(u)
  PROVE  AuditIs(u)'
BY DEF auditWorld, AuditIs, SeenIs, FirstHalf, SecondHalf

LEMMA LocksStay ==
  ASSUME NEW a, NEW u, LocksHeld(a, u),
         selectionLock = a => selectionLock' = a, journalLock = a => journalLock' = a,
         recovery' = recovery, journal' = journal
  PROVE  LocksHeld(a, u)'
BY DEF LocksHeld, LocksAre

\* Whoever writes to a file writes to one that he has not written to.
LEMMA AuditAltered ==
  ASSUME NEW f \in StagedFile, Alter(f), WorldIs, NEW u, AuditIs(u), AuditAssumption,
         u.kind \in Kinds => ReadFirst(u.kind) \subseteq StagedFile
  PROVE  AuditIs(u)'
<1>1. PICK c : content' = [content EXCEPT ![f] = c]
  BY DEF Alter
<1>2. /\ f \notin altered /\ altered' = altered \cup {f}
      /\ selection' = selection /\ head' = head
      /\ \A g : g # f => content'[g] = content[g]
  BY <1>1 DEF Alter, WorldIs
<1>3. ASSUME FirstHalf(u.seen, u.between) PROVE FirstHalf(u.seen, u.between)'
  BY <1>2, <1>3 DEF FirstHalf
<1>4. ASSUME SecondHalf(u.kind, u.at, u.left, u.seen, u.between)
      PROVE  SecondHalf(u.kind, u.at, u.left, u.seen, u.between)'
  <2>1. ASSUME NEW g \in DOMAIN u.seen
        PROVE  \/ u.seen[g] = u.between.content[g]
               \/ g \in altered' /\ content'[g] # u.seen[g]
    <3>1. CASE u.seen[g] = u.between.content[g]
      BY <3>1
    <3>2. CASE g \in altered /\ content[g] # u.seen[g]
      BY <1>2, <3>2
    <3> QED BY <1>4, <3>1, <3>2 DEF SecondHalf
  <2> QED BY <1>2, <1>4, <2>1 DEF SecondHalf
<1> QED BY <1>3, <1>4 DEF AuditIs, SeenIs

LEMMA AuditSwitched ==
  ASSUME SwitchSlot \/ AdvanceJournal \/ CommitHead \/ RemoveDeadLocks,
         WorldIs, AuditAssumption, NEW u, AuditIs(u)
  PROVE  AuditIs(u)'
<1>1. /\ content' = content /\ altered' = altered
      /\ selection = 2 => selection' = 2
      /\ head \in Nat /\ head' \in Nat /\ head <= head'
  BY KindsAre DEF SwitchSlot, AdvanceJournal, CommitHead, RemoveDeadLocks, auditWorld, WorldIs
<1>2. ASSUME SecondHalf(u.kind, u.at, u.left, u.seen, u.between)
      PROVE  SecondHalf(u.kind, u.at, u.left, u.seen, u.between)'
  <2>1. u.between.head \in Nat
    BY <1>2, KindsAre DEF SecondHalf, Moment
  <2>2. u.between.head <= head'
    BY <1>1, <1>2, <2>1 DEF SecondHalf
  <2> QED BY <1>1, <1>2, <2>2 DEF SecondHalf
<1>3. FirstHalf(u.seen, u.between) => FirstHalf(u.seen, u.between)'
  BY <1>1 DEF FirstHalf
<1> QED BY <1>2, <1>3 DEF AuditIs, SeenIs

\* Nobody switches the slot or arms the update under an audit's locks.
LEMMA LocksKept ==
  ASSUME SwitchSlot \/ AdvanceJournal \/ CommitHead \/ RemoveDeadLocks \/ \E f \in StagedFile : Alter(f),
         AuditAssumption, NEW a \in Auditor, NEW u, PlaceIs(u.kind, u.at, u.left), LocksHeld(a, u)
  PROVE  LocksHeld(a, u)'
<1>1. SUFFICES ASSUME u.kind \in LockKinds PROVE LocksAre(a, u.kind, u.at)'
  BY DEF LocksHeld
<1>2. LocksAre(a, u.kind, u.at)
  BY <1>1 DEF LocksHeld
<1>3. /\ HalfWay(u.kind) \in Nat /\ UnlockingAt(u.kind) \in Nat
      /\ HalfWay(u.kind) < UnlockingAt(u.kind) /\ u.at \in Nat /\ LockingAt(u.kind) \in 1..3
  <2>1. u.kind \in Kinds /\ u.at \in Nat
    <3>1. Len(Program(u.kind)) \in Nat
      BY ProgramIs, LenProperties DEF PlaceIs
    <3> QED BY <3>1 DEF PlaceIs
  <2> QED BY <2>1, WhereUnlocked DEF LockingAt
<1>4. selectionLock = a => selectionLock' = a
  BY KindsAre DEF SwitchSlot, AdvanceJournal, CommitHead, RemoveDeadLocks, Alter, auditWorld
<1>5. journalLock = a => journalLock' = a
  BY KindsAre DEF SwitchSlot, AdvanceJournal, CommitHead, RemoveDeadLocks, Alter, auditWorld
<1>6. selectionLock = a => recovery' = recovery
  BY KindsAre DEF SwitchSlot, AdvanceJournal, CommitHead, RemoveDeadLocks, Alter, auditWorld
<1>7. journalLock = a => journal' = journal
  BY KindsAre DEF SwitchSlot, AdvanceJournal, CommitHead, RemoveDeadLocks, Alter, auditWorld
<1> DEFINE l == LockingAt(u.kind)
           at == u.at
           h == HalfWay(u.kind)
           n == UnlockingAt(u.kind)
<1>8. /\ l < at /\ at <= n => selectionLock = a
      /\ l + 1 < at /\ at <= n => journalLock = a
      /\ l + 2 < at /\ at <= h => ~recovery
      /\ l + 3 < at /\ at <= h => journal = "candidate_verified"
  BY <1>2 DEF LocksAre
<1>9. h \in Nat /\ n \in Nat /\ h < n /\ at \in Nat /\ l \in 1..3
  BY <1>3
<1> HIDE DEF l, at, h, n
<1>10. /\ l + 2 < at /\ at <= h => selectionLock = a
       /\ l + 3 < at /\ at <= h => journalLock = a
  BY <1>8, <1>9
<1>11. /\ l < at /\ at <= n => selectionLock' = a
       /\ l + 1 < at /\ at <= n => journalLock' = a
       /\ l + 2 < at /\ at <= h => ~recovery'
       /\ l + 3 < at /\ at <= h => journal' = "candidate_verified"
  BY <1>4, <1>5, <1>6, <1>7, <1>8, <1>10
<1> QED BY <1>11 DEF LocksAre, l, at, h, n

LEMMA NextPlaces ==
  \A l \in 1..3 : \A at, h, n \in Nat : h < n =>
    /\ l < at + 1 => at = l \/ l < at
    /\ l + 1 < at + 1 => at = l + 1 \/ l + 1 < at
    /\ l + 2 < at + 1 => at = l + 2 \/ l + 2 < at
    /\ l + 3 < at + 1 => at = l + 3 \/ l + 3 < at
    /\ at + 1 <= n => at <= n /\ at # n
    /\ at + 1 <= h => at <= h /\ at # n
    /\ at = l + 1 => l < at
OBVIOUS

\* An audit goes one step on, with the lock that the step takes and with what
\* it looks at.
LEMMA LocksOn ==
  ASSUME NEW a, NEW kind \in Kinds, NEW at \in Nat, at \in 1..Len(Program(kind)), NEW do,
         do = Program(kind)[at].do,
         kind \in LockKinds => LocksAre(a, kind, at),
         do # "unlock" => (selectionLock = a => selectionLock' = a) /\ (journalLock = a => journalLock' = a),
         do = "lock selection" => selectionLock' = a,
         do = "lock journal" => journalLock' = a,
         do = "recovery" => ~recovery,
         do = "journal" => journal = "candidate_verified",
         recovery' = recovery, journal' = journal
  PROVE  kind \in LockKinds => LocksAre(a, kind, at + 1)'
<1> SUFFICES ASSUME kind \in LockKinds PROVE LocksAre(a, kind, at + 1)'
  OBVIOUS
<1> DEFINE l == LockingAt(kind)
           h == HalfWay(kind)
           n == UnlockingAt(kind)
<1>1. /\ l \in 1..3 /\ l + 3 < h
      /\ at = l => do = "lock selection"
      /\ at = l + 1 => do = "lock journal"
      /\ at = l + 2 => do = "recovery"
      /\ at = l + 3 => do = "journal"
  BY WhereLocked
<1>2. /\ h \in Nat /\ n \in Nat /\ h < n /\ at \in Nat
      /\ do = "unlock" => at = n
  BY WhereUnlocked
<1>3. /\ l < at /\ at <= n => selectionLock = a
      /\ l + 1 < at /\ at <= n => journalLock = a
      /\ l + 2 < at /\ at <= h => ~recovery
      /\ l + 3 < at /\ at <= h => journal = "candidate_verified"
  BY DEF LocksAre
<1> HIDE DEF l, h, n
<1>n. /\ l < at + 1 => at = l \/ l < at
      /\ l + 1 < at + 1 => at = l + 1 \/ l + 1 < at
      /\ l + 2 < at + 1 => at = l + 2 \/ l + 2 < at
      /\ l + 3 < at + 1 => at = l + 3 \/ l + 3 < at
      /\ at + 1 <= n => at <= n /\ at # n
      /\ at + 1 <= h => at <= h /\ at # n
      /\ at = l + 1 => l < at
  BY <1>1, <1>2, NextPlaces
<1>m. do # "unlock" => (selectionLock = a => selectionLock' = a) /\ (journalLock = a => journalLock' = a)
  OBVIOUS
<1>4. ASSUME l < at + 1, at + 1 <= n PROVE selectionLock' = a
  <2>1. do # "unlock" /\ (at = l \/ selectionLock = a)
    BY <1>2, <1>3, <1>4, <1>n
  <2> QED BY <1>1, <1>m, <2>1
<1>5. ASSUME l + 1 < at + 1, at + 1 <= n PROVE journalLock' = a
  <2>1. do # "unlock" /\ (at = l + 1 \/ journalLock = a)
    BY <1>2, <1>3, <1>5, <1>n
  <2> QED BY <1>1, <1>m, <2>1
<1>6. ASSUME l + 2 < at + 1, at + 1 <= h PROVE ~recovery'
  <2>1. at = l + 2 \/ ~recovery
    BY <1>3, <1>6, <1>n
  <2> QED BY <1>1, <2>1
<1>7. ASSUME l + 3 < at + 1, at + 1 <= h PROVE journal' = "candidate_verified"
  <2>1. at = l + 3 \/ journal = "candidate_verified"
    BY <1>3, <1>7, <1>n
  <2> QED BY <1>1, <2>1
<1> QED BY <1>4, <1>5, <1>6, <1>7 DEF LocksAre, l, h, n

LEMMA AdvancedIs ==
  ASSUME NEW u, u = [kind |-> u.kind, at |-> u.at, left |-> u.left, seen |-> u.seen,
                     between |-> u.between]
  PROVE  Advanced(u) =
           [kind |-> u.kind, at |-> u.at + 1,
            left |-> NextFiles(u.kind, u.at),
            seen |-> u.seen, between |-> u.between]
<1> DEFINE k == u.kind
           at == u.at
           l == u.left
           s == u.seen
           b == u.between
           next == NextFiles(k, at)
           i == at + 1
<1>1. u = [kind |-> k, at |-> at, left |-> l, seen |-> s, between |-> b]
  OBVIOUS
<1> DEFINE x == [u EXCEPT !.at = i]
<1>2. Advanced(u) = [x EXCEPT !.left = next]
  BY DEF Advanced, NextFiles
<1> HIDE DEF k, at, l, s, b, i, next
<1>3. x = [kind |-> k, at |-> i, left |-> l, seen |-> s, between |-> b]
  BY <1>1
<1> HIDE DEF x
<1>4. [x EXCEPT !.left = next]
        = [kind |-> k, at |-> i, left |-> next, seen |-> s, between |-> b]
  BY <1>3
<1> QED BY <1>2, <1>4, Zenon DEF k, at, s, b, i, next

LEMMA PlaceInProgram ==
  ASSUME NEW kind, NEW at, NEW left, PlaceIs(kind, at, left)
  PROVE  /\ kind \in Kinds /\ kind \in Kinds \cap AuditKind
         /\ Len(Program(kind)) \in Nat /\ at \in Nat
         /\ HalfWay(kind) \in Nat /\ HalfWay(kind) \in 1..Len(Program(kind))
         /\ at <= Len(Program(kind)) \/ at = Len(Program(kind)) + 1
         /\ at <= Len(Program(kind)) => at \in 1..Len(Program(kind))
<1>1. kind \in Kinds /\ at \in 1..Len(Program(kind)) + 1 /\ kind \in Kinds \cap AuditKind
  BY DEF PlaceIs
<1>2. /\ Len(FirstPart[kind]) \in Nat /\ Len(SecondPart[kind]) \in Nat
      /\ Len(Program(kind)) = HalfWay(kind) + Len(SecondPart[kind])
      /\ HalfWay(kind) = Len(FirstPart[kind]) + 1
  BY <1>1, ProgramIs DEF HalfWay
<1> DEFINE p == Len(Program(kind))
           h == HalfWay(kind)
           m == Len(FirstPart[kind])
           n == Len(SecondPart[kind])
<1>3. m \in Nat /\ n \in Nat /\ p = h + n /\ h = m + 1 /\ at \in 1..p + 1
  BY <1>1, <1>2
<1> HIDE DEF p, h, m, n
<1>4. /\ p \in Nat /\ at \in Nat /\ h \in Nat /\ h \in 1..p
      /\ at <= p \/ at = p + 1
      /\ at <= p => at \in 1..p
  BY <1>3
<1> QED BY <1>1, <1>4 DEF p, h

\* An audit goes on from a step that reads nothing.
LEMMA WentOn ==
  ASSUME AuditAssumption, WorldIs, NEW u, AuditIs(u), u.at <= Len(Program(u.kind)), NEW do,
         do = Program(u.kind)[u.at].do, do # "read", do # "again",
         do = "selection" => selection = 1, do = "head" => head = 1
  PROVE  AuditIs(Advanced(u)) /\ Advanced(u).kind = u.kind /\ Advanced(u).at = u.at + 1
<1> DEFINE k == u.kind
           at == u.at
           next == NextFiles(k, at)
           v == [kind |-> k, at |-> at + 1, left |-> next, seen |-> u.seen, between |-> u.between]
           h == HalfWay(k)
<1>1. Advanced(u) = v
  BY AdvancedIs DEF AuditIs
<1>2. PlaceIs(k, at, u.left)
  BY DEF AuditIs
<1>3. k \in Kinds \cap AuditKind /\ at \in 1..Len(Program(k)) /\ at \in Nat /\ h \in Nat
  BY <1>2, PlaceInProgram
<1>4. Program(k)[at].files = {} /\ at # h
  BY <1>3, StepFiles
<1>5. /\ PlaceIs(k, at + 1, next)
      /\ \A start \in Nat : \A f : Met(k, at + 1, next, start, f) => Met(k, at, u.left, start, f)
  <2>2. /\ PlaceIs(k, at + 1, next)
        /\ \A start \in Nat : \A f : Met(k, at + 1, next, start, f) =>
             \/ Met(k, at, u.left, start, f)
             \/ start < at /\ f \in Program(k)[at].files /\ f \in u.left
    BY <1>3, OnePlaceOn
  <2> QED BY <1>4, <2>2
<1> HIDE DEF next
<1>6. SeenIs(k, at + 1, next, u.seen)
  <2>1. SeenIs(k, at, u.left, u.seen)
    BY DEF AuditIs
  <2>2. 0 \in Nat
    OBVIOUS
  <2> QED BY <1>5, <2>1, <2>2 DEF SeenIs
<1>7. /\ at + 1 <= h => at <= h
      /\ at + 1 > h => at > h
  <2> HIDE DEF at, h
  <2> QED BY <1>3, <1>4
<1>8. at + 1 <= h => FirstHalf(u.seen, u.between)
  BY <1>7 DEF AuditIs
<1>9. ASSUME at + 1 > h PROVE SecondHalf(k, at + 1, next, u.seen, u.between)
  <2>1. SecondHalf(k, at, u.left, u.seen, u.between)
    BY <1>7, <1>9 DEF AuditIs
  <2>2. ASSUME NEW i \in 1..Len(Program(k)), h < i, i < at + 1
        PROVE  /\ Program(k)[i].do = "selection" => u.between.selection = 1
               /\ Program(k)[i].do = "head" => u.between.head = 1
    <3>1. i < at \/ i = at
      <4>1. i \in Nat
        BY <1>2, PlaceInProgram
      <4> HIDE DEF at
      <4> QED BY <1>3, <2>2, <4>1
    <3>2. CASE i < at
      BY <2>1, <2>2, <3>2 DEF SecondHalf
    <3>3. CASE i = at
      <4>1. u.between.selection \in {1, 2} /\ u.between.head \in 1..MaxHead /\ MaxHead \in Nat \ {0}
        BY <2>1, KindsAre DEF SecondHalf, Moment
      <4>2. selection = 1 => u.between.selection = 1
        BY <2>1, <4>1 DEF SecondHalf
      <4>3. u.between.head <= head
        BY <2>1 DEF SecondHalf
      <4>4. head = 1 => u.between.head = 1
        BY <4>1, <4>3
      <4> QED BY <3>3, <4>2, <4>4
    <3> QED BY <3>1, <3>2, <3>3
  <2> QED BY <1>3, <1>5, <2>1, <2>2 DEF SecondHalf
<1>10. AuditIs(v)
  <2>1. v.kind = k /\ v.at = at + 1 /\ v.left = next /\ v.seen = u.seen /\ v.between = u.between
    OBVIOUS
  <2>2. v = [kind |-> v.kind, at |-> v.at, left |-> v.left, seen |-> v.seen, between |-> v.between]
    OBVIOUS
  <2> HIDE DEF v
  <2> QED BY <1>5, <1>6, <1>8, <1>9, <2>1, <2>2 DEF AuditIs
<1> QED BY <1>1, <1>10

\* The first observation is over: what is there now is what the second meets.
LEMMA BeganAgain ==
  ASSUME AuditAssumption, WorldIs, NEW a, NEW u, AuditIs(u), LocksHeld(a, u),
         u.at <= Len(Program(u.kind)), Program(u.kind)[u.at].do = "again",
         NEW m, m = [content |-> content, selection |-> selection, head |-> head,
                     journal |-> journal, recovery |-> recovery],
         NEW v, v = [Advanced(u) EXCEPT !.between = m]
  PROVE  AuditIs(v) /\ v.kind = u.kind /\ v.at = u.at + 1
<1> DEFINE k == u.kind
           at == u.at
           next == NextFiles(k, at)
           h == HalfWay(k)
           w == [kind |-> k, at |-> at + 1, left |-> next, seen |-> u.seen, between |-> m]
<1>1. v = w
  <2>1. Advanced(u) = [kind |-> k, at |-> at + 1, left |-> next, seen |-> u.seen,
                       between |-> u.between]
    BY AdvancedIs DEF AuditIs
  <2> DEFINE s == u.seen
             b == u.between
             i == at + 1
  <2>2. Advanced(u) = [kind |-> k, at |-> i, left |-> next, seen |-> s, between |-> b]
    BY <2>1
  <2> HIDE DEF k, next, s, b, i
  <2>3. [Advanced(u) EXCEPT !.between = m]
          = [kind |-> k, at |-> i, left |-> next, seen |-> s, between |-> m]
    BY <2>2
  <2> QED BY <2>3, Zenon DEF k, next, s, i
<1>2. PlaceIs(k, at, u.left)
  BY DEF AuditIs
<1>3. k \in Kinds \cap AuditKind /\ at \in 1..Len(Program(k)) /\ at \in Nat /\ h \in Nat
  BY <1>2, PlaceInProgram
<1>4. Program(k)[at].files = {} /\ at = h
  BY <1>3, StepFiles
<1>5. /\ PlaceIs(k, at + 1, next)
      /\ \A start \in Nat : \A f : Met(k, at + 1, next, start, f) => Met(k, at, u.left, start, f)
  <2>2. /\ PlaceIs(k, at + 1, next)
        /\ \A start \in Nat : \A f : Met(k, at + 1, next, start, f) =>
             \/ Met(k, at, u.left, start, f)
             \/ start < at /\ f \in Program(k)[at].files /\ f \in u.left
    BY <1>3, OnePlaceOn
  <2> QED BY <1>4, <2>2
<1> HIDE DEF next
<1>6. SeenIs(k, at + 1, next, u.seen)
  <2>1. SeenIs(k, at, u.left, u.seen)
    BY DEF AuditIs
  <2>2. 0 \in Nat
    OBVIOUS
  <2> QED BY <1>5, <2>1, <2>2 DEF SeenIs
<1>7. ~(at + 1 <= h)
  <2> HIDE DEF at, h
  <2> QED BY <1>3, <1>4
<1>8. SecondHalf(k, at + 1, next, u.seen, m)
  <2>1. m \in Moment
    BY DEF Moment, WorldIs
  <2>2. FirstHalf(u.seen, u.between)
    <3>1. at <= h
      <4> HIDE DEF at, h
      <4> QED BY <1>3, <1>4
    <3> QED BY <3>1 DEF AuditIs
  <2>3. /\ m.content = content /\ m.selection = selection /\ m.head = head
        /\ m.journal = journal /\ m.recovery = recovery
    OBVIOUS
  <2>4. ASSUME NEW i \in 1..Len(Program(k)), h < i PROVE ~(i < at)
    <3>1. i \in Nat
      BY <1>2, PlaceInProgram
    <3> HIDE DEF at, h
    <3> QED BY <1>3, <1>4, <2>4, <3>1
  <2>5. \A f : ~Met(k, at + 1, next, h, f)
    <3>1. ASSUME NEW f, Met(k, at, u.left, h, f) PROVE FALSE
      <4>1. PICK i \in 1..Len(Program(k)) : h < i /\ (i < at \/ i = at)
        BY <3>1 DEF Met
      <4>2. i # at
        <5>1. i \in Nat
          BY <1>2, PlaceInProgram
        <5> HIDE DEF at, h
        <5> QED BY <1>3, <1>4, <4>1, <5>1
      <4> QED BY <2>4, <4>1, <4>2
    <3> QED BY <1>3, <1>5, <3>1
  <2>6. ASSUME NEW i \in 1..Len(Program(k)), h < i, i < at + 1 PROVE FALSE
    <3>1. i \in Nat
      BY <1>2, PlaceInProgram
    <3> HIDE DEF at, h
    <3> QED BY <1>3, <1>4, <2>6, <3>1
  <2>7. k \in LockKinds => journal = "candidate_verified" /\ ~recovery
    <3> SUFFICES ASSUME k \in LockKinds PROVE journal = "candidate_verified" /\ ~recovery
      OBVIOUS
    <3>1. LocksAre(a, k, at)
      BY DEF LocksHeld
    <3>2. LockingAt(k) \in 1..3 /\ LockingAt(k) + 3 < h
      BY WhereLocked
    <3>3. LockingAt(k) + 2 < at /\ LockingAt(k) + 3 < at /\ at <= h
      <4> DEFINE l == LockingAt(k)
      <4>1. l \in 1..3 /\ l + 3 < h
        BY <3>2
      <4> HIDE DEF l, at, h
      <4>2. l + 2 < at /\ l + 3 < at /\ at <= h
        BY <1>3, <1>4, <4>1
      <4> QED BY <4>2 DEF l
    <3> QED BY <3>1, <3>3 DEF LocksAre
  <2>8. head <= head
    BY KindsAre DEF WorldIs
  <2> QED BY <2>1, <2>2, <2>3, <2>5, <2>6, <2>7, <2>8 DEF SecondHalf, FirstHalf
<1>9. /\ w.kind = k /\ w.at = at + 1 /\ w.left = next /\ w.seen = u.seen /\ w.between = m
      /\ w = [kind |-> w.kind, at |-> w.at, left |-> w.left, seen |-> w.seen, between |-> w.between]
  OBVIOUS
<1> HIDE DEF w
<1>10. AuditIs(w)
  BY <1>5, <1>6, <1>7, <1>8, <1>9 DEF AuditIs
<1> QED BY <1>1, <1>9, <1>10

\* An audit has read a file as signed, and as it was when it last saw it.
ReadsOn(u, f, seen) ==
  /\ AuditIs(u) /\ u.at <= Len(Program(u.kind)) /\ Program(u.kind)[u.at].do = "read"
  /\ f \in u.left /\ content[f] \in Form[f]
  /\ f \in DOMAIN u.seen => u.seen[f] = content[f]
  /\ DOMAIN seen = DOMAIN u.seen \cup {f} /\ seen[f] = content[f]
  /\ \A g \in DOMAIN u.seen : g # f => seen[g] = u.seen[g]

\* It stands where it stood, or one step on.
StandsOn(u, f, at, left) ==
  /\ at \in {u.at, u.at + 1} /\ PlaceIs(u.kind, at, left)
  /\ \A start \in Nat : \A g : Met(u.kind, at, left, start, g) =>
       Met(u.kind, u.at, u.left, start, g) \/ (start < u.at /\ g = f)

ObservedOn(u, at, left, seen) ==
  /\ SeenIs(u.kind, at, left, seen)
  /\ at <= HalfWay(u.kind) => FirstHalf(seen, u.between)
  /\ at > HalfWay(u.kind) => SecondHalf(u.kind, at, left, seen, u.between)

LEMMA SeenOnceMore ==
  ASSUME AuditAssumption, NEW u, NEW f, NEW seen, NEW at, NEW left,
         ReadsOn(u, f, seen), StandsOn(u, f, at, left)
  PROVE  ObservedOn(u, at, left, seen)
<1> USE DEF ReadsOn, StandsOn
<1> DEFINE k == u.kind
           n == u.at
           h == HalfWay(k)
<1>1. PlaceIs(k, n, u.left) /\ SeenIs(k, n, u.left, u.seen)
  BY DEF AuditIs
<1>2. /\ k \in Kinds /\ n \in 1..Len(Program(k)) /\ n \in Nat /\ h \in Nat
      /\ n \in 1..Len(Program(k)) + 1
  BY <1>1, PlaceInProgram DEF PlaceIs
<1>3. Program(k)[n] \in Reads /\ n # h
  BY <1>2, StepFiles
<1>4. f \in Program(k)[n].files
  BY <1>1, <1>2 DEF PlaceIs
<1>5. f \in ReadFirst(k)
  <2>1. n < h \/ n > h
    <3> HIDE DEF n, h
    <3> QED BY <1>2, <1>3
  <2>2. Program(k)[n] \in StepsOf(FirstPart[k]) \cap Reads
    BY <1>2, <1>3, <2>1, WhereItStands, HalvesHold
  <2> QED BY <1>4, <2>2 DEF ReadFirst, FilesOf
<1>6. SeenIs(k, at, left, seen)
  <2>1. \A g : Met(k, at, left, 0, g) => g \in DOMAIN seen
    <3>1. 0 \in Nat
      OBVIOUS
    <3> QED BY <1>1, <3>1 DEF SeenIs
  <2>2. \A g \in DOMAIN seen : seen[g] \in Form[g]
    BY <1>1 DEF SeenIs
  <2> QED BY <1>1, <1>5, <2>1, <2>2 DEF SeenIs
<1>7. (at <= h => n <= h) /\ (at > h => n > h)
  <2>1. at = n \/ at = n + 1
    OBVIOUS
  <2> HIDE DEF n, h
  <2> QED BY <1>2, <1>3, <2>1
<1>8. ASSUME at <= h PROVE FirstHalf(seen, u.between)
  <2>1. FirstHalf(u.seen, u.between)
    BY <1>7, <1>8 DEF AuditIs
  <2> QED BY <2>1 DEF FirstHalf
<1>9. ASSUME at > h PROVE SecondHalf(k, at, left, seen, u.between)
  <2>1. SecondHalf(k, n, u.left, u.seen, u.between)
    BY <1>7, <1>9 DEF AuditIs
  <2>2. f \in DOMAIN u.seen
    <3>1. Met(k, n, u.left, 0, f)
      BY <1>2, <1>5, <1>7, <1>9, FirstHalfMet
    <3> QED BY <1>1, <3>1 DEF SeenIs
  <2>3. u.seen[f] = content[f] /\ u.seen[f] = u.between.content[f]
    BY <2>1, <2>2 DEF SecondHalf
  <2>4. \A g \in DOMAIN seen : g \in DOMAIN u.seen /\ seen[g] = u.seen[g]
    BY <2>2, <2>3
  <2>5. ASSUME NEW g \in DOMAIN seen, Met(k, at, left, h, g)
        PROVE  seen[g] = u.between.content[g]
    <3>1. Met(k, n, u.left, h, g) \/ g = f
      BY <1>2, <2>5
    <3> QED BY <2>1, <2>3, <2>4, <3>1 DEF SecondHalf
  <2>6. ASSUME NEW i \in 1..Len(Program(k)), h < i, i < at
        PROVE  /\ Program(k)[i].do = "selection" => u.between.selection = 1
               /\ Program(k)[i].do = "head" => u.between.head = 1
    <3>1. i < n \/ i = n
      <4>1. i \in Nat
        BY <1>1, PlaceInProgram
      <4>2. at = n \/ at = n + 1
        OBVIOUS
      <4> HIDE DEF n
      <4> QED BY <1>2, <2>6, <4>1, <4>2
    <3>2. CASE i < n
      BY <2>1, <2>6, <3>2 DEF SecondHalf
    <3>3. CASE i = n
      BY <3>3
    <3> QED BY <3>1, <3>2, <3>3
  <2>7. \A g \in DOMAIN seen : seen[g] = u.between.content[g] \/ (g \in altered /\ content[g] # seen[g])
    BY <2>1, <2>4 DEF SecondHalf
  <2> QED BY <2>1, <2>5, <2>6, <2>7 DEF SecondHalf
<1> QED BY <1>6, <1>8, <1>9 DEF ObservedOn

LEMMA FieldsAre ==
  ASSUME NEW k, NEW n, NEW l, NEW s, NEW b, NEW w,
         w = [kind |-> k, at |-> n, left |-> l, seen |-> s, between |-> b]
  PROVE  /\ w.kind = k /\ w.at = n /\ w.left = l /\ w.seen = s /\ w.between = b
         /\ w = [kind |-> w.kind, at |-> w.at, left |-> w.left, seen |-> w.seen,
                 between |-> w.between]
OBVIOUS

LEMMA ReadIs ==
  ASSUME NEW u, NEW seen, NEW left,
         u = [kind |-> u.kind, at |-> u.at, left |-> u.left, seen |-> u.seen,
              between |-> u.between]
  PROVE  [u EXCEPT !.seen = seen, !.left = left] =
           [kind |-> u.kind, at |-> u.at, left |-> left, seen |-> seen, between |-> u.between]
<1> DEFINE k == u.kind
           n == u.at
           l == u.left
           s == u.seen
           b == u.between
           x == [u EXCEPT !.seen = seen]
<1>1. u = [kind |-> k, at |-> n, left |-> l, seen |-> s, between |-> b]
  OBVIOUS
<1>2. [u EXCEPT !.seen = seen, !.left = left] = [x EXCEPT !.left = left]
  OBVIOUS
<1> HIDE DEF k, n, l, s, b
<1>3. x = [kind |-> k, at |-> n, left |-> l, seen |-> seen, between |-> b]
  BY <1>1
<1> HIDE DEF x
<1>4. [x EXCEPT !.left = left]
        = [kind |-> k, at |-> n, left |-> left, seen |-> seen, between |-> b]
  BY <1>3
<1> QED BY <1>2, <1>4, Zenon DEF k, n, b

LEMMA ReadOne ==
  ASSUME AuditAssumption, NEW u, NEW f, NEW seen, ReadsOn(u, f, seen), NEW read,
         read = [kind |-> u.kind, at |-> u.at, left |-> u.left \ {f}, seen |-> seen,
                 between |-> u.between]
  PROVE  /\ read.left # {} => AuditIs(read)
         /\ read.left = {} => /\ AuditIs(Advanced(read))
                             /\ Advanced(read).kind = u.kind /\ Advanced(read).at = u.at + 1
<1> DEFINE k == u.kind
           n == u.at
           l == u.left \ {f}
           next == NextFiles(k, n)
           m == n + 1
<1>1. /\ read.kind = k /\ read.at = n /\ read.left = l /\ read.seen = seen
      /\ read.between = u.between
      /\ read = [kind |-> read.kind, at |-> read.at, left |-> read.left, seen |-> read.seen,
                 between |-> read.between]
  BY FieldsAre
<1>2. PlaceIs(k, n, u.left)
  BY DEF ReadsOn, AuditIs
<1>3. k \in Kinds \cap AuditKind /\ n \in 1..Len(Program(k)) /\ n \in Nat
  BY <1>2, PlaceInProgram DEF ReadsOn
<1>4. ASSUME l # {} PROVE AuditIs(read)
  <2>1. /\ PlaceIs(k, n, l)
        /\ \A start \in Nat : \A g : Met(k, n, l, start, g) =>
             Met(k, n, u.left, start, g) \/ (start < n /\ g = f)
    BY <1>2, <1>4, OneFileOn
  <2>2. StandsOn(u, f, n, l)
    BY <2>1 DEF StandsOn
  <2>3. ObservedOn(u, n, l, seen)
    <3> HIDE DEF n, l
    <3> QED BY <2>2, SeenOnceMore
  <2> QED BY <1>1, <2>1, <2>3 DEF AuditIs, ObservedOn
<1>5. ASSUME l = {} PROVE AuditIs(Advanced(read)) /\ Advanced(read).kind = k /\ Advanced(read).at = m
  <2>1. /\ PlaceIs(k, m, next)
        /\ \A start \in Nat : \A g : Met(k, m, next, start, g) =>
             \/ Met(k, n, u.left, start, g)
             \/ start < n /\ g \in Program(k)[n].files /\ g \in u.left
    BY <1>3, OnePlaceOn
  <2>2. StandsOn(u, f, m, next)
    BY <1>5, <2>1 DEF StandsOn
  <2>3. ObservedOn(u, m, next, seen)
    <3> HIDE DEF m, next
    <3> QED BY <2>2, SeenOnceMore
  <2> DEFINE w == Advanced(read)
  <2>4. w = [kind |-> k, at |-> m, left |-> next, seen |-> seen, between |-> u.between]
    BY <1>1, AdvancedIs
  <2> HIDE DEF w
  <2>5. /\ w.kind = k /\ w.at = m /\ w.left = next /\ w.seen = seen /\ w.between = u.between
        /\ w = [kind |-> w.kind, at |-> w.at, left |-> w.left, seen |-> w.seen,
                between |-> w.between]
    <3> HIDE DEF k, m, next
    <3> QED BY <2>4, FieldsAre
  <2>6. AuditIs(w)
    BY <2>1, <2>3, <2>5 DEF AuditIs, ObservedOn
  <2> QED BY <2>5, <2>6 DEF w
<1> QED BY <1>1, <1>4, <1>5

\* One audit has taken a step, and touched no other's lock.
LEMMA OneAudit ==
  ASSUME AuditAssumption, WorldIs, AllAudits, NEW a \in Auditor, NEW v,
         audits' = [audits EXCEPT ![a] = v], v # NoAudit => AuditIs(v) /\ LocksHeld(a, v)',
         UNCHANGED auditWorld,
         \A b \in Auditor : b # a => /\ selectionLock = b => selectionLock' = b
                                     /\ journalLock = b => journalLock' = b,
         selectionLock' \in Auditor \cup {NoAudit, "dead"},
         journalLock' \in Auditor \cup {NoAudit, "dead"},
         DOMAIN reports' = Auditor
  PROVE  WorldIs' /\ AllAudits'
<1>1. WorldIs'
  BY DEF WorldIs, auditWorld
<1>2. ASSUME NEW b \in Auditor, NEW w, w = audits'[b], w # NoAudit
      PROVE  AuditIs(w)' /\ LocksHeld(b, w)'
  <2>1. CASE b = a
    <3>1. w = v
      BY <1>2, <2>1 DEF WorldIs
    <3> QED BY <1>2, <2>1, <3>1, AuditStays
  <2>2. CASE b # a
    <3>1. w = audits[b]
      BY <1>2, <2>2 DEF WorldIs
    <3>2. AuditIs(w) /\ LocksHeld(b, w)
      BY <1>2, <3>1 DEF AllAudits
    <3>3. recovery' = recovery /\ journal' = journal
      BY DEF auditWorld
    <3> QED BY <2>2, <3>2, <3>3, AuditStays, LocksStay
  <2> QED BY <2>1, <2>2
<1>3. AllAudits'
  BY <1>2 DEF AllAudits
<1> QED BY <1>1, <1>3

LEMMA AuditOf ==
  ASSUME AllAudits, NEW a \in Auditor, Running(a)
  PROVE  AuditIs(audits[a]) /\ LocksHeld(a, audits[a])
BY DEF AllAudits, Running

\* An audit has ended, and given back what it had locked.
LEMMA EndStep ==
  ASSUME AuditAssumption, WorldIs, AllAudits, NEW a \in Auditor, End(a),
         UNCHANGED auditWorld, DOMAIN reports' = Auditor
  PROVE  WorldIs' /\ AllAudits'
<1>1. /\ audits' = [audits EXCEPT ![a] = NoAudit]
      /\ selectionLock' \in Auditor \cup {NoAudit, "dead"}
      /\ journalLock' \in Auditor \cup {NoAudit, "dead"}
      /\ \A b \in Auditor : b # a => /\ selectionLock = b => selectionLock' = b
                                     /\ journalLock = b => journalLock' = b
  BY DEF End, WorldIs
<1> QED BY <1>1, OneAudit

LEMMA KillStep ==
  ASSUME AuditAssumption, WorldIs, AllAudits, NEW a \in Auditor, KillAudit(a)
  PROVE  WorldIs' /\ AllAudits'
<1>1. /\ audits' = [audits EXCEPT ![a] = NoAudit]
      /\ selectionLock' \in Auditor \cup {NoAudit, "dead"}
      /\ journalLock' \in Auditor \cup {NoAudit, "dead"}
      /\ \A b \in Auditor : b # a => /\ selectionLock = b => selectionLock' = b
                                     /\ journalLock = b => journalLock' = b
      /\ UNCHANGED auditWorld /\ DOMAIN reports' = Auditor
  BY DEF KillAudit, WorldIs
<1> QED BY <1>1, OneAudit

\* An audit has gone on from a step that reads nothing.
LEMMA OnStep ==
  ASSUME AuditAssumption, WorldIs, AllAudits, NEW a \in Auditor, NEW u, NEW do,
         Running(a), u = audits[a], u.at <= Len(Program(u.kind)), do = Program(u.kind)[u.at].do,
         do \notin {"read", "again"},
         do = "selection" => selection = 1, do = "head" => head = 1,
         do = "recovery" => ~recovery, do = "journal" => journal = "candidate_verified",
         do = "lock selection" => selectionLock' = a, do = "lock journal" => journalLock' = a,
         do # "unlock" => (selectionLock = a => selectionLock' = a) /\ (journalLock = a => journalLock' = a),
         audits' = [audits EXCEPT ![a] = Advanced(@)],
         UNCHANGED auditWorld, reports' = reports,
         \A b \in Auditor : b # a => /\ selectionLock = b => selectionLock' = b
                                     /\ journalLock = b => journalLock' = b,
         selectionLock' \in Auditor \cup {NoAudit, "dead"},
         journalLock' \in Auditor \cup {NoAudit, "dead"}
  PROVE  WorldIs' /\ AllAudits'
<1>1. AuditIs(u) /\ LocksHeld(a, u)
  BY AuditOf
<1>2. PICK v : v = Advanced(u)
  OBVIOUS
<1>3. AuditIs(v) /\ v.kind = u.kind /\ v.at = u.at + 1
  BY <1>1, <1>2, WentOn
<1>4. u.kind \in Kinds /\ u.at \in Nat /\ u.at \in 1..Len(Program(u.kind))
  <2>1. PlaceIs(u.kind, u.at, u.left)
    BY <1>1 DEF AuditIs
  <2> QED BY <2>1, PlaceInProgram
<1>5. LocksHeld(a, v)'
  <2>1. recovery' = recovery /\ journal' = journal
    BY DEF auditWorld
  <2>2. u.kind \in LockKinds => LocksAre(a, u.kind, u.at)
    BY <1>1 DEF LocksHeld
  <2>3. u.kind \in LockKinds => LocksAre(a, u.kind, u.at + 1)'
    BY <1>4, <2>1, <2>2, LocksOn
  <2>4. v.kind \in LockKinds => LocksAre(a, v.kind, v.at)'
    BY <1>3, <2>3
  <2> QED BY <2>4 DEF LocksHeld
<1>6. audits' = [audits EXCEPT ![a] = v]
  BY <1>2
<1>7. DOMAIN reports' = Auditor
  BY DEF WorldIs
<1> QED BY <1>3, <1>5, <1>6, <1>7, OneAudit

LEMMA DoingIs ==
  ASSUME NEW a, NEW name, Doing(a, name)
  PROVE  /\ Running(a) /\ audits[a].at <= Len(Program(audits[a].kind))
         /\ Program(audits[a].kind)[audits[a].at].do = name
BY DEF Doing, Current

LEMMA StartedIs ==
  ASSUME AuditAssumption, NEW a, NEW kind \in AuditKind, NEW v,
         v = [kind |-> kind, at |-> 1, left |-> Program(kind)[1].files, seen |-> <<>>,
              between |-> NoAudit]
  PROVE  AuditIs(v) /\ LocksHeld(a, v) /\ LocksHeld(a, v)'
<1> DEFINE left == Program(kind)[1].files
<1>1. /\ v.kind = kind /\ v.at = 1 /\ v.left = left /\ v.seen = <<>> /\ v.between = NoAudit
      /\ v = [kind |-> v.kind, at |-> v.at, left |-> v.left, seen |-> v.seen, between |-> v.between]
  <2> HIDE DEF left
  <2> QED BY FieldsAre DEF left
<1>2. /\ kind \in Kinds /\ Len(Program(kind)) \in Nat /\ HalfWay(kind) \in 1..Len(Program(kind))
  <2>1. kind \in Kinds
    BY KindsAre
  <2>2. Len(FirstPart[kind]) \in Nat /\ Len(SecondPart[kind]) \in Nat
        /\ Len(Program(kind)) = HalfWay(kind) + Len(SecondPart[kind])
        /\ HalfWay(kind) = Len(FirstPart[kind]) + 1
    BY <2>1, ProgramIs DEF HalfWay
  <2> DEFINE p == Len(Program(kind))
             h == HalfWay(kind)
             m == Len(FirstPart[kind])
             n == Len(SecondPart[kind])
  <2>3. m \in Nat /\ n \in Nat /\ p = h + n /\ h = m + 1
    BY <2>2
  <2> HIDE DEF p, h, m, n
  <2>4. p \in Nat /\ h \in 1..p
    BY <2>3
  <2> QED BY <2>1, <2>4 DEF p, h
<1>3. 1 \in 1..Len(Program(kind)) /\ 1 \in 1..Len(Program(kind)) + 1 /\ 1 <= HalfWay(kind)
      /\ ~(1 > HalfWay(kind))
  <2> DEFINE p == Len(Program(kind))
             h == HalfWay(kind)
  <2>1. p \in Nat /\ h \in 1..p
    BY <1>2
  <2> HIDE DEF p, h
  <2>2. 1 \in 1..p /\ 1 \in 1..p + 1 /\ 1 <= h /\ ~(1 > h)
    BY <2>1
  <2> QED BY <2>2 DEF p, h
<1>4. PlaceIs(kind, 1, left)
  BY <1>2, <1>3, StepFiles DEF PlaceIs
<1>5. \A f : ~Met(kind, 1, left, 0, f)
  <2> SUFFICES ASSUME NEW f, NEW i \in 1..Len(Program(kind)), 0 < i, f \in Program(kind)[i].files,
                      i < 1 \/ (i = 1 /\ f \notin left)
               PROVE  FALSE
    BY DEF Met
  <2>1. i \in Nat
    BY <1>2
  <2>2. i = 1 /\ f \notin left
    BY <2>1
  <2> QED BY <2>2
<1>6. DOMAIN v.seen = {}
  BY <1>1
<1>7. SeenIs(kind, 1, left, v.seen)
  BY <1>5, <1>6 DEF SeenIs
<1>8. FirstHalf(v.seen, NoAudit)
  BY <1>6 DEF FirstHalf
<1>9. AuditIs(v)
  BY <1>1, <1>3, <1>4, <1>7, <1>8 DEF AuditIs
<1>10. LocksHeld(a, v) /\ LocksHeld(a, v)'
  <2>1. LockingAt(kind) \in 1..3
    BY DEF LockingAt
  <2>2. ~(LockingAt(kind) < 1) /\ ~(LockingAt(kind) + 1 < 1) /\ ~(LockingAt(kind) + 2 < 1)
        /\ ~(LockingAt(kind) + 3 < 1)
    <3> DEFINE l == LockingAt(kind)
    <3>1. l \in 1..3
      BY <2>1
    <3> HIDE DEF l
    <3>2. ~(l < 1) /\ ~(l + 1 < 1) /\ ~(l + 2 < 1) /\ ~(l + 3 < 1)
      BY <3>1
    <3> QED BY <3>2 DEF l
  <2> QED BY <1>1, <2>2 DEF LocksHeld, LocksAre
<1> QED BY <1>9, <1>10

LEMMA StartStep ==
  ASSUME AuditAssumption, AuditInv, NEW a \in Auditor, StartAudit(a)
  PROVE  AuditInv'
<1>0. WorldIs /\ AllAudits /\ AllReports
  BY DEF AuditInv
<1>p. PICK kind \in AuditKind :
        audits' = [audits EXCEPT ![a] =
                    [kind |-> kind, at |-> 1, left |-> Program(kind)[1].files, seen |-> <<>>,
                     between |-> NoAudit]]
  BY DEF StartAudit
<1>q. PICK v : v = [kind |-> kind, at |-> 1, left |-> Program(kind)[1].files, seen |-> <<>>,
                    between |-> NoAudit]
  OBVIOUS
<1>1. audits' = [audits EXCEPT ![a] = v]
  BY <1>p, <1>q
<1>2. AuditIs(v) /\ LocksHeld(a, v)'
  BY <1>q, StartedIs
<1>3. /\ reports' = [reports EXCEPT ![a] = NoAudit] /\ UNCHANGED auditWorld
      /\ selectionLock' = selectionLock /\ journalLock' = journalLock
  BY DEF StartAudit
<1>4. DOMAIN reports' = Auditor /\ selectionLock' \in Auditor \cup {NoAudit, "dead"}
      /\ journalLock' \in Auditor \cup {NoAudit, "dead"}
  BY <1>0, <1>3 DEF WorldIs
<1>5. WorldIs' /\ AllAudits'
  BY <1>0, <1>1, <1>2, <1>3, <1>4, OneAudit
<1>6. AllReports'
  BY <1>0, <1>3 DEF AllReports, WorldIs
<1> QED BY <1>5, <1>6 DEF AuditInv

LEMMA AgainStep ==
  ASSUME AuditAssumption, WorldIs, AllAudits, NEW a \in Auditor, BeginAgain(a)
  PROVE  WorldIs' /\ AllAudits'
<1>0. PICK u : u = audits[a]
  OBVIOUS
<1>1. /\ Running(a) /\ u.at <= Len(Program(u.kind)) /\ Program(u.kind)[u.at].do = "again"
  BY <1>0, DoingIs DEF BeginAgain
<1>2. AuditIs(u) /\ LocksHeld(a, u)
  BY <1>0, <1>1, AuditOf
<1>3. PICK m : m = [content |-> content, selection |-> selection, head |-> head,
                    journal |-> journal, recovery |-> recovery]
  OBVIOUS
<1>4. PICK v : v = [Advanced(u) EXCEPT !.between = m]
  OBVIOUS
<1>5. AuditIs(v) /\ v.kind = u.kind /\ v.at = u.at + 1
  BY <1>1, <1>2, <1>3, <1>4, BeganAgain
<1>6. audits' = [audits EXCEPT ![a] = v]
  BY <1>0, <1>3, <1>4 DEF BeginAgain
<1>7. /\ UNCHANGED auditWorld /\ reports' = reports
      /\ selectionLock' = selectionLock /\ journalLock' = journalLock
  BY DEF BeginAgain
<1>8. u.kind \in Kinds /\ u.at \in Nat /\ u.at \in 1..Len(Program(u.kind))
  <2>1. PlaceIs(u.kind, u.at, u.left)
    BY <1>2 DEF AuditIs
  <2> QED BY <1>1, <2>1, PlaceInProgram
<1>9. LocksHeld(a, v)'
  <2>1. recovery' = recovery /\ journal' = journal
    BY <1>7 DEF auditWorld
  <2>2. u.kind \in LockKinds => LocksAre(a, u.kind, u.at)
    BY <1>2 DEF LocksHeld
  <2>3. PICK do : do = Program(u.kind)[u.at].do /\ do = "again"
    BY <1>1
  <2>4. u.kind \in LockKinds => LocksAre(a, u.kind, u.at + 1)'
    BY <1>7, <1>8, <2>1, <2>2, <2>3, LocksOn
  <2>5. v.kind \in LockKinds => LocksAre(a, v.kind, v.at)'
    BY <1>5, <2>4
  <2> QED BY <2>5 DEF LocksHeld
<1>10. DOMAIN reports' = Auditor /\ selectionLock' \in Auditor \cup {NoAudit, "dead"}
       /\ journalLock' \in Auditor \cup {NoAudit, "dead"}
  BY <1>7 DEF WorldIs
<1> QED BY <1>5, <1>6, <1>7, <1>9, <1>10, OneAudit

LEMMA ReadStep ==
  ASSUME AuditAssumption, WorldIs, AllAudits, NEW a \in Auditor, NEW f \in StagedFile, ReadFile(a, f)
  PROVE  WorldIs' /\ AllAudits'
<1>1. CASE ~AsSigned(a, f)
  <2>1. End(a) /\ UNCHANGED auditWorld /\ reports' = reports
    BY <1>1 DEF ReadFile
  <2>2. DOMAIN reports' = Auditor
    BY <2>1 DEF WorldIs
  <2> QED BY <2>1, <2>2, EndStep
<1>2. CASE AsSigned(a, f)
  <2>0. PICK u : u = audits[a]
    OBVIOUS
  <2>1. PICK seen : seen = [g \in DOMAIN u.seen \cup {f} |->
                              IF g = f THEN content[f] ELSE u.seen[g]]
    OBVIOUS
  <2>2. PICK read : read = [u EXCEPT !.seen = seen, !.left = u.left \ {f}]
    OBVIOUS
  <2>3. PICK v : v = IF read.left = {} THEN Advanced(read) ELSE read
    OBVIOUS
  <2>4. audits' = [audits EXCEPT ![a] = v]
    BY <1>2, <2>0, <2>1, <2>2, <2>3 DEF ReadFile
  <2>5. /\ UNCHANGED auditWorld /\ reports' = reports
        /\ selectionLock' = selectionLock /\ journalLock' = journalLock
    BY <1>2 DEF ReadFile
  <2>6. /\ Running(a) /\ u.at <= Len(Program(u.kind)) /\ Program(u.kind)[u.at].do = "read"
        /\ f \in u.left
    BY <2>0, DoingIs DEF ReadFile
  <2>7. AuditIs(u) /\ LocksHeld(a, u)
    BY <2>0, <2>6, AuditOf
  <2>8. ReadsOn(u, f, seen)
    <3>1. content[f] \in Form[f] /\ (f \in DOMAIN u.seen => u.seen[f] = content[f])
      BY <1>2, <2>0 DEF AsSigned, WheelMatchesPin, SiteMatchesRecord, RuntimeAsPrepared,
                        NativeMatchesEvidence, StagedFile
    <3>2. /\ DOMAIN seen = DOMAIN u.seen \cup {f} /\ seen[f] = content[f]
          /\ \A g \in DOMAIN u.seen : g # f => seen[g] = u.seen[g]
      BY <2>1
    <3> QED BY <2>6, <2>7, <3>1, <3>2 DEF ReadsOn
  <2>9. read = [kind |-> u.kind, at |-> u.at, left |-> u.left \ {f}, seen |-> seen,
                between |-> u.between]
    <3>1. u = [kind |-> u.kind, at |-> u.at, left |-> u.left, seen |-> u.seen,
               between |-> u.between]
      BY <2>7 DEF AuditIs
    <3>2. PICK left : left = u.left \ {f}
      OBVIOUS
    <3>3. [u EXCEPT !.seen = seen, !.left = left]
            = [kind |-> u.kind, at |-> u.at, left |-> left, seen |-> seen, between |-> u.between]
      BY <3>1, ReadIs
    <3> QED BY <2>2, <3>2, <3>3
  <2>10. /\ read.left # {} => AuditIs(read)
         /\ read.left = {} => /\ AuditIs(Advanced(read))
                              /\ Advanced(read).kind = u.kind /\ Advanced(read).at = u.at + 1
    BY <2>8, <2>9, ReadOne
  <2>11. read.kind = u.kind /\ read.at = u.at
    BY <2>9, FieldsAre
  <2>12. recovery' = recovery /\ journal' = journal
    BY <2>5 DEF auditWorld
  <2>13. u.kind \in Kinds /\ u.at \in Nat /\ u.at \in 1..Len(Program(u.kind))
    <3>1. PlaceIs(u.kind, u.at, u.left)
      BY <2>7 DEF AuditIs
    <3> QED BY <2>6, <3>1, PlaceInProgram
  <2>14. AuditIs(v) /\ LocksHeld(a, v)'
    <3>1. CASE read.left # {}
      <4>1. v = read
        BY <2>3, <3>1
      <4>2. LocksHeld(a, u)'
        BY <2>5, <2>7, <2>12, LocksStay
      <4>3. u.kind \in LockKinds => LocksAre(a, u.kind, u.at)'
        BY <4>2 DEF LocksHeld
      <4>4. v.kind \in LockKinds => LocksAre(a, v.kind, v.at)'
        BY <2>11, <4>1, <4>3
      <4> QED BY <2>10, <3>1, <4>1, <4>4 DEF LocksHeld
    <3>2. CASE read.left = {}
      <4>1. v = Advanced(read) /\ v.kind = u.kind /\ v.at = u.at + 1
        BY <2>3, <2>10, <3>2
      <4>2. u.kind \in LockKinds => LocksAre(a, u.kind, u.at)
        BY <2>7 DEF LocksHeld
      <4>3. PICK do : do = Program(u.kind)[u.at].do /\ do = "read"
        BY <2>6
      <4>4. u.kind \in LockKinds => LocksAre(a, u.kind, u.at + 1)'
        BY <2>5, <2>12, <2>13, <4>2, <4>3, LocksOn
      <4>5. v.kind \in LockKinds => LocksAre(a, v.kind, v.at)'
        BY <4>1, <4>4
      <4> QED BY <2>10, <3>2, <4>1, <4>5 DEF LocksHeld
    <3> QED BY <3>1, <3>2
  <2>15. DOMAIN reports' = Auditor /\ selectionLock' \in Auditor \cup {NoAudit, "dead"}
         /\ journalLock' \in Auditor \cup {NoAudit, "dead"}
    BY <2>5 DEF WorldIs
  <2> QED BY <2>4, <2>5, <2>14, <2>15, OneAudit
<1> QED BY <1>1, <1>2

\* An audit that ends or goes on, whatever it looked at.
LEMMA LookStep ==
  ASSUME AuditAssumption, WorldIs, AllAudits, NEW a \in Auditor, NEW name, Doing(a, name),
         name \notin {"read", "again", "unlock", "lock selection", "lock journal"},
         GoOn(a), UNCHANGED auditWorld, reports' = reports,
         name = "selection" => selection = 1, name = "head" => head = 1,
         name = "recovery" => ~recovery, name = "journal" => journal = "candidate_verified"
  PROVE  WorldIs' /\ AllAudits'
<1>1. PICK u : u = audits[a]
  OBVIOUS
<1>2. Running(a) /\ u.at <= Len(Program(u.kind)) /\ name = Program(u.kind)[u.at].do
  BY <1>1, DoingIs
<1>3. /\ audits' = [audits EXCEPT ![a] = Advanced(@)]
      /\ selectionLock' = selectionLock /\ journalLock' = journalLock
  BY DEF GoOn
<1>4. /\ selectionLock' \in Auditor \cup {NoAudit, "dead"}
      /\ journalLock' \in Auditor \cup {NoAudit, "dead"}
  BY <1>3 DEF WorldIs
<1> QED BY <1>1, <1>2, <1>3, <1>4, OnStep

LEMMA LookSteps ==
  ASSUME AuditAssumption, WorldIs, AllAudits, NEW a \in Auditor,
         \/ CheckRecovery(a) \/ CheckJournal(a) \/ CheckSelection(a) \/ QueryHead(a)
         \/ ProbeRuntime(a)
  PROVE  WorldIs' /\ AllAudits' /\ reports' = reports
<1>1. UNCHANGED auditWorld /\ reports' = reports
  BY DEF CheckRecovery, CheckJournal, CheckSelection, QueryHead, ProbeRuntime
<1>2. CASE End(a)
  <2>1. DOMAIN reports' = Auditor
    BY <1>1 DEF WorldIs
  <2> QED BY <1>1, <1>2, <2>1, EndStep
<1>3. CASE GoOn(a)
  <2>1. CASE CheckRecovery(a) /\ ~End(a)
    <3>1. Doing(a, "recovery") /\ ~recovery
      BY <2>1 DEF CheckRecovery
    <3> QED BY <1>1, <1>3, <3>1, LookStep
  <2>2. CASE CheckJournal(a) /\ ~End(a)
    <3>1. Doing(a, "journal") /\ journal = "candidate_verified"
      BY <2>2 DEF CheckJournal
    <3> QED BY <1>1, <1>3, <3>1, LookStep
  <2>3. CASE CheckSelection(a) /\ ~End(a)
    <3>1. Doing(a, "selection") /\ selection = 1
      BY <2>3 DEF CheckSelection
    <3> QED BY <1>1, <1>3, <3>1, LookStep
  <2>4. CASE QueryHead(a) /\ ~End(a)
    <3>1. Doing(a, "head") /\ head = 1
      BY <2>4 DEF QueryHead
    <3> QED BY <1>1, <1>3, <3>1, LookStep
  <2>5. CASE ProbeRuntime(a)
    <3>1. Doing(a, "probe")
      BY <2>5 DEF ProbeRuntime
    <3> QED BY <1>1, <1>3, <3>1, LookStep
  <2> QED BY <1>2, <1>1, <2>1, <2>2, <2>3, <2>4, <2>5
<1> QED BY <1>1, <1>2, <1>3 DEF CheckRecovery, CheckJournal, CheckSelection, QueryHead, ProbeRuntime

LEMMA LockStep ==
  ASSUME AuditAssumption, WorldIs, AllAudits, NEW a \in Auditor,
         LockSelection(a) \/ LockJournal(a)
  PROVE  WorldIs' /\ AllAudits' /\ reports' = reports
<1>0. UNCHANGED auditWorld /\ reports' = reports
  BY DEF LockSelection, LockJournal
<1>e. CASE End(a)
  <2>1. DOMAIN reports' = Auditor
    BY <1>0 DEF WorldIs
  <2> QED BY <1>0, <1>e, <2>1, EndStep
<1>1. PICK u : u = audits[a]
  OBVIOUS
<1>2. ASSUME LockSelection(a), ~End(a) PROVE WorldIs' /\ AllAudits'
  <2>1. /\ Running(a) /\ u.at <= Len(Program(u.kind)) /\ "lock selection" = Program(u.kind)[u.at].do
    BY <1>1, <1>2, DoingIs DEF LockSelection
  <2>2. /\ selectionLock = NoAudit /\ selectionLock' = a /\ journalLock' = journalLock
        /\ audits' = [audits EXCEPT ![a] = Advanced(@)]
    BY <1>2 DEF LockSelection
  <2>3. PICK do : do = "lock selection"
    OBVIOUS
  <2>4. /\ selectionLock' \in Auditor \cup {NoAudit, "dead"}
        /\ journalLock' \in Auditor \cup {NoAudit, "dead"}
    BY <2>2 DEF WorldIs
  <2>5. NoAudit \notin Auditor
    BY KindsAre
  <2> QED BY <1>0, <1>1, <2>1, <2>2, <2>3, <2>4, <2>5, OnStep
<1>3. ASSUME LockJournal(a), ~End(a) PROVE WorldIs' /\ AllAudits'
  <2>1. /\ Running(a) /\ u.at <= Len(Program(u.kind)) /\ "lock journal" = Program(u.kind)[u.at].do
    BY <1>1, <1>3, DoingIs DEF LockJournal
  <2>2. /\ journalLock = NoAudit /\ journalLock' = a /\ selectionLock' = selectionLock
        /\ audits' = [audits EXCEPT ![a] = Advanced(@)]
    BY <1>3 DEF LockJournal
  <2>3. PICK do : do = "lock journal"
    OBVIOUS
  <2>4. /\ selectionLock' \in Auditor \cup {NoAudit, "dead"}
        /\ journalLock' \in Auditor \cup {NoAudit, "dead"}
    BY <2>2 DEF WorldIs
  <2>5. NoAudit \notin Auditor
    BY KindsAre
  <2> QED BY <1>0, <1>1, <2>1, <2>2, <2>3, <2>4, <2>5, OnStep
<1> QED BY <1>0, <1>e, <1>2, <1>3

\* Only the holder of both locks gives them back.
LEMMA UnlockStep ==
  ASSUME AuditAssumption, WorldIs, AllAudits, NEW a \in Auditor, UnlockBoth(a)
  PROVE  WorldIs' /\ AllAudits'
<1>1. PICK u : u = audits[a]
  OBVIOUS
<1>2. Running(a) /\ u.at <= Len(Program(u.kind)) /\ Program(u.kind)[u.at].do = "unlock"
  BY <1>1, DoingIs DEF UnlockBoth
<1>3. /\ audits' = [audits EXCEPT ![a] = Advanced(@)] /\ UNCHANGED auditWorld /\ reports' = reports
      /\ selectionLock' = NoAudit /\ journalLock' = NoAudit
  BY DEF UnlockBoth
<1>4. AuditIs(u) /\ LocksHeld(a, u)
  BY <1>1, <1>2, AuditOf
<1>5. u.kind \in Kinds /\ u.at \in Nat /\ u.at \in 1..Len(Program(u.kind))
  <2>1. PlaceIs(u.kind, u.at, u.left)
    BY <1>4 DEF AuditIs
  <2> QED BY <1>2, <2>1, PlaceInProgram
<1>6. u.kind \in LockKinds /\ u.at = UnlockingAt(u.kind)
  <2>1. u.kind \in {"contracts", "publisher"} /\ u.at = UnlockingAt(u.kind)
    BY <1>2, <1>5, WhereUnlocked
  <2> QED BY <2>1 DEF LockKinds
<1>7. selectionLock = a /\ journalLock = a
  <2>1. LocksAre(a, u.kind, u.at)
    BY <1>4, <1>6 DEF LocksHeld
  <2>2. LockingAt(u.kind) \in 1..3 /\ LockingAt(u.kind) + 3 < HalfWay(u.kind)
    BY <1>6, WhereLocked
  <2>3. HalfWay(u.kind) \in Nat /\ HalfWay(u.kind) < UnlockingAt(u.kind)
    BY <1>5, WhereUnlocked
  <2>4. LockingAt(u.kind) < u.at /\ LockingAt(u.kind) + 1 < u.at /\ u.at <= UnlockingAt(u.kind)
    <3> DEFINE l == LockingAt(u.kind)
               h == HalfWay(u.kind)
               n == UnlockingAt(u.kind)
               at == u.at
    <3>1. l \in 1..3 /\ l + 3 < h /\ h \in Nat /\ h < n /\ at \in Nat /\ at = n
      BY <1>5, <1>6, <2>2, <2>3
    <3> HIDE DEF l, h, n, at
    <3>2. l < at /\ l + 1 < at /\ at <= n
      BY <3>1
    <3> QED BY <3>2 DEF l, n, at
  <2> QED BY <2>1, <2>4 DEF LocksAre
<1>8. PICK do : do = Program(u.kind)[u.at].do /\ do = "unlock"
  BY <1>2
<1> QED BY <1>1, <1>2, <1>3, <1>7, <1>8, OnStep

LEMMA FirstFiles ==
  ASSUME AuditAssumption
  PROVE  \A kind \in Kinds : ReadFirst(kind) \subseteq StagedFile
<1> SUFFICES ASSUME NEW kind \in Kinds, NEW g \in ReadFirst(kind) PROVE g \in StagedFile
  OBVIOUS
<1>1. PICK s \in Reads : g \in s.files
  BY DEF ReadFirst, FilesOf
<1> QED BY <1>1, KindsOfStep

\* An audit reports what it met twice: each file was there in between.
LEMMA ReportedIs ==
  ASSUME AuditAssumption, WorldIs, NEW u, AuditIs(u), u.at = Len(Program(u.kind)) + 1,
         NEW c \in Composition, Coherent(c, u.kind), NEW r,
         r = [kind |-> u.kind, composition |-> c, seen |-> u.seen, between |-> u.between]
  PROVE  ReportIs(r)
<1>1. r.kind = u.kind /\ r.composition = c /\ r.seen = u.seen /\ r.between = u.between
  OBVIOUS
<1>2. PlaceIs(u.kind, u.at, u.left) /\ SeenIs(u.kind, u.at, u.left, u.seen)
  BY DEF AuditIs
<1>3. /\ u.kind \in Kinds /\ Len(Program(u.kind)) \in Nat
      /\ HalfWay(u.kind) \in 1..Len(Program(u.kind))
  BY <1>2, PlaceInProgram
<1>4. u.at > HalfWay(u.kind)
  <2> DEFINE p == Len(Program(u.kind))
             h == HalfWay(u.kind)
             at == u.at
  <2>1. p \in Nat /\ h \in 1..p /\ at = p + 1
    BY <1>3
  <2> HIDE DEF p, h, at
  <2>2. at > h
    BY <2>1
  <2> QED BY <2>2 DEF h, at
<1>5. SecondHalf(u.kind, u.at, u.left, u.seen, u.between)
  BY <1>4 DEF AuditIs
<1>6. ASSUME NEW f \in DOMAIN u.seen
      PROVE  u.seen[f] = u.between.content[f] /\ u.seen[f] \in Form[f]
  <2>1. f \in ReadFirst(u.kind)
    BY <1>2 DEF SeenIs
  <2>2. Met(u.kind, u.at, u.left, HalfWay(u.kind), f)
    BY <1>3, <2>1, SecondHalfMet
  <2> QED BY <1>2, <1>5, <2>2 DEF SecondHalf, SeenIs
<1>7. ASSUME u.kind = "witness" PROVE u.between.selection = 1 /\ u.between.head = 1
  <2>1. ASSUME NEW i \in 1..Len(Program(u.kind)) PROVE i < u.at
    <3> DEFINE p == Len(Program(u.kind))
               at == u.at
    <3>1. p \in Nat /\ at = p + 1 /\ i \in 1..p
      BY <1>3
    <3> HIDE DEF p, at
    <3>2. i < at
      BY <3>1
    <3> QED BY <3>2 DEF at
  <2>2. \E i \in 1..Len(Program(u.kind)) :
          HalfWay(u.kind) < i /\ Program(u.kind)[i].do = "selection"
    BY <1>7, WitnessLooks, Zenon
  <2>3. \E i \in 1..Len(Program(u.kind)) :
          HalfWay(u.kind) < i /\ Program(u.kind)[i].do = "head"
    BY <1>7, WitnessLooks, Zenon
  <2> QED BY <1>5, <2>1, <2>2, <2>3 DEF SecondHalf
<1>8. u.kind \in LockKinds => u.between.journal = "candidate_verified" /\ ~u.between.recovery
  BY <1>5 DEF SecondHalf
<1>9. u.between \in Moment
  BY <1>5 DEF SecondHalf
<1> QED BY <1>1, <1>6, <1>7, <1>8, <1>9, Zenon DEF ReportIs

LEMMA ReportStep ==
  ASSUME AuditAssumption, WorldIs, AllAudits, AllReports, NEW a \in Auditor, ReportAudit(a)
  PROVE  WorldIs' /\ AllAudits' /\ AllReports'
<1>1. PICK u : u = audits[a]
  OBVIOUS
<1>2. Running(a) /\ u.at = Len(Program(u.kind)) + 1
  BY <1>1 DEF ReportAudit
<1>3. PICK c \in Composition :
        /\ Coherent(c, u.kind)
        /\ reports' = [reports EXCEPT ![a] =
                        [kind |-> u.kind, composition |-> c, seen |-> u.seen,
                         between |-> u.between]]
  BY <1>1 DEF ReportAudit
<1>4. PICK r : r = [kind |-> u.kind, composition |-> c, seen |-> u.seen, between |-> u.between]
  OBVIOUS
<1>5. AuditIs(u)
  BY <1>1, <1>2, AuditOf
<1>6. ReportIs(r)
  BY <1>2, <1>3, <1>4, <1>5, ReportedIs
<1>7. reports' = [reports EXCEPT ![a] = r]
  BY <1>3, <1>4
<1>8. DOMAIN reports' = Auditor
  BY <1>7 DEF WorldIs
<1>9. End(a) /\ UNCHANGED auditWorld
  BY DEF ReportAudit
<1>10. WorldIs' /\ AllAudits'
  BY <1>8, <1>9, EndStep
<1>11. AllReports'
  BY <1>6, <1>7 DEF AllReports, WorldIs
<1> QED BY <1>10, <1>11

LEMMA ReportsStay ==
  ASSUME AllReports, reports' = reports
  PROVE  AllReports'
BY DEF AllReports

LEMMA OutsideStep ==
  ASSUME AuditAssumption, AuditInv,
         \/ SwitchSlot \/ AdvanceJournal \/ CommitHead \/ RemoveDeadLocks
         \/ \E f \in StagedFile : Alter(f)
  PROVE  AuditInv'
<1>0. WorldIs /\ AllAudits /\ AllReports
  BY DEF AuditInv
<1>1. audits' = audits /\ reports' = reports
  BY DEF SwitchSlot, AdvanceJournal, CommitHead, RemoveDeadLocks, Alter
<1>2. WorldIs'
  <2>1. CASE \E f \in StagedFile : Alter(f)
    <3>1. PICK f \in StagedFile : Alter(f)
      BY <2>1
    <3>2. PICK c \in Form[f] \cup {Foreign} : content' = [content EXCEPT ![f] = c]
      BY <3>1 DEF Alter
    <3>3. /\ altered' = altered \cup {f} /\ selection' = selection /\ recovery' = recovery
          /\ head' = head /\ journal' = journal
          /\ selectionLock' = selectionLock /\ journalLock' = journalLock
      BY <3>1 DEF Alter
    <3>4. \A g \in StagedFile : content'[g] \in Form[g] \cup {Foreign}
      BY <1>0, <3>2 DEF WorldIs
    <3>5. content' \in [StagedFile -> {Foreign} \cup UNION {Form[g] : g \in StagedFile}]
      <4>1. c \in {Foreign} \cup UNION {Form[g] : g \in StagedFile}
        OBVIOUS
      <4> QED BY <1>0, <3>2, <4>1 DEF WorldIs
    <3> QED BY <1>0, <1>1, <3>3, <3>4, <3>5 DEF WorldIs
  <2>2. CASE SwitchSlot
    BY <1>0, <1>1, <2>2 DEF SwitchSlot, WorldIs
  <2>3. CASE AdvanceJournal
    BY <1>0, <1>1, <2>3 DEF AdvanceJournal, WorldIs
  <2>4. CASE CommitHead
    BY <1>0, <1>1, <2>4, KindsAre DEF CommitHead, WorldIs
  <2>5. CASE RemoveDeadLocks
    BY <1>0, <1>1, <2>5 DEF RemoveDeadLocks, WorldIs, auditWorld
  <2> QED BY <2>1, <2>2, <2>3, <2>4, <2>5
<1>3. ASSUME NEW a \in Auditor, NEW u, AuditIs(u), LocksHeld(a, u)
      PROVE  AuditIs(u)' /\ LocksHeld(a, u)'
  <2>1. PlaceIs(u.kind, u.at, u.left)
    BY <1>3 DEF AuditIs
  <2>2. LocksHeld(a, u)'
    BY <1>3, <2>1, LocksKept
  <2>3. AuditIs(u)'
    <3>1. CASE SwitchSlot \/ AdvanceJournal \/ CommitHead \/ RemoveDeadLocks
      BY <1>0, <1>3, <3>1, AuditSwitched
    <3>2. CASE \E f \in StagedFile : Alter(f)
      BY <1>0, <1>3, <3>2, AuditAltered, FirstFiles
    <3> QED BY <3>1, <3>2
  <2> QED BY <2>2, <2>3
<1>4. AllAudits'
  BY <1>0, <1>1, <1>3 DEF AllAudits
<1>5. AllReports'
  BY <1>0, <1>1, ReportsStay
<1> QED BY <1>2, <1>4, <1>5 DEF AuditInv

LEMMA AuditInvInit ==
  ASSUME AuditAssumption, AuditInit
  PROVE  AuditInv
<1>1. WorldIs
  <2>1. /\ content \in [StagedFile -> {Foreign} \cup UNION {Form[f] : f \in StagedFile}]
        /\ \A f \in StagedFile : content[f] \in Form[f] \cup {Foreign}
    BY DEF AuditInit
  <2>2. /\ altered = {} /\ selection \in {1, 2} /\ recovery = FALSE /\ head = 1
        /\ journal = "candidate_verified" /\ selectionLock = NoAudit /\ journalLock = NoAudit
        /\ DOMAIN audits = Auditor /\ DOMAIN reports = Auditor
    BY DEF AuditInit
  <2>3. 1 \in 1..MaxHead
    BY KindsAre
  <2> QED BY <2>1, <2>2, <2>3 DEF WorldIs
<1>2. AllAudits /\ AllReports
  BY DEF AuditInit, AllAudits, AllReports
<1> QED BY <1>1, <1>2 DEF AuditInv

LEMMA AuditInvStep ==
  ASSUME AuditAssumption, AuditInv, [AuditNext]_auditVars
  PROVE  AuditInv'
<1>0. WorldIs /\ AllAudits /\ AllReports
  BY DEF AuditInv
<1>1. ASSUME NEW a \in Auditor, AuditStep(a) PROVE AuditInv'
  <2>1. CASE StartAudit(a)
    BY <2>1, StartStep
  <2>2. CASE BeginAgain(a)
    <3>1. reports' = reports
      BY <2>2 DEF BeginAgain
    <3> QED BY <1>0, <2>2, <3>1, AgainStep, ReportsStay DEF AuditInv
  <2>3. CASE LockSelection(a) \/ LockJournal(a)
    BY <1>0, <2>3, LockStep, ReportsStay DEF AuditInv
  <2>4. CASE \/ CheckRecovery(a) \/ CheckJournal(a) \/ CheckSelection(a) \/ QueryHead(a)
             \/ ProbeRuntime(a)
    BY <1>0, <2>4, LookSteps, ReportsStay DEF AuditInv
  <2>5. CASE UnlockBoth(a)
    <3>1. reports' = reports
      BY <2>5 DEF UnlockBoth
    <3> QED BY <1>0, <2>5, <3>1, UnlockStep, ReportsStay DEF AuditInv
  <2>6. CASE ReportAudit(a)
    BY <1>0, <2>6, ReportStep DEF AuditInv
  <2>7. CASE KillAudit(a)
    <3>1. reports' = reports
      BY <2>7 DEF KillAudit
    <3> QED BY <1>0, <2>7, <3>1, KillStep, ReportsStay DEF AuditInv
  <2>8. ASSUME NEW f \in StagedFile, ReadFile(a, f) PROVE AuditInv'
    <3>1. reports' = reports
      BY <2>8 DEF ReadFile
    <3> QED BY <1>0, <2>8, <3>1, ReadStep, ReportsStay DEF AuditInv
  <2> QED BY <1>1, <2>1, <2>2, <2>3, <2>4, <2>5, <2>6, <2>7, <2>8 DEF AuditStep
<1>2. CASE \/ SwitchSlot \/ AdvanceJournal \/ CommitHead \/ RemoveDeadLocks
           \/ \E f \in StagedFile : Alter(f)
  BY <1>2, OutsideStep
<1>3. CASE UNCHANGED auditVars
  <2>1. /\ UNCHANGED auditWorld /\ audits' = audits /\ reports' = reports
        /\ selectionLock' = selectionLock /\ journalLock' = journalLock
        /\ recovery' = recovery /\ journal' = journal
    BY <1>3 DEF auditVars, auditWorld
  <2>2. WorldIs'
    BY <1>0, <2>1 DEF WorldIs, auditWorld
  <2>3. ASSUME NEW a \in Auditor, NEW u, AuditIs(u), LocksHeld(a, u)
        PROVE  AuditIs(u)' /\ LocksHeld(a, u)'
    BY <2>1, <2>3, AuditStays, LocksStay
  <2>4. AllAudits'
    BY <1>0, <2>1, <2>3 DEF AllAudits
  <2> QED BY <1>0, <2>1, <2>2, <2>4, ReportsStay DEF AuditInv
<1> QED BY <1>1, <1>2, <1>3 DEF AuditNext

LEMMA AuditAlways == SupplySpec => []AuditInv
<1>1. AuditAssumption
  BY AuditAssumption
<1>2. SupplyInit => AuditInv
  BY <1>1, AuditAlone, AuditInvInit
<1>3. AuditInv /\ [SupplyNext]_supplyVars => AuditInv'
  BY <1>1, AuditAlone, AuditInvStep
<1> QED BY <1>2, <1>3, PTL DEF SupplySpec

LEMMA AuditInvMeans ==
  ASSUME AuditAssumption, AuditInv
  PROVE  ReportedAtOneMoment /\ ReportedInItsPlace
<1>1. ASSUME NEW a \in Auditor, reports[a] # NoAudit
      PROVE  \E r : r = reports[a] /\ ReportIs(r)
  BY <1>1 DEF AuditInv, AllReports
<1>2. ReportedAtOneMoment
  BY <1>1, KindsAre DEF ReportIs, ReportedAtOneMoment
<1>3. ReportedInItsPlace
  BY <1>1 DEF ReportIs, ReportedInItsPlace, LockKinds
<1> QED BY <1>2, <1>3

LEMMA AuditTyped ==
  ASSUME AuditAssumption, AuditInv
  PROVE  AuditTypeOK
<1>1. ASSUME NEW a \in Auditor, Running(a)
      PROVE  /\ audits[a].kind \in AuditKind
             /\ audits[a].at \in 1..Len(Program(audits[a].kind)) + 1
             /\ DOMAIN audits[a].seen \subseteq StagedFile
             /\ Doing(a, "read") => audits[a].left # {}
  <2>1. PICK u : u = audits[a] /\ AuditIs(u)
    BY <1>1 DEF AuditInv, AllAudits, Running
  <2>2. PlaceIs(u.kind, u.at, u.left) /\ SeenIs(u.kind, u.at, u.left, u.seen)
    BY <2>1 DEF AuditIs
  <2>3. u.kind \in AuditKind /\ u.kind \in Kinds /\ u.at \in 1..Len(Program(u.kind)) + 1
    BY <2>2 DEF PlaceIs
  <2>4. DOMAIN u.seen \subseteq StagedFile
    BY <2>2, <2>3, FirstFiles DEF SeenIs
  <2>5. Doing(a, "read") => u.left # {}
    BY <2>1, <2>2, DoingIs DEF PlaceIs
  <2> QED BY <2>1, <2>3, <2>4, <2>5
<1> QED BY <1>1 DEF AuditTypeOK, AuditInv, WorldIs

-----------------------------------------------------------------------------
(* The closure over the requirements, and why it stands without recursion. *)

\* What holds of zero and of the next one holds of every number up to a bound.
LEMMA UpTo ==
  ASSUME NEW m \in Nat, NEW T, 0 \in T, \A n \in Nat : n < m /\ n \in T => n + 1 \in T
  PROVE  \A n \in 0..m : n \in T
<1> SUFFICES ASSUME NEW n \in 0..m, n \notin T PROVE FALSE
  OBVIOUS
<1> DEFINE B == {i \in Nat : i <= m /\ i \notin T}
<1>1. B \in SUBSET Nat /\ B # {}
  OBVIOUS
<1>2. PICK k \in B : \A j \in B : ~(<<j, k>> \in OpToRel(<, Nat))
  <2>1. IsWellFoundedOn(OpToRel(<, Nat), Nat)
    BY NatLessThanWellFounded
  <2> HIDE DEF B
  <2> QED BY <1>1, <2>1, WFMin
<1>3. \A j \in B : ~(j < k)
  BY <1>1, <1>2 DEF OpToRel
<1>4. k # 0 /\ k - 1 \in Nat /\ k - 1 < m /\ k - 1 < k /\ (k - 1) + 1 = k
  OBVIOUS
<1>5. k - 1 \in T
  BY <1>3, <1>4
<1> QED BY <1>4, <1>5

Grown(c, s) == s \cup UNION {c.requires[w] : w \in s \cap c.wheels}

Grows(c, f, m) == f = [n \in 0..m |-> IF n = 0 THEN c.roots ELSE Grown(c, f[n - 1])]

LEMMA GrowsOn ==
  ASSUME NEW c, NEW m \in Nat, NEW f, Grows(c, f, m)
  PROVE  \E g : Grows(c, g, m + 1)
<1> DEFINE g == [n \in 0..m + 1 |-> IF n = m + 1 THEN Grown(c, f[m]) ELSE f[n]]
<1> HIDE DEF Grown
<1>1. \A n \in 0..m : f[n] = IF n = 0 THEN c.roots ELSE Grown(c, f[n - 1])
  BY DEF Grows
<1>2. /\ g[m + 1] = Grown(c, f[m])
      /\ \A n \in 0..m : g[n] = f[n]
  OBVIOUS
<1>3. ASSUME NEW n \in 0..m + 1 PROVE g[n] = IF n = 0 THEN c.roots ELSE Grown(c, g[n - 1])
  <2>1. CASE n = m + 1
    BY <1>2, <2>1
  <2>2. CASE n \in 0..m /\ n = 0
    BY <1>1, <1>2, <2>2
  <2>3. CASE n \in 0..m /\ n # 0
    <3>1. n - 1 \in 0..m
      BY <2>3
    <3> HIDE DEF g
    <3> QED BY <1>1, <1>2, <2>3, <3>1
  <2> QED BY <2>1, <2>2, <2>3
<1>4. g = [n \in 0..m + 1 |-> g[n]]
  OBVIOUS
<1> HIDE DEF g
<1>5. g = [n \in 0..m + 1 |-> IF n = 0 THEN c.roots ELSE Grown(c, g[n - 1])]
  BY <1>3, <1>4
<1> QED BY <1>5 DEF Grows

LEMMA GrowsFar ==
  ASSUME NEW c, NEW m \in Nat
  PROVE  \E f : Grows(c, f, m)
<1> DEFINE T == {n \in Nat : \E f : Grows(c, f, n)}
<1>1. 0 \in T
  <2> DEFINE f == [n \in 0..0 |-> c.roots]
  <2>1. f = [n \in 0..0 |-> IF n = 0 THEN c.roots ELSE Grown(c, f[n - 1])]
    <3> HIDE DEF Grown
    <3>1. \A n \in 0..0 : c.roots = IF n = 0 THEN c.roots ELSE Grown(c, f[n - 1])
      OBVIOUS
    <3> QED BY <3>1
  <2>2. Grows(c, f, 0)
    BY <2>1 DEF Grows
  <2> QED BY <2>2
<1>2. \A n \in Nat : n < m /\ n \in T => n + 1 \in T
  BY GrowsOn
<1> HIDE DEF T
<1>3. m \in T
  BY <1>1, <1>2, UpTo
<1> QED BY <1>3 DEF T

\* What is reached after each step, and in the end.
LEMMA ReachedIs ==
  ASSUME NEW c, Cardinality(c.wheels) \in Nat
  PROVE  \E f : /\ f[0] = c.roots
                /\ \A n \in Nat : n < Cardinality(c.wheels) => f[n + 1] = Grown(c, f[n])
                /\ Reached(c) = f[Cardinality(c.wheels)]
<1> DEFINE m == Cardinality(c.wheels)
           after == CHOOSE f : Grows(c, f, m)
<1>1. m \in Nat
  OBVIOUS
<1>2. Grows(c, after, m)
  <2> HIDE DEF m
  <2> QED BY <1>1, GrowsFar
<1>3. Reached(c) = after[m]
  BY DEF Reached, Grows, Grown
<1> HIDE DEF after, m
<1>4. \A n \in 0..m : after[n] = IF n = 0 THEN c.roots ELSE Grown(c, after[n - 1])
  BY <1>2 DEF Grows
<1>5. after[0] = c.roots
  BY <1>1, <1>4
<1>6. ASSUME NEW n \in Nat, n < m PROVE after[n + 1] = Grown(c, after[n])
  <2>1. n + 1 \in 0..m /\ n + 1 # 0 /\ (n + 1) - 1 = n
    BY <1>1, <1>6
  <2> HIDE DEF Grown
  <2> QED BY <1>4, <2>1
<1> QED BY <1>3, <1>5, <1>6 DEF m

\* No requirement leads out of a set of wheels.
Within(c, s) == UNION {c.requires[w] : w \in s \cap c.wheels} \subseteq s

LEMMA ReachedIsClosed ==
  ASSUME NEW c, IsFiniteSet(c.wheels), ExactlyClosed(c)
  PROVE  /\ c.roots \subseteq c.wheels /\ Within(c, c.wheels)
         /\ \A s : c.roots \subseteq s /\ Within(c, s) => c.wheels \subseteq s
<1> DEFINE m == Cardinality(c.wheels)
<1>1. m \in Nat
  BY FS_CardinalityType
<1>2. PICK f : /\ f[0] = c.roots
               /\ \A n \in Nat : n < m => f[n + 1] = Grown(c, f[n])
               /\ c.wheels = f[m]
  BY <1>1, ReachedIs DEF ExactlyClosed
<1>3. ASSUME NEW s, c.roots \subseteq s, Within(c, s) PROVE c.wheels \subseteq s
  <2> DEFINE T == {n \in Nat : f[n] \subseteq s}
  <2>1. 0 \in T
    BY <1>2, <1>3
  <2>2. ASSUME NEW n \in Nat, n < m, n \in T PROVE n + 1 \in T
    BY <1>2, <1>3, <2>2 DEF Grown, Within
  <2> HIDE DEF T, m
  <2>3. m \in T
    BY <1>1, <2>1, <2>2, UpTo
  <2> QED BY <1>2, <2>3 DEF T
<1>4. \A n \in 0..m : f[n] \subseteq c.wheels
  <2> DEFINE T == {n \in Nat : \A i \in Nat : i <= n => f[i] \subseteq f[n]}
  <2>1. 0 \in T
    OBVIOUS
  <2>2. ASSUME NEW n \in Nat, n < m, n \in T PROVE n + 1 \in T
    <3>1. f[n] \subseteq f[n + 1]
      BY <1>2, <2>2 DEF Grown
    <3>2. \A i \in Nat : i <= n + 1 => i <= n \/ i = n + 1
      OBVIOUS
    <3> QED BY <2>2, <3>1, <3>2
  <2> HIDE DEF T, m
  <2>3. m \in T
    BY <1>1, <2>1, <2>2, UpTo
  <2>4. \A i \in 0..m : i \in Nat /\ i <= m
    BY <1>1
  <2> QED BY <1>2, <2>3, <2>4 DEF T
<1>5. Within(c, c.wheels)
  <2> DEFINE T == {n \in Nat : n <= m => (Within(c, f[n]) \/ Cardinality(f[n]) > n)}
  <2>1. 0 \in T
    <3>1. CASE f[0] = {}
      BY <3>1 DEF Within
    <3>2. CASE f[0] # {}
      <4>1. IsFiniteSet(f[0])
        <5>1. f[0] \subseteq c.wheels
          BY <1>1, <1>4
        <5> QED BY <5>1, FS_Subset
      <4>2. Cardinality(f[0]) \in Nat /\ Cardinality(f[0]) # 0
        BY <3>2, <4>1, FS_CardinalityType, FS_EmptySet
      <4>3. Cardinality(f[0]) > 0
        BY <4>2
      <4> QED BY <4>3
    <3> QED BY <3>1, <3>2
  <2>2. ASSUME NEW n \in Nat, n < m, n \in T PROVE n + 1 \in T
    <3>1. f[n + 1] = Grown(c, f[n])
      BY <1>2, <2>2
    <3>2. CASE Within(c, f[n])
      <4>1. f[n + 1] = f[n]
        BY <3>1, <3>2 DEF Grown, Within
      <4>2. Within(c, f[n + 1])
        BY <3>2, <4>1
      <4> QED BY <4>2
    <3>3. CASE ~Within(c, f[n])
      <4>1. n \in 0..m /\ n + 1 \in 0..m /\ n <= m
        BY <1>1, <2>2
      <4>2. Cardinality(f[n]) > n
        BY <2>2, <3>3, <4>1
      <4>3. IsFiniteSet(f[n + 1])
        BY <1>4, <4>1, FS_Subset
      <4>4. f[n] \subseteq f[n + 1] /\ f[n] # f[n + 1]
        BY <3>1, <3>3 DEF Grown, Within
      <4>5. /\ Cardinality(f[n]) < Cardinality(f[n + 1])
            /\ Cardinality(f[n]) \in Nat /\ Cardinality(f[n + 1]) \in Nat
        <5>1. IsFiniteSet(f[n])
          BY <1>4, <4>1, FS_Subset
        <5>2. Cardinality(f[n]) \in Nat /\ Cardinality(f[n + 1]) \in Nat
          BY <4>3, <5>1, FS_CardinalityType
        <5>3. /\ Cardinality(f[n]) <= Cardinality(f[n + 1])
              /\ Cardinality(f[n]) = Cardinality(f[n + 1]) => f[n] = f[n + 1]
          BY <4>3, <4>4, FS_Subset
        <5> QED BY <4>4, <5>2, <5>3
      <4>6. Cardinality(f[n + 1]) > n + 1
        <5> DEFINE p == Cardinality(f[n])
                   q == Cardinality(f[n + 1])
        <5>1. p > n /\ p < q /\ p \in Nat /\ q \in Nat
          BY <4>2, <4>5
        <5> HIDE DEF p, q
        <5>2. q > n + 1
          BY <5>1
        <5> QED BY <5>2 DEF q
      <4> QED BY <4>6
    <3> QED BY <3>2, <3>3
  <2> HIDE DEF T
  <2>3. m \in T
    <3> HIDE DEF m
    <3> QED BY <1>1, <2>1, <2>2, UpTo
  <2>4. Within(c, f[m]) \/ Cardinality(f[m]) > m
    BY <1>1, <2>3 DEF T
  <2> QED BY <1>1, <1>2, <2>4
<1>6. c.roots \subseteq c.wheels
  BY <1>1, <1>2, <1>4
<1> QED BY <1>3, <1>5, <1>6

\* No smaller set of wheels is closed under what the record says, and each that
\* is registered has its publisher's envelope.
LEMMA VouchedFor ==
  ASSUME AuditAssumption, NEW r, ReportIs(r), r.kind \notin {"acceptance", "contracts"}
  PROVE  LET c == r.composition
             ClosedUnder(wheels) == \A e \in c.edges : e[1] \in wheels => e[2] \in wheels
         IN /\ ClosedUnder(c.locked)
            /\ \A s \in SUBSET c.locked : c.roots \subseteq s /\ ClosedUnder(s) => s = c.locked
            /\ \A w \in c.locked : w \in c.registered => w \in c.envelopes \ c.revoked
<1> DEFINE c == r.composition
           ClosedUnder(wheels) == \A e \in c.edges : e[1] \in wheels => e[2] \in wheels
<1>1. c \in Composition /\ Coherent(c, r.kind)
  BY DEF ReportIs
<1>2. /\ c.wheels = c.locked /\ ExactlyClosed(c) /\ RecordMatches(c) /\ PublisherBound(c)
      /\ IsFiniteSet(c.wheels)
  BY <1>1 DEF Coherent, LockMatches, AuditAssumption
<1> HIDE DEF c
<1>3. \A s \in SUBSET c.wheels : ClosedUnder(s) <=> Within(c, s)
  <2>1. c.edges = UNION {{<<w, q>> : q \in c.requires[w]} : w \in c.wheels}
    BY <1>2 DEF RecordMatches
  <2>2. ASSUME NEW s \in SUBSET c.wheels, ClosedUnder(s) PROVE Within(c, s)
    <3> SUFFICES ASSUME NEW w \in s, NEW q \in c.requires[w] PROVE q \in s
      BY DEF Within
    <3>1. <<w, q>> \in c.edges
      BY <2>1
    <3>2. <<w, q>>[1] = w /\ <<w, q>>[2] = q
      OBVIOUS
    <3> QED BY <2>2, <3>1, <3>2
  <2>3. ASSUME NEW s \in SUBSET c.wheels, Within(c, s), NEW e \in c.edges, e[1] \in s PROVE e[2] \in s
    <3>0. PICK w \in c.wheels : \E q \in c.requires[w] : e = <<w, q>>
      BY <2>1
    <3>1. PICK q \in c.requires[w] : e = <<w, q>>
      BY <3>0
    <3>2. e[1] = w /\ e[2] = q
      BY <3>1
    <3> QED BY <2>3, <3>2 DEF Within
  <2> QED BY <2>2, <2>3
<1>4. /\ Within(c, c.wheels)
      /\ \A s : c.roots \subseteq s /\ Within(c, s) => c.wheels \subseteq s
  BY <1>2, ReachedIsClosed
<1>5. ClosedUnder(c.locked)
  BY <1>2, <1>3, <1>4
<1>6. ASSUME NEW s \in SUBSET c.locked, c.roots \subseteq s, ClosedUnder(s) PROVE s = c.locked
  <2>1. Within(c, s)
    BY <1>2, <1>3, <1>6
  <2> QED BY <1>2, <1>4, <1>6, <2>1
<1>7. \A w \in c.locked : w \in c.registered => w \in c.envelopes \ c.revoked
  BY <1>2 DEF PublisherBound
<1> QED BY <1>5, <1>6, <1>7 DEF c

LEMMA EveryPackageIsVouchedFor ==
  ASSUME AuditAssumption, AuditInv
  PROVE  EveryPackageVouchedFor
<1> SUFFICES ASSUME NEW a \in Auditor, reports[a] # NoAudit,
                    reports[a].kind \notin {"acceptance", "contracts"}
             PROVE  LET c == reports[a].composition
                        ClosedUnder(wheels) == \A e \in c.edges : e[1] \in wheels => e[2] \in wheels
                    IN /\ ClosedUnder(c.locked)
                       /\ \A s \in SUBSET c.locked : c.roots \subseteq s /\ ClosedUnder(s) => s = c.locked
                       /\ \A w \in c.locked : w \in c.registered => w \in c.envelopes \ c.revoked
  BY DEF EveryPackageVouchedFor
<1>1. PICK r : r = reports[a] /\ ReportIs(r)
  BY DEF AuditInv, AllReports
<1> QED BY <1>1, VouchedFor

\* Whoever writes to the files of the stage meanwhile, switches the slot, goes on with
\* the update or is killed: what an audit reports was the whole candidate at one moment
\* between its observations, in its place, and every package in it is one that a root
\* needs and that its registered publisher vouched for.
THEOREM AuditSound == SupplySpec => []AuditStands
<1>1. AuditAssumption
  BY AuditAssumption
<1>2. AuditInv => AuditStands
  BY <1>1, AuditInvMeans, EveryPackageIsVouchedFor DEF AuditStands
<1> QED BY <1>2, AuditAlways, PTL

-----------------------------------------------------------------------------
(* The preparation of a plan: its inductive invariant.                     *)

DraftRecord ==
  [transaction : Candidate, previous : SomeSlot, successor : SomeSlot, revision : Nat]

FilesAre ==
  /\ bytes \in [Place -> [site : {"absent", "partial", "planned", "other"},
                          native : {"absent", "built", "other"}, wheels : {"planned", "other"}]]
  /\ installers \in [Place -> SUBSET Preparer]
  /\ pointer \in SomeSlot
  /\ capsule = Nobody \/ capsule \in [previous : SomeSlot, candidate : SomeSlot]
  /\ DOMAIN record = Candidate
  /\ \A t \in Candidate : record[t] = Nobody \/ record[t] \in JournalRecord
  /\ selectionHeld \in Preparer \cup {Nobody, "dead"}
  /\ witnessHead \in [slot : SomeSlot, revision : Nat]
  /\ drafts \subseteq DraftRecord
  /\ DOMAIN preparers = Preparer

\* A stage is nobody's until it is made, and what has a journal was filled.
StagesAre ==
  /\ \A t \in Candidate :
       /\ installers[t] = {} \/ \E p \in Preparer : installers[t] = {p}
       /\ bytes[t].site = "absent" => installers[t] = {}
       /\ record[t] # Nobody => bytes[t].site \notin {"absent", "partial"}
  /\ capsule # Nobody =>
       capsule.candidate.transaction \in Candidate /\ record[capsule.candidate.transaction] # Nobody

\* A program that has made its stage, and what it would put in the pointer's place.
Made(u) == u.held >= RequestNative \/ u.at \in {"made", "filled"}
Next1(u) == [transaction |-> u.transaction, generation |-> u.baseline.slot.generation + 1]

LockedAt == {"locked", "made", "filled", "asked", "capsule"}

\* What a program has made is its own, and was drafted by nobody yet.
OwnIs(p, u) ==
  /\ u.at \in {"made", "filled"} => u.held = Install
  /\ u.at = "written" => u.held \in {RecordIntent, Arm, Select}
  /\ u.held >= RequestNative => bytes[u.transaction].site \notin {"absent", "partial"}
  /\ u.held >= RecordIntent => u.native = "built"
  /\ Made(u) => installers[u.transaction] = {p}
  /\ Made(u) /\ u.held <= Draft => \A d \in drafts : d.transaction # u.transaction

\* Under the lock, the selection stays what the plan was made for.
LockIs(p, u) ==
  /\ u.at \in LockedAt => selectionHeld = p
  /\ u.held \in {Arm, Select} /\ u.at \in {"locked", "asked"} =>
       capsule = Nobody /\ pointer = u.baseline.slot
  /\ u.held \in {Arm, Select} /\ u.at = "asked" => witnessHead.slot = u.baseline.slot
  /\ u.at = "capsule" =>
       /\ u.held = Select
       /\ capsule = [previous |-> u.baseline.slot, candidate |-> Next1(u)]
       /\ pointer = u.baseline.slot /\ witnessHead.slot = u.baseline.slot
       /\ record[u.transaction] =
            [revision |-> 2, previous |-> u.baseline.slot, evidence |-> u.native]

PreparerIs(p, u) ==
  /\ u \in PreparerRecord /\ u.revision <= witnessHead.revision
  /\ OwnIs(p, u) /\ LockIs(p, u)

DraftIs(d) ==
  /\ record[d.transaction] # Nobody
  /\ d.successor = [transaction |-> d.transaction, generation |-> d.previous.generation + 1]
  /\ d.revision <= witnessHead.revision
  /\ d.previous = witnessHead.slot /\ d.revision = witnessHead.revision =>
       \/ capsule = [previous |-> d.previous, candidate |-> d.successor] /\ pointer = d.successor
       \/ record[d.transaction].revision = 3

AllPreparers ==
  \A p \in Preparer : preparers[p] = Nobody \/ \E u : u = preparers[p] /\ PreparerIs(p, u)

AllDrafts == \A d \in drafts : DraftIs(d)

PreparationInv == FilesAre /\ StagesAre /\ AllPreparers /\ AllDrafts

LEMMA PreparationAlone ==
  /\ SupplyInit => PreparationInit
  /\ [SupplyNext]_supplyVars => [PreparationNext]_preparationVars
BY DEF SupplyInit, SupplyNext, supplyVars, Releases, Compositions, Preparations, Audits, Evidence

LEMMA PlaceSlots ==
  ASSUME PreparationAssumption
  PROVE  /\ Nobody \notin Preparer /\ "dead" \notin Preparer /\ Nobody # "dead"
         /\ Base \notin Candidate /\ IsFiniteSet(Candidate) /\ Nobody \notin JournalRecord
         /\ Nobody \notin PreparerRecord
BY DEF PreparationAssumption

WhereAt ==
  {"idle", "locked", "made", "filled", "measured", "looked", "sure", "written", "asked",
   "capsule", "drafted"}

\* A program has moved on, with another result or another revision in hand.
LEMMA MovedIs ==
  ASSUME NEW u \in PreparerRecord, NEW where \in WhereAt, NEW v, v = [u EXCEPT !.at = where]
  PROVE  /\ v \in PreparerRecord /\ v.at = where /\ v.held = u.held /\ v.native = u.native
         /\ v.transaction = u.transaction /\ v.baseline = u.baseline /\ v.revision = u.revision
BY DEF PreparerRecord, WhereAt

LEMMA ResultIs ==
  ASSUME NEW u \in PreparerRecord, u.held # 7, NEW v, v = [u EXCEPT !.at = "idle", !.held = @ + 1]
  PROVE  /\ v \in PreparerRecord /\ v.at = "idle" /\ v.held = u.held + 1 /\ v.native = u.native
         /\ v.transaction = u.transaction /\ v.baseline = u.baseline /\ v.revision = u.revision
<1>1. u.held \in 0..7
  BY DEF PreparerRecord
<1>2. PICK n : n = u.held + 1 /\ n \in 0..7
  BY <1>1
<1>3. v = [u EXCEPT !.at = "idle", !.held = n]
  BY <1>2
<1>4. /\ v \in PreparerRecord /\ v.at = "idle" /\ v.held = n /\ v.native = u.native
      /\ v.transaction = u.transaction /\ v.baseline = u.baseline /\ v.revision = u.revision
  BY <1>2, <1>3 DEF PreparerRecord
<1> QED BY <1>2, <1>4

LEMMA MeasuredIs ==
  ASSUME NEW u \in PreparerRecord, NEW n \in {"absent", "built", "other"}, NEW v,
         v = [u EXCEPT !.at = "measured", !.native = n]
  PROVE  /\ v \in PreparerRecord /\ v.at = "measured" /\ v.held = u.held
         /\ v.transaction = u.transaction /\ v.baseline = u.baseline /\ v.revision = u.revision
BY DEF PreparerRecord

LEMMA PreparerHas ==
  ASSUME PreparationInv, NEW p \in Preparer, preparers[p] # Nobody
  PROVE  PreparerIs(p, preparers[p])
BY DEF PreparationInv, AllPreparers

-----------------------------------------------------------------------------
(* A step does not disturb what another program counts on.                 *)

Watching(u) == u.at = "capsule" \/ (u.held \in {Arm, Select} /\ u.at \in {"locked", "asked"})

Undisturbed(q, w) ==
  /\ bytes[w.transaction].site \notin {"absent", "partial"} =>
       bytes'[w.transaction].site \notin {"absent", "partial"}
  /\ installers[w.transaction] = {q} => installers'[w.transaction] = {q}
  /\ Made(w) /\ w.held <= Draft => \A d \in drafts' \ drafts : d.transaction # w.transaction
  /\ witnessHead.revision <= witnessHead'.revision
  /\ selectionHeld = q => selectionHeld' = q
  /\ Watching(w) /\ selectionHeld = q =>
       /\ capsule' = capsule /\ pointer' = pointer /\ witnessHead'.slot = witnessHead.slot
       /\ record[w.transaction] # Nobody => record'[w.transaction] = record[w.transaction]

LEMMA UndisturbedStays ==
  ASSUME PreparationAssumption, FilesAre, FilesAre', NEW q \in Preparer, NEW w, PreparerIs(q, w),
         Undisturbed(q, w)
  PROVE  PreparerIs(q, w)'
<1>1. w \in PreparerRecord /\ w.revision \in Nat
  BY DEF PreparerIs, PreparerRecord
<1>2. w.revision <= witnessHead'.revision
  <2>1. witnessHead.revision \in Nat /\ witnessHead'.revision \in Nat
    BY DEF FilesAre
  <2>2. w.revision <= witnessHead.revision /\ witnessHead.revision <= witnessHead'.revision
    BY DEF PreparerIs, Undisturbed
  <2> QED BY <1>1, <2>1, <2>2
<1>3. OwnIs(q, w)'
  <2>1. OwnIs(q, w)
    BY DEF PreparerIs
  <2>2. Made(w) /\ w.held <= Draft => \A d \in drafts' : d.transaction # w.transaction
    BY <2>1 DEF OwnIs, Undisturbed
  <2> QED BY <2>1, <2>2 DEF OwnIs, Undisturbed, Made
<1>4. LockIs(q, w)'
  <2>1. LockIs(q, w)
    BY DEF PreparerIs
  <2>2. w.at \in LockedAt => selectionHeld = q /\ selectionHeld' = q
    BY <2>1 DEF LockIs, Undisturbed
  <2>3. ASSUME Watching(w)
        PROVE  /\ capsule' = capsule /\ pointer' = pointer /\ witnessHead'.slot = witnessHead.slot
               /\ record[w.transaction] # Nobody => record'[w.transaction] = record[w.transaction]
    <3>1. selectionHeld = q
      BY <2>2, <2>3 DEF Watching, LockedAt
    <3> QED BY <2>3, <3>1 DEF Undisturbed
  <2>4. ASSUME w.at = "capsule"
        PROVE  record'[w.transaction] =
                 [revision |-> 2, previous |-> w.baseline.slot, evidence |-> w.native]
    <3>1. record[w.transaction] =
            [revision |-> 2, previous |-> w.baseline.slot, evidence |-> w.native]
      BY <2>1, <2>4 DEF LockIs
    <3>2. w.held = Select /\ w.native = "built" /\ w.baseline.slot \in SomeSlot
      BY <1>1, <2>1, <2>4 DEF LockIs, PreparerIs, OwnIs, PreparerRecord, Select, RecordIntent
    <3>3. record[w.transaction] \in JournalRecord
      BY <3>1, <3>2 DEF JournalRecord
    <3> QED BY <2>3, <2>4, <3>1, <3>3, PlaceSlots DEF Watching
  <2> QED BY <2>1, <2>2, <2>3, <2>4 DEF LockIs, Watching, Next1
<1> QED BY <1>1, <1>2, <1>3, <1>4 DEF PreparerIs

\* One program has taken a step.
LEMMA OnePreparer ==
  ASSUME PreparationAssumption, PreparationInv, FilesAre', NEW p \in Preparer, NEW v,
         preparers' = [preparers EXCEPT ![p] = v], v # Nobody => PreparerIs(p, v)',
         \A q \in Preparer : \A w : q # p /\ PreparerIs(q, w) => Undisturbed(q, w)
  PROVE  AllPreparers'
<1> SUFFICES ASSUME NEW q \in Preparer, NEW w, w = preparers'[q], w # Nobody
             PROVE  PreparerIs(q, w)'
  BY DEF AllPreparers
<1>1. CASE q = p
  BY <1>1 DEF PreparationInv, FilesAre
<1>2. CASE q # p
  <2>1. w = preparers[q]
    BY <1>2 DEF PreparationInv, FilesAre
  <2>2. PreparerIs(q, w)
    BY <2>1, PreparerHas
  <2> QED BY <1>2, <2>2, UndisturbedStays DEF PreparationInv
<1> QED BY <1>1, <1>2

\* The world has taken a step, or a program one that its record does not tell.
LEMMA NobodyMoved ==
  ASSUME PreparationAssumption, PreparationInv, FilesAre', preparers' = preparers,
         \A q \in Preparer : \A w : w = preparers[q] /\ PreparerIs(q, w) =>
           Undisturbed(q, w) \/ PreparerIs(q, w)'
  PROVE  AllPreparers'
<1> SUFFICES ASSUME NEW q \in Preparer, NEW w, w = preparers'[q], w # Nobody
             PROVE  PreparerIs(q, w)'
  BY DEF AllPreparers
<1>1. w = preparers[q]
  OBVIOUS
<1>2. PreparerIs(q, w)
  BY <1>1, PreparerHas
<1> QED BY <1>1, <1>2, UndisturbedStays DEF PreparationInv

Quiet ==
  /\ bytes' = bytes /\ installers' = installers /\ pointer' = pointer /\ capsule' = capsule
  /\ record' = record /\ witnessHead' = witnessHead /\ drafts' = drafts

\* A step that changes no file but the lock.
LEMMA QuietStep ==
  ASSUME PreparationAssumption, PreparationInv, Quiet, NEW p \in Preparer, NEW v,
         preparers' = [preparers EXCEPT ![p] = v], v # Nobody => PreparerIs(p, v)',
         selectionHeld' \in Preparer \cup {Nobody, "dead"},
         \A q \in Preparer : q # p /\ selectionHeld = q => selectionHeld' = q
  PROVE  PreparationInv'
<1>1. FilesAre'
  BY DEF PreparationInv, FilesAre, Quiet
<1>2. StagesAre'
  BY DEF PreparationInv, StagesAre, Quiet
<1>3. AllDrafts'
  BY DEF PreparationInv, AllDrafts, DraftIs, Quiet
<1>4. ASSUME NEW q \in Preparer, NEW w, q # p PROVE Undisturbed(q, w)
  <2>1. witnessHead.revision <= witnessHead.revision
    BY DEF PreparationInv, FilesAre
  <2> QED BY <1>4, <2>1 DEF Undisturbed, Quiet
<1>5. AllPreparers'
  BY <1>1, <1>4, OnePreparer
<1> QED BY <1>1, <1>2, <1>3, <1>5 DEF PreparationInv

LEMMA CallNumbers ==
  /\ Install = 0 /\ RequestNative = 1 /\ SignNative = 2 /\ RecordIntent = 3 /\ Arm = 4
  /\ Select = 5 /\ Draft = 6
BY DEF Install, RequestNative, SignNative, RecordIntent, Arm, Select, Draft

\* Who holds no lock is asked nothing about it.
LEMMA Unlocked ==
  ASSUME NEW p, NEW v, v.at \notin LockedAt
  PROVE  LockIs(p, v)'
BY DEF LockIs, LockedAt

\* What a program has made stays its own when it has more results in hand.
LEMMA OwnStays ==
  ASSUME NEW p, NEW u \in PreparerRecord, NEW v \in PreparerRecord, OwnIs(p, u),
         v.transaction = u.transaction, u.held <= v.held,
         v.held >= RequestNative => Made(u) /\ bytes[u.transaction].site \notin {"absent", "partial"},
         v.held >= RecordIntent => v.native = "built",
         v.at \notin {"made", "filled"},
         v.at = "written" => v.held \in {RecordIntent, Arm, Select}
  PROVE  OwnIs(p, v)
<1>1. u.held \in 0..7 /\ v.held \in 0..7
  BY DEF PreparerRecord
<1>2. Made(v) => Made(u) /\ v.held >= RequestNative
  BY DEF Made
<1>3. v.held <= Draft => u.held <= Draft
  BY <1>1, CallNumbers
<1> QED BY <1>2, <1>3 DEF OwnIs

LEMMA OwnMoved ==
  ASSUME NEW p, NEW u \in PreparerRecord, NEW v \in PreparerRecord, OwnIs(p, u),
         v.transaction = u.transaction, v.held = u.held, v.native = u.native,
         v.at \notin {"made", "filled"},
         v.at = "written" => v.held \in {RecordIntent, Arm, Select}
  PROVE  OwnIs(p, v)
<1>1. u.held <= v.held
  BY DEF PreparerRecord
<1>2. v.held >= RequestNative => Made(u) /\ bytes[u.transaction].site \notin {"absent", "partial"}
  BY DEF Made, OwnIs
<1> QED BY <1>1, <1>2, OwnStays DEF OwnIs

\* A quiet step of one program, from the record that it had to the one it has.
LEMMA QuietMove ==
  ASSUME PreparationAssumption, PreparationInv, Quiet, NEW p \in Preparer,
         NEW v \in PreparerRecord, preparers' = [preparers EXCEPT ![p] = v],
         v.revision <= witnessHead.revision, OwnIs(p, v), LockIs(p, v)',
         selectionHeld' \in {selectionHeld, p, Nobody},
         \A q \in Preparer : q # p /\ selectionHeld = q => selectionHeld' = q
  PROVE  PreparationInv'
<1>1. PreparerIs(p, v)'
  BY DEF PreparerIs, OwnIs, Quiet
<1>2. selectionHeld' \in Preparer \cup {Nobody, "dead"}
  BY DEF PreparationInv, FilesAre
<1> QED BY <1>1, <1>2, QuietStep

LEMMA RaiseStep ==
  ASSUME PreparationAssumption, PreparationInv, NEW p \in Preparer, Raise(p)
  PROVE  PreparationInv'
<1>1. PICK u : u = preparers[p] /\ PreparerIs(p, u)
  BY PreparerHas DEF Raise
<1>2. PICK v : v = [u EXCEPT !.at = "idle"]
  OBVIOUS
<1>3. preparers' = [preparers EXCEPT ![p] = v] /\ Quiet
  BY <1>1, <1>2 DEF Raise, Proceed, Quiet, preparationFiles
<1>4. u \in PreparerRecord /\ u.revision <= witnessHead.revision /\ OwnIs(p, u)
  BY <1>1 DEF PreparerIs
<1>5. /\ v \in PreparerRecord /\ v.at = "idle" /\ v.held = u.held /\ v.native = u.native
      /\ v.transaction = u.transaction /\ v.revision = u.revision
  BY <1>2, <1>4, MovedIs DEF WhereAt
<1>6. OwnIs(p, v)
  BY <1>4, <1>5, OwnMoved
<1>7. LockIs(p, v)'
  BY <1>5, Unlocked DEF LockedAt
<1>8. /\ selectionHeld' \in {selectionHeld, p, Nobody}
      /\ \A q \in Preparer : q # p /\ selectionHeld = q => selectionHeld' = q
  BY DEF Raise, Release
<1> QED BY <1>3, <1>4, <1>5, <1>6, <1>7, <1>8, QuietMove

LEMMA KillPreparerStep ==
  ASSUME PreparationAssumption, PreparationInv, NEW p \in Preparer, KillPreparer(p)
  PROVE  PreparationInv'
<1>1. preparers' = [preparers EXCEPT ![p] = Nobody] /\ Quiet
  BY DEF KillPreparer, Quiet, preparationFiles
<1>2. /\ selectionHeld' \in Preparer \cup {Nobody, "dead"}
      /\ \A q \in Preparer : q # p /\ selectionHeld = q => selectionHeld' = q
  BY DEF KillPreparer, PreparationInv, FilesAre
<1>3. PICK v : v = Nobody
  OBVIOUS
<1> QED BY <1>1, <1>2, <1>3, QuietStep

LEMMA BeginPlanStep ==
  ASSUME PreparationAssumption, PreparationInv, NEW p \in Preparer, NEW t \in Candidate,
         BeginPlan(p, t)
  PROVE  PreparationInv'
<1>1. PICK v : v = [transaction |-> t, baseline |-> witnessHead, held |-> Install, at |-> "idle",
                    native |-> "absent", revision |-> witnessHead.revision]
  OBVIOUS
<1>2. preparers' = [preparers EXCEPT ![p] = v] /\ Quiet /\ selectionHeld' = selectionHeld
  BY <1>1 DEF BeginPlan, Quiet, preparationFiles
<1>3. witnessHead \in [slot : SomeSlot, revision : Nat]
  BY DEF PreparationInv, FilesAre
<1>4. /\ v \in PreparerRecord /\ v.held = 0 /\ v.at = "idle" /\ v.revision = witnessHead.revision
  BY <1>1, <1>3, CallNumbers DEF PreparerRecord
<1>5. OwnIs(p, v)
  BY <1>4, CallNumbers DEF OwnIs, Made
<1>6. LockIs(p, v)'
  BY <1>4, Unlocked DEF LockedAt
<1>7. v.revision <= witnessHead.revision
  BY <1>3, <1>4
<1> QED BY <1>2, <1>4, <1>5, <1>6, <1>7, QuietMove

LEMMA StartInstallStep ==
  ASSUME PreparationAssumption, PreparationInv, NEW p \in Preparer, StartInstall(p)
  PROVE  PreparationInv'
<1>1. PICK u : u = preparers[p] /\ PreparerIs(p, u)
  BY PreparerHas DEF StartInstall, Holds
<1>2. PICK v : v = [u EXCEPT !.at = "locked"]
  OBVIOUS
<1>3. /\ preparers' = [preparers EXCEPT ![p] = v] /\ Quiet /\ u.held = Install
      /\ selectionHeld = Nobody /\ selectionHeld' = p
  BY <1>1, <1>2 DEF StartInstall, Holds, Proceed, Quiet, preparationFiles
<1>4. u \in PreparerRecord /\ u.revision <= witnessHead.revision /\ OwnIs(p, u)
  BY <1>1 DEF PreparerIs
<1>5. /\ v \in PreparerRecord /\ v.at = "locked" /\ v.held = u.held /\ v.native = u.native
      /\ v.transaction = u.transaction /\ v.revision = u.revision
  BY <1>2, <1>4, MovedIs DEF WhereAt
<1>6. OwnIs(p, v)
  BY <1>4, <1>5, OwnMoved
<1>7. LockIs(p, v)'
  BY <1>3, <1>5, CallNumbers DEF LockIs
<1>8. \A q \in Preparer : q # p /\ selectionHeld = q => selectionHeld' = q
  BY <1>3, PlaceSlots
<1> QED BY <1>3, <1>4, <1>5, <1>6, <1>7, <1>8, QuietMove

LEMMA EndInstallStep ==
  ASSUME PreparationAssumption, PreparationInv, NEW p \in Preparer, EndInstall(p)
  PROVE  PreparationInv'
<1>1. PICK u : u = preparers[p] /\ PreparerIs(p, u)
  BY PreparerHas DEF EndInstall, Holds
<1>2. PICK v : v = [u EXCEPT !.at = "idle", !.held = @ + 1]
  OBVIOUS
<1>3. /\ preparers' = [preparers EXCEPT ![p] = v] /\ Quiet /\ u.held = 0 /\ u.at = "filled"
      /\ bytes[u.transaction].site = "planned"
  BY <1>1, <1>2, CallNumbers
     DEF EndInstall, Holds, Calling, Result, Quiet, preparationFiles, SiteAsPlanned, Its
<1>4. u \in PreparerRecord /\ u.revision <= witnessHead.revision /\ OwnIs(p, u)
  BY <1>1 DEF PreparerIs
<1>5. /\ v \in PreparerRecord /\ v.at = "idle" /\ v.held = 1
      /\ v.transaction = u.transaction /\ v.revision = u.revision
  <2>1. u.held # 7 /\ u.held + 1 = 1
    BY <1>3
  <2>2. /\ v \in PreparerRecord /\ v.at = "idle" /\ v.held = u.held + 1
        /\ v.transaction = u.transaction /\ v.revision = u.revision
    BY <1>2, <1>4, <2>1, ResultIs
  <2> QED BY <2>1, <2>2
<1>6. OwnIs(p, v)
  <2>1. Made(u)
    BY <1>3 DEF Made
  <2> QED BY <1>3, <1>4, <1>5, <2>1, OwnStays, CallNumbers
<1>7. LockIs(p, v)'
  BY <1>5, Unlocked DEF LockedAt
<1>8. /\ selectionHeld' \in {selectionHeld, p, Nobody}
      /\ \A q \in Preparer : q # p /\ selectionHeld = q => selectionHeld' = q
  BY DEF EndInstall, Release
<1> QED BY <1>3, <1>4, <1>5, <1>6, <1>7, <1>8, QuietMove

LEMMA MeasureStep ==
  ASSUME PreparationAssumption, PreparationInv, NEW p \in Preparer, MeasureStage(p)
  PROVE  PreparationInv'
<1>1. PICK u : u = preparers[p] /\ PreparerIs(p, u)
  BY PreparerHas DEF MeasureStage, Holds
<1>2. PICK n : n = bytes[u.transaction].native
  OBVIOUS
<1>3. PICK v : v = [u EXCEPT !.at = "measured", !.native = n]
  OBVIOUS
<1>4. /\ preparers' = [preparers EXCEPT ![p] = v] /\ Quiet /\ u.held = 1
      /\ selectionHeld' = selectionHeld
  BY <1>1, <1>2, <1>3, CallNumbers DEF MeasureStage, Holds, Quiet, preparationFiles, Its
<1>5. u \in PreparerRecord /\ u.revision <= witnessHead.revision /\ OwnIs(p, u)
  BY <1>1 DEF PreparerIs
<1>6. n \in {"absent", "built", "other"}
  <2>1. u.transaction \in Place
    BY <1>5 DEF PreparerRecord, Place
  <2> QED BY <1>2, <2>1 DEF PreparationInv, FilesAre
<1>7. /\ v \in PreparerRecord /\ v.at = "measured" /\ v.held = u.held
      /\ v.transaction = u.transaction /\ v.revision = u.revision
  BY <1>3, <1>5, <1>6 DEF PreparerRecord
<1>8. OwnIs(p, v)
  <2>1. Made(u) /\ bytes[u.transaction].site \notin {"absent", "partial"}
    BY <1>4, <1>5, CallNumbers DEF Made, OwnIs
  <2> QED BY <1>4, <1>5, <1>7, <2>1, OwnStays, CallNumbers
<1>9. LockIs(p, v)'
  BY <1>7, Unlocked DEF LockedAt
<1> QED BY <1>4, <1>5, <1>7, <1>8, <1>9, QuietMove

LEMMA EndRequestStep ==
  ASSUME PreparationAssumption, PreparationInv, NEW p \in Preparer,
         EndRequest(p) \/ SignRequest(p)
  PROVE  PreparationInv'
<1>1. PICK u : u = preparers[p] /\ PreparerIs(p, u)
  BY PreparerHas DEF EndRequest, SignRequest, Holds
<1>2. PICK v : v = [u EXCEPT !.at = "idle", !.held = @ + 1]
  OBVIOUS
<1>3. /\ preparers' = [preparers EXCEPT ![p] = v] /\ Quiet /\ selectionHeld' = selectionHeld
      /\ u.held = 1 \/ (u.held = 2 /\ u.native = "built")
  BY <1>1, <1>2, CallNumbers
     DEF EndRequest, SignRequest, Holds, Result, Quiet, preparationFiles
<1>4. u \in PreparerRecord /\ u.revision <= witnessHead.revision /\ OwnIs(p, u)
  BY <1>1 DEF PreparerIs
<1>5. /\ v \in PreparerRecord /\ v.at = "idle" /\ v.held = u.held + 1 /\ v.native = u.native
      /\ v.transaction = u.transaction /\ v.revision = u.revision
  <2>1. u.held # 7
    BY <1>3
  <2> QED BY <1>2, <1>4, <2>1, ResultIs
<1>6. OwnIs(p, v)
  <2>1. u.held >= 1 /\ u.held <= v.held /\ (v.held >= 3 => v.native = "built")
    BY <1>3, <1>5
  <2>2. Made(u) /\ bytes[u.transaction].site \notin {"absent", "partial"}
    BY <1>4, <2>1, CallNumbers DEF Made, OwnIs
  <2> QED BY <1>4, <1>5, <2>1, <2>2, OwnStays, CallNumbers
<1>7. LockIs(p, v)'
  BY <1>5, Unlocked DEF LockedAt
<1> QED BY <1>3, <1>4, <1>5, <1>6, <1>7, QuietMove

LEMMA PlanLookStep ==
  ASSUME PreparationAssumption, PreparationInv, NEW p \in Preparer, FirstLook(p) \/ SecondLook(p)
  PROVE  PreparationInv'
<1>1. PICK u : u = preparers[p] /\ PreparerIs(p, u)
  BY PreparerHas DEF FirstLook, SecondLook, LookAtStage
<1>2. PICK where \in {"looked", "sure"} :
        /\ preparers' = [preparers EXCEPT ![p].at = where] /\ Quiet /\ selectionHeld' = selectionHeld
  BY DEF FirstLook, SecondLook, LookAtStage, Proceed, Quiet, preparationFiles
<1>3. PICK v : v = [u EXCEPT !.at = where]
  OBVIOUS
<1>4. preparers' = [preparers EXCEPT ![p] = v]
  BY <1>1, <1>2, <1>3
<1>5. u \in PreparerRecord /\ u.revision <= witnessHead.revision /\ OwnIs(p, u)
  BY <1>1 DEF PreparerIs
<1>6. /\ v \in PreparerRecord /\ v.at = where /\ v.held = u.held /\ v.native = u.native
      /\ v.transaction = u.transaction /\ v.revision = u.revision
  BY <1>3, <1>5, MovedIs DEF WhereAt
<1>7. OwnIs(p, v)
  BY <1>5, <1>6, OwnMoved
<1>8. LockIs(p, v)'
  BY <1>6, Unlocked DEF LockedAt
<1> QED BY <1>2, <1>4, <1>5, <1>6, <1>7, <1>8, QuietMove

LEMMA LockForPlanStep ==
  ASSUME PreparationAssumption, PreparationInv, NEW p \in Preparer, LockForPlan(p)
  PROVE  PreparationInv'
<1>1. PICK u : u = preparers[p] /\ PreparerIs(p, u)
  BY PreparerHas DEF LockForPlan
<1>2. PICK v : v = [u EXCEPT !.at = "locked"]
  OBVIOUS
<1>3. /\ preparers' = [preparers EXCEPT ![p] = v] /\ Quiet
      /\ selectionHeld = Nobody /\ selectionHeld' = p
      /\ u.held \in {Arm, Select} => capsule = Nobody /\ pointer = u.baseline.slot
  BY <1>1, <1>2, CallNumbers
     DEF LockForPlan, BaselineInPlace, Proceed, Quiet, preparationFiles
<1>4. u \in PreparerRecord /\ u.revision <= witnessHead.revision /\ OwnIs(p, u)
  BY <1>1 DEF PreparerIs
<1>5. /\ v \in PreparerRecord /\ v.at = "locked" /\ v.held = u.held /\ v.native = u.native
      /\ v.transaction = u.transaction /\ v.baseline = u.baseline /\ v.revision = u.revision
  BY <1>2, <1>4, MovedIs DEF WhereAt
<1>6. OwnIs(p, v)
  BY <1>4, <1>5, OwnMoved
<1>7. LockIs(p, v)'
  BY <1>3, <1>5 DEF LockIs, Quiet
<1>8. \A q \in Preparer : q # p /\ selectionHeld = q => selectionHeld' = q
  BY <1>3, PlaceSlots
<1> QED BY <1>3, <1>4, <1>5, <1>6, <1>7, <1>8, QuietMove

LEMMA AskWitnessStep ==
  ASSUME PreparationAssumption, PreparationInv, NEW p \in Preparer, AskWitness(p)
  PROVE  PreparationInv'
<1>1. PICK u : u = preparers[p] /\ PreparerIs(p, u)
  BY PreparerHas DEF AskWitness
<1>2. PICK n : n \in Nat /\ n = witnessHead.revision
  BY DEF PreparationInv, FilesAre
<1>3. PICK v : v = [u EXCEPT !.at = "asked", !.revision = n]
  OBVIOUS
<1>4. /\ preparers' = [preparers EXCEPT ![p] = v] /\ Quiet /\ selectionHeld' = selectionHeld
      /\ u.at = "locked" /\ witnessHead.slot = u.baseline.slot
  BY <1>1, <1>2, <1>3 DEF AskWitness, WitnessStands, Calling, Quiet, preparationFiles
<1>5. u \in PreparerRecord /\ OwnIs(p, u) /\ LockIs(p, u)
  BY <1>1 DEF PreparerIs
<1>6. /\ v \in PreparerRecord /\ v.at = "asked" /\ v.held = u.held /\ v.native = u.native
      /\ v.transaction = u.transaction /\ v.baseline = u.baseline /\ v.revision = n
  <2>1. PICK x : x = [u EXCEPT !.at = "asked"]
    OBVIOUS
  <2>2. /\ x \in PreparerRecord /\ x.at = "asked" /\ x.held = u.held /\ x.native = u.native
        /\ x.transaction = u.transaction /\ x.baseline = u.baseline
    BY <1>5, <2>1, MovedIs DEF WhereAt
  <2>3. v = [x EXCEPT !.revision = n]
    BY <1>3, <1>5, <2>1 DEF PreparerRecord
  <2>4. n \in Nat
    BY <1>2
  <2> QED BY <2>2, <2>3, <2>4 DEF PreparerRecord
<1>7. OwnIs(p, v)
  BY <1>5, <1>6, OwnMoved
<1>8. LockIs(p, v)'
  BY <1>4, <1>5, <1>6 DEF LockIs, Quiet, LockedAt
<1>9. v.revision <= witnessHead.revision
  BY <1>2, <1>6
<1> QED BY <1>4, <1>6, <1>7, <1>8, <1>9, QuietMove

LEMMA LeaveLockStep ==
  ASSUME PreparationAssumption, PreparationInv, NEW p \in Preparer, LeaveLock(p)
  PROVE  PreparationInv'
<1>1. PICK u : u = preparers[p] /\ PreparerIs(p, u)
  BY PreparerHas DEF LeaveLock, Calling
<1>2. /\ preparers' = preparers /\ Quiet /\ u.at = "written"
      /\ selectionHeld = p /\ selectionHeld' = Nobody
  BY <1>1 DEF LeaveLock, Calling, Quiet, preparationFiles
<1>3. u \in PreparerRecord /\ u.revision <= witnessHead.revision /\ OwnIs(p, u)
  BY <1>1 DEF PreparerIs
<1>4. PreparerIs(p, u)'
  <2>1. LockIs(p, u)'
    BY <1>2, Unlocked DEF LockedAt
  <2> QED BY <1>2, <1>3, <2>1 DEF PreparerIs, OwnIs, Quiet
<1>5. ASSUME NEW q \in Preparer, NEW w, w = preparers[q]
      PROVE  Undisturbed(q, w) \/ PreparerIs(q, w)'
  <2>1. CASE q = p
    BY <1>1, <1>4, <1>5, <2>1
  <2>2. CASE q # p
    <3>1. witnessHead.revision <= witnessHead.revision
      BY DEF PreparationInv, FilesAre
    <3> QED BY <1>2, <2>2, <3>1 DEF Undisturbed, Quiet
  <2> QED BY <2>1, <2>2
<1>6. FilesAre'
  BY <1>2 DEF PreparationInv, FilesAre, Quiet
<1>7. StagesAre' /\ AllDrafts'
  BY <1>2 DEF PreparationInv, StagesAre, AllDrafts, DraftIs, Quiet
<1>8. AllPreparers'
  BY <1>2, <1>5, <1>6, NobodyMoved
<1> QED BY <1>6, <1>7, <1>8 DEF PreparationInv

LEMMA ReadBackStep ==
  ASSUME PreparationAssumption, PreparationInv, NEW p \in Preparer, ReadBack(p)
  PROVE  PreparationInv'
<1>1. PICK u : u = preparers[p] /\ PreparerIs(p, u)
  BY PreparerHas DEF ReadBack, Calling
<1>2. PICK v : v = [u EXCEPT !.at = "idle", !.held = @ + 1]
  OBVIOUS
<1>3. /\ preparers' = [preparers EXCEPT ![p] = v] /\ Quiet /\ selectionHeld' = selectionHeld
      /\ u.at = "written"
  BY <1>1, <1>2 DEF ReadBack, Calling, Result, Quiet, preparationFiles
<1>4. u \in PreparerRecord /\ u.revision <= witnessHead.revision /\ OwnIs(p, u)
  BY <1>1 DEF PreparerIs
<1>5. u.held \in {3, 4, 5}
  BY <1>3, <1>4, CallNumbers DEF OwnIs
<1>6. /\ v \in PreparerRecord /\ v.at = "idle" /\ v.held = u.held + 1 /\ v.native = u.native
      /\ v.transaction = u.transaction /\ v.revision = u.revision
  <2>1. u.held # 7
    BY <1>5
  <2> QED BY <1>2, <1>4, <2>1, ResultIs
<1>7. OwnIs(p, v)
  <2>1. u.held >= 3 /\ u.held >= 1 /\ u.held <= v.held
    BY <1>5, <1>6
  <2>2. Made(u) /\ bytes[u.transaction].site \notin {"absent", "partial"} /\ u.native = "built"
    BY <1>4, <2>1, CallNumbers DEF Made, OwnIs
  <2> QED BY <1>4, <1>6, <2>1, <2>2, OwnStays, CallNumbers
<1>8. LockIs(p, v)'
  BY <1>6, Unlocked DEF LockedAt
<1> QED BY <1>3, <1>4, <1>6, <1>7, <1>8, QuietMove

LEMMA MakeDraftStep ==
  ASSUME PreparationAssumption, PreparationInv, NEW p \in Preparer, MakeDraft(p)
  PROVE  PreparationInv'
<1>1. PICK u : u = preparers[p] /\ PreparerIs(p, u)
  BY PreparerHas DEF MakeDraft, Holds
<1>2. PICK v : v = [u EXCEPT !.at = "drafted"]
  OBVIOUS
<1>3. /\ preparers' = [preparers EXCEPT ![p] = v] /\ Quiet
      /\ u.at = "asked" /\ selectionHeld' = Nobody
  BY <1>1, <1>2 DEF MakeDraft, LookAgain, Calling, Proceed, Quiet, preparationFiles
<1>4. u \in PreparerRecord /\ u.revision <= witnessHead.revision /\ OwnIs(p, u) /\ LockIs(p, u)
  BY <1>1 DEF PreparerIs
<1>5. /\ v \in PreparerRecord /\ v.at = "drafted" /\ v.held = u.held /\ v.native = u.native
      /\ v.transaction = u.transaction /\ v.revision = u.revision
  BY <1>2, <1>4, MovedIs DEF WhereAt
<1>6. OwnIs(p, v)
  BY <1>4, <1>5, OwnMoved
<1>7. LockIs(p, v)'
  BY <1>5, Unlocked DEF LockedAt
<1>8. selectionHeld = p
  BY <1>3, <1>4 DEF LockIs, LockedAt
<1> QED BY <1>3, <1>4, <1>5, <1>6, <1>7, <1>8, QuietMove

\* A request that was drafted asks for another slot than the one it starts from.
LEMMA DraftHas ==
  ASSUME PreparationInv, NEW d \in drafts
  PROVE  DraftIs(d) /\ d.successor # d.previous /\ d.transaction \in Candidate
<1>1. DraftIs(d) /\ d \in DraftRecord
  BY DEF PreparationInv, AllDrafts, FilesAre
<1>2. d.previous \in SomeSlot /\ d.transaction \in Candidate
  BY <1>1 DEF DraftRecord
<1>3. PICK n : n = d.previous.generation
  OBVIOUS
<1>4. n \in Nat /\ d.successor.generation = n + 1
  BY <1>1, <1>2, <1>3 DEF SomeSlot, DraftIs
<1>5. n + 1 # n
  BY <1>4
<1> QED BY <1>1, <1>2, <1>3, <1>4, <1>5

\* A step of one program that changes files.
LEMMA NoisyStep ==
  ASSUME PreparationAssumption, PreparationInv, FilesAre', StagesAre', AllDrafts',
         NEW p \in Preparer, NEW v, preparers' = [preparers EXCEPT ![p] = v], PreparerIs(p, v)',
         \A q \in Preparer : \A w : q # p /\ PreparerIs(q, w) => Undisturbed(q, w)
  PROVE  PreparationInv'
BY OnePreparer DEF PreparationInv

LEMMA MakeStageStep ==
  ASSUME PreparationAssumption, PreparationInv, NEW p \in Preparer, MakeStage(p)
  PROVE  PreparationInv'
<1>1. PICK u : u = preparers[p] /\ PreparerIs(p, u)
  BY PreparerHas DEF MakeStage, Holds
<1>2. PICK v : v = [u EXCEPT !.at = "made"]
  OBVIOUS
<1>3. PICK t : t = u.transaction
  OBVIOUS
<1>4. /\ preparers' = [preparers EXCEPT ![p] = v] /\ u.held = 0 /\ u.at = "locked"
      /\ bytes[t].site = "absent" /\ bytes' = [bytes EXCEPT ![t].site = "partial"]
      /\ installers' = [installers EXCEPT ![t] = @ \cup {p}]
  BY <1>1, <1>2, <1>3, CallNumbers
     DEF MakeStage, Holds, Calling, Proceed, Its, FreeStage
<1>5. /\ pointer' = pointer /\ capsule' = capsule /\ record' = record /\ drafts' = drafts
      /\ selectionHeld' = selectionHeld /\ witnessHead' = witnessHead
  BY DEF MakeStage
<1>6. u \in PreparerRecord /\ u.revision <= witnessHead.revision /\ OwnIs(p, u) /\ LockIs(p, u)
  BY <1>1 DEF PreparerIs
<1>7. /\ v \in PreparerRecord /\ v.at = "made" /\ v.held = u.held /\ v.native = u.native
      /\ v.transaction = t /\ v.revision = u.revision
  BY <1>2, <1>3, <1>6, MovedIs DEF WhereAt
<1>8. t \in Candidate /\ t \in Place
  BY <1>3, <1>6 DEF PreparerRecord, Place
<1>9. installers[t] = {} /\ record[t] = Nobody
  BY <1>4, <1>8 DEF PreparationInv, StagesAre
<1>10. /\ FilesAre' /\ bytes'[t].site = "partial" /\ installers'[t] = {p}
       /\ \A s \in Place : s # t => bytes'[s] = bytes[s] /\ installers'[s] = installers[s]
  BY <1>4, <1>5, <1>8, <1>9 DEF PreparationInv, FilesAre
<1>11. StagesAre'
  BY <1>5, <1>8, <1>9, <1>10 DEF PreparationInv, StagesAre, Place
<1>12. AllDrafts'
  BY <1>5 DEF PreparationInv, AllDrafts, DraftIs
<1>13. ASSUME NEW q \in Preparer, NEW w, q # p, PreparerIs(q, w) PROVE Undisturbed(q, w)
  <2>1. w.transaction \in Place
    BY <1>13 DEF PreparerIs, PreparerRecord, Place
  <2>2. witnessHead.revision <= witnessHead.revision
    BY DEF PreparationInv, FilesAre
  <2>3. installers[t] # {q}
    BY <1>9
  <2>4. CASE w.transaction = t
    BY <1>4, <1>5, <2>2, <2>3, <2>4 DEF Undisturbed
  <2>5. CASE w.transaction # t
    BY <1>5, <1>10, <2>1, <2>2, <2>5 DEF Undisturbed
  <2> QED BY <2>4, <2>5
<1>14. OwnIs(p, v)'
  <2>1. \A d \in drafts : d.transaction # t
    BY <1>9, DraftHas DEF DraftIs
  <2> QED BY <1>4, <1>5, <1>7, <1>10, <2>1, CallNumbers DEF OwnIs
<1>15. LockIs(p, v)'
  BY <1>4, <1>5, <1>6, <1>7, CallNumbers DEF LockIs, LockedAt
<1>16. PreparerIs(p, v)'
  BY <1>5, <1>6, <1>7, <1>14, <1>15 DEF PreparerIs
<1> QED BY <1>4, <1>10, <1>11, <1>12, <1>13, <1>16, NoisyStep

LEMMA RunPipStep ==
  ASSUME PreparationAssumption, PreparationInv, NEW p \in Preparer, RunPip(p)
  PROVE  PreparationInv'
<1>1. PICK u : u = preparers[p] /\ PreparerIs(p, u)
  BY PreparerHas DEF RunPip, Holds
<1>2. PICK v : v = [u EXCEPT !.at = "filled"]
  OBVIOUS
<1>3. PICK t : t = u.transaction
  OBVIOUS
<1>4. /\ preparers' = [preparers EXCEPT ![p] = v] /\ u.held = 0 /\ u.at = "made"
      /\ bytes' = [bytes EXCEPT ![t].site = bytes[t].wheels, ![t].native = "built"]
      /\ installers' = [installers EXCEPT ![t] = @ \cup {p}]
  BY <1>1, <1>2, <1>3, CallNumbers DEF RunPip, Holds, Calling, Proceed, Its
<1>5. /\ pointer' = pointer /\ capsule' = capsule /\ record' = record /\ drafts' = drafts
      /\ selectionHeld' = selectionHeld /\ witnessHead' = witnessHead
  BY DEF RunPip
<1>6. u \in PreparerRecord /\ u.revision <= witnessHead.revision /\ OwnIs(p, u) /\ LockIs(p, u)
  BY <1>1 DEF PreparerIs
<1>7. /\ v \in PreparerRecord /\ v.at = "filled" /\ v.held = u.held /\ v.native = u.native
      /\ v.transaction = t /\ v.revision = u.revision
  BY <1>2, <1>3, <1>6, MovedIs DEF WhereAt
<1>8. t \in Candidate /\ t \in Place
  BY <1>3, <1>6 DEF PreparerRecord, Place
<1>9. installers[t] = {p} /\ \A d \in drafts : d.transaction # t
  BY <1>3, <1>4, <1>6, CallNumbers DEF OwnIs, Made
<1>10. /\ FilesAre' /\ bytes'[t].site \notin {"absent", "partial"} /\ installers' = installers
       /\ \A s \in Place : s # t => bytes'[s] = bytes[s]
  <2>1. PICK b : b = [bytes[t] EXCEPT !.site = bytes[t].wheels, !.native = "built"]
    OBVIOUS
  <2>2. bytes' = [bytes EXCEPT ![t] = b]
    BY <1>4, <1>8, <2>1 DEF PreparationInv, FilesAre
  <2>3. /\ b \in [site : {"absent", "partial", "planned", "other"},
                  native : {"absent", "built", "other"}, wheels : {"planned", "other"}]
        /\ b.site \in {"planned", "other"}
    <3>1. PICK x : x = bytes[t]
      OBVIOUS
    <3>2. x \in [site : {"absent", "partial", "planned", "other"},
                 native : {"absent", "built", "other"}, wheels : {"planned", "other"}]
      BY <1>8, <3>1 DEF PreparationInv, FilesAre
    <3>3. PICK y : y \in {"planned", "other"} /\ y = x.wheels
      BY <3>2
    <3>4. b = [x EXCEPT !.site = y, !.native = "built"]
      BY <2>1, <3>1, <3>3
    <3> QED BY <3>2, <3>3, <3>4
  <2>4. installers' = installers
    <3>1. installers[t] \cup {p} = installers[t]
      BY <1>9
    <3>2. installers' = [installers EXCEPT ![t] = installers[t]]
      BY <1>4, <3>1
    <3> QED BY <3>2 DEF PreparationInv, FilesAre
  <2>5. b.site \notin {"absent", "partial"}
    BY <2>3
  <2>6. /\ bytes' \in [Place -> [site : {"absent", "partial", "planned", "other"},
                          native : {"absent", "built", "other"}, wheels : {"planned", "other"}]]
        /\ bytes'[t] = b /\ \A s \in Place : s # t => bytes'[s] = bytes[s]
    BY <1>8, <2>2, <2>3 DEF PreparationInv, FilesAre
  <2>7. DOMAIN preparers' = Preparer
    BY <1>4 DEF PreparationInv, FilesAre
  <2>8. FilesAre'
    BY <1>5, <2>4, <2>6, <2>7 DEF PreparationInv, FilesAre
  <2> QED BY <2>4, <2>5, <2>6, <2>8
<1>11. StagesAre'
  BY <1>5, <1>8, <1>9, <1>10 DEF PreparationInv, StagesAre, Place
<1>12. AllDrafts'
  BY <1>5 DEF PreparationInv, AllDrafts, DraftIs
<1>13. ASSUME NEW q \in Preparer, NEW w, q # p, PreparerIs(q, w) PROVE Undisturbed(q, w)
  <2>1. w.transaction \in Place
    BY <1>13 DEF PreparerIs, PreparerRecord, Place
  <2>2. witnessHead.revision <= witnessHead.revision
    BY DEF PreparationInv, FilesAre
  <2> QED BY <1>5, <1>10, <2>1, <2>2 DEF Undisturbed
<1>14. OwnIs(p, v)'
  BY <1>4, <1>5, <1>7, <1>9, <1>10, CallNumbers DEF OwnIs
<1>15. LockIs(p, v)'
  BY <1>4, <1>5, <1>6, <1>7, CallNumbers DEF LockIs, LockedAt
<1>16. PreparerIs(p, v)'
  BY <1>5, <1>6, <1>7, <1>14, <1>15 DEF PreparerIs
<1> QED BY <1>4, <1>10, <1>11, <1>12, <1>13, <1>16, NoisyStep

\* The journal that a program writes or arms.
LEMMA JournalIs ==
  ASSUME PreparationAssumption, PreparationInv, NEW u \in PreparerRecord, u.native = "built",
         NEW n \in 1..3, NEW r,
         r = [revision |-> n, previous |-> u.baseline.slot, evidence |-> u.native]
  PROVE  r \in JournalRecord /\ r # Nobody
<1>1. u.baseline.slot \in SomeSlot
  BY DEF PreparerRecord
<1>2. r \in JournalRecord
  BY <1>1 DEF JournalRecord
<1> QED BY <1>2, PlaceSlots

LEMMA WriteRecordStep ==
  ASSUME PreparationAssumption, PreparationInv, NEW p \in Preparer, WriteRecord(p)
  PROVE  PreparationInv'
<1>1. PICK u : u = preparers[p] /\ PreparerIs(p, u)
  BY PreparerHas DEF WriteRecord, Holds
<1>2. PICK v : v = [u EXCEPT !.at = "written"]
  OBVIOUS
<1>3. PICK t : t = u.transaction
  OBVIOUS
<1>4. PICK r : r = [revision |-> 1, previous |-> u.baseline.slot, evidence |-> u.native]
  OBVIOUS
<1>5. /\ preparers' = [preparers EXCEPT ![p] = v] /\ u.held = RecordIntent
      /\ record[t] = Nobody /\ record' = [record EXCEPT ![t] = r]
  BY <1>1, <1>2, <1>3, <1>4, CallNumbers DEF WriteRecord, Holds, FilesStand, Proceed, Its
<1>6. /\ bytes' = bytes /\ installers' = installers /\ pointer' = pointer /\ capsule' = capsule
      /\ selectionHeld' = selectionHeld /\ witnessHead' = witnessHead /\ drafts' = drafts
  BY DEF WriteRecord
<1>7. u \in PreparerRecord /\ u.revision <= witnessHead.revision /\ OwnIs(p, u)
  BY <1>1 DEF PreparerIs
<1>8. /\ v \in PreparerRecord /\ v.at = "written" /\ v.held = u.held /\ v.native = u.native
      /\ v.transaction = u.transaction /\ v.revision = u.revision
  BY <1>2, <1>7, MovedIs DEF WhereAt
<1>9. t \in Candidate /\ t \in Place
  BY <1>3, <1>7 DEF PreparerRecord, Place
<1>10. u.native = "built" /\ bytes[t].site \notin {"absent", "partial"}
  BY <1>3, <1>5, <1>7, CallNumbers DEF OwnIs
<1>11. r \in JournalRecord /\ r # Nobody
  BY <1>4, <1>7, <1>10, JournalIs
<1>12. record'[t] = r /\ \A s \in Candidate : s # t => record'[s] = record[s]
  BY <1>5, <1>9 DEF PreparationInv, FilesAre
<1>13. FilesAre'
  BY <1>5, <1>6, <1>9, <1>11, <1>12 DEF PreparationInv, FilesAre
<1>14. StagesAre'
  BY <1>6, <1>9, <1>10, <1>11, <1>12 DEF PreparationInv, StagesAre
<1>15. AllDrafts'
  <2> SUFFICES ASSUME NEW d \in drafts PROVE DraftIs(d)'
    BY <1>6 DEF AllDrafts
  <2>1. DraftIs(d) /\ d.transaction # t /\ d.transaction \in Candidate
    BY <1>5, DraftHas DEF DraftIs
  <2> QED BY <1>6, <1>12, <2>1 DEF DraftIs
<1>16. ASSUME NEW q \in Preparer, NEW w, q # p, PreparerIs(q, w) PROVE Undisturbed(q, w)
  <2>1. w.transaction \in Candidate
    BY <1>16 DEF PreparerIs, PreparerRecord
  <2>2. witnessHead.revision <= witnessHead.revision
    BY DEF PreparationInv, FilesAre
  <2> QED BY <1>5, <1>6, <1>12, <2>1, <2>2 DEF Undisturbed
<1>17. PreparerIs(p, v)'
  <2>1. OwnIs(p, v)
    BY <1>5, <1>7, <1>8, OwnMoved
  <2>2. LockIs(p, v)'
    BY <1>8, Unlocked DEF LockedAt
  <2> QED BY <1>6, <1>7, <1>8, <2>1, <2>2 DEF PreparerIs, OwnIs
<1> QED BY <1>5, <1>13, <1>14, <1>15, <1>16, <1>17, NoisyStep

\* While a program has the lock and looks again, nothing that others count on
\* is in its reach.
LEMMA NobodyWatches ==
  ASSUME PreparationAssumption, PreparationInv, NEW p \in Preparer, selectionHeld = p,
         bytes' = bytes, installers' = installers, drafts' = drafts,
         selectionHeld' = selectionHeld, witnessHead' = witnessHead,
         NEW q \in Preparer, NEW w, q # p
  PROVE  Undisturbed(q, w)
<1>1. witnessHead.revision <= witnessHead.revision
  BY DEF PreparationInv, FilesAre
<1> QED BY <1>1 DEF Undisturbed

LEMMA ArmIntentStep ==
  ASSUME PreparationAssumption, PreparationInv, NEW p \in Preparer, ArmIntent(p)
  PROVE  PreparationInv'
<1>1. PICK u : u = preparers[p] /\ PreparerIs(p, u)
  BY PreparerHas DEF ArmIntent, Holds
<1>2. PICK v : v = [u EXCEPT !.at = "written"]
  OBVIOUS
<1>3. PICK t : t = u.transaction
  OBVIOUS
<1>4. PICK r : r = [record[t] EXCEPT !.revision = 2]
  OBVIOUS
<1>5. /\ preparers' = [preparers EXCEPT ![p] = v] /\ u.held = Arm /\ u.at = "asked"
      /\ record[t] = [revision |-> 1, previous |-> u.baseline.slot, evidence |-> u.native]
      /\ record' = [record EXCEPT ![t] = r]
  BY <1>1, <1>2, <1>3, <1>4, CallNumbers
     DEF ArmIntent, LookAgain, Holds, Calling, FilesStand, Recorded, Proceed, Its
<1>6. /\ bytes' = bytes /\ installers' = installers /\ pointer' = pointer /\ capsule' = capsule
      /\ selectionHeld' = selectionHeld /\ witnessHead' = witnessHead /\ drafts' = drafts
  BY DEF ArmIntent
<1>7. u \in PreparerRecord /\ u.revision <= witnessHead.revision /\ OwnIs(p, u) /\ LockIs(p, u)
  BY <1>1 DEF PreparerIs
<1>8. /\ v \in PreparerRecord /\ v.at = "written" /\ v.held = u.held /\ v.native = u.native
      /\ v.transaction = u.transaction /\ v.revision = u.revision
  BY <1>2, <1>7, MovedIs DEF WhereAt
<1>9. t \in Candidate /\ t \in Place
  BY <1>3, <1>7 DEF PreparerRecord, Place
<1>10. /\ u.native = "built" /\ bytes[t].site \notin {"absent", "partial"}
       /\ \A d \in drafts : d.transaction # t
  BY <1>3, <1>5, <1>7, CallNumbers DEF OwnIs, Made
<1>11. r \in JournalRecord /\ r # Nobody
  <2>1. r = [revision |-> 2, previous |-> u.baseline.slot, evidence |-> u.native]
    BY <1>4, <1>5
  <2> QED BY <1>7, <1>10, <2>1, JournalIs
<1>12. record'[t] = r /\ \A s \in Candidate : s # t => record'[s] = record[s]
  BY <1>5, <1>9 DEF PreparationInv, FilesAre
<1>13. FilesAre'
  BY <1>5, <1>6, <1>9, <1>11, <1>12 DEF PreparationInv, FilesAre
<1>14. StagesAre'
  BY <1>6, <1>9, <1>10, <1>11, <1>12 DEF PreparationInv, StagesAre
<1>15. AllDrafts'
  <2> SUFFICES ASSUME NEW d \in drafts PROVE DraftIs(d)'
    BY <1>6 DEF AllDrafts
  <2>1. DraftIs(d) /\ d.transaction # t /\ d.transaction \in Candidate
    BY <1>10, DraftHas
  <2> QED BY <1>6, <1>12, <2>1 DEF DraftIs
<1>16. selectionHeld = p
  BY <1>5, <1>7 DEF LockIs, LockedAt
<1>17. PreparerIs(p, v)'
  <2>1. OwnIs(p, v)
    BY <1>5, <1>7, <1>8, OwnMoved
  <2>2. LockIs(p, v)'
    BY <1>8, Unlocked DEF LockedAt
  <2> QED BY <1>6, <1>7, <1>8, <2>1, <2>2 DEF PreparerIs, OwnIs
<1> QED BY <1>5, <1>6, <1>13, <1>14, <1>15, <1>16, <1>17, NobodyWatches, NoisyStep

LEMMA SaveSwitchCapsuleStep ==
  ASSUME PreparationAssumption, PreparationInv, NEW p \in Preparer, SaveSwitchCapsule(p)
  PROVE  PreparationInv'
<1>1. PICK u : u = preparers[p] /\ PreparerIs(p, u)
  BY PreparerHas DEF SaveSwitchCapsule, Holds
<1>2. PICK v : v = [u EXCEPT !.at = "capsule"]
  OBVIOUS
<1>3. PICK t : t = u.transaction
  OBVIOUS
<1>4. /\ preparers' = [preparers EXCEPT ![p] = v] /\ u.held = Select /\ u.at = "asked"
      /\ record[t] = [revision |-> 2, previous |-> u.baseline.slot, evidence |-> u.native]
      /\ capsule' = [previous |-> pointer, candidate |-> Next1(u)]
  BY <1>1, <1>2, <1>3, CallNumbers
     DEF SaveSwitchCapsule, LookAgain, Holds, Calling, FilesStand, Recorded, Proceed, Its,
         Successor, Next1
<1>5. /\ bytes' = bytes /\ installers' = installers /\ pointer' = pointer /\ record' = record
      /\ selectionHeld' = selectionHeld /\ witnessHead' = witnessHead /\ drafts' = drafts
  BY DEF SaveSwitchCapsule
<1>6. u \in PreparerRecord /\ u.revision <= witnessHead.revision /\ OwnIs(p, u) /\ LockIs(p, u)
  BY <1>1 DEF PreparerIs
<1>7. /\ v \in PreparerRecord /\ v.at = "capsule" /\ v.held = u.held /\ v.native = u.native
      /\ v.transaction = u.transaction /\ v.baseline = u.baseline /\ v.revision = u.revision
  BY <1>2, <1>6, MovedIs DEF WhereAt
<1>8. /\ capsule = Nobody /\ pointer = u.baseline.slot /\ witnessHead.slot = u.baseline.slot
      /\ selectionHeld = p
  BY <1>4, <1>6 DEF LockIs, LockedAt
<1>9. t \in Candidate /\ Next1(u) \in SomeSlot /\ Next1(u).transaction = t /\ pointer \in SomeSlot
  <2>1. u.baseline.slot \in SomeSlot /\ t \in Candidate
    BY <1>3, <1>6 DEF PreparerRecord
  <2>2. u.baseline.slot.generation + 1 \in Nat
    BY <2>1 DEF SomeSlot
  <2> QED BY <1>3, <1>8, <2>1, <2>2 DEF Next1, SomeSlot, Place
<1>10. record[t] # Nobody
  <2>1. u.native = "built"
    BY <1>4, <1>6, CallNumbers DEF OwnIs
  <2>2. 2 \in 1..3
    OBVIOUS
  <2> QED BY <1>4, <1>6, <2>1, <2>2, JournalIs
<1> DEFINE Slot1 == Next1(u)
<1> HIDE DEF Slot1
<1>11. capsule' \in [previous : SomeSlot, candidate : SomeSlot] /\ capsule'.candidate = Slot1
  BY <1>4, <1>9 DEF Slot1
<1>12. FilesAre'
  BY <1>4, <1>5, <1>11 DEF PreparationInv, FilesAre
<1>13. StagesAre'
  BY <1>5, <1>9, <1>10, <1>11 DEF PreparationInv, StagesAre, Slot1
<1>14. AllDrafts'
  <2> SUFFICES ASSUME NEW d \in drafts PROVE DraftIs(d)'
    BY <1>5 DEF AllDrafts
  <2>1. DraftIs(d) /\ d.successor # d.previous
    BY DraftHas
  <2> QED BY <1>5, <1>8, <2>1 DEF DraftIs
<1>15. PreparerIs(p, v)'
  <2>1. OwnIs(p, v)
    BY <1>6, <1>7, OwnMoved
  <2>2. LockIs(p, v)'
    BY <1>3, <1>4, <1>5, <1>7, <1>8 DEF LockIs, LockedAt, Next1
  <2> QED BY <1>5, <1>6, <1>7, <2>1, <2>2 DEF PreparerIs, OwnIs
<1> QED BY <1>4, <1>5, <1>8, <1>12, <1>13, <1>14, <1>15, NobodyWatches, NoisyStep

LEMMA SwitchPointerStep ==
  ASSUME PreparationAssumption, PreparationInv, NEW p \in Preparer, SwitchPointer(p)
  PROVE  PreparationInv'
<1>1. PICK u : u = preparers[p] /\ PreparerIs(p, u)
  BY PreparerHas DEF SwitchPointer, Holds
<1>2. PICK v : v = [u EXCEPT !.at = "written"]
  OBVIOUS
<1>3. /\ preparers' = [preparers EXCEPT ![p] = v] /\ u.held = Select /\ u.at = "capsule"
      /\ pointer' = Next1(u)
  BY <1>1, <1>2 DEF SwitchPointer, Holds, Calling, Proceed, Its, Successor, Next1
<1>4. /\ bytes' = bytes /\ installers' = installers /\ capsule' = capsule /\ record' = record
      /\ selectionHeld' = selectionHeld /\ witnessHead' = witnessHead /\ drafts' = drafts
  BY DEF SwitchPointer
<1>5. u \in PreparerRecord /\ u.revision <= witnessHead.revision /\ OwnIs(p, u) /\ LockIs(p, u)
  BY <1>1 DEF PreparerIs
<1>6. /\ v \in PreparerRecord /\ v.at = "written" /\ v.held = u.held /\ v.native = u.native
      /\ v.transaction = u.transaction /\ v.revision = u.revision
  BY <1>2, <1>5, MovedIs DEF WhereAt
<1>7. /\ pointer = u.baseline.slot /\ witnessHead.slot = u.baseline.slot /\ selectionHeld = p
  BY <1>3, <1>5 DEF LockIs, LockedAt
<1>8. Next1(u) \in SomeSlot
  <2>1. u.baseline.slot \in SomeSlot /\ u.transaction \in Candidate
    BY <1>5 DEF PreparerRecord
  <2>2. u.baseline.slot.generation + 1 \in Nat
    BY <2>1 DEF SomeSlot
  <2> QED BY <2>1, <2>2 DEF Next1, SomeSlot, Place
<1>9. FilesAre'
  BY <1>3, <1>4, <1>8 DEF PreparationInv, FilesAre
<1>10. StagesAre'
  BY <1>4 DEF PreparationInv, StagesAre
<1>11. AllDrafts'
  <2> SUFFICES ASSUME NEW d \in drafts PROVE DraftIs(d)'
    BY <1>4 DEF AllDrafts
  <2>1. DraftIs(d) /\ d.successor # d.previous
    BY DraftHas
  <2> QED BY <1>4, <1>7, <2>1 DEF DraftIs
<1>12. PreparerIs(p, v)'
  <2>1. OwnIs(p, v)
    BY <1>3, <1>5, <1>6, OwnMoved
  <2>2. LockIs(p, v)'
    BY <1>6, Unlocked DEF LockedAt
  <2> QED BY <1>4, <1>5, <1>6, <2>1, <2>2 DEF PreparerIs, OwnIs
<1> QED BY <1>3, <1>4, <1>7, <1>9, <1>10, <1>11, <1>12, NobodyWatches, NoisyStep

LEMMA HandOverStep ==
  ASSUME PreparationAssumption, PreparationInv, NEW p \in Preparer, HandOver(p)
  PROVE  PreparationInv'
<1>1. PICK u : u = preparers[p] /\ PreparerIs(p, u)
  BY PreparerHas DEF HandOver, Holds
<1>2. PICK v : v = [u EXCEPT !.at = "idle", !.held = @ + 1]
  OBVIOUS
<1>3. PICK t : t = u.transaction
  OBVIOUS
<1>4. PICK d : d = [transaction |-> t, previous |-> u.baseline.slot, successor |-> Next1(u),
                    revision |-> u.revision]
  OBVIOUS
<1>5. /\ preparers' = [preparers EXCEPT ![p] = v] /\ u.held = 6
      /\ drafts' = drafts \cup {d} /\ Recorded(p, 2) /\ ItsSwitchPending(p)
  <2>1. u.held = 6 /\ preparers[p].held = Draft
    BY <1>1, CallNumbers DEF HandOver, Holds
  <2>2. Recorded(p, 2) /\ ItsSwitchPending(p)
    BY <2>1, CallNumbers DEF HandOver, FilesStand
  <2>3. drafts' = drafts \cup {d}
    BY <1>1, <1>3, <1>4 DEF HandOver, Its, Successor, Next1
  <2>4. preparers' = [preparers EXCEPT ![p] = v]
    BY <1>1, <1>2 DEF HandOver, Result
  <2> QED BY <2>1, <2>2, <2>3, <2>4
<1>6. /\ bytes' = bytes /\ installers' = installers /\ pointer' = pointer /\ capsule' = capsule
      /\ record' = record /\ selectionHeld' = selectionHeld /\ witnessHead' = witnessHead
  BY DEF HandOver, preparationFiles
<1>7. u \in PreparerRecord /\ u.revision <= witnessHead.revision /\ OwnIs(p, u)
  BY <1>1 DEF PreparerIs
<1>8. /\ v \in PreparerRecord /\ v.at = "idle" /\ v.held = 7 /\ v.native = u.native
      /\ v.transaction = u.transaction /\ v.revision = u.revision
  <2>1. u.held # 7 /\ u.held + 1 = 7
    BY <1>5
  <2>2. /\ v \in PreparerRecord /\ v.at = "idle" /\ v.held = u.held + 1 /\ v.native = u.native
        /\ v.transaction = u.transaction /\ v.revision = u.revision
    BY <1>2, <1>7, <2>1, ResultIs
  <2> QED BY <2>1, <2>2
<1>9. /\ u.native = "built" /\ bytes[t].site \notin {"absent", "partial"}
      /\ installers[t] = {p} /\ t \in Candidate /\ u.baseline.slot \in SomeSlot /\ u.revision \in Nat
  BY <1>3, <1>5, <1>7, CallNumbers DEF OwnIs, Made, PreparerRecord
<1>10. d \in DraftRecord
  <2>1. u.baseline.slot.generation + 1 \in Nat
    BY <1>9 DEF SomeSlot
  <2>2. Next1(u) \in SomeSlot
    BY <1>3, <1>9, <2>1 DEF Next1, SomeSlot, Place
  <2> HIDE DEF Next1
  <2> QED BY <1>4, <1>9, <2>2 DEF DraftRecord
<1>11. FilesAre'
  BY <1>5, <1>6, <1>10 DEF PreparationInv, FilesAre
<1>12. StagesAre'
  BY <1>6 DEF PreparationInv, StagesAre
<1>13. DraftIs(d)'
  <2>1. record[t] # Nobody
    <3>1. record[t] = [revision |-> 2, previous |-> u.baseline.slot, evidence |-> u.native]
      BY <1>1, <1>3, <1>5 DEF Recorded, Its
    <3>2. 2 \in 1..3
      OBVIOUS
    <3> QED BY <1>7, <1>9, <3>1, <3>2, JournalIs
  <2>2. /\ capsule = [previous |-> u.baseline.slot, candidate |-> pointer] /\ pointer = Next1(u)
    <3>1. /\ capsule \in [previous : SomeSlot, candidate : SomeSlot]
          /\ capsule.previous = u.baseline.slot /\ capsule.candidate = pointer
          /\ pointer = [transaction |-> t, generation |-> capsule.previous.generation + 1]
      BY <1>1, <1>3, <1>5 DEF ItsSwitchPending, Its, PreparationInv, FilesAre
    <3> QED BY <1>3, <3>1 DEF Next1
  <2>3. /\ d.transaction = t /\ d.previous = u.baseline.slot /\ d.successor = Next1(u)
        /\ d.revision = u.revision
    BY <1>4
  <2> QED BY <1>3, <1>6, <1>7, <2>1, <2>2, <2>3 DEF DraftIs, Next1
<1>14. AllDrafts'
  <2> SUFFICES ASSUME NEW e \in drafts PROVE DraftIs(e)'
    BY <1>5, <1>13 DEF AllDrafts
  <2> QED BY <1>6, DraftHas DEF DraftIs
<1>15. ASSUME NEW q \in Preparer, NEW w, q # p, PreparerIs(q, w) PROVE Undisturbed(q, w)
  <2>1. witnessHead.revision <= witnessHead.revision
    BY DEF PreparationInv, FilesAre
  <2>2. Made(w) => installers[w.transaction] = {q}
    BY <1>15 DEF PreparerIs, OwnIs
  <2>3. Made(w) => w.transaction # t
    BY <1>9, <1>15, <2>2
  <2>4. \A e \in drafts' \ drafts : e.transaction = t
    BY <1>4, <1>5
  <2> QED BY <1>6, <2>1, <2>3, <2>4 DEF Undisturbed
<1>16. PreparerIs(p, v)'
  <2>1. OwnIs(p, v)'
    BY <1>3, <1>6, <1>8, <1>9, CallNumbers DEF OwnIs, Made
  <2>2. LockIs(p, v)'
    BY <1>8, Unlocked DEF LockedAt
  <2> QED BY <1>6, <1>7, <1>8, <2>1, <2>2 DEF PreparerIs
<1> QED BY <1>5, <1>11, <1>12, <1>14, <1>15, <1>16, NoisyStep

\* Nobody watches while the lock is free or left by a program that died.
LEMMA RemoveDeadLockStep ==
  ASSUME PreparationAssumption, PreparationInv, RemoveDeadLock
  PROVE  PreparationInv'
<1>1. Quiet /\ preparers' = preparers /\ selectionHeld = "dead" /\ selectionHeld' = Nobody
  BY DEF RemoveDeadLock, Quiet, preparationFiles
<1>2. FilesAre'
  BY <1>1 DEF PreparationInv, FilesAre, Quiet
<1>3. StagesAre' /\ AllDrafts'
  BY <1>1 DEF PreparationInv, StagesAre, AllDrafts, DraftIs, Quiet
<1>4. ASSUME NEW q \in Preparer, NEW w PROVE Undisturbed(q, w)
  <2>1. witnessHead.revision <= witnessHead.revision
    BY DEF PreparationInv, FilesAre
  <2>2. selectionHeld # q
    BY <1>1, PlaceSlots
  <2> QED BY <1>1, <2>1, <2>2 DEF Undisturbed, Quiet
<1>5. AllPreparers'
  BY <1>1, <1>2, <1>4, NobodyMoved
<1> QED BY <1>2, <1>3, <1>5 DEF PreparationInv

LEMMA ChangeBytesStep ==
  ASSUME PreparationAssumption, PreparationInv, NEW t \in Place, ChangeBytes(t)
  PROVE  PreparationInv'
<1>1. PICK b : /\ bytes' = [bytes EXCEPT ![t] = b]
               /\ b.site \in IF bytes[t].site \in {"absent", "partial"} THEN {bytes[t].site}
                             ELSE {"planned", "other"}
               /\ b \in [site : {"absent", "partial", "planned", "other"},
                         native : {"absent", "built", "other"}, wheels : {"planned", "other"}]
  <2>1. PICK x : x = bytes[t]
    OBVIOUS
  <2>2. x.site \in {"absent", "partial", "planned", "other"}
    BY <2>1 DEF PreparationInv, FilesAre
  <2>3. PICK b \in [site   : IF x.site \in {"absent", "partial"} THEN {x.site}
                             ELSE {"planned", "other"},
                    native : IF x.native = "absent" THEN {"absent"} ELSE {"built", "other"},
                    wheels : {"planned", "other"}] : bytes' = [bytes EXCEPT ![t] = b]
    BY <2>1 DEF ChangeBytes
  <2>4. /\ b.site \in IF x.site \in {"absent", "partial"} THEN {x.site} ELSE {"planned", "other"}
        /\ b \in [site : {"absent", "partial", "planned", "other"},
                  native : {"absent", "built", "other"}, wheels : {"planned", "other"}]
    BY <2>2
  <2> QED BY <2>1, <2>3, <2>4
<1>2. /\ installers' = installers /\ pointer' = pointer /\ capsule' = capsule /\ record' = record
      /\ selectionHeld' = selectionHeld /\ witnessHead' = witnessHead /\ drafts' = drafts
      /\ preparers' = preparers
  BY DEF ChangeBytes
<1>3. FilesAre'
  BY <1>1, <1>2 DEF PreparationInv, FilesAre
<1>4. \A s \in Place :
        /\ bytes[s].site \notin {"absent", "partial"} => bytes'[s].site \notin {"absent", "partial"}
        /\ bytes'[s].site = "absent" => bytes[s].site = "absent"
  <2>1. bytes'[t] = b /\ \A s \in Place : s # t => bytes'[s] = bytes[s]
    BY <1>1 DEF PreparationInv, FilesAre
  <2>2. /\ bytes[t].site \notin {"absent", "partial"} => b.site \notin {"absent", "partial"}
        /\ b.site = "absent" => bytes[t].site = "absent"
    BY <1>1
  <2> QED BY <2>1, <2>2
<1>5. StagesAre'
  BY <1>2, <1>4 DEF PreparationInv, StagesAre, Place
<1>6. AllDrafts'
  BY <1>2 DEF PreparationInv, AllDrafts, DraftIs
<1>7. ASSUME NEW q \in Preparer, NEW w, w = preparers[q], PreparerIs(q, w) PROVE Undisturbed(q, w)
  <2>1. w.transaction \in Place
    BY <1>7 DEF PreparerIs, PreparerRecord, Place
  <2>2. witnessHead.revision <= witnessHead.revision
    BY DEF PreparationInv, FilesAre
  <2> QED BY <1>2, <1>4, <2>1, <2>2 DEF Undisturbed
<1>8. AllPreparers'
  BY <1>2, <1>3, <1>7, NobodyMoved
<1> QED BY <1>3, <1>5, <1>6, <1>8 DEF PreparationInv

\* With the lock free, a step that touches the selection disturbs nobody.
LEMMA FreeLock ==
  ASSUME PreparationAssumption, PreparationInv, selectionHeld = Nobody,
         bytes' = bytes, installers' = installers, drafts' = drafts,
         selectionHeld' = selectionHeld, witnessHead' = witnessHead,
         NEW q \in Preparer, NEW w
  PROVE  Undisturbed(q, w)
<1>1. witnessHead.revision <= witnessHead.revision
  BY DEF PreparationInv, FilesAre
<1>2. selectionHeld # q
  BY PlaceSlots
<1> QED BY <1>1, <1>2 DEF Undisturbed

LEMMA UndoSwitchStep ==
  ASSUME PreparationAssumption, PreparationInv, UndoSwitch
  PROVE  PreparationInv'
<1>1. PICK t : t = capsule.candidate.transaction
  OBVIOUS
<1>2. PICK r : r = [record[t] EXCEPT !.revision = 3]
  OBVIOUS
<1>3. /\ selectionHeld = Nobody /\ capsule # Nobody /\ pointer' = capsule.previous
      /\ capsule' = Nobody /\ record' = [record EXCEPT ![t] = r]
  BY <1>1, <1>2 DEF UndoSwitch
<1>4. /\ bytes' = bytes /\ installers' = installers /\ selectionHeld' = selectionHeld
      /\ witnessHead' = witnessHead /\ drafts' = drafts /\ preparers' = preparers
  BY DEF UndoSwitch
<1>5. /\ capsule \in [previous : SomeSlot, candidate : SomeSlot] /\ t \in Candidate
      /\ record[t] \in JournalRecord /\ record[t] # Nobody
  BY <1>1, <1>3 DEF PreparationInv, FilesAre, StagesAre
<1>6. r \in JournalRecord /\ r.revision = 3 /\ r # Nobody
  <2>1. r \in JournalRecord /\ r.revision = 3
    BY <1>2, <1>5 DEF JournalRecord
  <2> QED BY <2>1, PlaceSlots
<1>7. record'[t] = r /\ \A s \in Candidate : s # t => record'[s] = record[s]
  BY <1>3, <1>5 DEF PreparationInv, FilesAre
<1>8. FilesAre'
  BY <1>3, <1>4, <1>5, <1>6, <1>7 DEF PreparationInv, FilesAre
<1>9. StagesAre'
  BY <1>3, <1>4, <1>5, <1>7 DEF PreparationInv, StagesAre
<1>10. AllDrafts'
  <2> SUFFICES ASSUME NEW d \in drafts PROVE DraftIs(d)'
    BY <1>4 DEF AllDrafts
  <2>1. DraftIs(d) /\ d.transaction \in Candidate
    BY DraftHas
  <2>2. CASE d.transaction = t
    BY <1>4, <1>6, <1>7, <2>1, <2>2 DEF DraftIs
  <2>3. CASE d.transaction # t
    <3>1. record'[d.transaction] = record[d.transaction]
      BY <1>7, <2>1, <2>3
    <3>2. capsule # [previous |-> d.previous, candidate |-> d.successor]
      BY <1>1, <2>1, <2>3 DEF DraftIs
    <3> QED BY <1>4, <2>1, <3>1, <3>2 DEF DraftIs
  <2> QED BY <2>2, <2>3
<1>11. AllPreparers'
  BY <1>3, <1>4, <1>8, FreeLock, NobodyMoved
<1> QED BY <1>8, <1>9, <1>10, <1>11 DEF PreparationInv

LEMMA SettleSwitchStep ==
  ASSUME PreparationAssumption, PreparationInv, SettleSwitch
  PROVE  PreparationInv'
<1>1. /\ selectionHeld = Nobody /\ witnessHead.slot = pointer /\ capsule' = Nobody
      /\ bytes' = bytes /\ installers' = installers /\ selectionHeld' = selectionHeld
      /\ witnessHead' = witnessHead /\ drafts' = drafts /\ preparers' = preparers
      /\ pointer' = pointer /\ record' = record
  BY DEF SettleSwitch
<1>2. FilesAre' /\ StagesAre'
  BY <1>1 DEF PreparationInv, FilesAre, StagesAre
<1>3. AllDrafts'
  <2> SUFFICES ASSUME NEW d \in drafts PROVE DraftIs(d)'
    BY <1>1 DEF AllDrafts
  <2>1. DraftIs(d) /\ d.successor # d.previous
    BY DraftHas
  <2> QED BY <1>1, <2>1 DEF DraftIs
<1>4. AllPreparers'
  BY <1>1, <1>2, FreeLock, NobodyMoved
<1> QED BY <1>2, <1>3, <1>4 DEF PreparationInv

LEMMA CommitDraftStep ==
  ASSUME PreparationAssumption, PreparationInv, CommitDraft
  PROVE  PreparationInv'
<1>1. PICK d \in drafts :
        /\ d.previous = capsule.previous /\ d.successor = pointer
        /\ witnessHead = [slot |-> d.previous, revision |-> d.revision]
        /\ witnessHead' = [slot |-> d.successor, revision |-> d.revision + 1]
  BY DEF CommitDraft
<1>2. /\ bytes' = bytes /\ installers' = installers /\ pointer' = pointer /\ capsule' = capsule
      /\ record' = record /\ selectionHeld' = selectionHeld /\ drafts' = drafts
      /\ preparers' = preparers /\ capsule # Nobody
  BY DEF CommitDraft, preparationFiles
<1>3. d \in DraftRecord /\ d.successor # d.previous
  BY <1>1, DraftHas DEF PreparationInv, FilesAre
<1>4. PICK n : n = d.revision /\ n \in Nat
  BY <1>3 DEF DraftRecord
<1>5. /\ witnessHead.revision = n /\ witnessHead'.revision = n + 1
      /\ witnessHead.slot = d.previous /\ witnessHead'.slot = d.successor
  BY <1>1, <1>4
<1>6. witnessHead' \in [slot : SomeSlot, revision : Nat]
  <2>1. n + 1 \in Nat
    BY <1>4
  <2> QED BY <1>1, <1>3, <1>4, <2>1 DEF DraftRecord
<1>7. FilesAre' /\ StagesAre'
  BY <1>2, <1>6 DEF PreparationInv, FilesAre, StagesAre
<1>8. AllDrafts'
  <2> SUFFICES ASSUME NEW e \in drafts PROVE DraftIs(e)'
    BY <1>2 DEF AllDrafts
  <2>1. DraftIs(e) /\ e \in DraftRecord
    BY DraftHas DEF PreparationInv, FilesAre
  <2>2. PICK m : m = e.revision /\ m \in Nat
    BY <2>1 DEF DraftRecord
  <2>3. m <= n
    BY <1>5, <2>1, <2>2 DEF DraftIs
  <2>4. m <= n + 1 /\ m # n + 1
    BY <1>4, <2>2, <2>3
  <2> QED BY <1>2, <1>5, <2>1, <2>2, <2>4 DEF DraftIs
<1>9. ASSUME NEW q \in Preparer, NEW w, w = preparers[q], PreparerIs(q, w) PROVE Undisturbed(q, w)
  <2>1. ~Watching(w)
    <3> SUFFICES ASSUME Watching(w) PROVE FALSE
      OBVIOUS
    <3>1. LockIs(q, w)
      BY <1>9 DEF PreparerIs
    <3>2. w.at = "capsule"
      BY <1>2, <3>1 DEF LockIs, Watching
    <3>3. pointer = w.baseline.slot /\ witnessHead.slot = w.baseline.slot
      BY <3>1, <3>2 DEF LockIs
    <3> QED BY <1>1, <1>3, <1>5, <3>3
  <2>2. n <= n + 1
    BY <1>4
  <2> QED BY <1>2, <1>5, <2>1, <2>2 DEF Undisturbed
<1>10. AllPreparers'
  BY <1>2, <1>7, <1>9, NobodyMoved
<1> QED BY <1>7, <1>8, <1>10 DEF PreparationInv

LEMMA PreparationInit1 ==
  ASSUME PreparationAssumption, PreparationInit
  PROVE  PreparationInv
<1>1. Base \in Place /\ 1 \in Nat /\ pointer \in SomeSlot
  BY DEF PreparationInit, Place, SomeSlot
<1>2. \A p \in Preparer : preparers[p] = Nobody
  BY DEF PreparationInit
<1>3. /\ \A t \in Candidate : record[t] = Nobody
      /\ \A t \in Candidate : installers[t] = {}
  BY DEF PreparationInit, Place
<1>4. bytes \in [Place -> [site : {"absent", "partial", "planned", "other"},
                           native : {"absent", "built", "other"}, wheels : {"planned", "other"}]]
  BY DEF PreparationInit
<1>5. witnessHead \in [slot : SomeSlot, revision : Nat]
  BY <1>1 DEF PreparationInit
<1>6. FilesAre
  BY <1>1, <1>3, <1>4, <1>5 DEF PreparationInit, FilesAre
<1>7. StagesAre
  BY <1>3 DEF PreparationInit, StagesAre
<1> QED BY <1>2, <1>6, <1>7 DEF PreparationInit, PreparationInv, AllPreparers, AllDrafts

LEMMA PreparationStep ==
  ASSUME PreparationAssumption, PreparationInv, [PreparationNext]_preparationVars
  PROVE  PreparationInv'
<1>1. ASSUME NEW p \in Preparer, PreparerStep(p) PROVE PreparationInv'
  BY <1>1, RaiseStep, KillPreparerStep, BeginPlanStep, StartInstallStep, MakeStageStep, RunPipStep,
     EndInstallStep, MeasureStep, EndRequestStep, PlanLookStep, WriteRecordStep, LockForPlanStep,
     AskWitnessStep, ArmIntentStep, SaveSwitchCapsuleStep, SwitchPointerStep, LeaveLockStep,
     ReadBackStep, MakeDraftStep, HandOverStep DEF PreparerStep
<1>2. ASSUME UNCHANGED preparationVars PROVE PreparationInv'
  <2>1. Quiet /\ preparers' = preparers /\ selectionHeld' = selectionHeld
    BY <1>2 DEF preparationVars, preparationFiles, Quiet
  <2>2. FilesAre' /\ StagesAre' /\ AllDrafts'
    BY <2>1 DEF PreparationInv, FilesAre, StagesAre, AllDrafts, DraftIs, Quiet
  <2>3. ASSUME NEW q \in Preparer, NEW w PROVE Undisturbed(q, w)
    <3>1. witnessHead.revision <= witnessHead.revision
      BY DEF PreparationInv, FilesAre
    <3> QED BY <2>1, <3>1 DEF Undisturbed, Quiet
  <2>4. AllPreparers'
    BY <2>1, <2>2, <2>3, NobodyMoved
  <2> QED BY <2>2, <2>4 DEF PreparationInv
<1> QED BY <1>1, <1>2, ChangeBytesStep, RemoveDeadLockStep, UndoSwitchStep, CommitDraftStep,
           SettleSwitchStep DEF PreparationNext

-----------------------------------------------------------------------------
(* The preparation stays well formed: who has the lock is at work, and as  *)
(* each transaction is drafted once, the witness moves at most as often as *)
(* there are transactions.                                                 *)

HolderIs ==
  /\ selectionHeld \in Preparer =>
       \E u : u = preparers[selectionHeld] /\ u # Nobody /\ u.at \in LockedAt \cup {"written"}
  /\ \A p \in Preparer : preparers[p] # Nobody /\ preparers[p].held = SignNative =>
       preparers[p].at = "idle"

\* The transactions whose requests the witness has left behind.
Passed ==
  {t \in Candidate : \E d \in drafts : d.transaction = t /\ d.revision < witnessHead.revision}

PlansAre ==
  \A p \in Preparer : preparers[p] # Nobody =>
    preparers[p].baseline.slot \in Slots /\ preparers[p].revision \in Nat \ {0}

HeadIs ==
  /\ witnessHead.slot.generation = witnessHead.revision
  /\ witnessHead.revision \in Nat \ {0}
  /\ witnessHead.revision <= Cardinality(Passed) + 1

SlotsAre ==
  /\ pointer \in Slots
  /\ capsule # Nobody => capsule.previous \in Slots /\ capsule.candidate \in Slots
  /\ \A t \in Candidate : record[t] # Nobody => record[t].previous \in Slots

DraftsAre ==
  /\ \A d, e \in drafts : d.transaction = e.transaction => d = e
  /\ \A d \in drafts : /\ d.previous \in Slots /\ d.successor \in Slots
                       /\ d.revision \in 1..Cardinality(Candidate)

BoundsAre == PlansAre /\ HeadIs /\ SlotsAre /\ DraftsAre

LEMMA PassedIs ==
  ASSUME PreparationAssumption
  PROVE  /\ IsFiniteSet(Passed) /\ Cardinality(Passed) \in Nat /\ Cardinality(Candidate) \in Nat
         /\ Cardinality(Passed) <= Cardinality(Candidate)
         /\ Passed # Candidate => Cardinality(Passed) < Cardinality(Candidate)
<1>1. IsFiniteSet(Candidate) /\ Passed \subseteq Candidate
  BY PlaceSlots DEF Passed
<1>2. /\ IsFiniteSet(Passed) /\ Cardinality(Passed) <= Cardinality(Candidate)
      /\ Cardinality(Passed) = Cardinality(Candidate) => Passed = Candidate
  BY <1>1, FS_Subset
<1>3. Cardinality(Passed) \in Nat /\ Cardinality(Candidate) \in Nat
  BY <1>1, <1>2, FS_CardinalityType
<1> QED BY <1>2, <1>3

\* A transaction that was not drafted is one more that the witness may move for.
LEMMA RoomLeft ==
  ASSUME PreparationAssumption, PreparationInv, BoundsAre, NEW t \in Candidate,
         \A d \in drafts : d.transaction # t
  PROVE  witnessHead.revision <= Cardinality(Candidate)
<1>1. Passed # Candidate
  BY DEF Passed
<1>2. PICK c, k, r : c = Cardinality(Candidate) /\ k = Cardinality(Passed) /\ r = witnessHead.revision
  OBVIOUS
<1>3. c \in Nat /\ k \in Nat /\ r \in Nat /\ k < c /\ r <= k + 1
  BY <1>1, <1>2, PassedIs DEF BoundsAre, HeadIs
<1>4. r <= c
  BY <1>3
<1> QED BY <1>2, <1>4

LEMMA HeadSlot ==
  ASSUME PreparationAssumption, PreparationInv, BoundsAre
  PROVE  witnessHead.slot \in Slots /\ witnessHead.revision \in 1..(Cardinality(Candidate) + 1)
<1>1. witnessHead.slot \in SomeSlot /\ witnessHead.slot.generation = witnessHead.revision
  BY DEF PreparationInv, FilesAre, BoundsAre, HeadIs
<1>2. PICK c, k, r : c = Cardinality(Candidate) /\ k = Cardinality(Passed) /\ r = witnessHead.revision
  OBVIOUS
<1>3. c \in Nat /\ k \in Nat /\ r \in Nat \ {0} /\ k <= c /\ r <= k + 1
  BY <1>2, PassedIs DEF BoundsAre, HeadIs
<1>4. r \in 1..(c + 1)
  BY <1>3
<1> QED BY <1>1, <1>2, <1>4 DEF SomeSlot, Slots

\* What a program would put in the pointer's place while nobody has drafted it.
LEMMA NextSlot ==
  ASSUME PreparationAssumption, PreparationInv, BoundsAre, NEW u \in PreparerRecord,
         witnessHead.slot = u.baseline.slot, \A d \in drafts : d.transaction # u.transaction
  PROVE  Next1(u) \in Slots
<1>1. u.transaction \in Candidate /\ u.baseline.slot.generation = witnessHead.revision
  BY DEF PreparerRecord, BoundsAre, HeadIs
<1>2. PICK c, r : c = Cardinality(Candidate) /\ r = witnessHead.revision
  OBVIOUS
<1>3. c \in Nat /\ r \in Nat /\ r <= c
  BY <1>1, <1>2, RoomLeft, PassedIs DEF BoundsAre, HeadIs
<1>4. r + 1 \in 1..(c + 1)
  BY <1>3
<1> QED BY <1>1, <1>2, <1>4 DEF Next1, Slots, Place

\* A program goes on, and keeps its plan.
LEMMA GoingOn ==
  ASSUME PreparationInv, HolderIs, PlansAre, NEW p \in Preparer, preparers[p] # Nobody,
         NEW v \in PreparerRecord, preparers' = [preparers EXCEPT ![p] = v],
         v.baseline = preparers[p].baseline, v.revision \in Nat \ {0},
         v.held = SignNative => v.at = "idle",
         selectionHeld' \in {selectionHeld, p, Nobody},
         selectionHeld' = p => v.at \in LockedAt \cup {"written"},
         PreparationAssumption
  PROVE  HolderIs' /\ PlansAre'
<1>1. preparers'[p] = v /\ \A q \in Preparer : q # p => preparers'[q] = preparers[q]
  BY DEF PreparationInv, FilesAre
<1>2. v # Nobody
  BY PlaceSlots
<1>3. HolderIs'
  BY <1>1, <1>2, PlaceSlots DEF HolderIs
<1>4. PlansAre'
  BY <1>1 DEF PlansAre
<1> QED BY <1>3, <1>4

\* A program goes on to another point of its call.
LEMMA ProceedHolds ==
  ASSUME PreparationAssumption, PreparationInv, HolderIs, PlansAre,
         NEW p \in Preparer, preparers[p] # Nobody, NEW where \in WhereAt, Proceed(p, where),
         preparers[p].held = SignNative => where = "idle",
         selectionHeld' \in {selectionHeld, p, Nobody},
         selectionHeld' = p => where \in LockedAt \cup {"written"}
  PROVE  HolderIs' /\ PlansAre'
<1>1. PICK u : u = preparers[p] /\ u \in PreparerRecord /\ u # Nobody
  BY PreparerHas DEF PreparerIs
<1>2. PICK v : v = [u EXCEPT !.at = where]
  OBVIOUS
<1>3. preparers' = [preparers EXCEPT ![p] = v]
  BY <1>1, <1>2 DEF Proceed
<1>4. /\ v \in PreparerRecord /\ v.at = where /\ v.held = u.held
      /\ v.baseline = u.baseline /\ v.revision = u.revision
  BY <1>1, <1>2, MovedIs
<1>5. v.revision \in Nat \ {0}
  BY <1>1, <1>4 DEF PlansAre
<1> QED BY <1>1, <1>3, <1>4, <1>5, GoingOn

\* A program has a result, and no lock any more.
LEMMA ResultHolds ==
  ASSUME PreparationAssumption, PreparationInv, HolderIs, PlansAre,
         NEW p \in Preparer, preparers[p] # Nobody, preparers[p].held # 7, Result(p),
         selectionHeld' \in {selectionHeld, Nobody}, selectionHeld' # p
  PROVE  HolderIs' /\ PlansAre'
<1>1. PICK u : u = preparers[p] /\ u \in PreparerRecord /\ u # Nobody
  BY PreparerHas DEF PreparerIs
<1>2. PICK v : v = [u EXCEPT !.at = "idle", !.held = @ + 1]
  OBVIOUS
<1>3. preparers' = [preparers EXCEPT ![p] = v]
  BY <1>1, <1>2 DEF Result
<1>4. /\ v \in PreparerRecord /\ v.at = "idle"
      /\ v.baseline = u.baseline /\ v.revision = u.revision
  <2>1. u.held # 7 /\ u \in PreparerRecord
    BY <1>1
  <2> QED BY <1>2, <2>1, ResultIs
<1>5. v.revision \in Nat \ {0}
  BY <1>1, <1>4 DEF PlansAre
<1> QED BY <1>1, <1>3, <1>4, <1>5, GoingOn

\* Who is at none of the points under the lock does not have it.
LEMMA NotHolding ==
  ASSUME HolderIs, NEW p \in Preparer, preparers[p] = Nobody \/ preparers[p].at \notin LockedAt \cup {"written"}
  PROVE  selectionHeld # p
BY DEF HolderIs

LEMMA CallsHold ==
  ASSUME PreparationAssumption, PreparationInv, HolderIs, PlansAre, NEW p \in Preparer,
         \/ Raise(p) \/ StartInstall(p) \/ MakeStage(p) \/ RunPip(p) \/ FirstLook(p)
         \/ SecondLook(p) \/ WriteRecord(p) \/ LockForPlan(p) \/ ArmIntent(p)
         \/ SaveSwitchCapsule(p) \/ SwitchPointer(p) \/ MakeDraft(p)
  PROVE  HolderIs' /\ PlansAre'
<1>1. CASE Raise(p)
  <2>1. /\ preparers[p] # Nobody /\ Proceed(p, "idle") /\ selectionHeld' # p
        /\ selectionHeld' \in {selectionHeld, p, Nobody}
    BY <1>1, PlaceSlots DEF Raise, Release
  <2>2. "idle" \in WhereAt
    BY DEF WhereAt
  <2> QED BY <2>1, <2>2, ProceedHolds
<1>2. CASE StartInstall(p) \/ LockForPlan(p)
  <2>1. /\ preparers[p] # Nobody /\ Proceed(p, "locked") /\ selectionHeld' = p
        /\ preparers[p].held # SignNative
    BY <1>2, CallNumbers DEF StartInstall, LockForPlan, Holds
  <2>2. "locked" \in WhereAt /\ "locked" \in LockedAt
    BY DEF WhereAt, LockedAt
  <2> QED BY <2>1, <2>2, ProceedHolds
<1>3. CASE MakeStage(p) \/ RunPip(p) \/ WriteRecord(p) \/ ArmIntent(p) \/ SaveSwitchCapsule(p)
           \/ SwitchPointer(p)
  <2>1. PICK where \in {"made", "filled", "capsule", "written"} : Proceed(p, where)
    BY <1>3 DEF MakeStage, RunPip, WriteRecord, ArmIntent, SaveSwitchCapsule, SwitchPointer
  <2>2. /\ preparers[p] # Nobody /\ selectionHeld' = selectionHeld
        /\ preparers[p].held # SignNative
    BY <1>3, CallNumbers DEF MakeStage, RunPip, WriteRecord, ArmIntent, SaveSwitchCapsule,
       SwitchPointer, Holds
  <2>3. where \in WhereAt /\ where \in LockedAt \cup {"written"}
    BY <2>1 DEF WhereAt, LockedAt
  <2> QED BY <2>1, <2>2, <2>3, ProceedHolds
<1>4. CASE FirstLook(p) \/ SecondLook(p)
  <2>1. PICK where \in {"looked", "sure"} : Proceed(p, where)
    BY <1>4 DEF FirstLook, SecondLook, LookAtStage
  <2>2. /\ preparers[p] # Nobody /\ selectionHeld' = selectionHeld
        /\ preparers[p].held # SignNative /\ preparers[p].at \in {"idle", "looked"}
    BY <1>4, CallNumbers DEF FirstLook, SecondLook, LookAtStage, Calling
  <2>3. selectionHeld # p
    BY <2>2, NotHolding DEF LockedAt
  <2>4. where \in WhereAt
    BY <2>1 DEF WhereAt
  <2> QED BY <2>1, <2>2, <2>3, <2>4, ProceedHolds
<1>5. CASE MakeDraft(p)
  <2>1. /\ preparers[p] # Nobody /\ Proceed(p, "drafted") /\ selectionHeld' = Nobody
        /\ preparers[p].held # SignNative
    BY <1>5, CallNumbers DEF MakeDraft, Holds
  <2>2. "drafted" \in WhereAt
    BY DEF WhereAt
  <2> QED BY <2>1, <2>2, PlaceSlots, ProceedHolds
<1> QED BY <1>1, <1>2, <1>3, <1>4, <1>5

LEMMA ResultsHold ==
  ASSUME PreparationAssumption, PreparationInv, HolderIs, PlansAre, NEW p \in Preparer,
         EndInstall(p) \/ EndRequest(p) \/ SignRequest(p) \/ ReadBack(p) \/ HandOver(p)
  PROVE  HolderIs' /\ PlansAre'
<1>1. CASE EndInstall(p)
  <2>1. /\ preparers[p] # Nobody /\ preparers[p].held # 7 /\ Result(p)
        /\ selectionHeld' \in {selectionHeld, Nobody} /\ selectionHeld' # p
    BY <1>1, CallNumbers, PlaceSlots DEF EndInstall, Holds, Release
  <2> QED BY <2>1, ResultHolds
<1>2. CASE EndRequest(p) \/ SignRequest(p) \/ HandOver(p)
  <2>1. /\ preparers[p] # Nobody /\ preparers[p].held # 7 /\ Result(p)
        /\ selectionHeld' = selectionHeld
    BY <1>2, CallNumbers DEF EndRequest, SignRequest, HandOver, Holds
  <2>2. preparers[p].at \in {"measured", "idle", "drafted"}
    BY <1>2, <2>1 DEF EndRequest, SignRequest, HandOver, Holds, Calling, HolderIs
  <2>3. selectionHeld # p
    BY <2>2, NotHolding DEF LockedAt
  <2> QED BY <2>1, <2>3, ResultHolds
<1>3. CASE ReadBack(p)
  <2>1. /\ preparers[p] # Nobody /\ preparers[p].at = "written" /\ Result(p)
        /\ selectionHeld' = selectionHeld /\ selectionHeld # p
    BY <1>3 DEF ReadBack, Calling
  <2>2. preparers[p].held # 7
    BY <2>1, PreparerHas, CallNumbers DEF PreparerIs, OwnIs
  <2> QED BY <2>1, <2>2, ResultHolds
<1> QED BY <1>1, <1>2, <1>3

LEMMA OthersHold ==
  ASSUME PreparationAssumption, PreparationInv, HolderIs, BoundsAre, NEW p \in Preparer,
         \/ KillPreparer(p) \/ (\E t \in Candidate : BeginPlan(p, t))
         \/ MeasureStage(p) \/ AskWitness(p) \/ LeaveLock(p)
  PROVE  HolderIs' /\ PlansAre'
<1>a. PlansAre /\ DOMAIN preparers = Preparer
  BY DEF BoundsAre, PreparationInv, FilesAre
<1>1. CASE KillPreparer(p)
  <2>1. /\ preparers'[p] = Nobody /\ \A q \in Preparer : q # p => preparers'[q] = preparers[q]
        /\ selectionHeld' # p /\ selectionHeld' \in {selectionHeld, "dead"}
    BY <1>a, <1>1, PlaceSlots DEF KillPreparer
  <2> QED BY <1>a, <2>1, PlaceSlots DEF HolderIs, PlansAre
<1>2. ASSUME NEW t \in Candidate, BeginPlan(p, t) PROVE HolderIs' /\ PlansAre'
  <2>1. PICK v : v = [transaction |-> t, baseline |-> witnessHead, held |-> Install, at |-> "idle",
                      native |-> "absent", revision |-> witnessHead.revision]
    OBVIOUS
  <2>2. /\ preparers'[p] = v /\ \A q \in Preparer : q # p => preparers'[q] = preparers[q]
        /\ selectionHeld' = selectionHeld /\ preparers[p] = Nobody
    BY <1>a, <1>2, <2>1 DEF BeginPlan
  <2>3. /\ v.baseline.slot \in Slots /\ v.revision \in Nat \ {0} /\ v.at = "idle"
    BY <2>1, HeadSlot DEF BoundsAre, HeadIs
  <2>4. selectionHeld # p
    BY <2>2, NotHolding
  <2> QED BY <1>a, <2>2, <2>3, <2>4 DEF HolderIs, PlansAre
<1>3. CASE MeasureStage(p)
  <2>1. PICK u : u = preparers[p] /\ u \in PreparerRecord /\ u # Nobody /\ u.held = 1 /\ u.at = "idle"
    BY <1>3, PreparerHas, CallNumbers DEF PreparerIs, MeasureStage, Holds, Calling
  <2>2. PICK n : n = bytes[u.transaction].native
    OBVIOUS
  <2>3. n \in {"absent", "built", "other"}
    <3>1. u.transaction \in Place
      BY <2>1 DEF PreparerRecord, Place
    <3> QED BY <2>2, <3>1 DEF PreparationInv, FilesAre
  <2>4. PICK v : v = [u EXCEPT !.at = "measured", !.native = n]
    OBVIOUS
  <2>5. preparers' = [preparers EXCEPT ![p] = v] /\ selectionHeld' = selectionHeld
    BY <1>3, <2>1, <2>2, <2>4 DEF MeasureStage, Its
  <2>6. /\ v \in PreparerRecord /\ v.at = "measured" /\ v.held = u.held
        /\ v.baseline = u.baseline /\ v.revision = u.revision
    <3>1. u \in PreparerRecord
      BY <2>1
    <3> QED BY <2>3, <2>4, <3>1 DEF PreparerRecord
  <2>7. selectionHeld # p
    BY <2>1, NotHolding DEF LockedAt
  <2>8. v.revision \in Nat \ {0} /\ v.held # SignNative
    BY <1>a, <2>1, <2>6, CallNumbers DEF PlansAre
  <2> QED BY <1>a, <2>1, <2>5, <2>6, <2>7, <2>8, GoingOn
<1>4. CASE AskWitness(p)
  <2>1. PICK u : u = preparers[p] /\ u \in PreparerRecord /\ u # Nobody /\ u.held # SignNative
    BY <1>4, PreparerHas, CallNumbers DEF PreparerIs, AskWitness
  <2>2. PICK n : n = witnessHead.revision /\ n \in Nat \ {0}
    BY DEF BoundsAre, HeadIs
  <2>3. PICK v : v = [u EXCEPT !.at = "asked", !.revision = n]
    OBVIOUS
  <2>4. preparers' = [preparers EXCEPT ![p] = v] /\ selectionHeld' = selectionHeld
    BY <1>4, <2>1, <2>2, <2>3 DEF AskWitness
  <2>5. /\ v \in PreparerRecord /\ v.at = "asked" /\ v.held = u.held
        /\ v.baseline = u.baseline /\ v.revision = n
    <3>1. PICK x : x = [u EXCEPT !.at = "asked"]
      OBVIOUS
    <3>2. /\ x \in PreparerRecord /\ x.at = "asked" /\ x.held = u.held /\ x.baseline = u.baseline
      BY <2>1, <3>1, MovedIs DEF WhereAt
    <3>3. v = [x EXCEPT !.revision = n]
      BY <2>1, <2>3, <3>1 DEF PreparerRecord
    <3> QED BY <2>2, <3>2, <3>3 DEF PreparerRecord
  <2> QED BY <1>a, <2>1, <2>2, <2>4, <2>5, GoingOn DEF LockedAt
<1>5. CASE LeaveLock(p)
  <2>1. preparers' = preparers /\ selectionHeld' = Nobody
    BY <1>5 DEF LeaveLock
  <2> QED BY <1>a, <2>1, PlaceSlots DEF HolderIs, PlansAre
<1> QED BY <1>1, <1>2, <1>3, <1>4, <1>5

\* Whoever takes a step.
LEMMA EveryoneHolds ==
  ASSUME PreparationAssumption, PreparationInv, HolderIs, BoundsAre,
         [PreparationNext]_preparationVars
  PROVE  HolderIs' /\ PlansAre'
<1>1. ASSUME NEW p \in Preparer, PreparerStep(p) PROVE HolderIs' /\ PlansAre'
  BY <1>1, CallsHold, ResultsHold, OthersHold DEF PreparerStep, BoundsAre
<1>2. ASSUME \/ (\E t \in Place : ChangeBytes(t)) \/ RemoveDeadLock \/ UndoSwitch \/ CommitDraft
             \/ SettleSwitch \/ UNCHANGED preparationVars
      PROVE  HolderIs' /\ PlansAre'
  <2>1. preparers' = preparers /\ selectionHeld' \in {selectionHeld, Nobody}
    BY <1>2 DEF ChangeBytes, RemoveDeadLock, UndoSwitch, CommitDraft, SettleSwitch, preparationVars
  <2> QED BY <2>1, PlaceSlots DEF HolderIs, PlansAre, BoundsAre
<1> QED BY <1>1, <1>2 DEF PreparationNext

Bounded == HeadIs /\ SlotsAre /\ DraftsAre

\* The head and the drafts are as before.
LEMMA DraftsAsBefore ==
  ASSUME BoundsAre, witnessHead' = witnessHead, drafts' = drafts
  PROVE  HeadIs' /\ DraftsAre'
<1>1. Passed' = Passed
  BY DEF Passed
<1> QED BY <1>1 DEF BoundsAre, HeadIs, DraftsAre

LEMMA AllAsBefore ==
  ASSUME BoundsAre, UNCHANGED <<pointer, capsule, record, witnessHead, drafts>>
  PROVE  Bounded'
BY DraftsAsBefore DEF Bounded, BoundsAre, SlotsAre

LEMMA RecordsBounded ==
  ASSUME PreparationAssumption, PreparationInv, BoundsAre, NEW p \in Preparer,
         WriteRecord(p) \/ ArmIntent(p)
  PROVE  Bounded'
<1>1. PICK u : u = preparers[p] /\ u \in PreparerRecord /\ u.baseline.slot \in Slots
  BY PreparerHas DEF PreparerIs, WriteRecord, ArmIntent, Holds, BoundsAre, PlansAre
<1>2. PICK t : t = u.transaction /\ t \in Candidate
  BY <1>1 DEF PreparerRecord
<1>3. PICK r : /\ record' = [record EXCEPT ![t] = r]
               /\ r.previous = u.baseline.slot
  <2>1. CASE WriteRecord(p)
    <3>1. PICK r : r = [revision |-> 1, previous |-> u.baseline.slot, evidence |-> u.native]
      OBVIOUS
    <3>2. record' = [record EXCEPT ![t] = r] /\ r.previous = u.baseline.slot
      BY <1>1, <1>2, <2>1, <3>1 DEF WriteRecord, Its
    <3> QED BY <3>2
  <2>2. CASE ArmIntent(p)
    <3>1. PICK r : r = [record[t] EXCEPT !.revision = 2]
      OBVIOUS
    <3>2. record' = [record EXCEPT ![t] = r]
      BY <1>1, <1>2, <2>2, <3>1 DEF ArmIntent, Its
    <3>3. record[t] = [revision |-> 1, previous |-> u.baseline.slot, evidence |-> u.native]
      BY <1>1, <1>2, <2>2, CallNumbers DEF ArmIntent, LookAgain, Holds, FilesStand, Recorded, Its
    <3>4. r.previous = u.baseline.slot
      BY <3>1, <3>3
    <3> QED BY <3>2, <3>4
  <2> QED BY <2>1, <2>2
<1>4. /\ pointer' = pointer /\ capsule' = capsule /\ witnessHead' = witnessHead
      /\ drafts' = drafts
  BY DEF WriteRecord, ArmIntent
<1>5. record'[t] = r /\ \A s \in Candidate : s # t => record'[s] = record[s]
  BY <1>2, <1>3 DEF PreparationInv, FilesAre
<1>6. SlotsAre'
  BY <1>1, <1>3, <1>4, <1>5 DEF BoundsAre, SlotsAre
<1> QED BY <1>4, <1>6, DraftsAsBefore DEF Bounded

LEMMA SwitchBounded ==
  ASSUME PreparationAssumption, PreparationInv, BoundsAre, NEW p \in Preparer,
         SaveSwitchCapsule(p) \/ SwitchPointer(p)
  PROVE  Bounded'
<1>1. PICK u : u = preparers[p] /\ PreparerIs(p, u)
  BY PreparerHas DEF SaveSwitchCapsule, SwitchPointer, Holds
<1>2. u.held = Select /\ u.at \in {"asked", "capsule"}
  BY <1>1 DEF SaveSwitchCapsule, SwitchPointer, Holds, LookAgain, Calling
<1>3. /\ u \in PreparerRecord /\ witnessHead.slot = u.baseline.slot
      /\ \A d \in drafts : d.transaction # u.transaction
  BY <1>1, <1>2, CallNumbers DEF PreparerIs, OwnIs, LockIs, Made
<1>4. Next1(u) \in Slots
  BY <1>3, NextSlot
<1>5. witnessHead' = witnessHead /\ drafts' = drafts /\ record' = record
  BY DEF SaveSwitchCapsule, SwitchPointer
<1>6. \/ pointer' = pointer /\ capsule' = [previous |-> pointer, candidate |-> Next1(u)]
      \/ pointer' = Next1(u) /\ capsule' = capsule
  BY <1>1 DEF SaveSwitchCapsule, SwitchPointer, Successor, Its, Next1
<1> HIDE DEF Next1
<1>7. SlotsAre'
  BY <1>4, <1>5, <1>6 DEF BoundsAre, SlotsAre
<1> QED BY <1>5, <1>7, DraftsAsBefore DEF Bounded

LEMMA UndoneBounded ==
  ASSUME PreparationAssumption, PreparationInv, BoundsAre, UndoSwitch \/ SettleSwitch
  PROVE  Bounded'
<1>1. /\ witnessHead' = witnessHead /\ drafts' = drafts /\ capsule # Nobody /\ capsule' = Nobody
  BY DEF UndoSwitch, SettleSwitch
<1>2. pointer' \in Slots
  BY <1>1 DEF UndoSwitch, SettleSwitch, BoundsAre, SlotsAre
<1>3. ASSUME NEW t \in Candidate, record'[t] # Nobody PROVE record'[t].previous \in Slots
  <2>1. PICK s : s = capsule.candidate.transaction
    OBVIOUS
  <2>2. s \in Candidate /\ record[s] # Nobody /\ record[s] \in JournalRecord
    BY <1>1, <2>1 DEF PreparationInv, StagesAre, FilesAre
  <2>3. PICK r : r = [record[s] EXCEPT !.revision = 3]
    OBVIOUS
  <2>4. r.previous = record[s].previous
    BY <2>2, <2>3 DEF JournalRecord
  <2>5. record' = record \/ record' = [record EXCEPT ![s] = r]
    BY <2>1, <2>3 DEF UndoSwitch, SettleSwitch
  <2>6. record'[t] = record[t] \/ (t = s /\ record'[t] = r)
    BY <2>2, <2>5 DEF PreparationInv, FilesAre
  <2> QED BY <1>3, <2>2, <2>4, <2>6 DEF BoundsAre, SlotsAre
<1>4. SlotsAre'
  BY <1>1, <1>2, <1>3 DEF SlotsAre
<1> QED BY <1>1, <1>4, DraftsAsBefore DEF Bounded

LEMMA HandOverBounded ==
  ASSUME PreparationAssumption, PreparationInv, BoundsAre, NEW p \in Preparer, HandOver(p)
  PROVE  Bounded'
<1>1. PICK u : u = preparers[p] /\ PreparerIs(p, u) /\ u.baseline.slot \in Slots
               /\ u.revision \in Nat \ {0}
  BY PreparerHas DEF HandOver, Holds, BoundsAre, PlansAre
<1>2. u.held = 6 /\ preparers[p].held = Draft
  BY <1>1, CallNumbers DEF HandOver, Holds
<1>3. /\ u \in PreparerRecord /\ u.revision <= witnessHead.revision
      /\ \A d \in drafts : d.transaction # u.transaction
  BY <1>1, <1>2, CallNumbers DEF PreparerIs, OwnIs, Made
<1>4. PICK t : t = u.transaction /\ t \in Candidate
  BY <1>3 DEF PreparerRecord
<1>5. PICK d : d = [transaction |-> t, previous |-> u.baseline.slot, successor |-> Next1(u),
                    revision |-> u.revision]
  OBVIOUS
<1>6. /\ drafts' = drafts \cup {d} /\ witnessHead' = witnessHead /\ pointer' = pointer
      /\ capsule' = capsule /\ record' = record
  BY <1>1, <1>4, <1>5 DEF HandOver, Its, Successor, Next1, preparationFiles
<1>7. Next1(u) = pointer
  <2>1. ItsSwitchPending(p)
    BY <1>2, CallNumbers DEF HandOver, FilesStand
  <2> QED BY <1>1, <2>1 DEF ItsSwitchPending, Its, Next1
<1>8. /\ d.transaction = t /\ d.previous \in Slots /\ d.successor \in Slots
      /\ d.revision \in 1..Cardinality(Candidate)
  <2>1. pointer \in Slots /\ witnessHead.revision \in Nat
    BY DEF BoundsAre, SlotsAre, HeadIs
  <2>2. PICK c, r, h : c = Cardinality(Candidate) /\ r = u.revision /\ h = witnessHead.revision
    OBVIOUS
  <2>3. c \in Nat /\ r \in Nat \ {0} /\ h \in Nat /\ r <= h /\ h <= c
    BY <1>1, <1>3, <1>4, <2>1, <2>2, RoomLeft, PassedIs
  <2>4. r \in 1..c
    BY <2>3
  <2>5. d.revision = r /\ d.transaction = t /\ d.previous = u.baseline.slot /\ d.successor = pointer
    BY <1>5, <1>7, <2>2
  <2> QED BY <1>1, <2>1, <2>2, <2>4, <2>5
<1>9. DraftsAre'
  BY <1>3, <1>4, <1>6, <1>8 DEF BoundsAre, DraftsAre
<1>10. HeadIs'
  <2>1. Passed \subseteq Passed'
    BY <1>6 DEF Passed
  <2>2. IsFiniteSet(Passed') /\ Passed' \subseteq Candidate
    BY PlaceSlots, FS_Subset DEF Passed
  <2>3. PICK k, l, h : k = Cardinality(Passed) /\ l = Cardinality(Passed') /\ h = witnessHead.revision
    OBVIOUS
  <2>4. k \in Nat /\ l \in Nat /\ k <= l
    BY <2>1, <2>2, <2>3, FS_Subset, FS_CardinalityType
  <2>5. h \in Nat /\ h <= k + 1
    BY <2>3 DEF BoundsAre, HeadIs
  <2>6. h <= l + 1
    BY <2>4, <2>5
  <2> QED BY <1>6, <2>3, <2>6 DEF BoundsAre, HeadIs
<1>11. SlotsAre'
  BY <1>6 DEF BoundsAre, SlotsAre
<1> QED BY <1>9, <1>10, <1>11 DEF Bounded

LEMMA CommitBounded ==
  ASSUME PreparationAssumption, PreparationInv, BoundsAre, CommitDraft
  PROVE  Bounded'
<1>1. PICK d \in drafts :
        /\ witnessHead = [slot |-> d.previous, revision |-> d.revision]
        /\ witnessHead' = [slot |-> d.successor, revision |-> d.revision + 1]
  BY DEF CommitDraft
<1>2. drafts' = drafts /\ pointer' = pointer /\ capsule' = capsule /\ record' = record
  BY DEF CommitDraft, preparationFiles
<1>3. PICK t : t = d.transaction /\ t \in Candidate
  BY <1>1, DraftHas
<1>4. PICK h : h = d.revision /\ h \in Nat \ {0}
  BY <1>1 DEF BoundsAre, HeadIs
<1>5. /\ witnessHead.revision = h /\ witnessHead'.revision = h + 1
      /\ witnessHead.slot = d.previous /\ witnessHead'.slot = d.successor
  BY <1>1, <1>4
<1>6. t \notin Passed
  <2> SUFFICES ASSUME NEW e \in drafts, e.transaction = t, e.revision < h PROVE FALSE
    BY <1>5 DEF Passed
  <2>1. e = d
    BY <1>1, <1>3 DEF BoundsAre, DraftsAre
  <2> QED BY <1>4, <2>1
<1>7. Passed \cup {t} \subseteq Passed'
  <2>1. t \in Passed'
    BY <1>1, <1>2, <1>3, <1>4, <1>5 DEF Passed
  <2>2. ASSUME NEW s \in Passed PROVE s \in Passed'
    <3>1. PICK e \in drafts : e.transaction = s /\ e.revision < h
      BY <1>5 DEF Passed
    <3>2. e.revision \in Nat
      BY <3>1 DEF PreparationInv, FilesAre, DraftRecord
    <3>3. e.revision < h + 1
      BY <1>4, <3>1, <3>2
    <3> QED BY <1>2, <1>5, <3>1, <3>3 DEF Passed
  <2> QED BY <2>1, <2>2
<1>8. PICK k, l : k = Cardinality(Passed) /\ l = Cardinality(Passed')
  OBVIOUS
<1>9. k \in Nat /\ l \in Nat /\ k + 1 <= l
  <2>1. IsFiniteSet(Passed') /\ IsFiniteSet(Passed)
    BY PlaceSlots, FS_Subset DEF Passed
  <2>2. IsFiniteSet(Passed \cup {t}) /\ Cardinality(Passed \cup {t}) = k + 1
    BY <1>6, <1>8, <2>1, FS_AddElement
  <2>3. Cardinality(Passed \cup {t}) <= l
    BY <1>7, <1>8, <2>1, FS_Subset
  <2>4. k \in Nat /\ l \in Nat
    BY <1>8, <2>1, FS_CardinalityType
  <2> QED BY <2>2, <2>3, <2>4
<1>10. HeadIs'
  <2>1. h <= k + 1
    BY <1>5, <1>8 DEF BoundsAre, HeadIs
  <2>2. h + 1 <= l + 1 /\ h + 1 \in Nat \ {0}
    BY <1>4, <1>9, <2>1
  <2>3. d.successor.generation = h + 1
    <3>1. d.successor.generation = d.previous.generation + 1
      <4>1. d.successor =
              [transaction |-> d.transaction, generation |-> d.previous.generation + 1]
        BY <1>1, DraftHas DEF DraftIs
      <4>2. PICK n : n = d.previous.generation + 1
        OBVIOUS
      <4>3. d.successor = [transaction |-> d.transaction, generation |-> n]
        BY <4>1, <4>2
      <4>4. d.successor.generation = n
        BY <4>3
      <4> QED BY <4>2, <4>4
    <3>2. d.previous.generation = h
      BY <1>5 DEF BoundsAre, HeadIs
    <3> QED BY <3>1, <3>2
  <2> QED BY <1>5, <1>8, <2>2, <2>3 DEF HeadIs
<1>11. DraftsAre' /\ SlotsAre'
  BY <1>2 DEF BoundsAre, DraftsAre, SlotsAre
<1> QED BY <1>10, <1>11 DEF Bounded

LEMMA EveryoneBounded ==
  ASSUME PreparationAssumption, PreparationInv, HolderIs, BoundsAre,
         [PreparationNext]_preparationVars
  PROVE  HolderIs' /\ BoundsAre'
<1>1. ASSUME NEW p \in Preparer, PreparerStep(p) PROVE Bounded'
  <2>1. CASE \/ WriteRecord(p) \/ ArmIntent(p) \/ SaveSwitchCapsule(p) \/ SwitchPointer(p)
             \/ HandOver(p)
    BY <2>1, RecordsBounded, SwitchBounded, HandOverBounded
  <2>2. ASSUME ~(\/ WriteRecord(p) \/ ArmIntent(p) \/ SaveSwitchCapsule(p) \/ SwitchPointer(p)
                 \/ HandOver(p))
        PROVE  UNCHANGED <<pointer, capsule, record, witnessHead, drafts>>
    BY <1>1, <2>2 DEF PreparerStep, Raise, KillPreparer, BeginPlan, StartInstall, MakeStage,
       RunPip, EndInstall, MeasureStage, EndRequest, SignRequest, FirstLook, SecondLook,
       LookAtStage, LockForPlan, AskWitness, LeaveLock, ReadBack, MakeDraft, preparationFiles
  <2> QED BY <2>1, <2>2, AllAsBefore
<1>2. ASSUME (\E t \in Place : ChangeBytes(t)) \/ RemoveDeadLock \/ UNCHANGED preparationVars
      PROVE  UNCHANGED <<pointer, capsule, record, witnessHead, drafts>>
  BY <1>2 DEF ChangeBytes, RemoveDeadLock, preparationVars, preparationFiles
<1>3. Bounded'
  BY <1>1, <1>2, AllAsBefore, UndoneBounded, CommitBounded DEF PreparationNext
<1> QED BY <1>3, EveryoneHolds DEF Bounded, BoundsAre

LEMMA BoundsInit ==
  ASSUME PreparationAssumption, PreparationInit
  PROVE  HolderIs /\ BoundsAre
<1>1. /\ \A p \in Preparer : preparers[p] = Nobody
      /\ \A t \in Candidate : record[t] = Nobody
      /\ drafts = {} /\ capsule = Nobody /\ selectionHeld \notin Preparer
  BY PlaceSlots DEF PreparationInit
<1>2. Passed = {}
  BY <1>1 DEF Passed
<1>3. /\ witnessHead.slot.generation = 1 /\ witnessHead.revision = 1
      /\ pointer = [transaction |-> Base, generation |-> 1]
  BY DEF PreparationInit
<1>4. HeadIs
  <2>1. Cardinality(Passed) = 0
    BY <1>2, FS_EmptySet
  <2> QED BY <1>3, <2>1 DEF HeadIs
<1>5. pointer \in Slots
  <2>1. 1 \in 1..(Cardinality(Candidate) + 1)
    BY PassedIs
  <2> QED BY <1>3, <2>1 DEF Slots, Place
<1> QED BY <1>1, <1>4, <1>5 DEF HolderIs, BoundsAre, PlansAre, SlotsAre, DraftsAre

LEMMA PreparationTyped ==
  ASSUME PreparationAssumption, PreparationInv, HolderIs, BoundsAre
  PROVE  PreparationTypeOK
<1>1. pointer \in Slots /\ witnessHead \in [slot : Slots, revision : 1..(Cardinality(Candidate) + 1)]
  BY HeadSlot DEF PreparationInv, FilesAre, BoundsAre, SlotsAre
<1>2. capsule # Nobody => capsule \in [previous : Slots, candidate : Slots]
  BY DEF PreparationInv, FilesAre, BoundsAre, SlotsAre
<1>3. \A t \in Candidate : record[t] # Nobody =>
        record[t] \in [revision : 1..3, previous : Slots, evidence : {"built"}]
  BY DEF PreparationInv, FilesAre, BoundsAre, SlotsAre, JournalRecord
<1>4. selectionHeld \in Preparer =>
        preparers[selectionHeld] # Nobody /\ preparers[selectionHeld].at # "idle"
  BY DEF HolderIs, LockedAt
<1>5. drafts \subseteq [transaction : Candidate, previous : Slots, successor : Slots,
                        revision : 1..Cardinality(Candidate)]
  BY DEF PreparationInv, FilesAre, BoundsAre, DraftsAre, DraftRecord
<1>6. ASSUME NEW p \in Preparer, preparers[p] # Nobody
      PROVE  preparers[p].held \in Install..(Draft + 1) /\ preparers[p].transaction \in Candidate
  <2>1. preparers[p] \in PreparerRecord
    BY <1>6, PreparerHas DEF PreparerIs
  <2> QED BY <2>1, CallNumbers DEF PreparerRecord
<1>7. selectionHeld \in Preparer \cup {Nobody, "dead"}
  BY DEF PreparationInv, FilesAre
<1> QED BY <1>1, <1>2, <1>3, <1>4, <1>5, <1>6, <1>7 DEF PreparationTypeOK

LEMMA PreparationAlways == SupplySpec => [](PreparationInv /\ HolderIs /\ BoundsAre)
<1>a. PreparationAssumption
  BY PreparationAssumption
<1>1. SupplyInit => PreparationInv /\ HolderIs /\ BoundsAre
  BY <1>a, PreparationAlone, PreparationInit1, BoundsInit
<1>2. /\ PreparationInv /\ HolderIs /\ BoundsAre
      /\ [SupplyNext]_supplyVars
      => (PreparationInv /\ HolderIs /\ BoundsAre)'
  BY <1>a, PreparationAlone, PreparationStep, EveryoneBounded
<1> QED BY <1>1, <1>2, PTL DEF SupplySpec


-----------------------------------------------------------------------------
(* What it says: stages, updates and requests.                             *)

LEMMA StagesStand ==
  ASSUME PreparationAssumption, PreparationInv
  PROVE  StageIsOnesWork
<1> SUFFICES ASSUME NEW t \in Candidate
             PROVE  /\ Cardinality(installers[t]) <= 1
                    /\ record[t] # Nobody => bytes[t].site # "partial"
  BY DEF StageIsOnesWork
<1>1. CASE installers[t] = {}
  BY <1>1, FS_EmptySet DEF PreparationInv, StagesAre
<1>2. ASSUME NEW p, installers[t] = {p} PROVE Cardinality(installers[t]) <= 1
  BY <1>2, FS_Singleton
<1> QED BY <1>1, <1>2 DEF PreparationInv, StagesAre

LEMMA RequestsStand ==
  ASSUME PreparationInv
  PROVE  RequestIsPendingOrUndone
BY DraftHas DEF RequestIsPendingOrUndone, DraftIs

\* NoUpdateIsLost, of one step.
UpdateStands ==
  \A t \in Candidate :
    pointer'.transaction = t /\ pointer.transaction # t =>
      /\ pointer = record[t].previous \/ capsule' = Nobody
      /\ capsule' # Nobody => witnessHead.slot = pointer

LEMMA UpdatesStand ==
  ASSUME PreparationAssumption, PreparationInv, [PreparationNext]_preparationVars
  PROVE  UpdateStands
<1>1. ASSUME NEW p \in Preparer, SwitchPointer(p) PROVE UpdateStands
  <2>1. PICK u : u = preparers[p] /\ PreparerIs(p, u)
    BY <1>1, PreparerHas DEF SwitchPointer, Holds
  <2>2. u.at = "capsule" /\ pointer' = Next1(u)
    BY <1>1, <2>1 DEF SwitchPointer, Calling, Successor, Its, Next1
  <2>3. pointer = u.baseline.slot /\ witnessHead.slot = pointer /\ record[u.transaction].previous = pointer
    BY <2>1, <2>2 DEF PreparerIs, LockIs
  <2>4. pointer'.transaction = u.transaction
    BY <2>2 DEF Next1
  <2> QED BY <2>3, <2>4 DEF UpdateStands
<1>2. CASE UndoSwitch
  BY <1>2 DEF UndoSwitch, UpdateStands
<1>3. ASSUME pointer' = pointer PROVE UpdateStands
  BY <1>3 DEF UpdateStands
<1>4. ASSUME NEW p \in Preparer, PreparerStep(p), ~SwitchPointer(p) PROVE pointer' = pointer
  BY <1>4 DEF PreparerStep, Raise, KillPreparer, BeginPlan, StartInstall, MakeStage, RunPip,
     EndInstall, MeasureStage, EndRequest, SignRequest, FirstLook, SecondLook, LookAtStage,
     WriteRecord, LockForPlan, AskWitness, ArmIntent, SaveSwitchCapsule, LeaveLock, ReadBack,
     MakeDraft, HandOver, preparationFiles
<1>5. ASSUME (\E t \in Place : ChangeBytes(t)) \/ RemoveDeadLock \/ CommitDraft \/ SettleSwitch
             \/ UNCHANGED preparationVars
      PROVE  pointer' = pointer
  BY <1>5 DEF ChangeBytes, RemoveDeadLock, CommitDraft, SettleSwitch, preparationVars,
     preparationFiles
<1> QED BY <1>1, <1>2, <1>3, <1>4, <1>5 DEF PreparationNext

\* PreparationStands: plans are prepared side by side and their files stay apart: a stage is the
\* work of one program, a request that the witness would still accept is for
\* the switch that is pending or for one that was undone, and no selection is
\* replaced but the one that its plan was reviewed against.
THEOREM PreparationSound == SupplySpec => PreparationStands
<1>a. PreparationAssumption
  BY PreparationAssumption
<1>1. PreparationInv => StageIsOnesWork /\ RequestIsPendingOrUndone
  BY <1>a, StagesStand, RequestsStand
<1>2. PreparationInv /\ [SupplyNext]_supplyVars =>
        [\A t \in Candidate :
           pointer'.transaction = t /\ pointer.transaction # t =>
             /\ pointer = record[t].previous \/ capsule' = Nobody
             /\ capsule' # Nobody => witnessHead.slot = pointer]_preparationVars
  BY <1>a, PreparationAlone, UpdatesStand DEF UpdateStands
<1> QED BY <1>1, <1>2, PreparationAlways, PTL DEF SupplySpec, PreparationStands, NoUpdateIsLost
-----------------------------------------------------------------------------
(* All parts stay well formed.                                             *)

KeyFiles == {<<>>, <<"private">>, <<"private", "public">>}
KeysAre == DOMAIN keyfile = Keys /\ \A k \in Keys : keyfile[k] \in KeyFiles

LEMMA KeysAlways == SupplySpec => []KeysAre
<1>1. SupplyInit => KeysAre
  BY IssuanceAlone DEF IssuanceInit, KeysAre, KeyFiles
<1>2. KeysAre /\ [SupplyNext]_supplyVars => KeysAre'
  <2> SUFFICES ASSUME KeysAre, [SupplyNext]_supplyVars PROVE KeysAre'
    OBVIOUS
  <2>1. ASSUME NEW k \in Keys, MakePrivateKey(k) \/ MakePublicKey(k) PROVE KeysAre'
    <3>1. \E f \in KeyFiles : keyfile' = [keyfile EXCEPT ![k] = f]
      BY <2>1 DEF MakePrivateKey, MakePublicKey, KeyFiles
    <3> HIDE DEF KeyFiles
    <3> QED BY <3>1 DEF KeysAre
  <2>2. ASSUME UNCHANGED keyfile PROVE KeysAre'
    BY <2>2 DEF KeysAre
  <2>3. CASE IssuanceStep
    <3>1. ASSUME NEW c \in Ceremony,
                 \/ Prepare(c) \/ StartIssue(c) \/ CompareReview(c) \/ SignAndVerify(c)
                 \/ MakeNextFile(c) \/ KillCeremony(c)
          PROVE  UNCHANGED keyfile
      BY <3>1 DEF Prepare, StartIssue, CompareReview, SignAndVerify, MakeNextFile, KillCeremony
    <3>2. EditReview => UNCHANGED keyfile
      BY DEF EditReview
    <3> QED BY <2>1, <2>2, <2>3, <3>1, <3>2 DEF IssuanceStep
  <2> QED BY <2>2, <2>3, IssuanceAlone DEF issuanceVars
<1> QED BY <1>1, <1>2, PTL DEF SupplySpec

LEMMA KeyFilesArePrefixes ==
  \A f \in KeyFiles : IsPrefix(f, <<"private", "public">>)
<1>1. IsPrefix(<<>>, <<"private", "public">>)
  BY DEF IsPrefix
<1>2. IsPrefix(<<"private">>, <<"private", "public">>)
  BY DEF IsPrefix
<1>3. IsPrefix(<<"private", "public">>, <<"private", "public">>)
  BY DEF IsPrefix
<1> QED BY <1>1, <1>2, <1>3 DEF KeyFiles

LEMMA IssuanceTyped ==
  ASSUME IssuedInv, KeysAre
  PROVE  IssuanceTypeOK
<1>1. \A k \in Keys : IsPrefix(keyfile[k], <<"private", "public">>)
  BY KeyFilesArePrefixes DEF KeysAre
<1>2. PICK t \in Nat : PreparedAt(t)
  BY DEF IssuedInv
<1>3. DOMAIN review \subseteq {"."} \cup Range(ReviewNames) \cup Range(SignedNames)
  BY <1>2, NamesAre DEF PreparedAt, ReviewAt
<1>4. ASSUME NEW c \in Ceremony, ceremonies[c] # Absent
      PROVE  ceremonies[c].step \in {"preparing", "read", "compared", "issuing"}
  <2>1. PreparingAt(c, t) \/ ReadingAt(c, t) \/ IssuingAt(c, t)
    BY <1>2, <1>4 DEF PreparedAt, CeremonyAt
  <2>2. PreparingAt(c, t) => ceremonies[c].step = "preparing"
    BY DEF PreparingAt
  <2>3. ReadingAt(c, t) => ceremonies[c].step \in {"read", "compared"}
    BY DEF ReadingAt
  <2>4. IssuingAt(c, t) => ceremonies[c].step = "issuing"
    BY DEF IssuingAt
  <2> QED BY <2>1, <2>2, <2>3, <2>4
<1> QED BY <1>1, <1>3, <1>4 DEF IssuedInv, IssuanceTypeOK

LEMMA EvidenceTyped ==
  ASSUME EvidenceInv
  PROVE  EvidenceTypeOK
<1>1. /\ latest \in 0..MaxSecond /\ DOMAIN claims \subseteq Reviewer
      /\ \A r \in DOMAIN claims : claims[r] \in 0..MaxSecond
      /\ \A w \in Worker : workers[w] # NoStatement =>
           workers[w] \in [challenge : Reviewer, issued : 0..MaxSecond,
                           at : {"taken", "observed", "reserved"}, begun : SUBSET Reviewer]
  BY DEF EvidenceInv, ServiceTypes
<1>2. ASSUME NEW r \in Reviewer PROVE reviews[r].step \in 1..(Len(ReviewSteps) + 1)
  <2>1. reviews[r].step \in 1..16 /\ Len(ReviewSteps) = 15
    BY StepsAre DEF EvidenceInv, ReviewTypes
  <2> QED BY <2>1
<1>3. ASSUME NEW r \in Reviewer, NEW n \in DOMAIN answers[r]
      PROVE  answers[r][n] \in [issued : 0..MaxSecond, begun : SUBSET Reviewer]
  <2>1. answers[r] \in Seq(Statement)
    BY DEF EvidenceInv, ServiceTypes
  <2>2. answers[r][n] \in Statement
    BY <1>3, <2>1
  <2> QED BY <2>2 DEF Statement
<1>4. softwareHeld # NoStatement => reviews[softwareHeld].at = "reviewing"
  BY DEF EvidenceInv, LockIsReviews
<1>5. stood \subseteq Reviewer
  BY DEF EvidenceInv, ReviewTypes
<1> QED BY <1>1, <1>2, <1>3, <1>4, <1>5 DEF EvidenceTypeOK

LEMMA ReviewTyped ==
  ASSUME ReviewInv
  PROVE  ReviewTypeOK
BY DEF ReviewInv, PlanRight, Listed, ReviewTypeOK

\* SupplyTypeOK: the files, calls and reports of all six parts stay well formed, for
\* any number of programs, transactions and releases; the witness has moved at most as
\* often as there are transactions, as no transaction is drafted twice.
THEOREM SupplyTyped == SupplySpec => []SupplyTypeOK
<1>a. AuditAssumption /\ PreparationAssumption
  BY AuditAssumption, PreparationAssumption
<1>1. IssuedInv /\ KeysAre => IssuanceTypeOK
  BY IssuanceTyped
<1>2. CatalogInv => CatalogTypeOK
  BY DEF CatalogInv
<1>3. ReviewInv => ReviewTypeOK
  BY ReviewTyped
<1>4. PreparationInv /\ HolderIs /\ BoundsAre => PreparationTypeOK
  BY <1>a, PreparationTyped
<1>5. AuditInv => AuditTypeOK
  BY <1>a, AuditTyped
<1>6. EvidenceInv => EvidenceTypeOK
  BY EvidenceTyped
<1> QED BY <1>1, <1>2, <1>3, <1>4, <1>5, <1>6, IssuedAlways, KeysAlways, CatalogAlways,
           ReviewAlways, PreparationAlways, AuditAlways, EvidenceAlways, PTL DEF SupplyTypeOK
=============================================================================
