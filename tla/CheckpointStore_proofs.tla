------------------------ MODULE CheckpointStore_proofs ------------------------
(***************************************************************************)
(* CheckpointStore for every number of clients, nonces and receipts, every *)
(* skew and every set of windows that meets WindowAssumption.              *)
(***************************************************************************)
EXTENDS CheckpointStore, TLAPS

\* Every step is one of the actions, with its parameters named.
LEMMA NextCases ==
  ASSUME [Next]_vars
  PROVE  \/ \E i \in Installation, r \in Receipt : CommitReceipt(i, r)
         \/ \E chal \in sent : AnswerChallenge(chal)
         \/ \E chal \in sent : AnswerLost(chal)
         \/ \E c \in Client, i \in Installation, r \in Receipt, min \in 0..1,
               now \in NearClock : IssueChallenge(c, i, r, min, now)
         \/ \E c \in Client, s \in replies : AcceptReply(c, s)
         \/ \E c \in Client : QueryFails(c)
         \/ Tick
         \/ UNCHANGED vars
BY DEF Next

\* A head stays a head, its revision never decreases, and a commit raises it.
LEMMA AppendedType ==
  ASSUME NEW h \in HeadRow \cup {NoHead}, NEW r \in Receipt
  PROVE  /\ Appended(h, r) \in HeadRow
         /\ Appended(h, r) # NoHead
         /\ h # NoHead => Appended(h, r).rev > h.rev
<1>1. Appended(h, r) \in HeadRow
  BY DEF Appended, HeadRow
<1>2. h # NoHead => Appended(h, r).rev > h.rev
  BY DEF Appended, HeadRow
<1> QED
  BY <1>1, <1>2, NoHeadAssumption

LEMMA WindowTypes ==
  /\ Fresh \in Nat /\ Retention \in Nat /\ Validity \in Nat
  /\ MaxWindow \in Nat /\ Skew \in Nat /\ MaxTime \in Nat
  /\ Fresh <= Retention /\ 0 < Validity /\ Validity <= MaxWindow
BY WindowAssumption

\* A challenge that was sent and passes the store's checks gets a statement.
LEMMA StatementType ==
  ASSUME TypeOK, NEW chal \in sent, ConsumeNonce(chal)
  PROVE  /\ chal \in Challenge
         /\ StatementFor(chal) \in Statement
         /\ issued' \subseteq [inst : Installation, nonce : Nonce, at : Time]
<1>1. chal \in Challenge /\ chal.inst \in Installation /\ chal.nonce \in Nonce
  BY DEF TypeOK, Challenge
<1>2. head[chal.inst] \in HeadRow
  BY <1>1 DEF TypeOK, ConsumeNonce
<1>3. clock \in Time /\ clock \in Nat /\ clock + Validity \in Nat
  BY WindowTypes DEF TypeOK, Time
<1>4. StatementFor(chal) \in Statement
  BY <1>1, <1>2, <1>3 DEF StatementFor, Statement, HeadRow
<1>5. Kept(clock) \subseteq issued
  BY DEF Kept
<1>6. issued' \subseteq [inst : Installation, nonce : Nonce, at : Time]
  BY <1>1, <1>3, <1>5 DEF ConsumeNonce, TypeOK
<1> QED
  BY <1>1, <1>4, <1>6

LEMMA TypeInit == Init => TypeOK
BY WindowTypes DEF Init, TypeOK, Time

LEMMA TypeStep == TypeOK /\ [Next]_vars => TypeOK'
<1> SUFFICES ASSUME TypeOK, [Next]_vars PROVE TypeOK'
  OBVIOUS
<1>1. ASSUME NEW i \in Installation, NEW r \in Receipt, CommitReceipt(i, r) PROVE TypeOK'
  <2>1. Appended(head[i], r) \in HeadRow
    BY AppendedType DEF TypeOK
  <2> QED
    BY <1>1, <2>1 DEF CommitReceipt, TypeOK, netVars, clientVars
<1>2. ASSUME NEW chal \in sent, AnswerChallenge(chal) PROVE TypeOK'
  BY <1>2, StatementType DEF AnswerChallenge, TypeOK, clientVars
<1>3. ASSUME NEW chal \in sent, AnswerLost(chal) PROVE TypeOK'
  BY <1>3, StatementType DEF AnswerLost, TypeOK, netVars, clientVars
<1>4. ASSUME NEW c \in Client, NEW i \in Installation, NEW r \in Receipt, NEW min \in 0..1,
             NEW now \in NearClock, IssueChallenge(c, i, r, min, now)
      PROVE  TypeOK'
  <2>1. PICK n \in Nonce :
          /\ sent' = sent \cup {[inst |-> i, nonce |-> n, at |-> now]}
          /\ query' = [query EXCEPT ![c] =
               [chal |-> [inst |-> i, nonce |-> n, at |-> now], receipt |-> r,
                min |-> min, since |-> Revision(i)]]
    BY <1>4 DEF IssueChallenge
  <2>2. [inst |-> i, nonce |-> n, at |-> now] \in Challenge
    BY WindowTypes DEF Challenge, NearClock
  <2>3. Revision(i) \in Nat /\ min \in Nat
    BY DEF Revision, TypeOK, HeadRow
  <2> QED
    BY <1>4, <2>1, <2>2, <2>3 DEF IssueChallenge, TypeOK, Query, serverVars
<1>5. ASSUME NEW c \in Client, NEW s \in replies, AcceptReply(c, s) PROVE TypeOK'
  <2>1. query[c].since \in Nat
    BY <1>5 DEF AcceptReply, TypeOK, Query
  <2> QED
    BY <1>5, <2>1 DEF AcceptReply, TypeOK, serverVars, netVars
<1>6. ASSUME NEW c \in Client, QueryFails(c) PROVE TypeOK'
  BY <1>6 DEF QueryFails, TypeOK, serverVars, netVars
<1>7. ASSUME Tick PROVE TypeOK'
  BY <1>7, WindowTypes DEF Tick, TypeOK, Time, serverVars, netVars, clientVars
<1>8. CASE UNCHANGED vars
  BY <1>8 DEF vars, TypeOK
<1> QED
  BY NextCases, <1>1, <1>2, <1>3, <1>4, <1>5, <1>6, <1>7, <1>8

\* Every variable keeps its type: revisions stay positive naturals and every
\* signed statement is about a receipt and an instant of the service's clock.
THEOREM TypeCorrect == Spec => []TypeOK
<1> QED
  BY TypeInit, TypeStep, PTL DEF Spec

-----------------------------------------------------------------------------
(* One statement per challenge.                                            *)

\* Every statement was signed between its challenge and now, and its nonce is
\* on record for as long as the store keeps rows.
AnsweredInv ==
  \A s \in replies :
    /\ s.chal \in sent
    /\ s.chal.at <= s.at /\ s.at <= clock
    /\ s.at + Retention >= clock =>
         [inst |-> s.chal.inst, nonce |-> s.chal.nonce, at |-> s.at] \in issued

\* A challenge whose nonce passes the store has no statement yet: a statement
\* to it would be recent, hence its nonce still kept.
LEMMA ConsumedIsUnanswered ==
  ASSUME TypeOK, AnsweredInv, NEW chal \in sent, ConsumeNonce(chal), NEW s \in replies
  PROVE  s.chal # chal
<1> SUFFICES ASSUME s.chal = chal PROVE FALSE
  OBVIOUS
<1> DEFINE row == [inst |-> chal.inst, nonce |-> chal.nonce, at |-> s.at]
<1>1. /\ clock \in Nat /\ chal.at \in Nat /\ s.at \in Nat
  BY WindowTypes DEF TypeOK, Time, Challenge, Statement
<1>2. clock - chal.at <= Fresh /\ chal.at <= s.at
  BY DEF ConsumeNonce, IsFresh, AnsweredInv
<1>3. s.at + Retention >= clock
  BY <1>1, <1>2, WindowTypes
<1>4. row \in issued
  BY <1>3 DEF AnsweredInv
<1>5. row \in Kept(clock)
  BY <1>3, <1>4 DEF Kept
<1> QED
  BY <1>5 DEF ConsumeNonce

\* Pruning keeps what AnsweredInv needs, and consuming a nonce records it now.
LEMMA ConsumeKeeps ==
  ASSUME TypeOK, AnsweredInv, NEW chal \in sent, ConsumeNonce(chal)
  PROVE  /\ \A s \in replies : s.at + Retention >= clock =>
              [inst |-> s.chal.inst, nonce |-> s.chal.nonce, at |-> s.at] \in issued'
         /\ [inst |-> chal.inst, nonce |-> chal.nonce, at |-> clock] \in issued'
         /\ chal.at <= clock
BY DEF AnsweredInv, ConsumeNonce, Kept, IsFresh

LEMMA AnsweredStep == TypeOK /\ AnsweredInv /\ [Next]_vars => AnsweredInv'
<1> SUFFICES ASSUME TypeOK, AnsweredInv, [Next]_vars PROVE AnsweredInv'
  OBVIOUS
<1>1. ASSUME NEW i \in Installation, NEW r \in Receipt, CommitReceipt(i, r)
      PROVE  AnsweredInv'
  BY <1>1 DEF CommitReceipt, AnsweredInv, netVars
<1>2. ASSUME NEW chal \in sent, AnswerChallenge(chal) PROVE AnsweredInv'
  <2>1. /\ replies' = replies \cup {StatementFor(chal)} /\ sent' = sent /\ clock' = clock
        /\ StatementFor(chal).chal = chal /\ StatementFor(chal).at = clock
    BY <1>2 DEF AnswerChallenge, StatementFor
  <2>2. clock \in Nat
    BY DEF TypeOK, Time
  <2>3. ConsumeNonce(chal)
    BY <1>2 DEF AnswerChallenge
  <2>4. ASSUME NEW s \in replies
        PROVE  /\ s.chal \in sent' /\ s.chal.at <= s.at /\ s.at <= clock'
               /\ s.at + Retention >= clock' =>
                    [inst |-> s.chal.inst, nonce |-> s.chal.nonce, at |-> s.at] \in issued'
    BY <2>1, <2>3, ConsumeKeeps DEF AnsweredInv
  <2>5. /\ chal \in sent' /\ chal.at <= clock
        /\ [inst |-> chal.inst, nonce |-> chal.nonce, at |-> clock] \in issued'
        /\ clock <= clock
    BY <2>1, <2>2, <2>3, ConsumeKeeps
  <2> QED
    BY <2>1, <2>4, <2>5 DEF AnsweredInv
<1>3. ASSUME NEW chal \in sent, AnswerLost(chal) PROVE AnsweredInv'
  BY <1>3, ConsumeKeeps DEF AnswerLost, AnsweredInv, netVars
<1>4. ASSUME NEW c \in Client, NEW i \in Installation, NEW r \in Receipt, NEW min \in 0..1,
             NEW now \in NearClock, IssueChallenge(c, i, r, min, now)
      PROVE  AnsweredInv'
  BY <1>4 DEF IssueChallenge, AnsweredInv, serverVars
<1>5. ASSUME NEW c \in Client, NEW s \in replies, AcceptReply(c, s) PROVE AnsweredInv'
  BY <1>5 DEF AcceptReply, AnsweredInv, serverVars, netVars
<1>6. ASSUME NEW c \in Client, QueryFails(c) PROVE AnsweredInv'
  BY <1>6 DEF QueryFails, AnsweredInv, serverVars, netVars
<1>7. ASSUME Tick PROVE AnsweredInv'
  <2>1. /\ clock' = clock + 1 /\ issued' = issued /\ sent' = sent /\ replies' = replies
    BY <1>7 DEF Tick, serverVars, netVars
  <2>2. clock \in Nat /\ \A s \in replies : s.at \in Nat
    BY WindowTypes DEF TypeOK, Time, Statement
  <2>3. ASSUME NEW s \in replies
        PROVE  /\ s.at <= clock => s.at <= clock + 1
               /\ s.at + Retention >= clock + 1 => s.at + Retention >= clock
    BY <2>2, WindowTypes
  <2> QED
    BY <2>1, <2>3 DEF AnsweredInv
<1>8. CASE UNCHANGED vars
  BY <1>8 DEF vars, AnsweredInv
<1> QED
  BY NextCases, <1>1, <1>2, <1>3, <1>4, <1>5, <1>6, <1>7, <1>8

LEMMA OnceStep ==
  TypeOK /\ AnsweredInv /\ ChallengeAnsweredOnce /\ [Next]_vars => ChallengeAnsweredOnce'
<1> SUFFICES ASSUME TypeOK, AnsweredInv, ChallengeAnsweredOnce, [Next]_vars
             PROVE  ChallengeAnsweredOnce'
  OBVIOUS
<1>1. ASSUME NEW chal \in sent, AnswerChallenge(chal) PROVE ChallengeAnsweredOnce'
  <2>1. /\ replies' = replies \cup {StatementFor(chal)}
        /\ StatementFor(chal).chal = chal
        /\ \A s \in replies : s.chal # chal
    BY <1>1, ConsumedIsUnanswered DEF AnswerChallenge, StatementFor
  <2> QED
    BY <2>1 DEF ChallengeAnsweredOnce
<1>2. ASSUME replies' = replies PROVE ChallengeAnsweredOnce'
  BY <1>2 DEF ChallengeAnsweredOnce
<1> QED
  BY NextCases, <1>1, <1>2
     DEF CommitReceipt, AnswerLost, IssueChallenge, AcceptReply, QueryFails, Tick,
         netVars, vars

LEMMA AnsweredCorrect == Spec => [](TypeOK /\ AnsweredInv /\ ChallengeAnsweredOnce)
<1>1. Init => TypeOK /\ AnsweredInv /\ ChallengeAnsweredOnce
  BY TypeInit DEF Init, AnsweredInv, ChallengeAnsweredOnce
<1> QED
  BY <1>1, TypeStep, AnsweredStep, OnceStep, PTL DEF Spec

\* However a challenge is repeated and however long the transport holds it, the
\* witness signs one statement to it: the retention covers the freshness window.
THEOREM AnsweredOnce == Spec => []ChallengeAnsweredOnce
<1> QED
  BY AnsweredCorrect, PTL

-----------------------------------------------------------------------------
(* Statements and the chain.                                               *)

\* The head has passed every statement about it, or is the one it names.
HeadInv ==
  \A s \in replies :
    /\ head[s.chal.inst] # NoHead
    /\ head[s.chal.inst].rev >= s.rev
    /\ head[s.chal.inst].rev = s.rev => head[s.chal.inst].sha = s.sha

LEMMA ReplyTypes ==
  ASSUME TypeOK, NEW s \in replies
  PROVE  /\ s.chal \in Challenge /\ s.chal.inst \in Installation
         /\ s.rev \in Nat /\ s.at \in Nat
         /\ head[s.chal.inst] # NoHead =>
              head[s.chal.inst] \in HeadRow /\ head[s.chal.inst].rev \in Nat
BY WindowTypes DEF TypeOK, Statement, Challenge, Time, HeadRow

LEMMA HeadStep == TypeOK /\ HeadInv /\ [Next]_vars => HeadInv'
<1> SUFFICES ASSUME TypeOK, HeadInv, [Next]_vars PROVE HeadInv'
  OBVIOUS
<1>1. ASSUME NEW i \in Installation, NEW r \in Receipt, CommitReceipt(i, r) PROVE HeadInv'
  <2> SUFFICES ASSUME NEW s \in replies
               PROVE  /\ head'[s.chal.inst] # NoHead
                      /\ head'[s.chal.inst].rev >= s.rev
                      /\ head'[s.chal.inst].rev = s.rev => head'[s.chal.inst].sha = s.sha
    BY <1>1 DEF CommitReceipt, HeadInv, netVars
  <2>1. CASE s.chal.inst # i
    BY <1>1, <2>1, ReplyTypes DEF CommitReceipt, HeadInv, TypeOK
  <2>2. CASE s.chal.inst = i
    <3>1. head'[i] = Appended(head[i], r)
      BY <1>1 DEF CommitReceipt, TypeOK
    <3>2. head[i] # NoHead /\ head[i] \in HeadRow /\ head[i].rev >= s.rev
      BY <2>2, ReplyTypes DEF HeadInv
    <3>3. Appended(head[i], r) \in HeadRow /\ Appended(head[i], r) # NoHead
          /\ Appended(head[i], r).rev > head[i].rev
      BY <3>2, AppendedType
    <3>4. Appended(head[i], r).rev > s.rev
      BY <3>2, <3>3, ReplyTypes DEF HeadRow
    <3> QED
      BY <2>2, <3>1, <3>3, <3>4, ReplyTypes DEF HeadRow
  <2> QED
    BY <2>1, <2>2
<1>2. ASSUME NEW chal \in sent, AnswerChallenge(chal) PROVE HeadInv'
  <2>1. /\ replies' = replies \cup {StatementFor(chal)} /\ head' = head
        /\ StatementFor(chal).chal = chal /\ head[chal.inst] # NoHead
        /\ StatementFor(chal).rev = head[chal.inst].rev
        /\ StatementFor(chal).sha = head[chal.inst].sha
    BY <1>2 DEF AnswerChallenge, ConsumeNonce, StatementFor
  <2>2. head[chal.inst].rev \in Nat
    BY <2>1 DEF TypeOK, HeadRow, Challenge
  <2> QED
    BY <2>1, <2>2 DEF HeadInv
<1>3. ASSUME replies' = replies, head' = head PROVE HeadInv'
  BY <1>3 DEF HeadInv
<1> QED
  BY NextCases, <1>1, <1>2, <1>3
     DEF AnswerLost, IssueChallenge, AcceptReply, QueryFails, Tick, netVars, serverVars, vars

LEMMA AgreeStep ==
  TypeOK /\ AnsweredInv /\ HeadInv /\ StatementsAgree /\ [Next]_vars => StatementsAgree'
<1> SUFFICES ASSUME TypeOK, AnsweredInv, HeadInv, StatementsAgree, [Next]_vars
             PROVE  StatementsAgree'
  OBVIOUS
<1>1. ASSUME NEW chal \in sent, AnswerChallenge(chal) PROVE StatementsAgree'
  <2> DEFINE new == StatementFor(chal)
  <2>1. /\ replies' = replies \cup {new} /\ new.chal = chal /\ new.at = clock
        /\ new.rev = head[chal.inst].rev /\ new.sha = head[chal.inst].sha
    BY <1>1 DEF AnswerChallenge, StatementFor
  <2>2. ASSUME NEW s \in replies, s.chal.inst = chal.inst
        PROVE  /\ s.rev = new.rev => s.sha = new.sha
               /\ s.rev <= new.rev /\ s.at <= new.at
               /\ s.at \in Nat /\ new.at \in Nat
    <3>1. /\ head[chal.inst].rev >= s.rev
          /\ head[chal.inst].rev = s.rev => head[chal.inst].sha = s.sha
      BY <2>2 DEF HeadInv
    <3>2. s.at <= clock /\ s.at \in Nat /\ clock \in Nat
      <4>1. s.at <= clock
        BY DEF AnsweredInv
      <4> QED
        BY <4>1, ReplyTypes, WindowTypes DEF TypeOK, Time
    <3> HIDE DEF new
    <3> QED
      BY <2>1, <3>1, <3>2
  <2>3. new.rev \in Nat /\ new.at \in Nat
    BY <1>1, <2>1 DEF AnswerChallenge, ConsumeNonce, TypeOK, HeadRow, Challenge, Time
  <2>4. ASSUME NEW s \in replies, s.chal.inst = chal.inst
        PROVE  /\ new.rev = s.rev => new.sha = s.sha
               /\ ~ new.at < s.at
    BY <2>2, <2>4
  <2> HIDE DEF new
  <2> QED
    BY <2>1, <2>2, <2>3, <2>4 DEF StatementsAgree
<1>2. ASSUME replies' = replies PROVE StatementsAgree'
  BY <1>2 DEF StatementsAgree
<1> QED
  BY NextCases, <1>1, <1>2
     DEF CommitReceipt, AnswerLost, IssueChallenge, AcceptReply, QueryFails, Tick,
         netVars, vars

\* What independent clients were told about an installation fits one chain.
THEOREM StatementsMerge == Spec => []StatementsAgree
<1>1. Init => HeadInv /\ StatementsAgree
  BY DEF Init, HeadInv, StatementsAgree
<1> QED
  BY <1>1, AnsweredCorrect, HeadStep, AgreeStep, PTL DEF Spec

-----------------------------------------------------------------------------
(* Queries.                                                                *)

\* An open query's challenge was sent, no two share a nonce, the chain has not
\* fallen behind where it was at the call, and no answer to it has either.
QueryInv ==
  \A c \in Client : query[c] # Idle =>
    /\ query[c].chal \in sent
    /\ query[c].since <= Revision(query[c].chal.inst)
    /\ \A s \in replies : s.chal = query[c].chal => s.rev >= query[c].since
    /\ \A d \in Client : d # c /\ query[d] # Idle => query[d].chal # query[c].chal

LEMMA QueryTypes ==
  ASSUME TypeOK, NEW c \in Client, query[c] # Idle
  PROVE  /\ query[c] \in Query /\ query[c].chal \in Challenge
         /\ query[c].chal.inst \in Installation /\ query[c].since \in Nat
BY DEF TypeOK, Query, Challenge

LEMMA RevisionType ==
  ASSUME TypeOK, NEW i \in Installation
  PROVE  Revision(i) \in Nat
BY DEF TypeOK, Revision, HeadRow

LEMMA QueryStep ==
  TypeOK /\ TypeOK' /\ AnsweredInv /\ QueryInv /\ [Next]_vars => QueryInv'
<1> SUFFICES ASSUME TypeOK, TypeOK', AnsweredInv, QueryInv, [Next]_vars PROVE QueryInv'
  OBVIOUS
<1>1. ASSUME NEW i \in Installation, NEW r \in Receipt, CommitReceipt(i, r) PROVE QueryInv'
  <2>1. ASSUME NEW j \in Installation PROVE Revision(j)' \in Nat /\ Revision(j) <= Revision(j)'
    <3>1. CASE j # i
      BY <1>1, <3>1, RevisionType DEF CommitReceipt, Revision, TypeOK
    <3>2. CASE j = i
      <4>1. head'[i] = Appended(head[i], r) /\ head[i] \in HeadRow \cup {NoHead}
        BY <1>1 DEF CommitReceipt, TypeOK
      <4>2. /\ Appended(head[i], r) # NoHead /\ Appended(head[i], r).rev \in Nat
            /\ head[i] # NoHead => Appended(head[i], r).rev > head[i].rev
        BY <4>1, AppendedType DEF HeadRow
      <4> QED
        BY <3>2, <4>1, <4>2, RevisionType DEF Revision
    <3> QED
      BY <3>1, <3>2
  <2>2. query' = query /\ sent' = sent /\ replies' = replies
    BY <1>1 DEF CommitReceipt, netVars, clientVars
  <2>3. ASSUME NEW c \in Client, query[c] # Idle
        PROVE  query[c].since <= Revision(query[c].chal.inst)'
    <3>1. /\ query[c].chal.inst \in Installation /\ query[c].since \in Nat
          /\ query[c].since <= Revision(query[c].chal.inst)
      BY <2>3, QueryTypes DEF QueryInv
    <3>2. \A j \in Installation : query[c].since <= Revision(j) => query[c].since <= Revision(j)'
      BY <2>1, <3>1, RevisionType
    <3> QED
      BY <2>2, <3>1, <3>2 DEF Revision
  <2> QED
    BY <2>2, <2>3 DEF QueryInv, Revision
<1>2. ASSUME NEW chal \in sent, AnswerChallenge(chal) PROVE QueryInv'
  <2>1. /\ query' = query /\ sent' = sent /\ head' = head
        /\ replies' = replies \cup {StatementFor(chal)}
        /\ StatementFor(chal).chal = chal
        /\ StatementFor(chal).rev = Revision(chal.inst)
    BY <1>2 DEF AnswerChallenge, ConsumeNonce, StatementFor, Revision, clientVars
  <2>2. ASSUME NEW c \in Client, query[c] # Idle, chal = query[c].chal
        PROVE  StatementFor(chal).rev >= query[c].since
    BY <2>1, <2>2, QueryTypes, RevisionType DEF QueryInv
  <2> QED
    BY <2>1, <2>2 DEF QueryInv, Revision
<1>3. ASSUME NEW c \in Client, NEW i \in Installation, NEW r \in Receipt, NEW min \in 0..1,
             NEW now \in NearClock, IssueChallenge(c, i, r, min, now)
      PROVE  QueryInv'
  <2>1. PICK n \in Nonce :
          /\ \A s \in sent : s.nonce # n
          /\ sent' = sent \cup {[inst |-> i, nonce |-> n, at |-> now]}
          /\ query' = [query EXCEPT ![c] =
               [chal |-> [inst |-> i, nonce |-> n, at |-> now], receipt |-> r,
                min |-> min, since |-> Revision(i)]]
    BY <1>3 DEF IssueChallenge
  <2> DEFINE chal == [inst |-> i, nonce |-> n, at |-> now]
  <2>2. /\ chal \notin sent /\ \A s \in replies : s.chal # chal
        /\ chal.inst = i
    <3>1. \A s \in replies : s.chal \in sent
      BY DEF AnsweredInv
    <3> QED
      BY <2>1, <3>1
  <2>3. /\ head' = head /\ replies' = replies
    BY <1>3 DEF IssueChallenge, serverVars
  <2>4. /\ query'[c].chal = chal /\ query'[c].since = Revision(i)
        /\ \A d \in Client : d # c => query'[d] = query[d]
        /\ chal \in sent' /\ sent \subseteq sent'
    BY <2>1 DEF TypeOK
  <2>5. \A d \in Client : d # c /\ query[d] # Idle => query[d].chal # chal
    BY <2>2 DEF QueryInv
  <2> HIDE DEF chal
  <2> QED
    BY <2>2, <2>3, <2>4, <2>5, RevisionType DEF QueryInv, Revision
<1>4. ASSUME NEW c \in Client, query' = [query EXCEPT ![c] = Idle], sent' = sent,
             replies' = replies, head' = head
      PROVE  QueryInv'
  <2>1. query'[c] = Idle /\ \A d \in Client : d # c => query'[d] = query[d]
    BY <1>4 DEF TypeOK
  <2> QED
    BY <1>4, <2>1 DEF QueryInv, Revision
<1>5. ASSUME query' = query, sent' = sent, replies' = replies, head' = head PROVE QueryInv'
  BY <1>5 DEF QueryInv, Revision
<1> QED
  BY NextCases, <1>1, <1>2, <1>3, <1>4, <1>5
     DEF AnswerLost, AcceptReply, QueryFails, Tick, netVars, serverVars, clientVars, vars

LEMMA FreshStep ==
  TypeOK /\ QueryInv /\ AcceptedIsFresh /\ [Next]_vars => AcceptedIsFresh'
<1> SUFFICES ASSUME TypeOK, QueryInv, AcceptedIsFresh, [Next]_vars PROVE AcceptedIsFresh'
  OBVIOUS
<1>1. ASSUME NEW c \in Client, NEW s \in replies, AcceptReply(c, s) PROVE AcceptedIsFresh'
  <2>1. s.rev >= query[c].since
    BY <1>1 DEF AcceptReply, Verified, QueryInv
  <2> QED
    BY <1>1, <2>1 DEF AcceptReply, AcceptedIsFresh
<1>2. ASSUME accepted' = accepted PROVE AcceptedIsFresh'
  BY <1>2 DEF AcceptedIsFresh
<1> QED
  BY NextCases, <1>1, <1>2
     DEF CommitReceipt, AnswerChallenge, AnswerLost, IssueChallenge, QueryFails, Tick,
         netVars, serverVars, clientVars, vars

LEMMA QueryCorrect == Spec => [](TypeOK /\ AnsweredInv /\ ChallengeAnsweredOnce /\ QueryInv)
<1>1. Init => QueryInv
  BY DEF Init, QueryInv
<1> QED
  BY <1>1, AnsweredCorrect, QueryStep, PTL DEF Spec

\* No reply, however old, is returned by a query that began after its head had
\* been passed.
THEOREM ObservationsFresh == Spec => []AcceptedIsFresh
<1>1. Init => AcceptedIsFresh
  BY DEF Init, AcceptedIsFresh
<1> QED
  BY <1>1, QueryCorrect, FreshStep, PTL DEF Spec

-----------------------------------------------------------------------------
(* The refinement.                                                         *)

\* The reply to a query is the one that answers its challenge.
LEMMA ReplyIs ==
  ASSUME NEW R, \A s, t \in R : s.chal = t.chal => s = t,
         NEW q, NEW s \in R, s.chal = q.chal
  PROVE  ReplyTo(q, R) = s
BY DEF ReplyTo

LEMMA ReadOfAnswered ==
  ASSUME NEW R, \A s, t \in R : s.chal = t.chal => s = t,
         NEW q, q # Idle, NEW s \in R, s.chal = q.chal
  PROVE  ReadOf(q, R) = [inst |-> q.chal.inst, stage |-> "seen", rev |-> s.rev, sha |-> s.sha]
BY ReplyIs DEF ReadOf

\* A reply to another challenge leaves a query's read as it was.
LEMMA ReadOfUnchanged ==
  ASSUME NEW R, NEW new,
         \A s, t \in R \cup {new} : s.chal = t.chal => s = t,
         NEW q, new.chal # q.chal
  PROVE  ReadOf(q, R \cup {new}) = ReadOf(q, R)
<1>1. CASE \E s \in R : s.chal = q.chal
  <2>1. PICK s \in R : s.chal = q.chal
    BY <1>1
  <2>2. CASE q # Idle
    BY <2>1, <2>2, ReadOfAnswered
  <2> QED
    BY <2>2 DEF ReadOf
<1>2. CASE ~ \E s \in R : s.chal = q.chal
  BY <1>2 DEF ReadOf
<1> QED
  BY <1>1, <1>2

LEMMA RefinesStep ==
  /\ TypeOK /\ TypeOK' /\ AnsweredInv /\ QueryInv
  /\ ChallengeAnsweredOnce /\ ChallengeAnsweredOnce' /\ [Next]_vars
  => [Promise!Next]_(Promise!vars)
<1> SUFFICES ASSUME TypeOK, TypeOK', AnsweredInv, QueryInv,
                    ChallengeAnsweredOnce, ChallengeAnsweredOnce', [Next]_vars
             PROVE  [Promise!Next]_(Promise!vars)
  OBVIOUS
<1>0. ASSUME query' = query, replies' = replies PROVE readBar' = readBar
  BY <1>0 DEF readBar
<1>a. ASSUME accepted' = accepted PROVE resultsBar' = resultsBar
  BY <1>a DEF resultsBar
<1>1. ASSUME NEW i \in Installation, NEW r \in Receipt, CommitReceipt(i, r) PROVE Promise!Next
  <2>1. readBar' = readBar /\ resultsBar' = resultsBar
    BY <1>1, <1>0, <1>a DEF CommitReceipt, netVars, clientVars
  <2>2. Promise!Advance(i, r)
    BY <1>1, <2>1
       DEF CommitReceipt, Promise!Advance, Continues, IsGenesis, Succeeds, Appended,
           Promise!Continues, Promise!IsGenesis, Promise!Succeeds, Promise!Appended
  <2> QED
    BY <2>2 DEF Promise!Next
<1>2. ASSUME NEW chal \in sent, AnswerChallenge(chal) PROVE [Promise!Next]_(Promise!vars)
  <2> DEFINE new == StatementFor(chal)
  <2>1. /\ replies' = replies \cup {new} /\ new.chal = chal /\ head[chal.inst] # NoHead
        /\ new.rev = head[chal.inst].rev /\ new.sha = head[chal.inst].sha
        /\ head' = head /\ query' = query /\ accepted' = accepted
    BY <1>2 DEF AnswerChallenge, ConsumeNonce, StatementFor, clientVars
  <2>2. \A s \in replies : s.chal # chal
    BY <1>2, ConsumedIsUnanswered DEF AnswerChallenge
  <2>3. \A s, t \in replies \cup {new} : s.chal = t.chal => s = t
    BY <2>1 DEF ChallengeAnsweredOnce
  <2>4. resultsBar' = resultsBar
    BY <2>1, <1>a
  <2> HIDE DEF new
  <2>5. ASSUME NEW d \in Client, query[d] = Idle \/ query[d].chal # chal
        PROVE  ReadOf(query[d], replies \cup {new}) = ReadOf(query[d], replies)
    <3>1. CASE query[d] = Idle
      BY <3>1 DEF ReadOf
    <3>2. CASE query[d].chal # chal
      BY <2>1, <2>3, <3>2, ReadOfUnchanged
    <3> QED
      BY <2>5, <3>1, <3>2
  <2>6. CASE \E c \in Client : query[c] # Idle /\ query[c].chal = chal
    <3>1. PICK c \in Client : query[c] # Idle /\ query[c].chal = chal
      BY <2>6
    <3>2. chal.inst \in Installation
      BY DEF TypeOK, Challenge
    <3>3. ReadOf(query[c], replies) = [inst |-> chal.inst, stage |-> "asked"]
      BY <2>2, <3>1 DEF ReadOf
    <3>4. ReadOf(query[c], replies \cup {new})
            = [inst |-> chal.inst, stage |-> "seen",
               rev |-> head[chal.inst].rev, sha |-> head[chal.inst].sha]
      BY <2>1, <2>3, <3>1, ReadOfAnswered
    <3>5. \A d \in Client : d # c => query[d] = Idle \/ query[d].chal # chal
      BY <3>1 DEF QueryInv
    <3>6. readBar[c] = Promise!Pending(chal.inst)
      BY <3>3 DEF readBar, Promise!Pending
    <3>7. readBar' = [readBar EXCEPT ![c] = Promise!Observed(chal.inst, head[chal.inst])]
      BY <2>1, <2>5, <3>4, <3>5 DEF readBar, Promise!Observed
    <3> QED
      BY <2>1, <2>4, <3>2, <3>6, <3>7 DEF Promise!Next, Promise!Look
  <2>7. CASE ~ \E c \in Client : query[c] # Idle /\ query[c].chal = chal
    <3>1. readBar' = readBar
      BY <2>1, <2>5, <2>7 DEF readBar
    <3> QED
      BY <2>1, <2>4, <3>1 DEF Promise!vars
  <2> QED
    BY <2>6, <2>7
<1>3. ASSUME NEW c \in Client, NEW i \in Installation, NEW r \in Receipt, NEW min \in 0..1,
             NEW now \in NearClock, IssueChallenge(c, i, r, min, now)
      PROVE  Promise!Next
  <2>1. PICK n \in Nonce :
          /\ \A s \in sent : s.nonce # n
          /\ query' = [query EXCEPT ![c] =
               [chal |-> [inst |-> i, nonce |-> n, at |-> now], receipt |-> r,
                min |-> min, since |-> Revision(i)]]
    BY <1>3 DEF IssueChallenge
  <2>2. /\ head' = head /\ replies' = replies /\ accepted' = accepted /\ query[c] = Idle
    BY <1>3 DEF IssueChallenge, serverVars
  <2>3. /\ query'[c].chal = [inst |-> i, nonce |-> n, at |-> now]
        /\ query'[c] \in Query \cup {Idle}
        /\ query'[c] = [chal |-> [inst |-> i, nonce |-> n, at |-> now], receipt |-> r,
                        min |-> min, since |-> Revision(i)]
    BY <2>1 DEF TypeOK
  <2>4. query'[c] # Idle
    <3>1. /\ [inst |-> i, nonce |-> n, at |-> now] \in Challenge
          /\ Revision(i) \in Nat /\ min \in Nat
      BY WindowTypes, RevisionType DEF Challenge, NearClock
    <3> QED
      BY <2>3, <3>1, IdleAssumption DEF Query
  <2>5. \A s \in replies : s.chal # query'[c].chal
    <3>1. \A s \in replies : s.chal \in sent
      BY DEF AnsweredInv
    <3> QED
      BY <2>1, <2>3, <3>1
  <2>6. ReadOf(query'[c], replies) = Promise!Pending(i)
    BY <2>3, <2>4, <2>5 DEF ReadOf, Promise!Pending
  <2>7. readBar' = [readBar EXCEPT ![c] = Promise!Pending(i)]
    BY <2>1, <2>2, <2>6 DEF readBar, TypeOK
  <2>8. readBar[c] = Idle
    BY <2>2 DEF readBar, ReadOf
  <2> QED
    BY <2>2, <2>7, <2>8, <1>a DEF Promise!Next, Promise!Ask
<1>4. ASSUME NEW c \in Client, query[c] # Idle, query' = [query EXCEPT ![c] = Idle],
             replies' = replies
      PROVE  /\ readBar[c] # Idle
             /\ readBar' = [readBar EXCEPT ![c] = Idle]
  <2>1. readBar' = [readBar EXCEPT ![c] = Idle]
    BY <1>4 DEF readBar, ReadOf, TypeOK
  <2>2. query[c].chal.inst \in Installation
    BY <1>4, QueryTypes
  <2>3. CASE \E s \in replies : s.chal = query[c].chal
    <3>1. PICK s \in replies : s.chal = query[c].chal
      BY <2>3
    <3>2. ReadOf(query[c], replies)
            = [inst |-> query[c].chal.inst, stage |-> "seen", rev |-> s.rev, sha |-> s.sha]
      BY <1>4, <3>1, ReadOfAnswered DEF ChallengeAnsweredOnce
    <3>3. s.rev \in Nat /\ s.sha \in Receipt
      BY DEF TypeOK, Statement
    <3> QED
      BY <2>1, <2>2, <3>2, <3>3, IdleAssumption DEF readBar
  <2>4. CASE ~ \E s \in replies : s.chal = query[c].chal
    BY <1>4, <2>1, <2>2, <2>4, IdleAssumption DEF readBar, ReadOf
  <2> QED
    BY <2>3, <2>4
<1>5. ASSUME NEW c \in Client, NEW s \in replies, AcceptReply(c, s) PROVE Promise!Next
  <2>1. /\ query[c] # Idle /\ query' = [query EXCEPT ![c] = Idle] /\ s.chal = query[c].chal
        /\ accepted' = accepted \cup {[stmt |-> s, since |-> query[c].since]}
        /\ head' = head /\ replies' = replies
    BY <1>5 DEF AcceptReply, Verified, serverVars, netVars
  <2>2. readBar[c] # Idle /\ readBar' = [readBar EXCEPT ![c] = Idle]
    BY <1>4, <2>1
  <2>3. readBar[c] = [inst |-> s.chal.inst, stage |-> "seen", rev |-> s.rev, sha |-> s.sha]
    BY <2>1, ReadOfAnswered DEF readBar, ChallengeAnsweredOnce
  <2>4. resultsBar' = resultsBar \cup {[inst |-> s.chal.inst, rev |-> s.rev, sha |-> s.sha]}
    <3> DEFINE shown(a) == [inst |-> a.stmt.chal.inst, rev |-> a.stmt.rev, sha |-> a.stmt.sha]
    <3>1. shown([stmt |-> s, since |-> query[c].since])
            = [inst |-> s.chal.inst, rev |-> s.rev, sha |-> s.sha]
      OBVIOUS
    <3>2. resultsBar = {shown(a) : a \in accepted}
      BY DEF resultsBar
    <3>3. resultsBar' = {shown(a) : a \in accepted'}
      BY DEF resultsBar
    <3> HIDE DEF shown
    <3> QED
      BY <2>1, <3>1, <3>2, <3>3
  <2>5. Promise!Return(c)
    BY <2>1, <2>2, <2>3, <2>4 DEF Promise!Return
  <2> QED
    BY <2>5 DEF Promise!Next
<1>6. ASSUME NEW c \in Client, QueryFails(c) PROVE Promise!Next
  <2>1. readBar[c] # Idle /\ readBar' = [readBar EXCEPT ![c] = Idle] /\ head' = head
    BY <1>4, <1>6 DEF QueryFails, serverVars, netVars
  <2> QED
    BY <1>6, <1>a, <2>1 DEF QueryFails, Promise!Next, Promise!Fail
<1>7. ASSUME query' = query, replies' = replies, accepted' = accepted, head' = head
      PROVE  UNCHANGED Promise!vars
  BY <1>7, <1>0, <1>a DEF Promise!vars
<1> QED
  BY NextCases, <1>1, <1>2, <1>3, <1>5, <1>6, <1>7
     DEF AnswerLost, Tick, netVars, serverVars, clientVars, vars

\* The witness and its clients implement FreshHeadRead: what a query returns was
\* the head at one instant of that query, over any transport.
THEOREM WitnessReadsFreshHead == Spec => ImplementsFreshHeadRead
<1>1. Init => Promise!Init
  BY DEF Init, Promise!Init, readBar, ReadOf, resultsBar
<1> QED
  BY <1>1, QueryCorrect, RefinesStep, PTL DEF Spec, ImplementsFreshHeadRead, Promise!Spec
=============================================================================
