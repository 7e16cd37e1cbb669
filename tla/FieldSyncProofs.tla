--------------------------- MODULE FieldSyncProofs ---------------------------
(***************************************************************************)
(* Proofs about Outbox and FieldSync, for every number of events, drains,  *)
(* answers and late requests.  Of the outbox alone: its types and what a   *)
(* drain may do to a row.  With the network and the server: the handset    *)
(* keeps to Outbox, what it believes delivered is on the server, and what  *)
(* it gives up on was malformed or overtaken.                              *)
(***************************************************************************)
EXTENDS FieldSync, DataLemmas

-----------------------------------------------------------------------------
(* The outbox.                                                             *)

\* A response that is read settles rows to states the outbox knows.
LEMMA StateAfterType ==
    ASSUME NEW a
    PROVE  StateAfter(a) \in RowStates
BY DEF StateAfter, RowStates

\* The outcomes of the environment are well typed.
LEMMA OutcomesType ==
    /\ NoOutcome \in Outcomes
    /\ RequestFailed \in Outcomes
    /\ Undecodable \in Outcomes
    /\ \A v \in Verdicts : Evaluated(v) \in Outcomes
<1>1. Silence \in Verdicts
  BY DEF Silence, Verdicts
<1>2. QED
  BY <1>1 DEF NoOutcome, RequestFailed, Undecodable, Evaluated, Outcomes

\* returnToPending keeps the retry state in its type: attempt_count saturates.
LEMMA ReturnToPendingType ==
    ASSUME NEW R \in SUBSET Seqs, TypeOK, ReturnToPending(R)
    PROVE  /\ attempts' \in [Seqs -> 0..MaxAttempts]
           /\ asleep' \subseteq Seqs
BY OutboxAssumption DEF TypeOK, ReturnToPending

\* Every step of a drain keeps the types.
LEMMA DrainType ==
    ASSUME TypeOK, NEW d \in Drains,
           \/ Select(d)
           \/ \E o \in Outcomes : Resolve(d, o)
           \/ MarkBatchInFlight(d)
           \/ ApplyRequestFailure(d)
           \/ ApplyVerdict(d)
           \/ ParseThrows(d)
    PROVE  TypeOK'
<1> USE DEF TypeOK
<1>0. Finish(d) => /\ pc' \in [Drains -> {"idle", "sending", "answered", "marked"}]
                   /\ batch' \in [Drains -> SUBSET Seqs]
                   /\ outcome' \in [Drains -> Outcomes]
  BY OutcomesType DEF Finish
<1>1. CASE Select(d)
  BY <1>1 DEF Select, Sendable, durable
<1>2. CASE \E o \in Outcomes : Resolve(d, o)
  BY <1>2 DEF Resolve, durable
<1>3. CASE MarkBatchInFlight(d)
  BY <1>3 DEF MarkBatchInFlight, RowStates
<1>4. CASE ApplyRequestFailure(d)
  <2>1. InFlightOf(batch[d]) \in SUBSET Seqs
    BY DEF InFlightOf
  <2>2. rowState' \in [Seqs -> RowStates \cup {"none"}]
    BY <1>4 DEF ApplyRequestFailure, RowStates
  <2>3. QED
    BY <1>0, <1>4, <2>1, <2>2, ReturnToPendingType DEF ApplyRequestFailure
<1>5. CASE ApplyVerdict(d)
  <2>1. {s \in InFlightOf(Seqs) : outcome[d].verdict[s] = "retry"} \in SUBSET Seqs
    BY DEF InFlightOf
  <2>2. rowState' \in [Seqs -> RowStates \cup {"none"}]
    BY <1>5, StateAfterType DEF ApplyVerdict
  <2>3. QED
    BY <1>0, <1>5, <2>1, <2>2, ReturnToPendingType DEF ApplyVerdict
<1>6. CASE ParseThrows(d)
  BY <1>0, <1>6 DEF ParseThrows, durable
<1>7. QED
  BY <1>1, <1>2, <1>3, <1>4, <1>5, <1>6

\* The other steps of the handset keep the types.
LEMMA HandsetType ==
    ASSUME TypeOK,
           \/ \E p \in Tiers, now \in QueueTimes : AppendAuthored(p, now)
           \/ \E s \in Seqs : BackoffElapses(s)
           \/ PruneAckedRows
           \/ Launch
           \/ OnStart
           \/ Crash
    PROVE  TypeOK'
<1> USE OutboxAssumption DEF TypeOK, durable, volatile
<1>1. CASE \E p \in Tiers, now \in QueueTimes : AppendAuthored(p, now)
  <2>1. PICK p \in Tiers, now \in QueueTimes : AppendAuthored(p, now)
    BY <1>1
  <2>2. nextSeq' \in FirstSeq..(MaxSeq + 1)
    BY <2>1 DEF AppendAuthored, FirstSeq
  <2>3. QED
    BY <2>1, <2>2 DEF AppendAuthored, RowStates
<1>2. CASE \E s \in Seqs : BackoffElapses(s)
  BY <1>2 DEF BackoffElapses
<1>3. CASE PruneAckedRows
  BY <1>3 DEF PruneAckedRows
<1>4. CASE Launch
  BY <1>4 DEF Launch
<1>5. CASE OnStart
  BY <1>5 DEF OnStart, RowStates
<1>6. CASE Crash
  BY <1>6, OutcomesType DEF Crash
<1>7. QED
  BY <1>1, <1>2, <1>3, <1>4, <1>5, <1>6

\* What the environment may answer is a well-typed outcome.
LEMMA AnyOutcomeType ==
    ASSUME NEW d \in Drains
    PROVE  AnyOutcome(d) \subseteq Outcomes
BY OutcomesType DEF AnyOutcome, AnyVerdict

\* Type correctness of the handset.
THEOREM OutboxTypeCorrect == Spec => []TypeOK
<1>1. Init => TypeOK
  BY OutcomesType, OutboxAssumption DEF Init, TypeOK, FirstSeq
<1>2. TypeOK /\ [Next]_outboxVars => TypeOK'
  <2> SUFFICES ASSUME TypeOK, [Next]_outboxVars PROVE TypeOK'
    OBVIOUS
  <2>1. CASE DeviceStep
    BY <2>1, DrainType, HandsetType DEF DeviceStep
  <2>2. ASSUME NEW d \in Drains, Select(d) PROVE TypeOK'
    BY <2>2, DrainType
  <2>3. ASSUME NEW d \in Drains, Reply(d) PROVE TypeOK'
    BY <2>3, DrainType, AnyOutcomeType DEF Reply
  <2>4. CASE Crash
    BY <2>4, HandsetType
  <2>5. CASE UNCHANGED outboxVars
    BY <2>5 DEF outboxVars, durable, volatile, TypeOK
  <2>6. QED
    BY <2>1, <2>2, <2>3, <2>4, <2>5 DEF Next
<1>3. QED
  BY <1>1, <1>2, PTL DEF Spec

-----------------------------------------------------------------------------
\* The counter and the log agree: inductive with the types alone.
THEOREM CounterMatchesLog == Spec => []LogMatchesCounter
<1>1. Init => LogMatchesCounter
  BY OutboxAssumption DEF Init, LogMatchesCounter, Authored, Seqs, FirstSeq
<1>2. TypeOK /\ LogMatchesCounter /\ [Next]_outboxVars => LogMatchesCounter'
  <2> SUFFICES ASSUME TypeOK, LogMatchesCounter, [Next]_outboxVars,
                      NEW s \in Seqs
               PROVE  /\ Authored(s)' <=> s < nextSeq'
                      /\ rowState'[s] # "none" => Authored(s)'
    BY DEF LogMatchesCounter
  <2> USE DEF TypeOK, LogMatchesCounter, Authored
  <2>1. ASSUME NEW p \in Tiers, NEW now \in QueueTimes, AppendAuthored(p, now)
        PROVE  /\ Authored(s)' <=> s < nextSeq'
               /\ rowState'[s] # "none" => Authored(s)'
    BY <2>1, OutboxAssumption DEF AppendAuthored, Tiers, Seqs, FirstSeq
  <2>2. ASSUME UNCHANGED <<nextSeq, tier>>,
               rowState'[s] # "none" => rowState[s] # "none"
        PROVE  /\ Authored(s)' <=> s < nextSeq'
               /\ rowState'[s] # "none" => Authored(s)'
    BY <2>2
  <2>3. \/ \E p \in Tiers, now \in QueueTimes : AppendAuthored(p, now)
        \/ /\ UNCHANGED <<nextSeq, tier>>
           /\ rowState'[s] # "none" => rowState[s] # "none"
    BY DEF Next, DeviceStep, BackoffElapses, Select, Reply, Resolve, MarkBatchInFlight,
           ApplyRequestFailure, ApplyVerdict, InFlightOf, ParseThrows, PruneAckedRows,
           Launch, OnStart, Crash, durable, volatile, outboxVars
  <2>4. QED
    BY <2>1, <2>2, <2>3
<1>3. QED
  BY <1>1, <1>2, OutboxTypeCorrect, PTL DEF Spec

-----------------------------------------------------------------------------
\* How a row moves in one step: the guards of OutboxDao, and a fresh row per write.
LEMMA RowStep ==
    ASSUME TypeOK, LogMatchesCounter, Next, NEW s \in Seqs, rowState'[s] # rowState[s]
    PROVE  \/ \E d \in Drains : /\ ApplyVerdict(d)
                                /\ rowState[s] = "IN_FLIGHT"
                                /\ rowState'[s] = StateAfter(outcome[d].verdict[s])
           \/ rowState[s] = "none" /\ rowState'[s] = "PENDING"
           \/ rowState[s] = "PENDING" /\ rowState'[s] = "IN_FLIGHT"
           \/ rowState[s] = "IN_FLIGHT" /\ rowState'[s] = "PENDING"
           \/ rowState[s] = "ACKED" /\ rowState'[s] = "none"
<1> USE DEF TypeOK
<1>1. CASE \E p \in Tiers, now \in QueueTimes : AppendAuthored(p, now)
  BY <1>1, OutboxAssumption DEF AppendAuthored, LogMatchesCounter, Authored, Seqs, FirstSeq
<1>2. CASE \E d \in Drains : ApplyVerdict(d)
  BY <1>2 DEF ApplyVerdict, InFlightOf
<1>3. CASE \E d \in Drains : MarkBatchInFlight(d)
  BY <1>3 DEF MarkBatchInFlight
<1>4. CASE \E d \in Drains : ApplyRequestFailure(d)
  BY <1>4 DEF ApplyRequestFailure, InFlightOf
<1>5. CASE PruneAckedRows
  BY <1>5 DEF PruneAckedRows
<1>6. CASE OnStart
  BY <1>6 DEF OnStart
<1>7. CASE \/ \E t \in Seqs : BackoffElapses(t)
           \/ \E d \in Drains : ParseThrows(d) \/ Select(d) \/ Reply(d)
           \/ Launch \/ Crash
  BY <1>7 DEF BackoffElapses, ParseThrows, Select, Reply, Resolve, Launch, Crash,
              durable, volatile
<1>8. QED
  BY <1>1, <1>2, <1>3, <1>4, <1>5, <1>6, <1>7 DEF Next, DeviceStep

\* The lifecycle of a row, with any number of drains.
THEOREM OnlyLegalTransitions == Spec => LegalTransitions
<1>1. TypeOK /\ LogMatchesCounter /\ [Next]_outboxVars =>
        [\A s \in Seqs : rowState'[s] # rowState[s] =>
          <<rowState[s], rowState'[s]>> \in
              { <<"none", "PENDING">>, <<"PENDING", "IN_FLIGHT">>,
                <<"IN_FLIGHT", "ACKED">>, <<"IN_FLIGHT", "PENDING">>,
                <<"IN_FLIGHT", "REJECTED">>, <<"ACKED", "none">> }]_outboxVars
  <2> SUFFICES ASSUME TypeOK, LogMatchesCounter, Next,
                      NEW s \in Seqs, rowState'[s] # rowState[s]
               PROVE  <<rowState[s], rowState'[s]>> \in
                        { <<"none", "PENDING">>, <<"PENDING", "IN_FLIGHT">>,
                          <<"IN_FLIGHT", "ACKED">>, <<"IN_FLIGHT", "PENDING">>,
                          <<"IN_FLIGHT", "REJECTED">>, <<"ACKED", "none">> }
    OBVIOUS
  <2>1. CASE \E d \in Drains : /\ rowState[s] = "IN_FLIGHT"
                               /\ rowState'[s] = StateAfter(outcome[d].verdict[s])
    BY <2>1 DEF StateAfter
  <2>2. QED
    BY <2>1, RowStep
<1>2. QED
  BY <1>1, OutboxTypeCorrect, CounterMatchesLog, PTL DEF Spec, LegalTransitions

-----------------------------------------------------------------------------
\* A drain's answers are about its own batch, and come from a 200 body alone.
AnswersAreOwn ==
    \A d \in Drains, s \in Seqs : outcome[d].verdict[s] # "silent" =>
        /\ s \in batch[d]
        /\ outcome[d].kind = "evaluated"
        /\ pc[d] \in {"answered", "marked"}

LEMMA AnswersStayOwn == Spec => []AnswersAreOwn
<1>1. Init => AnswersAreOwn
  BY DEF Init, AnswersAreOwn, NoOutcome, Silence
<1>2. TypeOK /\ AnswersAreOwn /\ [Next]_outboxVars => AnswersAreOwn'
  <2> SUFFICES ASSUME TypeOK, AnswersAreOwn, [Next]_outboxVars
               PROVE  AnswersAreOwn'
    OBVIOUS
  <2> USE DEF TypeOK, AnswersAreOwn
  <2>1. ASSUME NEW d \in Drains, Finish(d) PROVE AnswersAreOwn'
    BY <2>1 DEF Finish, NoOutcome, Silence
  <2>2. ASSUME NEW d \in Drains, Reply(d) PROVE AnswersAreOwn'
    <3>1. PICK o \in AnyOutcome(d) : Resolve(d, o)
      BY <2>2 DEF Reply
    <3>2. \A s \in Seqs : o.verdict[s] # "silent" => s \in batch[d] /\ o.kind = "evaluated"
      BY DEF AnyOutcome, AnyVerdict, RequestFailed, Undecodable, Evaluated, Silence
    <3>3. QED
      BY <3>1, <3>2 DEF Resolve
  <2>3. ASSUME NEW d \in Drains, Select(d) PROVE AnswersAreOwn'
    <3>1. \A s \in Seqs : outcome[d].verdict[s] = "silent"
      BY <2>3 DEF Select
    <3>2. QED
      BY <2>3, <3>1 DEF Select
  <2>4. ASSUME NEW d \in Drains, MarkBatchInFlight(d) PROVE AnswersAreOwn'
    BY <2>4 DEF MarkBatchInFlight
  <2>5. CASE Crash
    BY <2>5 DEF Crash, NoOutcome, Silence
  <2>6. CASE UNCHANGED <<pc, batch, outcome>>
    BY <2>6
  <2>7. \/ \E d \in Drains : \/ Finish(d) \/ Reply(d) \/ Select(d)
                             \/ MarkBatchInFlight(d)
        \/ Crash
        \/ UNCHANGED <<pc, batch, outcome>>
    BY DEF Next, DeviceStep, AppendAuthored, BackoffElapses, ApplyRequestFailure,
           ApplyVerdict, ParseThrows, PruneAckedRows, Launch, OnStart, volatile, outboxVars
  <2>8. QED
    BY <2>1, <2>2, <2>3, <2>4, <2>5, <2>6, <2>7
<1>3. QED
  BY <1>1, <1>2, OutboxTypeCorrect, PTL DEF Spec

\* No failed request, restart or overlapping drain settles a row.
THEOREM VerdictsSettle == Spec => OnlyAVerdictSettles
<1> DEFINE Because(s) ==
        \E d \in Drains :
            /\ pc[d] = "marked"
            /\ s \in batch[d]
            /\ outcome[d].kind = "evaluated"
            /\ \/ rowState'[s] = "ACKED" /\ outcome[d].verdict[s] = "accepted"
               \/ /\ rowState'[s] = "REJECTED"
                  /\ outcome[d].verdict[s] \in {"permanent", "unflagged"}
<1>1. TypeOK /\ LogMatchesCounter /\ AnswersAreOwn /\ [Next]_outboxVars =>
        [\A s \in Seqs : rowState'[s] # rowState[s] /\ rowState'[s] \in Settled =>
            Because(s)]_outboxVars
  <2> SUFFICES ASSUME TypeOK, LogMatchesCounter, AnswersAreOwn, Next,
                      NEW s \in Seqs, rowState'[s] # rowState[s], rowState'[s] \in Settled
               PROVE  Because(s)
    OBVIOUS
  <2>1. PICK d \in Drains : /\ ApplyVerdict(d)
                            /\ rowState'[s] = StateAfter(outcome[d].verdict[s])
    BY RowStep DEF Settled
  <2>2. \/ rowState'[s] = "ACKED" /\ outcome[d].verdict[s] = "accepted"
        \/ /\ rowState'[s] = "REJECTED"
           /\ outcome[d].verdict[s] \in {"permanent", "unflagged"}
    BY <2>1 DEF StateAfter, Settled
  <2>3. pc[d] = "marked" /\ s \in batch[d] /\ outcome[d].kind = "evaluated"
    BY <2>1, <2>2 DEF ApplyVerdict, AnswersAreOwn
  <2>4. QED
    BY <2>2, <2>3
<1>2. QED
  BY <1>1, OutboxTypeCorrect, CounterMatchesLog, AnswersStayOwn, PTL
     DEF Spec, OnlyAVerdictSettles

-----------------------------------------------------------------------------
\* A drain takes the CRITICAL rows first, whatever else happens to the outbox meanwhile.
THEOREM DrainsTakeCriticalFirst == Spec => CriticalFirst
<1>1. TypeOK /\ [Next]_outboxVars =>
        [\A d \in Drains : pc[d] = "idle" /\ pc'[d] = "sending" =>
          \A s \in batch'[d], t \in Sendable \ batch'[d] :
              tier[t] = "CRITICAL" => tier[s] = "CRITICAL"]_outboxVars
  <2> SUFFICES ASSUME TypeOK, Next, NEW d \in Drains, pc[d] = "idle", pc'[d] = "sending",
                      NEW s \in batch'[d], NEW t \in Sendable \ batch'[d],
                      tier[t] = "CRITICAL"
               PROVE  tier[s] = "CRITICAL"
    OBVIOUS
  <2> USE DEF TypeOK
  <2>1. Select(d)
    <3>1. CASE DeviceStep
      BY <3>1 DEF DeviceStep, AppendAuthored, BackoffElapses, MarkBatchInFlight,
         ApplyRequestFailure, ApplyVerdict, ParseThrows, Finish, PruneAckedRows, Launch,
         OnStart, volatile
    <3>2. CASE Crash
      BY <3>2 DEF Crash
    <3>3. ASSUME NEW e \in Drains, Reply(e) PROVE FALSE
      BY <3>3 DEF Reply, Resolve
    <3>4. ASSUME NEW e \in Drains, Select(e) PROVE e = d
      BY <3>4 DEF Select
    <3>5. QED
      BY <3>1, <3>2, <3>3, <3>4 DEF Next
  <2>2. IsFirstOf(batch'[d], Sendable)
    BY <2>1 DEF Select
  <2>3. Before(s, t)
    BY <2>2 DEF IsFirstOf
  <2>4. QED
    BY <2>3 DEF Before
<1>2. QED
  BY <1>1, OutboxTypeCorrect, PTL DEF Spec, CriticalFirst

-----------------------------------------------------------------------------
(* Sets of seqs have a greatest element.                                   *)

LEMMA GreatestSeq ==
    ASSUME NEW T, T \subseteq Seqs, T # {}
    PROVE  \E m \in T : \A t \in T : t <= m
<1>1. MaxSeq \in Nat /\ T \subseteq 0..MaxSeq
  BY OutboxAssumption DEF Seqs, FirstSeq
<1>2. QED
  BY <1>1, GreatestBounded

-----------------------------------------------------------------------------
(* What ingest_batch answers.                                              *)

\* Every accepted event is in the table once the batch is committed, and every
\* well-formed event that is refused lies below one that is.
LEMMA ResponseIsBacked ==
    ASSUME stored \subseteq Seqs, NEW b \in SUBSET Seqs, NEW s \in Seqs
    PROVE  /\ Response(b)[s] \in {"silent", "accepted", "permanent"}
           /\ Response(b)[s] # "silent" => s \in b
           /\ Response(b)[s] = "accepted" => s \in Accepted(b)
           /\ Response(b)[s] = "permanent" /\ Recognised(s) =>
                 \E t \in stored \cup Accepted(b) : t > s
<1>1. /\ Response(b)[s] \in {"silent", "accepted", "permanent"}
      /\ Response(b)[s] # "silent" => s \in b
      /\ Response(b)[s] = "accepted" => s \in Accepted(b)
      /\ Response(b)[s] = "permanent" => s \in b \ Accepted(b)
  BY DEF Response, Accepted
<1>2. ASSUME s \in b \ Accepted(b), Recognised(s)
      PROVE  \E t \in stored \cup Accepted(b) : t > s
  <2> USE OutboxAssumption DEF Seqs, FirstSeq
  <2> DEFINE T == {t \in b : Recognised(t) /\ t > s}
  <2>1. CASE \E t \in stored : t > s
    BY <2>1
  <2>2. CASE \A t \in stored : t <= s
    <3>1. T # {} /\ T \subseteq Seqs
      <4>1. PICK t \in b : Recognised(t) /\ Before(t, s) /\ ~(t <= s)
        BY <1>2, <2>2 DEF Accepted
      <4>2. t \in Int /\ s \in Int
        BY <4>1
      <4>3. t > s
        BY <4>1, <4>2
      <4>4. QED
        BY <4>1, <4>3
    <3>2. PICK m \in T : \A t \in T : t <= m
      <4> HIDE DEF T
      <4>1. QED
        BY <3>1, GreatestSeq
    <3>3. \A t \in b : Recognised(t) => t <= m
      BY <3>2
    <3>4. \A t \in stored : t <= m
      BY <2>2, <3>2
    <3>5. m \in Accepted(b)
      BY <3>2, <3>3, <3>4 DEF Accepted
    <3>6. QED
      BY <3>2, <3>5
  <2>3. stored \subseteq Int /\ s \in Int
    OBVIOUS
  <2>4. QED
    BY <2>1, <2>2, <2>3
<1>3. QED
  BY <1>1, <1>2

LEMMA ResponseType ==
    ASSUME NEW b
    PROVE  Response(b) \in Verdicts
BY FieldSyncAssumption DEF Response, Verdicts

-----------------------------------------------------------------------------
(* Types.                                                                  *)

LEMMA FieldStepType ==
    ASSUME FieldTypeOK, [FieldNext]_vars
    PROVE  FieldTypeOK'
<1> USE DEF FieldTypeOK
<1>1. CASE HandsetStep
  <2>1. TypeOK'
    BY <1>1, DrainType, HandsetType DEF HandsetStep, DeviceStep
  <2>2. ASSUME NEW d \in Drains, wire[d] # "idle" PROVE pc'[d] = "sending"
    <3>1. pc[d] = "sending" /\ pc \in [Drains -> {"idle", "sending", "answered", "marked"}]
      BY <2>2 DEF TypeOK
    <3>2. QED
      BY <1>1, <3>1 DEF HandsetStep, DeviceStep, AppendAuthored, BackoffElapses,
           MarkBatchInFlight, ApplyRequestFailure, ApplyVerdict, ParseThrows, Finish,
           PruneAckedRows, Launch, OnStart, durable, volatile
  <2>3. QED
    BY <1>1, <2>1, <2>2 DEF HandsetStep, Still, netVars
<1>2. ASSUME NEW d \in Drains, SendBatch(d) PROVE FieldTypeOK'
  <2>1. TypeOK'
    BY <1>2, DrainType DEF SendBatch
  <2>2. QED
    BY <1>2, <2>1 DEF SendBatch, Select, TypeOK
<1>3. ASSUME NEW d \in Drains, Ingest(d) PROVE FieldTypeOK'
  <2>1. TypeOK'
    BY <1>3 DEF Ingest, TypeOK, outboxVars, durable, volatile
  <2>2. Accepted(batch[d]) \subseteq Seqs
    BY DEF Accepted, TypeOK
  <2>3. QED
    BY <1>3, <2>1, <2>2, ResponseType DEF Ingest, outboxVars, volatile
<1>4. ASSUME NEW d \in Drains, NEW o \in Outcomes, Resolve(d, o), HangUp(d),
             UNCHANGED stored, late' \subseteq SUBSET Seqs
      PROVE  FieldTypeOK'
  <2>1. TypeOK'
    BY <1>4, DrainType
  <2>2. Silence \in Verdicts
    BY DEF Silence, Verdicts
  <2>3. QED
    BY <1>4, <2>1, <2>2 DEF HangUp, Resolve, TypeOK
<1>5. ASSUME NEW d \in Drains, ReceiveReply(d) \/ LoseRequest(d) \/ GiveUpWaiting(d)
      PROVE  FieldTypeOK'
  <2>1. Evaluated(answer[d]) \in Outcomes /\ RequestFailed \in Outcomes
    BY OutcomesType
  <2>2. late' \subseteq SUBSET Seqs
    BY <1>5 DEF ReceiveReply, LoseRequest, GiveUpWaiting, TypeOK
  <2>3. QED
    BY <1>4, <1>5, <2>1, <2>2 DEF ReceiveReply, LoseRequest, GiveUpWaiting
<1>6. ASSUME NEW b \in late, IngestLate(b) PROVE FieldTypeOK'
  <2>1. Accepted(b) \subseteq Seqs
    BY DEF Accepted
  <2>2. QED
    BY <1>6, <2>1 DEF IngestLate, TypeOK, outboxVars, durable, volatile
<1>7. CASE CrashField
  <2>1. TypeOK'
    BY <1>7, HandsetType DEF CrashField
  <2>2. Silence \in Verdicts
    BY DEF Silence, Verdicts
  <2>3. late' \subseteq SUBSET Seqs
    BY <1>7 DEF CrashField, TypeOK
  <2>4. QED
    BY <1>7, <2>1, <2>2, <2>3 DEF CrashField
<1>8. CASE UNCHANGED vars
  BY <1>8 DEF vars, netVars, outboxVars, durable, volatile, TypeOK
<1>9. QED
  BY <1>1, <1>2, <1>3, <1>5, <1>6, <1>7, <1>8 DEF FieldNext

\* Type correctness of the composition.
THEOREM FieldTypeCorrect == FieldSpec => []FieldTypeOK
<1>1. FieldInit => FieldTypeOK
  BY OutcomesType, OutboxAssumption
     DEF FieldInit, Init, FieldTypeOK, TypeOK, FirstSeq, Silence, Verdicts
<1>2. QED
  BY <1>1, FieldStepType, PTL DEF FieldSpec
-----------------------------------------------------------------------------
(* The handset of FieldSync is the handset of Outbox.                      *)

\* A response is about the batch of the drain that waits for it.
AnswersAreAsked ==
    \A d \in Drains, s \in Seqs : answer[d][s] # "silent" =>
        wire[d] = "reply" /\ s \in batch[d]

LEMMA AnswersStayAsked == FieldSpec => []AnswersAreAsked
<1>1. FieldInit => AnswersAreAsked
  BY DEF FieldInit, AnswersAreAsked, Silence
<1>2. FieldTypeOK /\ AnswersAreAsked /\ [FieldNext]_vars => AnswersAreAsked'
  <2> SUFFICES ASSUME FieldTypeOK, AnswersAreAsked, [FieldNext]_vars
               PROVE  AnswersAreAsked'
    OBVIOUS
  <2> USE DEF FieldTypeOK, TypeOK, AnswersAreAsked
  <2>1. CASE HandsetStep
    <3>1. ASSUME NEW d \in Drains, wire[d] = "reply" PROVE batch'[d] = batch[d]
      BY <2>1, <3>1 DEF HandsetStep, DeviceStep, AppendAuthored, BackoffElapses,
           MarkBatchInFlight, ApplyRequestFailure, ApplyVerdict, ParseThrows, Finish,
           PruneAckedRows, Launch, OnStart, durable, volatile
    <3>2. QED
      BY <2>1, <3>1 DEF HandsetStep, Still, netVars
  <2>2. ASSUME NEW d \in Drains, SendBatch(d) PROVE AnswersAreAsked'
    <3>1. wire[d] # "reply"
      BY <2>2 DEF SendBatch, Select
    <3>2. QED
      BY <2>2, <3>1 DEF SendBatch, Select
  <2>3. ASSUME NEW d \in Drains, Ingest(d) PROVE AnswersAreAsked'
    BY <2>3, ResponseIsBacked DEF Ingest, outboxVars, volatile
  <2>4. ASSUME NEW d \in Drains, ReceiveReply(d) \/ LoseRequest(d) \/ GiveUpWaiting(d)
        PROVE  AnswersAreAsked'
    BY <2>4 DEF ReceiveReply, LoseRequest, GiveUpWaiting, HangUp, Resolve, Silence
  <2>5. CASE CrashField
    BY <2>5 DEF CrashField, Silence
  <2>6. ASSUME NEW b \in late, IngestLate(b) PROVE AnswersAreAsked'
    BY <2>6 DEF IngestLate, outboxVars, volatile
  <2>7. CASE UNCHANGED vars
    BY <2>7 DEF vars, netVars, outboxVars, volatile
  <2>8. QED
    BY <2>1, <2>2, <2>3, <2>4, <2>5, <2>6, <2>7 DEF FieldNext
<1>3. QED
  BY <1>1, <1>2, FieldTypeCorrect, PTL DEF FieldSpec

\* Every step of the composition is a step of the handset against some other end,
\* or leaves the handset alone.
LEMMA FieldStepIsAnOutboxStep ==
    ASSUME FieldTypeOK, AnswersAreAsked, [FieldNext]_vars
    PROVE  [Next]_outboxVars
<1>1. ASSUME NEW d \in Drains, ReceiveReply(d) PROVE Next
  <2>1. answer[d] \in AnyVerdict(d)
    BY DEF FieldTypeOK, AnswersAreAsked, AnyVerdict
  <2>2. Evaluated(answer[d]) \in AnyOutcome(d)
    BY <2>1 DEF AnyOutcome
  <2>3. Reply(d)
    BY <1>1, <2>2 DEF ReceiveReply, Reply, Resolve
  <2>4. QED
    BY <2>3 DEF Next
<1>2. ASSUME NEW d \in Drains, LoseRequest(d) \/ GiveUpWaiting(d) PROVE Next
  <2>1. RequestFailed \in AnyOutcome(d)
    BY DEF AnyOutcome
  <2>2. Reply(d)
    BY <1>2, <2>1 DEF LoseRequest, GiveUpWaiting, Reply, Resolve
  <2>3. QED
    BY <2>2 DEF Next
<1>3. ASSUME \/ \E d \in Drains : Ingest(d)
             \/ \E b \in late : IngestLate(b)
             \/ UNCHANGED vars
      PROVE  UNCHANGED outboxVars
  BY <1>3 DEF Ingest, IngestLate, vars
<1>4. QED
  BY <1>1, <1>2, <1>3 DEF FieldNext, HandsetStep, SendBatch, CrashField, Next

\* The composition implements the handset's own specification: what is proved of
\* Outbox, for any other end, holds of the handset that talks to this server.
THEOREM FieldImplementsOutbox == FieldSpec => Spec
<1>1. FieldInit => Init
  BY DEF FieldInit
<1>2. QED
  BY <1>1, FieldStepIsAnOutboxStep, FieldTypeCorrect, AnswersStayAsked, PTL
     DEF FieldSpec, Spec
-----------------------------------------------------------------------------
(* What the handset is told is true of the server, and stays true.         *)

\* An answer that the server's table bears out.
Backed(v) ==
    \A s \in Seqs :
        /\ v[s] \in {"silent", "accepted", "permanent"}
        /\ v[s] = "accepted" => s \in stored
        /\ v[s] = "permanent" /\ Recognised(s) => \E t \in stored : t > s

\* The answers under way, and those received and not yet applied, are borne out;
\* and so are the rows they settled.
BackedInv ==
    /\ \A d \in Drains : Backed(answer[d]) /\ Backed(outcome[d].verdict)
    /\ AckedIsStored
    /\ RejectedIsOvertaken

\* The table is append-only.
LEMMA StoredGrows ==
    ASSUME [FieldNext]_vars
    PROVE  stored \subseteq stored'
BY DEF FieldNext, HandsetStep, Still, SendBatch, Ingest, ReceiveReply, LoseRequest,
       GiveUpWaiting, IngestLate, CrashField, vars

LEMMA BackedStays ==
    ASSUME stored \subseteq stored', NEW v, Backed(v)
    PROVE  Backed(v)'
BY DEF Backed, Recognised

\* Applying answers that are borne out settles rows that are borne out.
LEMMA RowsStayBacked ==
    ASSUME FieldTypeOK, LogMatchesCounter, BackedInv, [Next]_outboxVars,
           stored \subseteq stored'
    PROVE  AckedIsStored' /\ RejectedIsOvertaken'
<1> USE DEF FieldTypeOK
<1>1. ASSUME NEW s \in Seqs, rowState'[s] = rowState[s], tier'[s] = tier[s]
      PROVE  /\ Authored(s)' /\ rowState'[s] \in {"ACKED", "none"} => s \in stored'
             /\ rowState'[s] = "REJECTED" /\ Recognised(s)' => \E t \in stored' : t > s
  BY <1>1 DEF BackedInv, AckedIsStored, RejectedIsOvertaken, Authored, Recognised
<1>2. ASSUME NEW s \in Seqs, rowState'[s] = rowState[s], tier'[s] # tier[s]
      PROVE  FALSE
  <2>1. PICK p \in Tiers, now \in QueueTimes : AppendAuthored(p, now)
    BY <1>2 DEF Next, DeviceStep, BackoffElapses, Select, Reply, Resolve,
         MarkBatchInFlight, ApplyRequestFailure, ApplyVerdict, ParseThrows,
         PruneAckedRows, Launch, OnStart, Crash, durable, volatile, outboxVars
  <2>2. s = nextSeq /\ rowState'[s] = "PENDING"
    BY <1>2, <2>1 DEF AppendAuthored, TypeOK
  <2>3. rowState[s] = "none"
    BY <2>2, OutboxAssumption DEF LogMatchesCounter, TypeOK, Seqs, FirstSeq
  <2>4. QED
    BY <1>2, <2>2, <2>3
<1>3. ASSUME NEW s \in Seqs, rowState'[s] # rowState[s]
      PROVE  /\ Authored(s)' /\ rowState'[s] \in {"ACKED", "none"} => s \in stored'
             /\ rowState'[s] = "REJECTED" /\ Recognised(s)' => \E t \in stored' : t > s
  <2>1. Next
    BY <1>3 DEF outboxVars, durable
  <2>2. CASE \E d \in Drains : rowState'[s] = StateAfter(outcome[d].verdict[s])
    BY <2>2 DEF StateAfter, BackedInv, Backed, Recognised
  <2>3. CASE rowState'[s] \in {"PENDING", "IN_FLIGHT"}
    BY <2>3
  <2>4. CASE rowState[s] = "ACKED" /\ rowState'[s] = "none"
    <3>1. Authored(s)
      BY <2>4 DEF LogMatchesCounter
    <3>2. QED
      BY <2>4, <3>1 DEF BackedInv, AckedIsStored
  <2>5. QED
    BY <1>3, <2>1, <2>2, <2>3, <2>4, RowStep
<1>4. QED
  BY <1>1, <1>2, <1>3 DEF AckedIsStored, RejectedIsOvertaken

\* The answers under way and received stay borne out.
LEMMA AnswersStayBacked ==
    ASSUME FieldTypeOK, BackedInv, [FieldNext]_vars, NEW d \in Drains
    PROVE  Backed(answer[d])' /\ Backed(outcome[d].verdict)'
<1> USE DEF FieldTypeOK, TypeOK
<1>1. stored \subseteq stored'
  BY StoredGrows
<1>2. Backed(answer[d])' \/ answer'[d] # answer[d]
  BY <1>1 DEF BackedInv, Backed, Recognised
<1>3. Backed(outcome[d].verdict)' \/ outcome'[d] # outcome[d]
  BY <1>1 DEF BackedInv, Backed, Recognised
<1>4. Backed(Silence)'
  BY DEF Backed, Silence
<1>5. ASSUME answer'[d] # answer[d] PROVE Backed(answer[d])'
  <2>1. answer'[d] = Silence \/ Ingest(d)
    BY <1>5 DEF FieldNext, HandsetStep, Still, netVars, SendBatch, Ingest, ReceiveReply,
         LoseRequest, GiveUpWaiting, HangUp, IngestLate, CrashField, vars
  <2>2. CASE answer'[d] = Silence
    BY <1>4, <2>2 DEF Backed, Silence
  <2>3. CASE Ingest(d)
    <3>1. /\ answer'[d] = Response(batch[d])
          /\ stored' = stored \cup Accepted(batch[d])
          /\ batch[d] \in SUBSET Seqs
      BY <2>3 DEF Ingest
    <3>2. QED
      BY <3>1, ResponseIsBacked DEF Backed, Recognised
  <2>4. QED
    BY <2>1, <2>2, <2>3
<1>6. ASSUME outcome'[d] # outcome[d] PROVE Backed(outcome[d].verdict)'
  <2>1. outcome'[d].verdict = Silence \/ outcome'[d].verdict = answer[d]
    <3>1. CASE HandsetStep
      <4>1. PICK e \in Drains : Finish(e)
        BY <1>6, <3>1 DEF HandsetStep, DeviceStep, AppendAuthored, BackoffElapses,
             MarkBatchInFlight, ApplyRequestFailure, ApplyVerdict, ParseThrows,
             PruneAckedRows, Launch, OnStart, durable, volatile
      <4>2. QED
        BY <1>6, <4>1 DEF Finish, NoOutcome
    <3>2. CASE \E e \in Drains : SendBatch(e) \/ Ingest(e)
      BY <1>6, <3>2 DEF SendBatch, Select, Ingest, outboxVars, volatile
    <3>3. CASE \E e \in Drains : ReceiveReply(e) \/ LoseRequest(e) \/ GiveUpWaiting(e)
      BY <1>6, <3>3 DEF ReceiveReply, LoseRequest, GiveUpWaiting, Resolve, Evaluated,
           RequestFailed
    <3>4. CASE CrashField
      BY <3>4 DEF CrashField, Crash, NoOutcome
    <3>5. CASE (\E b \in late : IngestLate(b)) \/ UNCHANGED vars
      BY <1>6, <3>5 DEF IngestLate, vars, outboxVars, volatile
    <3>6. QED
      BY <3>1, <3>2, <3>3, <3>4, <3>5 DEF FieldNext
  <2>2. Backed(answer[d])'  \/ outcome'[d].verdict = Silence \/ answer'[d] # answer[d]
    BY <1>2
  <2>3. CASE outcome'[d].verdict = Silence
    BY <1>4, <2>3 DEF Backed, Silence
  <2>4. CASE outcome'[d].verdict = answer[d]
    BY <1>1, <2>4 DEF BackedInv, Backed, Recognised
  <2>5. QED
    BY <2>1, <2>3, <2>4
<1>7. QED
  BY <1>2, <1>3, <1>5, <1>6

LEMMA AlwaysBacked == FieldSpec => []BackedInv
<1>1. FieldInit => BackedInv
  BY DEF FieldInit, Init, BackedInv, Backed, Silence, NoOutcome, AckedIsStored,
         RejectedIsOvertaken, Authored
<1>2. /\ FieldTypeOK /\ LogMatchesCounter /\ AnswersAreAsked /\ BackedInv
      /\ [FieldNext]_vars
      => BackedInv'
  BY FieldStepIsAnOutboxStep, StoredGrows, RowsStayBacked, AnswersStayBacked
     DEF BackedInv
<1>3. FieldSpec => []LogMatchesCounter
  BY FieldImplementsOutbox, CounterMatchesLog, PTL
<1>4. QED
  BY <1>1, <1>2, <1>3, FieldTypeCorrect, AnswersStayAsked, PTL DEF FieldSpec

\* No event that the handset believes delivered is missing on the server.
THEOREM DeliveredIsStored == FieldSpec => []AckedIsStored
BY AlwaysBacked, PTL DEF BackedInv

\* No well-formed event is given up on unless a later one is on the server.
THEOREM RefusedIsOvertaken == FieldSpec => []RejectedIsOvertaken
BY AlwaysBacked, PTL DEF BackedInv

-----------------------------------------------------------------------------
\* What is sent, under way or late, was written on the device.
SentWasAuthored ==
    /\ \A s \in stored : Authored(s) /\ Recognised(s)
    /\ \A d \in Drains : \A s \in batch[d] : Authored(s)
    /\ \A b \in late : \A s \in b : Authored(s)

\* The server holds only well-formed events that the device wrote.
THEOREM OnlyAuthoredIsStored == FieldSpec => []StoredWasAuthored
<1>1. FieldInit => SentWasAuthored
  BY DEF FieldInit, Init, SentWasAuthored
<1>2. /\ FieldTypeOK /\ LogMatchesCounter /\ SentWasAuthored /\ [FieldNext]_vars
      => SentWasAuthored'
  <2> SUFFICES ASSUME FieldTypeOK, LogMatchesCounter, SentWasAuthored, [FieldNext]_vars
               PROVE  SentWasAuthored'
    OBVIOUS
  <2> USE DEF FieldTypeOK, TypeOK
  <2>1. ASSUME NEW s \in Seqs, Authored(s) PROVE Authored(s)'
    BY <2>1 DEF Authored, FieldNext, HandsetStep, DeviceStep, AppendAuthored, Tiers,
         BackoffElapses, MarkBatchInFlight, ApplyRequestFailure, ApplyVerdict,
         ParseThrows, PruneAckedRows, Launch, OnStart, SendBatch, Select, Ingest,
         ReceiveReply, LoseRequest, GiveUpWaiting, Resolve, IngestLate, CrashField,
         Crash, durable, volatile, outboxVars, vars
  <2>2. ASSUME NEW s \in stored' PROVE Authored(s)' /\ Recognised(s)'
    <3>1. s \in stored \/ (\E d \in Drains : s \in Accepted(batch[d]))
                       \/ (\E b \in late : s \in Accepted(b))
      BY <2>2 DEF FieldNext, HandsetStep, Still, SendBatch, Ingest, ReceiveReply,
           LoseRequest, GiveUpWaiting, IngestLate, CrashField, vars
    <3>2. s \in Seqs /\ Authored(s) /\ Recognised(s)
      BY <3>1 DEF SentWasAuthored, Accepted
    <3>3. QED
      BY <2>1, <3>2 DEF Recognised
  <2>3. ASSUME NEW d \in Drains, NEW s \in batch'[d] PROVE Authored(s)'
    <3>1. s \in batch[d] \/ s \in Sendable
      <4>1. CASE HandsetStep
        BY <2>3, <4>1 DEF HandsetStep, DeviceStep, AppendAuthored, BackoffElapses,
             MarkBatchInFlight, ApplyRequestFailure, ApplyVerdict, ParseThrows, Finish,
             PruneAckedRows, Launch, OnStart, durable, volatile
      <4>2. CASE \E e \in Drains : SendBatch(e)
        BY <2>3, <4>2 DEF SendBatch, Select
      <4>3. CASE UNCHANGED batch
        BY <2>3, <4>3
      <4>4. CASE CrashField
        BY <2>3, <4>4 DEF CrashField, Crash
      <4>5. QED
        BY <4>1, <4>2, <4>3, <4>4 DEF FieldNext, Ingest, ReceiveReply, LoseRequest,
             GiveUpWaiting, Resolve, IngestLate, volatile, outboxVars, vars
    <3>2. s \in Seqs /\ Authored(s)
      BY <3>1 DEF SentWasAuthored, Sendable, LogMatchesCounter
    <3>3. QED
      BY <2>1, <3>2
  <2>4. ASSUME NEW b \in late', NEW s \in b PROVE Authored(s)'
    <3>1. b \in late \/ \E d \in Drains : b = batch[d]
      BY <2>4 DEF FieldNext, HandsetStep, Still, netVars, SendBatch, Ingest, ReceiveReply,
           LoseRequest, GiveUpWaiting, IngestLate, CrashField, vars
    <3>2. s \in Seqs /\ Authored(s)
      BY <2>4, <3>1 DEF SentWasAuthored
    <3>3. QED
      BY <2>1, <3>2
  <2>5. QED
    BY <2>2, <2>3, <2>4 DEF SentWasAuthored
<1>3. FieldSpec => []LogMatchesCounter
  BY FieldImplementsOutbox, CounterMatchesLog, PTL
<1>4. SentWasAuthored => StoredWasAuthored
  BY DEF SentWasAuthored, StoredWasAuthored
<1>5. QED
  BY <1>1, <1>2, <1>3, <1>4, FieldTypeCorrect, PTL DEF FieldSpec

-----------------------------------------------------------------------------
(* No row is left IN_FLIGHT.                                               *)

\* ingest_batch answers for every event it is sent, so a drain that is about to settle its
\* rows has an answer for each, or none at all because the request failed.
Complete(v, b) == \A s \in b : v[s] \in {"accepted", "permanent"}

AnswersAreComplete ==
    /\ \A d \in Drains : wire[d] = "reply" => Complete(answer[d], batch[d])
    /\ \A d \in Drains : pc[d] \in {"answered", "marked"} =>
          \/ outcome[d].kind = "failed"
          \/ outcome[d].kind = "evaluated" /\ Complete(outcome[d].verdict, batch[d])

OwnedInv == AnswersAreComplete /\ InFlightIsOwned

\* What a step leaves to a drain.
LEMMA AnswersStayComplete ==
    ASSUME FieldTypeOK, AnswersAreComplete, [FieldNext]_vars
    PROVE  AnswersAreComplete'
<1> USE DEF FieldTypeOK, TypeOK
<1>1. ASSUME NEW e \in Drains, Finish(e), UNCHANGED <<wire, answer>>, pc[e] = "marked"
      PROVE  AnswersAreComplete'
  BY <1>1 DEF Finish, AnswersAreComplete, Complete
<1>2. ASSUME UNCHANGED <<wire, answer, pc, batch, outcome>> PROVE AnswersAreComplete'
  BY <1>2 DEF AnswersAreComplete, Complete
<1>3. CASE HandsetStep
  <2>1. ASSUME NEW e \in Drains, MarkBatchInFlight(e), Still PROVE AnswersAreComplete'
    BY <2>1 DEF MarkBatchInFlight, Still, netVars, AnswersAreComplete, Complete
  <2>2. \/ \E e \in Drains : MarkBatchInFlight(e)
        \/ \E e \in Drains : Finish(e) /\ pc[e] = "marked"
        \/ UNCHANGED <<pc, batch, outcome>>
    BY <1>3 DEF HandsetStep, DeviceStep, AppendAuthored, BackoffElapses, ApplyRequestFailure,
       ApplyVerdict, ParseThrows, PruneAckedRows, Launch, OnStart, volatile
  <2>3. Still /\ UNCHANGED <<wire, answer>>
    BY <1>3 DEF HandsetStep, Still, netVars
  <2>4. QED
    BY <1>1, <1>2, <2>1, <2>2, <2>3
<1>4. ASSUME NEW e \in Drains, SendBatch(e) PROVE AnswersAreComplete'
  BY <1>4 DEF SendBatch, Select, AnswersAreComplete, Complete
<1>5. ASSUME NEW e \in Drains, Ingest(e) PROVE AnswersAreComplete'
  <2>1. Complete(Response(batch[e]), batch[e])
    BY DEF Complete, Response
  <2>2. QED
    BY <1>5, <2>1 DEF Ingest, outboxVars, volatile, AnswersAreComplete, Complete
<1>6. ASSUME NEW e \in Drains, ReceiveReply(e) PROVE AnswersAreComplete'
  BY <1>6 DEF ReceiveReply, Resolve, HangUp, Evaluated, AnswersAreComplete, Complete
<1>7. ASSUME NEW e \in Drains, LoseRequest(e) \/ GiveUpWaiting(e) PROVE AnswersAreComplete'
  BY <1>7 DEF LoseRequest, GiveUpWaiting, Resolve, HangUp, RequestFailed, AnswersAreComplete,
     Complete
<1>8. CASE CrashField
  BY <1>8 DEF CrashField, Crash, AnswersAreComplete
<1>9. CASE (\E b \in late : IngestLate(b)) \/ UNCHANGED vars
  BY <1>2, <1>9 DEF IngestLate, vars, netVars, outboxVars, volatile
<1>10. QED
  BY <1>3, <1>4, <1>5, <1>6, <1>7, <1>8, <1>9 DEF FieldNext

LEMMA InFlightStaysOwned ==
    ASSUME FieldTypeOK, OwnedInv, [FieldNext]_vars
    PROVE  InFlightIsOwned'
<1> USE DEF FieldTypeOK, TypeOK
<1>1. ASSUME process' = "running", process = "running",
             \A s \in Seqs : rowState'[s] = "IN_FLIGHT" => rowState[s] = "IN_FLIGHT",
             \A d \in Drains : pc[d] = "marked" => pc'[d] = "marked" /\ batch'[d] = batch[d]
      PROVE  InFlightIsOwned'
  BY <1>1 DEF OwnedInv, InFlightIsOwned
<1>2. ASSUME NEW e \in Drains, MarkBatchInFlight(e) PROVE InFlightIsOwned'
  BY <1>2 DEF MarkBatchInFlight, OwnedInv, InFlightIsOwned
\* The drain that returns settles every row of its batch.
<1>3. ASSUME NEW e \in Drains, Finish(e), pc[e] = "marked", UNCHANGED process,
             \A s \in Seqs : rowState'[s] = "IN_FLIGHT" =>
                 rowState[s] = "IN_FLIGHT" /\ s \notin batch[e]
      PROVE  InFlightIsOwned'
  BY <1>3 DEF Finish, OwnedInv, InFlightIsOwned
<1>4. ASSUME NEW e \in Drains, ApplyRequestFailure(e) PROVE InFlightIsOwned'
  <2>1. \A s \in Seqs : rowState'[s] = "IN_FLIGHT" =>
           rowState[s] = "IN_FLIGHT" /\ s \notin batch[e]
    BY <1>4 DEF ApplyRequestFailure, InFlightOf
  <2>2. QED
    BY <1>3, <1>4, <2>1 DEF ApplyRequestFailure
<1>5. ASSUME NEW e \in Drains, ApplyVerdict(e) PROVE InFlightIsOwned'
  <2>1. Complete(outcome[e].verdict, batch[e])
    BY <1>5 DEF ApplyVerdict, OwnedInv, AnswersAreComplete
  <2>2. ASSUME NEW s \in Seqs, rowState'[s] = "IN_FLIGHT"
        PROVE  rowState[s] = "IN_FLIGHT" /\ s \notin batch[e]
    <3>1. rowState'[s] = IF rowState[s] = "IN_FLIGHT" THEN StateAfter(outcome[e].verdict[s])
                         ELSE rowState[s]
      BY <1>5 DEF ApplyVerdict, InFlightOf
    <3>2. rowState[s] = "IN_FLIGHT" /\ StateAfter(outcome[e].verdict[s]) = "IN_FLIGHT"
      BY <2>2, <3>1
    <3>3. QED
      BY <2>1, <3>2 DEF Complete, StateAfter
  <2>3. QED
    BY <1>3, <1>5, <2>2 DEF ApplyVerdict
<1>6. ASSUME NEW e \in Drains, ParseThrows(e) PROVE FALSE
  BY <1>6 DEF ParseThrows, OwnedInv, AnswersAreComplete
<1>7. CASE OnStart
  BY <1>7 DEF OnStart, InFlightIsOwned
<1>8. CASE process' # "running"
  BY <1>8 DEF InFlightIsOwned
<1>9. CASE HandsetStep
  <2>1. CASE (\E p \in Tiers, now \in QueueTimes : AppendAuthored(p, now)) \/ PruneAckedRows
              \/ \E s \in Seqs : BackoffElapses(s)
    BY <1>1, <1>8, <2>1 DEF AppendAuthored, PruneAckedRows, BackoffElapses, volatile
  <2>2. CASE Launch
    BY <1>8, <2>2 DEF Launch
  <2>3. QED
    BY <1>2, <1>4, <1>5, <1>6, <1>7, <1>9, <2>1, <2>2 DEF HandsetStep, DeviceStep
<1>10. ASSUME NEW e \in Drains,
              SendBatch(e) \/ ReceiveReply(e) \/ LoseRequest(e) \/ GiveUpWaiting(e)
       PROVE  InFlightIsOwned'
  BY <1>1, <1>8, <1>10
     DEF SendBatch, Select, ReceiveReply, LoseRequest, GiveUpWaiting, Resolve, durable
<1>11. CASE CrashField
  BY <1>8, <1>11 DEF CrashField, Crash
<1>12. CASE (\E d \in Drains : Ingest(d)) \/ (\E b \in late : IngestLate(b)) \/ UNCHANGED vars
  BY <1>1, <1>8, <1>12 DEF Ingest, IngestLate, vars, outboxVars, durable, volatile
<1>13. QED
  BY <1>9, <1>10, <1>11, <1>12 DEF FieldNext

\* While the handset runs, a row that is IN_FLIGHT is about to be settled by a drain that
\* sent it: none waits for the next restart.
THEOREM InFlightHasADrain == FieldSpec => []InFlightIsOwned
<1>1. FieldInit => OwnedInv
  BY DEF FieldInit, Init, OwnedInv, AnswersAreComplete, InFlightIsOwned
<1>2. FieldTypeOK /\ OwnedInv /\ [FieldNext]_vars => OwnedInv'
  BY AnswersStayComplete, InFlightStaysOwned DEF OwnedInv
<1>3. OwnedInv => InFlightIsOwned
  BY DEF OwnedInv
<1>4. QED
  BY <1>1, <1>2, <1>3, FieldTypeCorrect, PTL DEF FieldSpec
=============================================================================
