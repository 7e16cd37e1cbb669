------------------------------- MODULE Outbox -------------------------------
(***************************************************************************)
(* The field handset: its event log, its outbox and the uplink drain.      *)
(*                                                                         *)
(* A responder's write allocates a `seq`, stores the event and queues a    *)
(* PENDING outbox row in one Room transaction (store/LocalEventStore.kt).  *)
(* SyncEngine.drainOnce reads a batch, sends it, marks it IN_FLIGHT and    *)
(* applies what came back; each of these is a separate suspension point,   *)
(* so writes, other drains, pruning and a process death interleave between *)
(* them.  What the other end answers is the environment's choice here;     *)
(* FieldSync puts the real server in its place.                            *)
(*                                                                         *)
(* One handset, one device_id: rows are named by their `seq`.              *)
(***************************************************************************)
EXTENDS Naturals, FiniteSets

CONSTANTS
    MaxSeq,       \* the highest seq the handset may allocate (20 bits on the wire)
    MaxAttempts,  \* attempt_count saturates here: the model's bound, the code has none
    QueueTimes,   \* the values first_queued_at may take (the wall clock at a write)
    BatchLimit,   \* rows one drain takes at most (SyncEngine.DEFAULT_BATCH)
    Drains,       \* concurrent callers of drainOnce: nothing in the code excludes a second
    Answers       \* the per-event answers a 200 response may carry

AllAnswers == {"accepted", "retry", "permanent", "unflagged"}

ASSUME OutboxAssumption ==
    /\ MaxSeq \in Nat
    /\ MaxAttempts \in Nat
    /\ QueueTimes \subseteq Nat
    /\ BatchLimit \in Nat \ {0}
    /\ Answers \subseteq AllAnswers

FirstSeq == 1
Seqs == FirstSeq..MaxSeq
Tiers == {"CRITICAL", "ROUTINE"}
RowStates == {"PENDING", "IN_FLIGHT", "ACKED", "REJECTED"}

VARIABLES
    process,   \* "down", "starting" (onStart has not run yet) or "running"
    nextSeq,   \* seq_counter.next_seq
    tier,      \* event: Priority.of(type) of each stored event, "none" where there is none
    rowState,  \* outbox.state, "none" where there is no row
    attempts,  \* outbox.attempt_count
    asleep,    \* the rows whose next_attempt_at lies in the future
    queuedAt,  \* outbox.first_queued_at
    pc,        \* where each drainOnce stands
    batch,     \* the rows a drain holds in memory
    outcome    \* what transport.send returned to it

durable  == <<nextSeq, tier, rowState, attempts, asleep, queuedAt>>
volatile == <<process, pc, batch, outcome>>
outboxVars == <<durable, volatile>>

-----------------------------------------------------------------------------
(* SendOutcome, with the 200 body already reduced to one answer per seq.   *)

Verdicts == [Seqs -> Answers \cup {"silent"}]
Silence == [s \in Seqs |-> "silent"]

NoOutcome == [kind |-> "none", verdict |-> Silence]
RequestFailed == [kind |-> "failed", verdict |-> Silence]
Undecodable == [kind |-> "undecodable", verdict |-> Silence]
Evaluated(v) == [kind |-> "evaluated", verdict |-> v]

Outcomes == [kind : {"none", "failed", "undecodable", "evaluated"}, verdict : Verdicts]

Settled == {"ACKED", "REJECTED"}
Authored(s) == tier[s] # "none"

-----------------------------------------------------------------------------
(* The order and the filter of OutboxDao.nextSendable.                     *)

Sendable == {s \in Seqs : rowState[s] = "PENDING" /\ s \notin asleep}

\* Mutant: the tier is left out of the ORDER BY.
Before_OldestFirst(s, t) ==
    queuedAt[s] < queuedAt[t] \/ (queuedAt[s] = queuedAt[t] /\ s < t)

Before(s, t) ==
    \/ tier[s] = "CRITICAL" /\ tier[t] = "ROUTINE"
    \/ /\ tier[s] = tier[t]
       /\ \/ queuedAt[s] < queuedAt[t]
          \/ queuedAt[s] = queuedAt[t] /\ s < t

\* The first rows of S in that order, as many as the limit allows.
IsFirstOf(b, S) ==
    /\ b \subseteq S
    /\ Cardinality(b) <= BatchLimit
    /\ b # S => Cardinality(b) = BatchLimit
    /\ \A s \in b, t \in S \ b : Before(s, t)

-----------------------------------------------------------------------------
Init ==
    /\ process = "starting"
    /\ nextSeq = FirstSeq
    /\ tier = [s \in Seqs |-> "none"]
    /\ rowState = [s \in Seqs |-> "none"]
    /\ attempts = [s \in Seqs |-> 0]
    /\ asleep = {}
    /\ queuedAt = [s \in Seqs |-> 0]
    /\ pc = [d \in Drains |-> "idle"]
    /\ batch = [d \in Drains |-> {}]
    /\ outcome = [d \in Drains |-> NoOutcome]

\* Mutant: the seq is taken with peek but the counter is not advanced.
AppendAuthored_NoAdvance(p, now) ==
    /\ process # "down"
    /\ nextSeq <= MaxSeq
    /\ tier' = [tier EXCEPT ![nextSeq] = p]
    /\ rowState' = [rowState EXCEPT ![nextSeq] = "PENDING"]
    /\ queuedAt' = [queuedAt EXCEPT ![nextSeq] = now]
    /\ UNCHANGED <<nextSeq, attempts, asleep, volatile>>

\* A responder's write: counter, event and PENDING row commit together.
AppendAuthored(p, now) ==
    /\ process # "down"
    /\ nextSeq <= MaxSeq
    /\ nextSeq' = nextSeq + 1
    /\ tier' = [tier EXCEPT ![nextSeq] = p]
    /\ rowState' = [rowState EXCEPT ![nextSeq] = "PENDING"]
    /\ queuedAt' = [queuedAt EXCEPT ![nextSeq] = now]
    /\ UNCHANGED <<attempts, asleep, volatile>>

\* The clock reaches a row's next_attempt_at.
BackoffElapses(s) ==
    /\ s \in asleep
    /\ asleep' = asleep \ {s}
    /\ UNCHANGED <<nextSeq, tier, rowState, attempts, queuedAt, volatile>>

\* drainOnce up to transport.send: query, selection, fit, encode.
Select(d) ==
    /\ process = "running"
    /\ pc[d] = "idle"
    /\ Sendable # {}
    /\ \E b \in SUBSET Sendable :
          /\ IsFirstOf(b, Sendable)
          /\ batch' = [batch EXCEPT ![d] = b]
    /\ pc' = [pc EXCEPT ![d] = "sending"]
    /\ UNCHANGED <<durable, process, outcome>>

\* transport.send returns.
Resolve(d, o) ==
    /\ pc[d] = "sending"
    /\ outcome' = [outcome EXCEPT ![d] = o]
    /\ pc' = [pc EXCEPT ![d] = "answered"]
    /\ UNCHANGED <<durable, process, batch>>

\* markBatchInFlight, which drainOnce calls after the send.
MarkBatchInFlight(d) ==
    /\ pc[d] = "answered"
    /\ rowState' = [s \in Seqs |->
          IF s \in batch[d] /\ rowState[s] = "PENDING" THEN "IN_FLIGHT" ELSE rowState[s]]
    /\ pc' = [pc EXCEPT ![d] = "marked"]
    /\ UNCHANGED <<nextSeq, tier, attempts, asleep, queuedAt, process, batch, outcome>>

\* drainOnce returns, or throws, and its local state is gone.
Finish(d) ==
    /\ pc' = [pc EXCEPT ![d] = "idle"]
    /\ batch' = [batch EXCEPT ![d] = {}]
    /\ outcome' = [outcome EXCEPT ![d] = NoOutcome]

\* Mutant: the updates lose their WHERE state = 'IN_FLIGHT'.
InFlightOf_AnyRow(R) == {s \in R : rowState[s] # "none"}

\* Every transition out of IN_FLIGHT is an UPDATE ... WHERE state = 'IN_FLIGHT'.
InFlightOf(R) == {s \in R : rowState[s] = "IN_FLIGHT"}

\* OutboxDao.returnToPending: one attempt more, and next_attempt_at ahead.
ReturnToPending(R) ==
    /\ attempts' = [s \in Seqs |->
          IF s \in R /\ attempts[s] < MaxAttempts THEN attempts[s] + 1 ELSE attempts[s]]
    /\ asleep' = asleep \cup R

\* Mutant: a failed request settles its rows as a permanent verdict would.
ApplyRequestFailure_Rejects(d) ==
    LET back == InFlightOf(batch[d]) IN
    /\ pc[d] = "marked"
    /\ outcome[d].kind = "failed"
    /\ rowState' = [s \in Seqs |-> IF s \in back THEN "REJECTED" ELSE rowState[s]]
    /\ Finish(d)
    /\ UNCHANGED <<nextSeq, tier, attempts, asleep, queuedAt, process>>

ApplyRequestFailure(d) ==
    LET back == InFlightOf(batch[d]) IN
    /\ pc[d] = "marked"
    /\ outcome[d].kind = "failed"
    /\ rowState' = [s \in Seqs |-> IF s \in back THEN "PENDING" ELSE rowState[s]]
    /\ ReturnToPending(back)
    /\ Finish(d)
    /\ UNCHANGED <<nextSeq, tier, queuedAt, process>>

\* Mutant: a retryable rejection gets a state of its own.
StateAfter_RetryState(a) ==
    CASE a = "accepted" -> "ACKED"
      [] a = "retry" -> "RETRY"
      [] a \in {"permanent", "unflagged"} -> "REJECTED"
      [] OTHER -> "IN_FLIGHT"

\* What one answer makes of an IN_FLIGHT row.  RejectedDto.retryable defaults to
\* false, so an answer without the flag is a permanent one.
StateAfter(a) ==
    CASE a = "accepted" -> "ACKED"
      [] a = "retry" -> "PENDING"
      [] a \in {"permanent", "unflagged"} -> "REJECTED"
      [] OTHER -> "IN_FLIGHT"

\* Rows that the verdict does not mention are left IN_FLIGHT.
ApplyVerdict(d) ==
    LET v == outcome[d].verdict
        flying == InFlightOf(Seqs)
    IN
    /\ pc[d] = "marked"
    /\ outcome[d].kind = "evaluated"
    /\ rowState' = [s \in Seqs |-> IF s \in flying THEN StateAfter(v[s]) ELSE rowState[s]]
    /\ ReturnToPending({s \in flying : v[s] = "retry"})
    /\ Finish(d)
    /\ UNCHANGED <<nextSeq, tier, queuedAt, process>>

\* verdictParser.parse throws on a 200 body it cannot decode.
ParseThrows(d) ==
    /\ pc[d] = "marked"
    /\ outcome[d].kind = "undecodable"
    /\ Finish(d)
    /\ UNCHANGED <<durable, process>>

\* OutboxDao.pruneAckedRows.
PruneAckedRows ==
    LET gone == {s \in Seqs : rowState[s] = "ACKED"} IN
    /\ process # "down"
    /\ gone # {}
    /\ rowState' = [s \in Seqs |-> IF s \in gone THEN "none" ELSE rowState[s]]
    /\ attempts' = [s \in Seqs |-> IF s \in gone THEN 0 ELSE attempts[s]]
    /\ asleep' = asleep \ gone
    /\ UNCHANGED <<nextSeq, tier, queuedAt, volatile>>

\* The process dies: the database is as it was committed, the rest is gone.
Crash ==
    /\ process # "down"
    /\ process' = "down"
    /\ pc' = [d \in Drains |-> "idle"]
    /\ batch' = [d \in Drains |-> {}]
    /\ outcome' = [d \in Drains |-> NoOutcome]
    /\ UNCHANGED durable

Launch ==
    /\ process = "down"
    /\ process' = "starting"
    /\ UNCHANGED <<durable, pc, batch, outcome>>

\* Mutant: a restart does not reclaim the rows of the process that died.
OnStart_NoReclaim ==
    /\ process = "starting"
    /\ process' = "running"
    /\ UNCHANGED <<durable, pc, batch, outcome>>

\* SyncEngine.onStart: reclaimInFlight touches neither attempt_count nor next_attempt_at.
OnStart ==
    /\ process = "starting"
    /\ process' = "running"
    /\ rowState' = [s \in Seqs |-> IF rowState[s] = "IN_FLIGHT" THEN "PENDING" ELSE rowState[s]]
    /\ UNCHANGED <<nextSeq, tier, attempts, asleep, queuedAt, pc, batch, outcome>>

-----------------------------------------------------------------------------
\* Everything the handset does on its own.
DeviceStep ==
    \/ \E p \in Tiers, now \in QueueTimes : AppendAuthored(p, now)
    \/ \E s \in Seqs : BackoffElapses(s)
    \/ \E d \in Drains :
          \/ MarkBatchInFlight(d)
          \/ ApplyRequestFailure(d)
          \/ ApplyVerdict(d)
          \/ ParseThrows(d)
    \/ PruneAckedRows
    \/ Launch
    \/ OnStart

\* Any other end: it answers what it likes about the rows it was sent, or about
\* some of them, or the request fails, or its answer is not readable.
AnyVerdict(d) == {v \in Verdicts : \A s \in Seqs \ batch[d] : v[s] = "silent"}

AnyOutcome(d) ==
    {RequestFailed, Undecodable} \cup {Evaluated(v) : v \in AnyVerdict(d)}

Reply(d) == pc[d] = "sending" /\ \E o \in AnyOutcome(d) : Resolve(d, o)

Next ==
    \/ DeviceStep
    \/ \E d \in Drains : Select(d) \/ Reply(d)
    \/ Crash

Spec == Init /\ [][Next]_outboxVars

-----------------------------------------------------------------------------
TypeOK ==
    /\ process \in {"down", "starting", "running"}
    /\ nextSeq \in FirstSeq..(MaxSeq + 1)
    /\ tier \in [Seqs -> Tiers \cup {"none"}]
    /\ rowState \in [Seqs -> RowStates \cup {"none"}]
    /\ attempts \in [Seqs -> 0..MaxAttempts]
    /\ asleep \subseteq Seqs
    /\ queuedAt \in [Seqs -> QueueTimes \cup {0}]
    /\ pc \in [Drains -> {"idle", "sending", "answered", "marked"}]
    /\ batch \in [Drains -> SUBSET Seqs]
    /\ outcome \in [Drains -> Outcomes]

\* A seq is allocated exactly with its event, in one transaction with the counter
\* and the outbox row: no crash leaves a gap, none is used twice, and no row is
\* queued for an event that is not stored (LocalEventStore.appendAuthored).
LogMatchesCounter ==
    \A s \in Seqs :
        /\ Authored(s) <=> s < nextSeq
        /\ rowState[s] # "none" => Authored(s)

\* A drain never leaves a CRITICAL row waiting that it could have taken instead of a
\* ROUTINE one, whatever the clock said when they were queued (OutboxDao.nextSendable).
CriticalFirst ==
    [][\A d \in Drains : pc[d] = "idle" /\ pc'[d] = "sending" =>
          \A s \in batch'[d], t \in Sendable \ batch'[d] :
              tier[t] = "CRITICAL" => tier[s] = "CRITICAL"]_outboxVars

\* Only the four transitions of the lifecycle happen, besides the insertion of a row
\* and the deletion of an ACKED one: with overlapping drains and answers that come
\* late, no settled row moves again (OutboxEngine, the guards of OutboxDao).
LegalTransitions ==
    [][\A s \in Seqs : rowState'[s] # rowState[s] =>
          <<rowState[s], rowState'[s]>> \in
              { <<"none", "PENDING">>, <<"PENDING", "IN_FLIGHT">>,
                <<"IN_FLIGHT", "ACKED">>, <<"IN_FLIGHT", "PENDING">>,
                <<"IN_FLIGHT", "REJECTED">>, <<"ACKED", "none">> }]_outboxVars

\* A row is settled only by an answer about that very event, in a 200 body, received
\* by a drain that had sent it: a failed request, however permanent its status, and
\* a restart settle nothing (OutboxEngine.applyRequestFailure, applyVerdict).
OnlyAVerdictSettles ==
    [][\A s \in Seqs : rowState'[s] # rowState[s] /\ rowState'[s] \in Settled =>
          \E d \in Drains :
              /\ pc[d] = "marked"
              /\ s \in batch[d]
              /\ outcome[d].kind = "evaluated"
              /\ \/ rowState'[s] = "ACKED" /\ outcome[d].verdict[s] = "accepted"
                 \/ /\ rowState'[s] = "REJECTED"
                    /\ outcome[d].verdict[s] \in {"permanent", "unflagged"}]_outboxVars
=============================================================================
