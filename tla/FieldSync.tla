----------------------------- MODULE FieldSync ------------------------------
(***************************************************************************)
(* The handset of Outbox, the backend's ingestion and the network between  *)
(* them: what becomes of every event a responder writes.                   *)
(*                                                                         *)
(* POST /v1/events is evaluated in one database transaction, which is one  *)
(* step here (Ingestion opens it up).  A request may be refused before it  *)
(* is evaluated, its answer may be lost after it, and the handset may stop *)
(* waiting, or die, while the request is still on its way: then the server *)
(* evaluates it later, and nobody reads the answer.                        *)
(***************************************************************************)
EXTENDS Outbox

CONSTANTS
    MaxLate,    \* requests the handset has given up on that may still arrive
    WireForm,   \* how the batch writes an event's type: "name" or "code"
    Malformed   \* the events whose content the server's parser refuses

ASSUME FieldSyncAssumption ==
    /\ MaxLate \in Nat
    /\ WireForm \in {"name", "code"}
    /\ {"accepted", "permanent"} \subseteq Answers

VARIABLES
    stored,   \* the seqs of this device in the server's event table
    wire,     \* the request of each drain: "idle", "request" (on its way) or "reply"
    answer,   \* the body of that reply
    late      \* the batches of requests that nobody waits for any more

netVars == <<wire, answer, late>>
vars == <<outboxVars, stored, netVars>>

-----------------------------------------------------------------------------
(* The server.                                                             *)

\* parse_event: the type is looked up among the names of EventType, then the content.
Recognised(s) == WireForm = "name" /\ s \notin Malformed

\* Mutant: content that does not parse is stored all the same.
Accepted_Unparsed(b) ==
    {s \in b : (\A t \in stored : t <= s) /\ \A t \in b : Before(t, s) => t <= s}

\* ingest_batch takes the events in the batch's order and refuses each one below the
\* highest seq accepted so far: in the table when the batch arrived, or in the batch.
Accepted(b) ==
    {s \in b :
        /\ Recognised(s)
        /\ \A t \in stored : t <= s
        /\ \A t \in b : Recognised(t) /\ Before(t, s) => t <= s}

\* Mutant: an event that is already in the table is not mentioned.
Response_SkipsDuplicates(b) ==
    [s \in Seqs |-> IF s \in Accepted(b) \ stored THEN "accepted"
                    ELSE IF s \in b \ Accepted(b) THEN "permanent" ELSE "silent"]

\* Mutant: the response lists all the device has in the table.
Response_WholeTable(b) ==
    [s \in Seqs |-> IF s \in stored \cup Accepted(b) THEN "accepted"
                    ELSE IF s \in b THEN "permanent" ELSE "silent"]

\* The response names every event of the batch; no code that ingest_batch gives is
\* retryable.
Response(b) ==
    [s \in Seqs |-> IF s \in Accepted(b) THEN "accepted"
                    ELSE IF s \in b THEN "permanent" ELSE "silent"]

-----------------------------------------------------------------------------
FieldInit ==
    /\ Init
    /\ stored = {}
    /\ wire = [d \in Drains |-> "idle"]
    /\ answer = [d \in Drains |-> Silence]
    /\ late = {}

\* drainOnce hands its batch to the transport.
SendBatch(d) ==
    /\ Select(d)
    /\ wire' = [wire EXCEPT ![d] = "request"]
    /\ UNCHANGED <<stored, answer, late>>

\* Mutant: the response leaves before the commit, which may then fail.
Ingest_AnswersFirst(d) ==
    /\ wire[d] = "request"
    /\ stored' \in {stored, stored \cup Accepted(batch[d])}
    /\ answer' = [answer EXCEPT ![d] = Response(batch[d])]
    /\ wire' = [wire EXCEPT ![d] = "reply"]
    /\ UNCHANGED <<outboxVars, late>>

\* The request arrives, is evaluated and committed.
Ingest(d) ==
    /\ wire[d] = "request"
    /\ stored' = stored \cup Accepted(batch[d])
    /\ answer' = [answer EXCEPT ![d] = Response(batch[d])]
    /\ wire' = [wire EXCEPT ![d] = "reply"]
    /\ UNCHANGED <<outboxVars, late>>

\* Mutant: the exchange is left open.
HangUp_LeavesOpen(d) == UNCHANGED <<wire, answer>>

\* The exchange is over for the handset.
HangUp(d) ==
    /\ wire' = [wire EXCEPT ![d] = "idle"]
    /\ answer' = [answer EXCEPT ![d] = Silence]

\* The 200 response arrives.
ReceiveReply(d) ==
    /\ wire[d] = "reply"
    /\ Resolve(d, Evaluated(answer[d]))
    /\ HangUp(d)
    /\ UNCHANGED <<stored, late>>

\* The request never arrived, the server refused it unevaluated (401, 403, 413, 5xx),
\* or the response was lost.
LoseRequest(d) ==
    /\ wire[d] # "idle"
    /\ Resolve(d, RequestFailed)
    /\ HangUp(d)
    /\ UNCHANGED <<stored, late>>

\* The read timeout passes while the request is still under way.
GiveUpWaiting(d) ==
    /\ wire[d] = "request"
    /\ Cardinality(late) < MaxLate
    /\ Resolve(d, RequestFailed)
    /\ late' = late \cup {batch[d]}
    /\ HangUp(d)
    /\ UNCHANGED stored

\* A request nobody waits for is evaluated all the same.
IngestLate(b) ==
    /\ b \in late
    /\ stored' = stored \cup Accepted(b)
    /\ late' = late \ {b}
    /\ UNCHANGED <<outboxVars, wire, answer>>

\* The handset's process dies; requests under way may still arrive.
CrashField ==
    /\ Crash
    /\ \E D \in SUBSET {d \in Drains : wire[d] = "request"} :
          late' = late \cup {batch[d] : d \in D}
    /\ Cardinality(late') <= MaxLate
    /\ wire' = [d \in Drains |-> "idle"]
    /\ answer' = [d \in Drains |-> Silence]
    /\ UNCHANGED stored

\* What the handset does on its own leaves the server and the network alone.
Still == UNCHANGED <<stored, netVars>>

HandsetStep == DeviceStep /\ Still

FieldNext ==
    \/ HandsetStep
    \/ \E d \in Drains :
          \/ SendBatch(d)
          \/ Ingest(d)
          \/ ReceiveReply(d)
          \/ LoseRequest(d)
          \/ GiveUpWaiting(d)
    \/ \E b \in late : IngestLate(b)
    \/ CrashField

FieldSpec == FieldInit /\ [][FieldNext]_vars

-----------------------------------------------------------------------------
(* Fairness: the application calls drainOnce again and again, a coroutine  *)
(* that can continue does, the clock advances, and a request that is tried *)
(* again and again is evaluated and answered at last.  The handset's       *)
(* process may die at any moment, but not for ever.                        *)

Fairness ==
    /\ WF_vars(Launch /\ Still)
    /\ WF_vars(OnStart /\ Still)
    /\ \A s \in Seqs : WF_vars(BackoffElapses(s) /\ Still)
    /\ \A d \in Drains :
          /\ WF_vars(SendBatch(d))
          /\ SF_vars(Ingest(d))
          /\ SF_vars(ReceiveReply(d))
          /\ WF_vars(MarkBatchInFlight(d) /\ Still)
          /\ WF_vars((ApplyRequestFailure(d) \/ ApplyVerdict(d)) /\ Still)
    /\ <>[][process' # "down"]_process

FairFieldSpec == FieldSpec /\ Fairness

-----------------------------------------------------------------------------
FieldTypeOK ==
    /\ TypeOK
    /\ stored \subseteq Seqs
    /\ wire \in [Drains -> {"idle", "request", "reply"}]
    /\ answer \in [Drains -> Verdicts]
    /\ late \subseteq SUBSET Seqs
    /\ \A d \in Drains : wire[d] # "idle" => pc[d] = "sending"

\* The server holds every event whose row is ACKED or was pruned: no loss, duplicate,
\* late arrival, crash or second drain makes the handset forget an event that the
\* server does not have.
AckedIsStored ==
    \A s \in Seqs : Authored(s) /\ rowState[s] \in {"ACKED", "none"} => s \in stored

\* A well-formed event is refused only by the order rule: the server then holds a
\* later event of the same device.
RejectedIsOvertaken ==
    \A s \in Seqs : rowState[s] = "REJECTED" /\ Recognised(s) => \E t \in stored : t > s

\* The server's table holds nothing but well-formed events that the device wrote.
StoredWasAuthored ==
    \A s \in stored : Authored(s) /\ Recognised(s)

\* A row is IN_FLIGHT only while a drain that sent it is about to settle it, so no
\* row is left to the next restart; ingest_batch answers for every event it is sent.
InFlightIsOwned ==
    process = "running" =>
        \A s \in Seqs : rowState[s] = "IN_FLIGHT" =>
            \E d \in Drains : pc[d] = "marked" /\ s \in batch[d]

\* Every event written is settled in the end: acknowledged, or refused for good.
EveryEventSettles ==
    \A s \in Seqs : Authored(s) ~> rowState[s] \in {"ACKED", "REJECTED", "none"}

\* The last event the device ever writes cannot be overtaken: if it is well-formed,
\* the server has it in the end.
LastEventIsStored ==
    Authored(MaxSeq) /\ Recognised(MaxSeq) ~> MaxSeq \in stored

-----------------------------------------------------------------------------
(* What the documents say and the code does not do.                        *)

\* OutboxEngine.applyRequestFailure, docs/06 section 5.3: "Never drops an event."
\* No well-formed event ends REJECTED without being on the server.
NeverDropsAnEvent ==
    \A s \in Seqs : rowState[s] = "REJECTED" /\ Recognised(s) => s \in stored

\* SyncEngine.BatchEncoder: "M7 provides the JSON form 09 section 2.2 specifies."  The
\* server understands the batches the handset encodes: it refuses only malformed
\* events and those overtaken by a later one.
WireFormIsUnderstood ==
    \A s \in Seqs : rowState[s] = "REJECTED" =>
        s \in Malformed \/ \E t \in stored : t > s
=============================================================================
