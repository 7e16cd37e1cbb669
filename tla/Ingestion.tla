------------------------------ MODULE Ingestion ------------------------------
(***************************************************************************)
(* POST /v1/events, statement by statement: services/ingestion.py over the *)
(* event table, with any number of requests at once (the endpoint is run   *)
(* in a pool of threads).  Requests may repeat events, in any order, as    *)
(* retries, late arrivals and gateways make them; a request may fail at    *)
(* any point, by an error, a deadlock or the death of the server.          *)
(***************************************************************************)
EXTENDS EventTable, Sequences, Collections

CONSTANTS
    Requests,    \* the requests that may arrive: [caller, events]
    Gateway,     \* the caller that relays for other devices
    Malformed    \* the events that parse_event or the cell check refuses

ASSUME IngestionAssumption ==
    Requests \subseteq [caller : Devices \cup {Gateway}, events : Seq(Keys)]

VARIABLES
    answerFirst,  \* the framework sends the response before the dependency commits
    pc,        \* where each transaction stands
    request,   \* what it evaluates
    pos,       \* the event it is at
    highest,   \* the dict `highest`: a function on the devices it has read
    accepted,  \* the identities and server_seqs it will answer with
    rejected,  \* the identities it will refuse
    told,      \* every <<identity, server_seq>> a response called accepted
    refused    \* every identity a response called rejected

requestVars == <<answerFirst, request, pos, highest, accepted, rejected>>
vars == <<tableVars, pc, requestVars, told, refused>>

NoRequest == [caller |-> Gateway, events |-> <<>>]
Nothing == [d \in {} |-> 0]

IngestionInit ==
    /\ TableInit
    /\ answerFirst \in BOOLEAN
    /\ pc = [t \in Txns |-> "idle"]
    /\ request = [t \in Txns |-> NoRequest]
    /\ pos = [t \in Txns |-> 1]
    /\ highest = [t \in Txns |-> Nothing]
    /\ accepted = [t \in Txns |-> {}]
    /\ rejected = [t \in Txns |-> {}]
    /\ told = {}
    /\ refused = {}

-----------------------------------------------------------------------------
AtAnEvent(t) == pc[t] = "events" /\ pos[t] <= Len(request[t].events)
Current(t) == request[t].events[pos[t]]

\* parse_event, the cell check and the caller's authorization: all before the order rule.
Unacceptable(t, k) ==
    k \in Malformed \/ request[t].caller \notin {Gateway, DeviceOf(k)}

\* Mutant: the order rule is not applied.
BelowHighest_Never(t, k) == FALSE

BelowHighest(t, k) == DeviceSeq(k) < highest[t][DeviceOf(k)]

\* engine.begin() and the first event.
Arrive(t) ==
    /\ pc[t] = "idle"
    /\ \E r \in Requests : request' = [request EXCEPT ![t] = r]
    /\ pc' = [pc EXCEPT ![t] = "events"]
    /\ UNCHANGED <<tableVars, answerFirst, pos, highest, accepted, rejected, told, refused>>

\* _highest_accepted_seq, once per device and batch.
ReadHighest(t) ==
    LET d == DeviceOf(Current(t)) IN
    /\ AtAnEvent(t)
    /\ ~Unacceptable(t, Current(t))
    /\ d \notin DOMAIN highest[t]
    /\ highest' = [highest EXCEPT ![t] = Put(highest[t], d, HighestSeq(t, d))]
    /\ UNCHANGED <<tableVars, answerFirst, pc, request, pos, accepted, rejected, told, refused>>

Judged(t) == ~Unacceptable(t, Current(t)) /\ DeviceOf(Current(t)) \in DOMAIN highest[t]

\* Mutant: a refused event raises the mark that later events are compared with.
RejectEvent_RaisesHighest(t) ==
    LET k == Current(t) IN
    /\ AtAnEvent(t)
    /\ Unacceptable(t, k) \/ (Judged(t) /\ BelowHighest(t, k))
    /\ rejected' = [rejected EXCEPT ![t] = @ \cup {k}]
    /\ highest' = [highest EXCEPT ![t] = Put(highest[t], DeviceOf(k), DeviceSeq(k))]
    /\ pos' = [pos EXCEPT ![t] = @ + 1]
    /\ UNCHANGED <<tableVars, answerFirst, pc, request, accepted, told, refused>>

\* The event is refused, for its content or for its place in the order.
RejectEvent(t) ==
    LET k == Current(t) IN
    /\ AtAnEvent(t)
    /\ Unacceptable(t, k) \/ (Judged(t) /\ BelowHighest(t, k))
    /\ rejected' = [rejected EXCEPT ![t] = @ \cup {k}]
    /\ pos' = [pos EXCEPT ![t] = @ + 1]
    /\ UNCHANGED <<tableVars, answerFirst, pc, request, highest, accepted, told, refused>>

\* append starts its INSERT.
StartInsert(t) ==
    /\ AtAnEvent(t)
    /\ Judged(t) /\ ~BelowHighest(t, Current(t))
    /\ DrawServerSeq(t)
    /\ pc' = [pc EXCEPT ![t] = "insert"]
    /\ UNCHANGED <<requestVars, told, refused>>

\* Mutant: a duplicate is answered with the number drawn for the repeat.
FinishInsert_TellsDrawn(t) ==
    LET k == Current(t) IN
    /\ pc[t] = "insert"
    /\ InsertOrSkip(t, k)
    /\ accepted' = [accepted EXCEPT ![t] = @ \cup {<<k, drawn[t]>>}]
    /\ highest' = [highest EXCEPT ![t] = Put(@, DeviceOf(k), Max({DeviceSeq(k), @[DeviceOf(k)]}))]
    /\ pos' = [pos EXCEPT ![t] = @ + 1]
    /\ pc' = [pc EXCEPT ![t] = "events"]
    /\ UNCHANGED <<answerFirst, request, rejected, told, refused>>

\* The INSERT ends, and where it found a row the SELECT of its server_seq, which no
\* transaction ever changes.
FinishInsert(t) ==
    LET k == Current(t) IN
    /\ pc[t] = "insert"
    /\ InsertOrSkip(t, k)
    /\ accepted' = [accepted EXCEPT ![t] = @ \cup {<<k, AppendResult(t, k)>>}]
    /\ highest' = [highest EXCEPT ![t] = Put(@, DeviceOf(k), Max({DeviceSeq(k), @[DeviceOf(k)]}))]
    /\ pos' = [pos EXCEPT ![t] = @ + 1]
    /\ pc' = [pc EXCEPT ![t] = "events"]
    /\ UNCHANGED <<answerFirst, request, rejected, told, refused>>

Evaluated(t) == pc[t] = "events" /\ pos[t] > Len(request[t].events)

Tell(t) ==
    /\ told' = told \cup accepted[t]
    /\ refused' = refused \cup rejected[t]

\* The transaction is over and the thread is free.
Close(t) ==
    /\ pc' = [pc EXCEPT ![t] = "idle"]
    /\ request' = [request EXCEPT ![t] = NoRequest]
    /\ pos' = [pos EXCEPT ![t] = 1]
    /\ highest' = [highest EXCEPT ![t] = Nothing]
    /\ accepted' = [accepted EXCEPT ![t] = {}]
    /\ rejected' = [rejected EXCEPT ![t] = {}]

\* The response leaves, and the dependency that commits is run after it.
Answer(t) ==
    /\ answerFirst
    /\ Evaluated(t)
    /\ Tell(t)
    /\ pc' = [pc EXCEPT ![t] = "answered"]
    /\ UNCHANGED <<tableVars, requestVars>>

CommitAnswered(t) ==
    /\ pc[t] = "answered"
    /\ CommitTable(t)
    /\ Close(t)
    /\ UNCHANGED <<answerFirst, told, refused>>

\* The dependency commits, and the response leaves.
CommitAndAnswer(t) ==
    /\ ~answerFirst
    /\ Evaluated(t)
    /\ CommitTable(t)
    /\ Tell(t)
    /\ Close(t)
    /\ UNCHANGED answerFirst

\* An error, a deadlock or the death of the server: a 5xx or no answer at all.
Fail(t) ==
    /\ pc[t] # "idle"
    /\ RollbackTable(t)
    /\ Close(t)
    /\ UNCHANGED <<answerFirst, told, refused>>

Step(t) ==
    \/ ReadHighest(t)
    \/ RejectEvent(t)
    \/ StartInsert(t)
    \/ FinishInsert(t)
    \/ Answer(t)
    \/ CommitAnswered(t)
    \/ CommitAndAnswer(t)

IngestionNext == \E t \in Txns : Arrive(t) \/ Step(t) \/ Fail(t)

IngestionSpec == IngestionInit /\ [][IngestionNext]_vars

\* t waits for a row of u.
WaitsFor(t, u) == pc[t] = "insert" /\ u # t /\ owner[Current(t)] = u

\* PostgreSQL gives up on t: it waits for one that waits for it, or the identity column
\* is exhausted.
GivenUp(t) ==
    \/ \E u \in Txns : WaitsFor(t, u) /\ WaitsFor(u, t)
    \/ pc[t] = "events" /\ identity = MaxServerSeq

\* A thread goes on when it can, and PostgreSQL ends a transaction that cannot.
Fairness ==
    \A t \in Txns :
        /\ WF_vars(Step(t))
        /\ WF_vars(GivenUp(t) /\ Fail(t))

FairIngestionSpec == IngestionSpec /\ Fairness

-----------------------------------------------------------------------------
IngestionTypeOK ==
    /\ TableTypeOK
    /\ pc \in [Txns -> {"idle", "events", "insert", "answered"}]
    /\ request \in [Txns -> Requests \cup {NoRequest}]
    /\ \A t \in Txns :
          /\ pos[t] \in 1..(Len(request[t].events) + 1)
          /\ DOMAIN highest[t] \subseteq Devices
          /\ drawn[t] # 0 <=> pc[t] = "insert"
    /\ \A k \in Keys : owner[k] # NoTxn => row[k] # 0 /\ pc[owner[k]] # "idle"

\* Where the commit comes first, an event that a response called accepted is committed,
\* for ever, and under the server_seq that response named, however often, and by whom,
\* it was sent (append).
ToldIsStored ==
    ~answerFirst => \A e \in told : e[1] \in Committed /\ row[e[1]] = e[2]

\* Where the commit comes first, a well-formed event is refused only when a later event
\* of its device is committed, also when several requests of the device are evaluated at
\* once (ingest_batch).
RefusedForCause ==
    ~answerFirst => \A k \in refused \ Malformed :
        \/ \E r \in Requests :
              /\ k \in {r.events[i] : i \in DOMAIN r.events}
              /\ r.caller \notin {Gateway, DeviceOf(k)}
        \/ \E c \in Committed : DeviceOf(c) = DeviceOf(k) /\ DeviceSeq(c) > DeviceSeq(k)

\* Requests evaluated one after the other give a device's events server_seqs in the
\* order of their seqs (TR-22, ingest_batch: "seq must exceed the device's highest
\* accepted value").
SeqOrderIsServerOrder ==
    \A k, l \in Committed :
        DeviceOf(k) = DeviceOf(l) /\ DeviceSeq(k) < DeviceSeq(l) => row[k] < row[l]

\* The committed rows are an EventLog: append-only, one number per event, one event
\* per number, whatever the transactions do.
Log == INSTANCE EventLog WITH
    Identities <- Keys, Numbers <- 1..MaxServerSeq, log <- CommittedLog
LogSpec == Log!Spec

\* No request waits for ever.
EveryRequestEnds == \A t \in Txns : pc[t] # "idle" ~> pc[t] = "idle"
=============================================================================
