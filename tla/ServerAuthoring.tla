--------------------------- MODULE ServerAuthoring ---------------------------
(***************************************************************************)
(* The events that the server writes itself, under device_id 0             *)
(* (services/server_events.py).                                            *)
(*                                                                         *)
(* author() reads the highest seq of device 0, adds one and appends, in    *)
(* two statements of the caller's transaction and without a lock.  The     *)
(* append is the idempotent one of ingestion: where another transaction    *)
(* took the seq in between, it inserts nothing, and the caller answers     *)
(* with the server_seq of the event that is there.                         *)
(***************************************************************************)
EXTENDS EventTable

CONSTANTS
    Server,  \* SERVER_DEVICE_ID
    NoEvent  \* the content of no event

ASSUME AuthoringAssumption == Server \in Devices

VARIABLES
    content,  \* what the row of each key says, NoEvent where there is no row
    pc,       \* where each transaction stands
    draft,    \* the event it is about to write
    seq,      \* the seq it has computed for it
    number,   \* the server_seq that append returned
    answered, \* every [event, number, held] that a 201 response stood for
    alone     \* no two requests were ever under way at once

history == <<answered, alone>>
authorVars == <<content, pc, draft, seq, number, history>>

ServerKey(n) == <<Server, n>>
ServerRows == {k \in Committed : DeviceOf(k) = Server}

AuthoringInit ==
    /\ TableInit
    /\ content = [k \in Keys |-> NoEvent]
    /\ pc = [t \in Txns |-> "idle"]
    /\ draft = [t \in Txns |-> NoEvent]
    /\ seq = [t \in Txns |-> 0]
    /\ number = [t \in Txns |-> 0]
    /\ answered = {}
    /\ alone = TRUE

-----------------------------------------------------------------------------
\* A request arrives, in a transaction of its own: the event it will write, and where
\* it goes on.
Begin(t, event, next) ==
    /\ pc[t] = "idle"
    /\ draft' = [draft EXCEPT ![t] = event]
    /\ pc' = [pc EXCEPT ![t] = next]
    /\ alone' = (alone /\ \A u \in Txns : pc[u] = "idle")
    /\ UNCHANGED <<tableVars, content, seq, number, answered>>

\* Mutant: the maximum is taken over the rows of open transactions too.
NextSeq_Dirty(t) ==
    1 + Max({0} \cup {DeviceSeq(k) : k \in {r \in Keys : DeviceOf(r) = Server /\ row[r] # 0}})

\* Mutant: the maximum itself, not the one after it.
NextSeq_Taken(t) == Max({1, HighestSeq(t, Server)})

NextSeq(t) == 1 + HighestSeq(t, Server)

\* next_server_seq, in a statement of its own.
ReadNextSeq(t) ==
    /\ pc[t] = "author"
    /\ NextSeq(t) <= MaxSeq
    /\ seq' = [seq EXCEPT ![t] = NextSeq(t)]
    /\ pc' = [pc EXCEPT ![t] = "numbered"]
    /\ UNCHANGED <<tableVars, content, draft, number, history>>

\* append starts its INSERT.
StartAppend(t) ==
    /\ pc[t] = "numbered"
    /\ DrawServerSeq(t)
    /\ pc' = [pc EXCEPT ![t] = "insert"]
    /\ UNCHANGED <<content, draft, seq, number, history>>

\* The INSERT ends; was_duplicate is not looked at.
FinishAppend(t) ==
    LET k == ServerKey(seq[t]) IN
    /\ pc[t] = "insert"
    /\ InsertOrSkip(t, k)
    /\ content' = [content EXCEPT ![k] = IF row[k] = 0 THEN draft[t] ELSE @]
    /\ number' = [number EXCEPT ![t] = AppendResult(t, k)]
    /\ pc' = [pc EXCEPT ![t] = "written"]
    /\ UNCHANGED <<draft, seq, history>>

\* The transaction is over and the thread is free.
Leave(t) ==
    /\ pc' = [pc EXCEPT ![t] = "idle"]
    /\ draft' = [draft EXCEPT ![t] = NoEvent]
    /\ seq' = [seq EXCEPT ![t] = 0]
    /\ number' = [number EXCEPT ![t] = 0]

\* The commit and the 201; `held` is what else the response says.
CommitAuthored(t, held) ==
    /\ pc[t] = "written"
    /\ CommitTable(t)
    /\ answered' = answered \cup {[event |-> draft[t], number |-> number[t], held |-> held]}
    /\ Leave(t)
    /\ UNCHANGED <<content, alone>>

\* A 4xx, an error or the death of the server.
FailAuthoring(t) ==
    /\ pc[t] # "idle"
    /\ RollbackTable(t)
    /\ content' = [k \in Keys |-> IF owner[k] = t THEN NoEvent ELSE content[k]]
    /\ Leave(t)
    /\ UNCHANGED history

AuthorStep(t) == ReadNextSeq(t) \/ StartAppend(t) \/ FinishAppend(t)

-----------------------------------------------------------------------------
\* A 201 response stands for an event that is in the log, with the content asked for and
\* under the server_seq the response names (author, append).
AnsweredIsRecorded ==
    \A a \in answered :
        \E k \in Committed : row[k] = a.number /\ content[k] = a.event

\* ... which holds as long as the requests come one after the other (author, append).
AnsweredAloneIsRecorded == alone => AnsweredIsRecorded

\* The server's own seqs have no gap and the order of the server_seqs, also when
\* transactions that drew one fail and others overtake them (next_server_seq).
ServerSeqsFollowTheLog ==
    /\ {DeviceSeq(k) : k \in ServerRows} = 1..Cardinality(ServerRows)
    /\ \A k, l \in ServerRows : DeviceSeq(k) < DeviceSeq(l) => row[k] < row[l]
=============================================================================
