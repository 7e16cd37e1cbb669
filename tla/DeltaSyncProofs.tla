--------------------------- MODULE DeltaSyncProofs ---------------------------
(***************************************************************************)
(* Proofs about Ingestion, the uplink, and about DeltaSync, the downlink   *)
(* beside it, for every number of devices, events, requests, pulls, rows   *)
(* in a page and concurrent transactions.                                  *)
(*                                                                         *)
(* Ingestion: the committed rows are an EventLog, what a response called   *)
(* accepted is in it, and what it refused was refused for a cause.         *)
(*                                                                         *)
(* DeltaSync: what a pull does leaves the server alone, pages keep to      *)
(* their limit, and as long as transactions commit in the order of their   *)
(* numbers, which they do when they come one after the other, the          *)
(* watermark skips no event.                                               *)
(***************************************************************************)
EXTENDS DeltaSync, EventTableProofs

-----------------------------------------------------------------------------
(* Types.                                                                  *)

\* What IngestionTypeOK leaves open: what a transaction holds while it evaluates.
RequestTypeOK ==
    /\ answerFirst \in BOOLEAN
    /\ pos \in [Txns -> Nat]
    /\ accepted \in [Txns -> SUBSET (Keys \X Nat)]
    /\ rejected \in [Txns -> SUBSET Keys]
    /\ told \subseteq Keys \X Nat
    /\ refused \subseteq Keys
    /\ DOMAIN highest = Txns
    /\ \A t \in Txns : highest[t] \in [DOMAIN highest[t] -> 0..MaxSeq]

\* A transaction that is over holds nothing, and an INSERT is that of the current event,
\* which was judged.
RequestFlow ==
    \A t \in Txns :
        /\ pc[t] = "idle" => /\ request[t] = NoRequest /\ pos[t] = 1
                             /\ highest[t] = Nothing
                             /\ accepted[t] = {} /\ rejected[t] = {}
        /\ pc[t] = "insert" => /\ pos[t] <= Len(request[t].events)
                               /\ Judged(t) /\ ~BelowHighest(t, Current(t))

TypeInv ==
    /\ TableInv
    /\ IngestionTypeOK
    /\ RequestTypeOK
    /\ RequestFlow

LEMMA RequestShape ==
    ASSUME TypeInv, NEW t \in Txns
    PROVE  /\ request[t].events \in Seq(Keys)
           /\ Len(request[t].events) \in Nat
           /\ pos[t] \in Nat
           /\ pos[t] \in 1..(Len(request[t].events) + 1)
           /\ pos[t] <= Len(request[t].events) => /\ Current(t) \in Keys
                                                  /\ DeviceOf(Current(t)) \in Devices
                                                  /\ DeviceSeq(Current(t)) \in 1..MaxSeq
<1>1. request[t] \in Requests \cup {NoRequest} /\ pos[t] \in 1..(Len(request[t].events) + 1)
  BY DEF TypeInv, IngestionTypeOK
<1>2. request[t].events \in Seq(Keys)
  <2>1. ASSUME NEW r \in Requests PROVE r.events \in Seq(Keys)
    BY IngestionAssumption
  <2>2. NoRequest.events = <<>> /\ <<>> \in Seq(Keys)
    BY DEF NoRequest
  <2>3. QED
    BY <1>1, <2>1, <2>2
<1>3. Len(request[t].events) \in Nat
  BY <1>2
<1>4. pos[t] \in Nat
  BY DEF TypeInv, RequestTypeOK
<1>5. ASSUME pos[t] <= Len(request[t].events) PROVE Current(t) \in Keys
  <2>1. pos[t] \in 1..Len(request[t].events)
    BY <1>1, <1>3, <1>4, <1>5
  <2>2. QED
    BY <1>2, <2>1 DEF Current
<1>6. \A k \in Keys : DeviceOf(k) \in Devices /\ DeviceSeq(k) \in 1..MaxSeq
  BY DEF Keys, DeviceOf, DeviceSeq
<1>7. QED
  BY <1>1, <1>2, <1>3, <1>4, <1>5, <1>6

\* Every step of a request is a step of the table.
LEMMA IngestionStepsTable ==
    ASSUME TypeInv, [IngestionNext]_vars
    PROVE  TableStep
<1>1. ASSUME NEW t \in Txns, FinishInsert(t) PROVE TableStep
  <2>1. Current(t) \in Keys
    BY <1>1, RequestShape DEF TypeInv, RequestFlow, FinishInsert
  <2>2. QED
    BY <1>1, <2>1 DEF FinishInsert, TableStep
<1>2. ASSUME NEW t \in Txns, StartInsert(t) PROVE TableStep
  BY <1>2 DEF StartInsert, TableStep
<1>3. ASSUME NEW t \in Txns, CommitAnswered(t) \/ CommitAndAnswer(t) PROVE TableStep
  BY <1>3 DEF CommitAnswered, CommitAndAnswer, TableStep
<1>4. ASSUME NEW t \in Txns, Fail(t) PROVE TableStep
  BY <1>4 DEF Fail, TableStep
<1>5. ASSUME NEW t \in Txns, Arrive(t) \/ ReadHighest(t) \/ RejectEvent(t) \/ Answer(t)
      PROVE  TableStep
  BY <1>5 DEF Arrive, ReadHighest, RejectEvent, Answer, TableStep
<1>6. CASE UNCHANGED vars
  BY <1>6 DEF vars, TableStep
<1>7. QED
  BY <1>1, <1>2, <1>3, <1>4, <1>5, <1>6 DEF IngestionNext, Step

LEMMA TypeInitial == IngestionInit => TypeInv
<1> SUFFICES ASSUME IngestionInit PROVE TypeInv
  OBVIOUS
<1>1. TableInv
  BY TableInitInv DEF IngestionInit
<1>2. Len(<<>>) = 0 /\ 1 \in 1..(0 + 1)
  OBVIOUS
<1>3. IngestionTypeOK
  BY <1>1, <1>2 DEF IngestionInit, TableInit, TableInv, IngestionTypeOK, NoRequest, Nothing
<1>4. RequestTypeOK /\ RequestFlow
  BY DEF IngestionInit, RequestTypeOK, RequestFlow, Nothing
<1>5. QED
  BY <1>1, <1>3, <1>4 DEF TypeInv

LEMMA ArriveType ==
    ASSUME TypeInv, NEW t \in Txns, Arrive(t)
    PROVE  TypeInv'
<1> USE DEF TypeInv, Arrive
<1>1. TableInv'
  BY StillInv
<1>2. \A u \in Txns : u # t => request'[u] = request[u] /\ pc'[u] = pc[u]
  BY DEF IngestionTypeOK
<1>3. request'[t] \in Requests /\ pos'[t] = 1 /\ pc'[t] = "events" /\ pc[t] = "idle"
  BY DEF IngestionTypeOK, RequestFlow
<1>4. 1 \in 1..(Len(request'[t].events) + 1)
  <2>1. request'[t].events \in Seq(Keys)
    BY <1>3, IngestionAssumption
  <2>2. Len(request'[t].events) \in Nat
    BY <2>1
  <2>3. QED
    BY <2>2
<1>5. IngestionTypeOK'
  BY <1>1, <1>2, <1>3, <1>4 DEF IngestionTypeOK, TableInv, tableVars
<1>6. RequestTypeOK'
  BY DEF RequestTypeOK
<1>7. RequestFlow'
  BY <1>2, <1>3 DEF RequestFlow, Judged, Unacceptable, BelowHighest, Current
<1>8. QED
  BY <1>1, <1>5, <1>6, <1>7

LEMMA ReadHighestType ==
    ASSUME TypeInv, NEW t \in Txns, ReadHighest(t)
    PROVE  TypeInv'
<1> USE DEF TypeInv, ReadHighest
<1> DEFINE d == DeviceOf(Current(t))
<1>1. TableInv'
  BY StillInv
<1>2. d \in Devices
  BY RequestShape DEF AtAnEvent
<1>3. HighestSeq(t, d) \in 0..MaxSeq
  BY <1>2, HighestSeqIs
<1>4. \A u \in Txns : u # t => highest'[u] = highest[u]
  BY DEF RequestTypeOK
<1>5. highest'[t] = Put(highest[t], d, HighestSeq(t, d)) /\ DOMAIN highest' = Txns
  BY DEF RequestTypeOK
<1>6. DOMAIN highest'[t] \subseteq Devices /\ highest'[t] \in [DOMAIN highest'[t] -> 0..MaxSeq]
  BY <1>2, <1>3, <1>5 DEF Put, Update, IngestionTypeOK, RequestTypeOK
<1>7. IngestionTypeOK'
  BY <1>1, <1>4, <1>6 DEF IngestionTypeOK, TableInv, tableVars
<1>8. RequestTypeOK'
  BY <1>4, <1>5, <1>6 DEF RequestTypeOK
<1>9. RequestFlow'
  BY <1>4 DEF RequestFlow, Judged, Unacceptable, BelowHighest, Current, AtAnEvent
<1>10. QED
  BY <1>1, <1>7, <1>8, <1>9

LEMMA RejectEventType ==
    ASSUME TypeInv, NEW t \in Txns, RejectEvent(t)
    PROVE  TypeInv'
<1> USE DEF TypeInv, RejectEvent
<1>1. TableInv'
  BY StillInv
<1>2. Current(t) \in Keys /\ pos[t] \in Nat /\ pos[t] + 1 \in 1..(Len(request[t].events) + 1)
  BY RequestShape DEF AtAnEvent
<1>3. /\ \A u \in Txns : u # t => pos'[u] = pos[u] /\ rejected'[u] = rejected[u]
      /\ pos'[t] = pos[t] + 1 /\ rejected'[t] = rejected[t] \cup {Current(t)}
      /\ pc[t] = "events"
  BY DEF RequestTypeOK, AtAnEvent
<1>4. IngestionTypeOK'
  BY <1>1, <1>2, <1>3 DEF IngestionTypeOK, TableInv, tableVars
<1>5. RequestTypeOK'
  BY <1>2, <1>3 DEF RequestTypeOK
<1>6. RequestFlow'
  BY <1>3 DEF RequestFlow, Judged, Unacceptable, BelowHighest, Current
<1>7. QED
  BY <1>1, <1>4, <1>5, <1>6

LEMMA StartInsertType ==
    ASSUME TypeInv, NEW t \in Txns, StartInsert(t)
    PROVE  TypeInv'
<1> USE DEF TypeInv, StartInsert
<1>1. TableInv'
  BY DrawInv
<1>2. /\ \A u \in Txns : u # t => pc'[u] = pc[u] /\ drawn'[u] = drawn[u]
      /\ pc'[t] = "insert" /\ drawn'[t] # 0 /\ pc[t] = "events"
  BY DEF IngestionTypeOK, TableTypeOK, DrawServerSeq, AtAnEvent
<1>3. IngestionTypeOK'
  BY <1>1, <1>2 DEF IngestionTypeOK, TableInv, DrawServerSeq, requestVars
<1>4. RequestTypeOK'
  BY DEF RequestTypeOK, requestVars
<1>5. RequestFlow'
  BY <1>2 DEF RequestFlow, Judged, Unacceptable, BelowHighest, Current, AtAnEvent, requestVars
<1>6. QED
  BY <1>1, <1>3, <1>4, <1>5

LEMMA FinishInsertType ==
    ASSUME TypeInv, NEW t \in Txns, FinishInsert(t)
    PROVE  TypeInv'
<1> USE DEF TypeInv, FinishInsert
<1> DEFINE k == Current(t)
           d == DeviceOf(k)
<1>1. /\ k \in Keys /\ d \in Devices /\ DeviceSeq(k) \in 1..MaxSeq
      /\ d \in DOMAIN highest[t]
      /\ pos[t] \in Nat /\ pos[t] + 1 \in 1..(Len(request[t].events) + 1)
  BY RequestShape DEF RequestFlow, Judged
<1>2. TableInv'
  BY <1>1, InsertInv
<1>3. Max({DeviceSeq(k), highest[t][d]}) \in 0..MaxSeq
  <2>1. {DeviceSeq(k), highest[t][d]} \subseteq 0..MaxSeq
    BY <1>1, EventTableAssumption DEF RequestTypeOK
  <2>2. QED
    BY <2>1, MaxOfBounded, EventTableAssumption
<1>4. /\ \A u \in Txns : u # t => /\ pos'[u] = pos[u] /\ accepted'[u] = accepted[u]
                                  /\ highest'[u] = highest[u] /\ pc'[u] = pc[u]
                                  /\ drawn'[u] = drawn[u]
      /\ pos'[t] = pos[t] + 1 /\ pc'[t] = "events" /\ drawn'[t] = 0
      /\ accepted'[t] = accepted[t] \cup {<<k, AppendResult(t, k)>>}
      /\ highest'[t] = Put(highest[t], d, Max({DeviceSeq(k), highest[t][d]}))
      /\ DOMAIN highest' = Txns
      /\ UNCHANGED <<answerFirst, request, rejected, told, refused>>
  BY DEF RequestTypeOK, IngestionTypeOK, TableTypeOK, InsertOrSkip
<1>5. DOMAIN highest'[t] \subseteq Devices /\ highest'[t] \in [DOMAIN highest'[t] -> 0..MaxSeq]
  BY <1>1, <1>3, <1>4 DEF Put, Update, IngestionTypeOK, RequestTypeOK
<1>6. AppendResult(t, k) \in Nat
  BY <1>1 DEF AppendResult, TableInv, TableTypeOK
<1>7. \A l \in Keys : owner'[l] # NoTxn => row'[l] # 0 /\ pc'[owner'[l]] # "idle"
  <2>1. \A l \in Keys : owner'[l] = owner[l] \/ owner'[l] = t
    BY <1>1 DEF InsertOrSkip, TableInv, TableTypeOK
  <2>2. \A l \in Keys : owner'[l] # NoTxn => row'[l] # 0
    BY <1>2 DEF TableInv, OwnersHaveRows
  <2>3. \A l \in Keys : owner[l] \in Txns \cup {NoTxn}
    BY DEF TableInv, TableTypeOK
  <2>4. QED
    BY <1>4, <2>1, <2>2, <2>3 DEF IngestionTypeOK
<1>8. /\ pc' \in [Txns -> {"idle", "events", "insert", "answered"}]
      /\ pos' \in [Txns -> Nat]
      /\ accepted' \in [Txns -> SUBSET (Keys \X Nat)]
  BY <1>1, <1>6 DEF IngestionTypeOK, RequestTypeOK
<1> HIDE DEF k, d, FinishInsert
<1>9. IngestionTypeOK'
  <2>1. ASSUME NEW u \in Txns
        PROVE  /\ pos'[u] \in 1..(Len(request'[u].events) + 1)
               /\ DOMAIN highest'[u] \subseteq Devices
               /\ drawn'[u] # 0 <=> pc'[u] = "insert"
    <3>1. CASE u = t
      BY <1>1, <1>4, <1>5, <3>1
    <3>2. CASE u # t
      BY <1>4, <3>2 DEF IngestionTypeOK
    <3>3. QED
      BY <3>1, <3>2
  <2>2. QED
    BY <1>2, <1>4, <1>7, <1>8, <2>1 DEF IngestionTypeOK, TableInv
<1>10. RequestTypeOK'
  <2>1. \A u \in Txns : highest'[u] \in [DOMAIN highest'[u] -> 0..MaxSeq]
    BY <1>4, <1>5 DEF RequestTypeOK
  <2>2. QED
    BY <1>4, <1>8, <2>1 DEF RequestTypeOK
<1>11. RequestFlow'
  BY <1>4 DEF RequestFlow, Judged, Unacceptable, BelowHighest, Current
<1>12. QED
  BY <1>2, <1>9, <1>10, <1>11

LEMMA AnswerType ==
    ASSUME TypeInv, NEW t \in Txns, Answer(t)
    PROVE  TypeInv'
<1> USE DEF TypeInv, Answer, Tell
<1>1. TableInv'
  BY StillInv
<1>2. /\ \A u \in Txns : u # t => pc'[u] = pc[u]
      /\ pc'[t] = "answered" /\ pc[t] = "events"
  BY DEF IngestionTypeOK, Evaluated
<1>3. IngestionTypeOK'
  BY <1>1, <1>2 DEF IngestionTypeOK, TableInv, tableVars, requestVars
<1>4. RequestTypeOK'
  BY DEF RequestTypeOK, requestVars
<1>5. RequestFlow'
  BY <1>2 DEF RequestFlow, Judged, Unacceptable, BelowHighest, Current, requestVars
<1>6. QED
  BY <1>1, <1>3, <1>4, <1>5

\* A transaction that ends, with its rows committed or gone, leaves a free thread.
LEMMA CloseType ==
    ASSUME TypeInv, NEW t \in Txns, Close(t), TableInv', UNCHANGED answerFirst,
           told' \subseteq told \cup accepted[t], refused' \subseteq refused \cup rejected[t],
           \A k \in Keys : owner'[k] # NoTxn => owner'[k] = owner[k] /\ owner[k] # t,
           \A u \in Txns : drawn'[u] = IF u = t THEN 0 ELSE drawn[u]
    PROVE  TypeInv'
<1> USE DEF TypeInv, Close
<1>1. /\ \A u \in Txns : u # t => /\ pc'[u] = pc[u] /\ request'[u] = request[u]
                                  /\ pos'[u] = pos[u] /\ highest'[u] = highest[u]
                                  /\ accepted'[u] = accepted[u] /\ rejected'[u] = rejected[u]
      /\ pc'[t] = "idle" /\ request'[t] = NoRequest /\ pos'[t] = 1
      /\ highest'[t] = Nothing /\ accepted'[t] = {} /\ rejected'[t] = {}
      /\ DOMAIN highest' = Txns
  BY DEF IngestionTypeOK, RequestTypeOK
<1>2. 1 \in 1..(Len(NoRequest.events) + 1)
  BY DEF NoRequest
<1>3. \A k \in Keys : owner'[k] # NoTxn => row'[k] # 0 /\ pc'[owner'[k]] # "idle"
  <2>1. \A k \in Keys : owner'[k] \in Txns \cup {NoTxn} /\ (owner'[k] # NoTxn => row'[k] # 0)
    BY DEF TableInv, TableTypeOK, OwnersHaveRows
  <2>2. QED
    BY <1>1, <2>1 DEF IngestionTypeOK
<1>4. DOMAIN Nothing = {} /\ Nothing \in [{} -> 0..MaxSeq]
  BY DEF Nothing
<1>5. IngestionTypeOK'
  BY <1>1, <1>2, <1>3, <1>4 DEF IngestionTypeOK, TableInv
<1>6. RequestTypeOK'
  BY <1>1, <1>4 DEF RequestTypeOK
<1>7. RequestFlow'
  BY <1>1 DEF RequestFlow, Judged, Unacceptable, BelowHighest, Current
<1>8. QED
  BY <1>5, <1>6, <1>7

LEMMA TypeStep ==
    ASSUME TypeInv, [IngestionNext]_vars
    PROVE  TypeInv'
<1>1. TableInv'
  BY IngestionStepsTable, TableStepInv DEF TypeInv
<1>2. ASSUME NEW t \in Txns, CommitAnswered(t) \/ CommitAndAnswer(t) PROVE TypeInv'
  <2>1. /\ \A k \in Keys : owner'[k] # NoTxn => owner'[k] = owner[k] /\ owner[k] # t
        /\ \A u \in Txns : drawn'[u] = IF u = t THEN 0 ELSE drawn[u]
    BY <1>2 DEF CommitAnswered, CommitAndAnswer, CommitTable
  <2>2. QED
    BY <1>1, <1>2, <2>1, CloseType DEF CommitAnswered, CommitAndAnswer, Tell
<1>3. ASSUME NEW t \in Txns, Fail(t) PROVE TypeInv'
  <2>1. /\ \A k \in Keys : owner'[k] # NoTxn => owner'[k] = owner[k] /\ owner[k] # t
        /\ \A u \in Txns : drawn'[u] = IF u = t THEN 0 ELSE drawn[u]
    BY <1>3 DEF Fail, RollbackTable, TypeInv, TableInv, TableTypeOK
  <2>2. QED
    BY <1>1, <1>3, <2>1, CloseType DEF Fail
<1>4. CASE UNCHANGED vars
  BY <1>1, <1>4 DEF vars, tableVars, requestVars, TypeInv, TableInv, IngestionTypeOK,
     RequestTypeOK, RequestFlow, Judged, Unacceptable, BelowHighest, Current
<1>5. QED
  BY <1>2, <1>3, <1>4, ArriveType, ReadHighestType, RejectEventType, StartInsertType,
     FinishInsertType, AnswerType DEF IngestionNext, Step

\* Type correctness, also of what the transactions hold, and the table's invariant.
THEOREM IngestionTypeCorrect == IngestionSpec => []IngestionTypeOK
<1>1. IngestionSpec => []TypeInv
  BY TypeInitial, TypeStep, PTL DEF IngestionSpec
<1>2. TypeInv => IngestionTypeOK
  BY DEF TypeInv
<1>3. QED
  BY <1>1, <1>2, PTL
-----------------------------------------------------------------------------
(* The committed rows are an EventLog.                                     *)

\* Whatever the transactions do to each other, the events that readers see form a log
\* that is only appended to, with one number per event and one event per number.
THEOREM IngestionImplementsLog == IngestionSpec => LogSpec
<1>1. IngestionInit => Log!Init
  BY TableLogInit DEF IngestionInit, Log!Init, TableLog!Init
<1>2. TypeInv /\ [IngestionNext]_vars => Log!Next
  BY IngestionStepsTable, TableStepAppends
     DEF TypeInv, Log!Next, Log!Append, TableLog!Next, TableLog!Append
<1>3. QED
  BY <1>1, <1>2, TypeInitial, TypeStep, PTL DEF IngestionSpec, LogSpec, Log!Spec

-----------------------------------------------------------------------------
(* What a response says.                                                   *)

\* What a transaction will call accepted is a row it sees, under the number it will name.
AcceptedIsStored ==
    \A t \in Txns : \A e \in accepted[t] : e[1] \in Visible(t) /\ row[e[1]] = e[2]

\* A mark that events are compared with is the seq of a row the transaction sees.
MarksAreBacked ==
    \A t \in Txns : \A d \in DOMAIN highest[t] :
        highest[t][d] # 0 => \E c \in Visible(t) : DeviceOf(c) = d /\ DeviceSeq(c) = highest[t][d]

\* A request carried the event and its caller may not send it.
Unauthorised(k) ==
    \E r \in Requests :
        /\ k \in {r.events[i] : i \in DOMAIN r.events}
        /\ r.caller \notin {Gateway, DeviceOf(k)}

\* An event of the device in V is above it.
Overtaken(V, k) == \E c \in V : DeviceOf(c) = DeviceOf(k) /\ DeviceSeq(c) > DeviceSeq(k)

\* What a transaction will refuse has a cause, in a request or in a row it sees.
RejectedHasCause ==
    \A t \in Txns : \A k \in rejected[t] \ Malformed :
        Unauthorised(k) \/ Overtaken(Visible(t), k)

AnswerInv ==
    /\ TypeInv
    /\ AcceptedIsStored
    /\ MarksAreBacked
    /\ RejectedHasCause
    /\ ToldIsStored
    /\ RefusedForCause

\* What a step changes of what a transaction holds.
LEMMA HeldChanges ==
    ASSUME TypeInv, [IngestionNext]_vars, NEW u \in Txns
    PROVE  \/ pc'[u] = "idle"
           \/ ReadHighest(u) \/ RejectEvent(u) \/ FinishInsert(u)
           \/ UNCHANGED <<accepted[u], rejected[u], highest[u]>>
<1> USE DEF TypeInv, IngestionTypeOK, RequestTypeOK
<1>1. ASSUME NEW t \in Txns, ReadHighest(t) \/ RejectEvent(t) \/ FinishInsert(t), t # u
      PROVE  UNCHANGED <<accepted[u], rejected[u], highest[u]>>
  BY <1>1 DEF ReadHighest, RejectEvent, FinishInsert
<1>2. ASSUME NEW t \in Txns, Arrive(t) \/ StartInsert(t) \/ Answer(t)
      PROVE  UNCHANGED <<accepted[u], rejected[u], highest[u]>>
  BY <1>2 DEF Arrive, StartInsert, Answer, requestVars
<1>3. ASSUME NEW t \in Txns, CommitAnswered(t) \/ CommitAndAnswer(t) \/ Fail(t)
      PROVE  pc'[u] = "idle" \/ UNCHANGED <<accepted[u], rejected[u], highest[u]>>
  BY <1>3 DEF CommitAnswered, CommitAndAnswer, Fail, Close
<1>4. CASE UNCHANGED vars
  BY <1>4 DEF vars, requestVars
<1>5. QED
  BY <1>1, <1>2, <1>3, <1>4 DEF IngestionNext, Step

\* What a transaction sees stays there as long as it is open.
LEMMA SeenStays ==
    ASSUME TypeInv, [IngestionNext]_vars, NEW u \in Txns, pc'[u] # "idle", NEW k \in Visible(u)
    PROVE  k \in Visible(u)' /\ row'[k] = row[k]
<1> USE DEF TypeInv
<1>1. ASSUME NEW t \in Txns, Fail(t) PROVE k \in Visible(u)' /\ row'[k] = row[k]
  <2>1. t # u
    BY <1>1 DEF Fail, Close, IngestionTypeOK
  <2>2. QED
    BY <1>1, <2>1, VisibleStays DEF Fail
<1>2. ASSUME NEW t \in Txns, FinishInsert(t) PROVE k \in Visible(u)' /\ row'[k] = row[k]
  <2>1. Current(t) \in Keys
    BY <1>2, RequestShape DEF RequestFlow, FinishInsert
  <2>2. QED
    BY <1>2, <2>1, VisibleStays DEF FinishInsert
<1>3. ASSUME NEW t \in Txns, StartInsert(t) PROVE k \in Visible(u)' /\ row'[k] = row[k]
  BY <1>3, VisibleStays DEF StartInsert
<1>4. ASSUME NEW t \in Txns, CommitAnswered(t) \/ CommitAndAnswer(t)
      PROVE  k \in Visible(u)' /\ row'[k] = row[k]
  BY <1>4, VisibleStays DEF CommitAnswered, CommitAndAnswer
<1>5. ASSUME NEW t \in Txns, Arrive(t) \/ ReadHighest(t) \/ RejectEvent(t) \/ Answer(t)
      PROVE  k \in Visible(u)' /\ row'[k] = row[k]
  BY <1>5, VisibleStays DEF Arrive, ReadHighest, RejectEvent, Answer
<1>6. CASE UNCHANGED vars
  BY <1>6, VisibleStays DEF vars
<1>7. QED
  BY <1>1, <1>2, <1>3, <1>4, <1>5, <1>6 DEF IngestionNext, Step

\* The insert of the current event leaves it among the rows the transaction sees.
LEMMA InsertedIsSeen ==
    ASSUME TypeInv, NEW t \in Txns, FinishInsert(t)
    PROVE  /\ Current(t) \in Keys
           /\ Current(t) \in Visible(t)'
           /\ row'[Current(t)] = AppendResult(t, Current(t))
<1>1. Current(t) \in Keys
  BY RequestShape DEF TypeInv, RequestFlow, FinishInsert
<1>2. QED
  BY <1>1, AppendReturnsRow DEF TypeInv, FinishInsert

LEMMA AcceptedStep ==
    ASSUME TypeInv, AcceptedIsStored, [IngestionNext]_vars
    PROVE  AcceptedIsStored'
<1> SUFFICES ASSUME NEW u \in Txns, NEW e \in accepted'[u]
             PROVE  e[1] \in Visible(u)' /\ row'[e[1]] = e[2]
  BY DEF AcceptedIsStored
<1>1. TypeInv'
  BY TypeStep
<1>2. pc'[u] # "idle"
  BY <1>1 DEF TypeInv, RequestFlow
<1>3. CASE e \in accepted[u]
  BY <1>2, <1>3, SeenStays DEF AcceptedIsStored
<1>4. CASE e \notin accepted[u]
  <2>1. FinishInsert(u)
    BY <1>2, <1>4, HeldChanges DEF ReadHighest, RejectEvent
  <2>2. e = <<Current(u), AppendResult(u, Current(u))>>
    BY <1>4, <2>1 DEF FinishInsert, TypeInv, RequestTypeOK
  <2>3. QED
    BY <2>1, <2>2, InsertedIsSeen
<1>5. QED
  BY <1>3, <1>4

LEMMA MarksStep ==
    ASSUME TypeInv, MarksAreBacked, [IngestionNext]_vars
    PROVE  MarksAreBacked'
<1> SUFFICES ASSUME NEW u \in Txns, NEW d \in DOMAIN highest'[u], highest'[u][d] # 0
             PROVE  \E c \in Visible(u)' : DeviceOf(c) = d /\ DeviceSeq(c) = highest'[u][d]
  BY DEF MarksAreBacked
<1>1. TypeInv'
  BY TypeStep
<1>2. pc'[u] # "idle"
  BY <1>1 DEF TypeInv, RequestFlow, Nothing
<1>3. CASE d \in DOMAIN highest[u] /\ highest'[u][d] = highest[u][d]
  <2>1. PICK c \in Visible(u) : DeviceOf(c) = d /\ DeviceSeq(c) = highest[u][d]
    BY <1>3 DEF MarksAreBacked
  <2>2. c \in Visible(u)'
    BY <1>2, <2>1, SeenStays
  <2>3. QED
    BY <1>3, <2>1, <2>2
<1>4. CASE ReadHighest(u)
  <2> DEFINE k == Current(u)
  <2>1. DeviceOf(k) \in Devices
    BY <1>4, RequestShape DEF ReadHighest, AtAnEvent
  <2>2. highest'[u] = Put(highest[u], DeviceOf(k), HighestSeq(u, DeviceOf(k)))
    BY <1>4 DEF ReadHighest, TypeInv, RequestTypeOK
  <2>3. CASE d = DeviceOf(k)
    <3>1. highest'[u][d] = HighestSeq(u, d)
      BY <2>2, <2>3 DEF Put, Update
    <3>2. PICK c \in Visible(u) : DeviceOf(c) = d /\ DeviceSeq(c) = HighestSeq(u, d)
      BY <2>1, <2>3, <3>1, HighestSeqIs
    <3>3. c \in Visible(u)'
      BY <1>2, <3>2, SeenStays
    <3>4. QED
      BY <3>1, <3>2, <3>3
  <2>4. CASE d # DeviceOf(k)
    BY <1>3, <2>2, <2>4 DEF Put, Update
  <2>5. QED
    BY <2>3, <2>4
<1>5. CASE FinishInsert(u)
  <2> DEFINE k == Current(u)
  <2>1. /\ DeviceOf(k) \in DOMAIN highest[u]
        /\ DeviceSeq(k) \in 0..MaxSeq /\ highest[u][DeviceOf(k)] \in 0..MaxSeq
    BY <1>5, RequestShape, EventTableAssumption
       DEF FinishInsert, TypeInv, RequestFlow, Judged, RequestTypeOK
  <2>2. highest'[u] = Put(highest[u], DeviceOf(k), Max({DeviceSeq(k), highest[u][DeviceOf(k)]}))
    BY <1>5 DEF FinishInsert, TypeInv, RequestTypeOK
  <2>3. Max({DeviceSeq(k), highest[u][DeviceOf(k)]}) \in {DeviceSeq(k), highest[u][DeviceOf(k)]}
    BY <2>1, MaxOfBounded, EventTableAssumption
  <2>4. CASE d = DeviceOf(k) /\ highest'[u][d] = DeviceSeq(k)
    BY <1>5, <2>4, InsertedIsSeen
  <2>5. CASE d # DeviceOf(k) \/ highest'[u][d] # DeviceSeq(k)
    BY <1>3, <2>1, <2>2, <2>3, <2>5 DEF Put, Update
  <2>6. QED
    BY <2>4, <2>5
<1>6. CASE RejectEvent(u) \/ UNCHANGED <<accepted[u], rejected[u], highest[u]>>
  BY <1>3, <1>6 DEF RejectEvent
<1>7. QED
  BY <1>2, <1>4, <1>5, <1>6, HeldChanges

LEMMA RejectedStep ==
    ASSUME TypeInv, MarksAreBacked, RejectedHasCause, [IngestionNext]_vars
    PROVE  RejectedHasCause'
<1> SUFFICES ASSUME NEW u \in Txns, NEW k \in rejected'[u] \ Malformed
             PROVE  Unauthorised(k) \/ Overtaken(Visible(u)', k)
  BY DEF RejectedHasCause, Unauthorised, Overtaken
<1>1. TypeInv'
  BY TypeStep
<1>2. pc'[u] # "idle"
  BY <1>1 DEF TypeInv, RequestFlow
<1>3. Overtaken(Visible(u), k) => Overtaken(Visible(u)', k)
  BY <1>2, SeenStays DEF Overtaken
<1>4. CASE k \in rejected[u]
  BY <1>3, <1>4 DEF RejectedHasCause
<1>5. CASE k \notin rejected[u]
  <2>1. RejectEvent(u)
    BY <1>2, <1>5, HeldChanges DEF ReadHighest, FinishInsert
  <2>2. k = Current(u)
    BY <1>5, <2>1 DEF RejectEvent, TypeInv, RequestTypeOK
  <2>3. CASE Unacceptable(u, k)
    <3>1. request[u] \in Requests /\ pos[u] \in 1..Len(request[u].events)
      <4>1. pos[u] \in 1..Len(request[u].events)
        BY <2>1, RequestShape DEF RejectEvent, AtAnEvent
      <4>2. request[u] # NoRequest
        BY <4>1 DEF NoRequest
      <4>3. QED
        BY <4>1, <4>2 DEF TypeInv, IngestionTypeOK
    <3>2. request[u].events \in Seq(Keys)
      BY RequestShape
    <3>3. pos[u] \in DOMAIN request[u].events
      BY <3>1, <3>2
    <3>4. QED
      BY <2>2, <2>3, <3>1, <3>3 DEF Unacceptable, Unauthorised, Current
  <2>4. CASE Judged(u) /\ BelowHighest(u, k)
    <3> DEFINE d == DeviceOf(k)
    <3>1. d \in DOMAIN highest[u] /\ DeviceSeq(k) < highest[u][d]
      BY <2>2, <2>4 DEF Judged, BelowHighest
    <3>2. DeviceSeq(k) \in 1..MaxSeq
      BY <2>1, <2>2, RequestShape DEF RejectEvent, AtAnEvent
    <3>3. highest[u][d] \in 0..MaxSeq
      BY <3>1 DEF TypeInv, RequestTypeOK
    <3>4. PICK c \in Visible(u) : DeviceOf(c) = d /\ DeviceSeq(c) = highest[u][d]
      BY <3>1, <3>2, <3>3, EventTableAssumption DEF MarksAreBacked
    <3>5. DeviceSeq(c) > DeviceSeq(k)
      BY <3>1, <3>2, <3>3, <3>4, EventTableAssumption
    <3>6. QED
      BY <1>3, <3>4, <3>5 DEF Overtaken
  <2>5. QED
    BY <2>1, <2>2, <2>3, <2>4 DEF RejectEvent
<1>6. QED
  BY <1>4, <1>5

\* What a step adds to what responses said, where the commit comes first.
LEMMA SaidAtCommit ==
    ASSUME TypeInv, [IngestionNext]_vars, ~answerFirst'
    PROVE  /\ ~answerFirst
           /\ \/ UNCHANGED <<told, refused>>
              \/ \E t \in Txns : CommitAndAnswer(t)
<1>1. ASSUME NEW t \in Txns, Answer(t) PROVE FALSE
  BY <1>1 DEF Answer, requestVars
<1>2. ASSUME NEW t \in Txns,
             \/ Arrive(t) \/ ReadHighest(t) \/ RejectEvent(t) \/ StartInsert(t) \/ FinishInsert(t)
             \/ CommitAnswered(t) \/ Fail(t)
      PROVE  ~answerFirst /\ UNCHANGED <<told, refused>>
  BY <1>2 DEF Arrive, ReadHighest, RejectEvent, StartInsert, FinishInsert, CommitAnswered, Fail,
     requestVars
<1>3. ASSUME NEW t \in Txns, CommitAndAnswer(t) PROVE ~answerFirst
  BY <1>3 DEF CommitAndAnswer
<1>4. CASE UNCHANGED vars
  BY <1>4 DEF vars, requestVars
<1>5. QED
  BY <1>1, <1>2, <1>3, <1>4 DEF IngestionNext, Step

LEMMA ToldStep ==
    ASSUME TypeInv, AcceptedIsStored, ToldIsStored, [IngestionNext]_vars
    PROVE  ToldIsStored'
<1> SUFFICES ASSUME ~answerFirst', NEW e \in told'
             PROVE  e[1] \in Committed' /\ row'[e[1]] = e[2]
  BY DEF ToldIsStored
<1>1. CASE e \in told
  <2>1. e[1] \in Committed /\ row[e[1]] = e[2]
    BY <1>1, SaidAtCommit DEF ToldIsStored
  <2>2. QED
    BY <2>1, IngestionStepsTable, CommittedStays DEF TypeInv
<1>2. CASE e \notin told
  <2>1. PICK t \in Txns : CommitAndAnswer(t)
    BY <1>2, SaidAtCommit
  <2>2. e[1] \in Visible(t) /\ row[e[1]] = e[2]
    BY <1>2, <2>1 DEF CommitAndAnswer, Tell, AcceptedIsStored
  <2>3. QED
    BY <2>1, <2>2, CommitPublishes DEF CommitAndAnswer, TypeInv
<1>3. QED
  BY <1>1, <1>2

LEMMA RefusedStep ==
    ASSUME TypeInv, RejectedHasCause, RefusedForCause, [IngestionNext]_vars
    PROVE  RefusedForCause'
<1> SUFFICES ASSUME ~answerFirst', NEW k \in refused' \ Malformed
             PROVE  Unauthorised(k) \/ Overtaken(Committed', k)
  BY DEF RefusedForCause, Unauthorised, Overtaken
<1>1. CASE k \in refused
  <2>1. Unauthorised(k) \/ Overtaken(Committed, k)
    BY <1>1, SaidAtCommit DEF RefusedForCause, Unauthorised, Overtaken
  <2>2. Committed \subseteq Committed'
    BY IngestionStepsTable, CommittedStays DEF TypeInv
  <2>3. QED
    BY <2>1, <2>2 DEF Overtaken
<1>2. CASE k \notin refused
  <2>1. PICK t \in Txns : CommitAndAnswer(t)
    BY <1>2, SaidAtCommit
  <2>2. Unauthorised(k) \/ Overtaken(Visible(t), k)
    BY <1>2, <2>1 DEF CommitAndAnswer, Tell, RejectedHasCause
  <2>3. Visible(t) \subseteq Committed'
    BY <2>1, CommitPublishes DEF CommitAndAnswer, TypeInv
  <2>4. QED
    BY <2>2, <2>3 DEF Overtaken
<1>3. QED
  BY <1>1, <1>2

LEMMA AnswersAreTrue == IngestionSpec => []AnswerInv
<1>1. IngestionInit => AnswerInv
  BY TypeInitial DEF IngestionInit, AnswerInv, AcceptedIsStored, MarksAreBacked,
     RejectedHasCause, ToldIsStored, RefusedForCause, Nothing
<1>2. AnswerInv /\ [IngestionNext]_vars => AnswerInv'
  BY TypeStep, AcceptedStep, MarksStep, RejectedStep, ToldStep, RefusedStep DEF AnswerInv
<1>3. QED
  BY <1>1, <1>2, PTL DEF IngestionSpec

\* Where the commit comes first, an event that a response called accepted is committed,
\* for ever, under the number the response named.
THEOREM AcceptedMeansStored == IngestionSpec => []ToldIsStored
<1>1. AnswerInv => ToldIsStored
  BY DEF AnswerInv
<1>2. QED
  BY <1>1, AnswersAreTrue, PTL

\* Where the commit comes first, a well-formed event that a response called rejected was
\* sent by a caller that may not send it, or lies below a committed event of its device.
THEOREM RejectedMeansOvertaken == IngestionSpec => []RefusedForCause
<1>1. AnswerInv => RefusedForCause
  BY DEF AnswerInv
<1>2. QED
  BY <1>1, AnswersAreTrue, PTL
-----------------------------------------------------------------------------
(* Requests one after the other.                                           *)

\* No two requests are evaluated at once.
OneAtATime == \A t, u \in Txns : pc[t] # "idle" /\ pc[u] # "idle" => t = u

\* The numbers come in the order of the commits: a number that is drawn is above every
\* row, and a row of an open transaction above every committed one.
NumbersFollowCommits ==
    /\ \A t \in Txns, k \in Keys : drawn[t] # 0 => row[k] < drawn[t]
    /\ \A k \in Committed, l \in Keys : owner[l] # NoTxn => row[k] < row[l]

\* A mark that events are compared with is above every row of the device that is seen.
MarksAreHigh ==
    \A t \in Txns : \A d \in DOMAIN highest[t] : \A c \in Visible(t) :
        DeviceOf(c) = d => DeviceSeq(c) <= highest[t][d]

\* SeqOrderIsServerOrder, of the rows of open transactions too.
RowsAreInOrder ==
    \A k, l \in Keys :
        row[k] # 0 /\ row[l] # 0 /\ DeviceOf(k) = DeviceOf(l) /\ DeviceSeq(k) < DeviceSeq(l)
            => row[k] < row[l]

LEMMA NumbersStep ==
    ASSUME TypeInv, OneAtATime, NumbersFollowCommits, [IngestionNext]_vars
    PROVE  NumbersFollowCommits'
<1> USE EventTableAssumption DEF TypeInv
<1>0. /\ \A k \in Keys : row[k] \in Nat /\ owner[k] \in Txns \cup {NoTxn}
      /\ \A k \in Keys : owner[k] # NoTxn => pc[owner[k]] # "idle"
      /\ \A t \in Txns : drawn[t] \in Nat /\ (drawn[t] # 0 => pc[t] = "insert")
      /\ identity \in Nat
      /\ \A k \in Keys : row[k] <= identity
  BY DEF TableInv, TableTypeOK, IngestionTypeOK, IdentityIsAhead
<1>1. ASSUME NEW t \in Txns, StartInsert(t) PROVE NumbersFollowCommits'
  <2>1. /\ drawn'[t] = identity + 1
        /\ \A u \in Txns : u # t => drawn'[u] = drawn[u]
        /\ UNCHANGED <<row, owner>>
    BY <1>1 DEF StartInsert, DrawServerSeq, TableInv, TableTypeOK
  <2>2. QED
    BY <1>0, <2>1 DEF NumbersFollowCommits, Committed
<1>2. ASSUME NEW t \in Txns, FinishInsert(t) PROVE NumbersFollowCommits'
  <2> DEFINE k == Current(t)
  <2>1. k \in Keys /\ pc[t] = "insert" /\ drawn[t] # 0
    BY <1>2, InsertedIsSeen DEF FinishInsert, InsertOrSkip
  <2>2. \A u \in Txns : drawn'[u] = 0
    BY <1>0, <1>2, <2>1 DEF FinishInsert, InsertOrSkip, OneAtATime, TableInv, TableTypeOK
  <2>3. CASE row[k] # 0
    BY <1>2, <2>2, <2>3 DEF FinishInsert, InsertOrSkip, NumbersFollowCommits, Committed
  <2>4. CASE row[k] = 0
    <3>1. /\ \A l \in Keys : row'[l] = IF l = k THEN drawn[t] ELSE row[l]
          /\ \A l \in Keys : owner'[l] = IF l = k THEN t ELSE owner[l]
      BY <1>2, <2>4 DEF FinishInsert, InsertOrSkip, TableInv, TableTypeOK
    <3>2. QED
      BY <2>1, <2>2, <3>1 DEF NumbersFollowCommits, Committed
  <2>5. QED
    BY <2>3, <2>4
<1>3. ASSUME NEW t \in Txns, CommitAnswered(t) \/ CommitAndAnswer(t)
      PROVE  NumbersFollowCommits'
  <2>1. pc[t] # "idle" /\ CommitTable(t)
    BY <1>3 DEF CommitAnswered, CommitAndAnswer, Evaluated
  <2>2. \A k \in Keys : owner'[k] = NoTxn
    BY <1>0, <2>1 DEF CommitTable, OneAtATime
  <2>3. QED
    BY <2>1, <2>2 DEF CommitTable, NumbersFollowCommits
<1>4. ASSUME NEW t \in Txns, Fail(t) PROVE NumbersFollowCommits'
  <2>1. /\ \A k \in Keys : row'[k] = IF owner[k] = t THEN 0 ELSE row[k]
        /\ \A k \in Keys : owner'[k] = IF owner[k] = t THEN NoTxn ELSE owner[k]
        /\ \A u \in Txns : drawn'[u] = IF u = t THEN 0 ELSE drawn[u]
    BY <1>4 DEF Fail, RollbackTable, TableInv, TableTypeOK
  <2>2. \A k \in Keys : k \in Committed' => k \in Committed
    BY <2>1 DEF Committed
  <2>3. QED
    BY <1>0, <2>1, <2>2 DEF NumbersFollowCommits, Committed
<1>5. ASSUME NEW t \in Txns, Arrive(t) \/ ReadHighest(t) \/ RejectEvent(t) \/ Answer(t)
      PROVE  NumbersFollowCommits'
  BY <1>5 DEF Arrive, ReadHighest, RejectEvent, Answer, tableVars, NumbersFollowCommits, Committed
<1>6. CASE UNCHANGED vars
  BY <1>6 DEF vars, tableVars, NumbersFollowCommits, Committed
<1>7. QED
  BY <1>1, <1>2, <1>3, <1>4, <1>5, <1>6 DEF IngestionNext, Step

\* Under way alone, a transaction sees every row.
LEMMA AloneSeesAll ==
    ASSUME TypeInv, OneAtATime, NEW t \in Txns, pc[t] # "idle", NEW k \in Keys, row[k] # 0
    PROVE  k \in Visible(t)
BY DEF OneAtATime, Visible, TypeInv, TableInv, TableTypeOK, IngestionTypeOK

\* A step adds no row to what a transaction sees but the one it inserts.
LEMMA NewRowIsCurrent ==
    ASSUME TypeInv, [IngestionNext]_vars, NEW k \in Keys, row'[k] # 0, row[k] = 0
    PROVE  \E t \in Txns : FinishInsert(t) /\ k = Current(t)
<1> USE DEF TypeInv
<1>1. ASSUME NEW t \in Txns, FinishInsert(t) PROVE k = Current(t)
  <2>1. Current(t) \in Keys
    BY <1>1, InsertedIsSeen
  <2>2. QED
    BY <1>1, <2>1 DEF FinishInsert, InsertOrSkip, TableInv, TableTypeOK
<1>2. ASSUME NEW t \in Txns, Fail(t) PROVE FALSE
  BY <1>2 DEF Fail, RollbackTable, TableInv, TableTypeOK
<1>3. ASSUME NEW t \in Txns, StartInsert(t) \/ CommitAnswered(t) \/ CommitAndAnswer(t)
      PROVE  FALSE
  BY <1>3 DEF StartInsert, DrawServerSeq, CommitAnswered, CommitAndAnswer, CommitTable
<1>4. ASSUME NEW t \in Txns, Arrive(t) \/ ReadHighest(t) \/ RejectEvent(t) \/ Answer(t)
      PROVE  FALSE
  BY <1>4 DEF Arrive, ReadHighest, RejectEvent, Answer, tableVars
<1>5. CASE UNCHANGED vars
  BY <1>5 DEF vars, tableVars
<1>6. QED
  BY <1>1, <1>2, <1>3, <1>4, <1>5 DEF IngestionNext, Step

LEMMA RowStays ==
    ASSUME TypeInv, [IngestionNext]_vars, NEW k \in Keys, row'[k] # 0, row[k] # 0
    PROVE  row'[k] = row[k]
<1> USE EventTableAssumption DEF TypeInv, TableInv, TableTypeOK
<1>1. ASSUME NEW t \in Txns, DrawServerSeq(t) PROVE row'[k] = row[k]
  BY <1>1 DEF DrawServerSeq
<1>2. ASSUME NEW t \in Txns, NEW l \in Keys, InsertOrSkip(t, l) PROVE row'[k] = row[k]
  BY <1>2 DEF InsertOrSkip
<1>3. ASSUME NEW t \in Txns, CommitTable(t) PROVE row'[k] = row[k]
  BY <1>3 DEF CommitTable
<1>4. ASSUME NEW t \in Txns, RollbackTable(t) PROVE row'[k] = row[k]
  BY <1>4 DEF RollbackTable
<1>5. CASE UNCHANGED tableVars
  BY <1>5 DEF tableVars
<1>6. QED
  BY <1>1, <1>2, <1>3, <1>4, <1>5, IngestionStepsTable DEF TableStep

LEMMA MarksHighStep ==
    ASSUME TypeInv, OneAtATime, MarksAreHigh, [IngestionNext]_vars
    PROVE  MarksAreHigh'
<1> SUFFICES ASSUME NEW u \in Txns, NEW d \in DOMAIN highest'[u],
                    NEW c \in Visible(u)', DeviceOf(c) = d
             PROVE  DeviceSeq(c) <= highest'[u][d]
  BY DEF MarksAreHigh
<1>1. TypeInv'
  BY TypeStep
<1>2. pc'[u] # "idle"
  BY <1>1 DEF TypeInv, RequestFlow, Nothing
<1>3. c \in Keys /\ row'[c] # 0
  BY DEF Visible
<1>4. DeviceSeq(c) \in 1..MaxSeq /\ d \in Devices
  BY <1>3 DEF Keys, DeviceSeq, DeviceOf
<1>5. CASE FinishInsert(u)
  <2> DEFINE k == Current(u)
             m == Max({DeviceSeq(k), highest[u][DeviceOf(k)]})
  <2>1. /\ DeviceOf(k) \in DOMAIN highest[u]
        /\ DeviceSeq(k) \in 0..MaxSeq /\ highest[u][DeviceOf(k)] \in 0..MaxSeq
        /\ pc[u] # "idle"
    BY <1>5, RequestShape, EventTableAssumption
       DEF FinishInsert, TypeInv, RequestFlow, Judged, RequestTypeOK
  <2>2. highest'[u] = Put(highest[u], DeviceOf(k), m)
    BY <1>5 DEF FinishInsert, TypeInv, RequestTypeOK
  <2>3. m \in 0..MaxSeq /\ DeviceSeq(k) <= m /\ highest[u][DeviceOf(k)] <= m
    BY <2>1, MaxOfBounded, EventTableAssumption
  <2>4. CASE row[c] # 0
    <3>1. c \in Visible(u)
      BY <1>3, <2>1, <2>4, AloneSeesAll
    <3>2. CASE d = DeviceOf(k)
      <4>1. DeviceSeq(c) <= highest[u][DeviceOf(k)] /\ highest'[u][d] = m
        BY <2>1, <2>2, <3>1, <3>2 DEF MarksAreHigh, Put, Update
      <4> HIDE DEF m
      <4>2. QED
        BY <1>4, <2>1, <2>3, <4>1, EventTableAssumption
    <3>3. CASE d # DeviceOf(k)
      BY <2>2, <3>1, <3>3 DEF MarksAreHigh, Put, Update
    <3>4. QED
      BY <3>2, <3>3
  <2>5. CASE row[c] = 0
    <3>1. PICK t \in Txns : FinishInsert(t) /\ c = Current(t)
      BY <1>3, <2>5, NewRowIsCurrent
    <3>2. t = u
      BY <2>1, <3>1 DEF FinishInsert, OneAtATime
    <3>3. QED
      BY <2>2, <2>3, <3>1, <3>2 DEF Put, Update
  <2>6. QED
    BY <2>4, <2>5
<1>6. CASE ~FinishInsert(u)
  <2>1. pc[u] # "idle"
    <3>1. ASSUME pc[u] = "idle" PROVE FALSE
      <4>1. highest[u] = Nothing
        BY <3>1 DEF TypeInv, RequestFlow
      <4>2. highest'[u] = highest[u]
        BY <1>2, <1>6, <3>1, HeldChanges DEF ReadHighest, RejectEvent, AtAnEvent
      <4>3. QED
        BY <4>1, <4>2 DEF Nothing
    <3>2. QED
      BY <3>1
  <2>2. row[c] # 0
    <3>1. ASSUME row[c] = 0 PROVE FALSE
      <4>1. PICK t \in Txns : FinishInsert(t)
        BY <1>3, <3>1, NewRowIsCurrent
      <4>2. QED
        BY <1>6, <2>1, <4>1 DEF FinishInsert, OneAtATime
    <3>2. QED
      BY <3>1
  <2>3. c \in Visible(u)
    BY <1>3, <2>1, <2>2, AloneSeesAll
  <2>4. CASE ReadHighest(u)
    <3> DEFINE k == Current(u)
    <3>1. highest'[u] = Put(highest[u], DeviceOf(k), HighestSeq(u, DeviceOf(k)))
      BY <2>4 DEF ReadHighest, TypeInv, RequestTypeOK
    <3>2. CASE d = DeviceOf(k)
      BY <1>4, <2>3, <3>1, <3>2, HighestSeqIs DEF Put, Update
    <3>3. CASE d # DeviceOf(k)
      BY <2>3, <3>1, <3>3 DEF MarksAreHigh, Put, Update
    <3>4. QED
      BY <3>2, <3>3
  <2>5. CASE RejectEvent(u) \/ UNCHANGED <<accepted[u], rejected[u], highest[u]>>
    BY <2>3, <2>5 DEF RejectEvent, MarksAreHigh
  <2>6. QED
    BY <1>2, <1>6, <2>4, <2>5, HeldChanges
<1>7. QED
  BY <1>5, <1>6

LEMMA OrderStep ==
    ASSUME TypeInv, OneAtATime, NumbersFollowCommits, MarksAreHigh, RowsAreInOrder,
           [IngestionNext]_vars
    PROVE  RowsAreInOrder'
<1> SUFFICES ASSUME NEW k \in Keys, NEW l \in Keys, row'[k] # 0, row'[l] # 0,
                    DeviceOf(k) = DeviceOf(l), DeviceSeq(k) < DeviceSeq(l)
             PROVE  row'[k] < row'[l]
  BY DEF RowsAreInOrder
<1>1. DeviceSeq(k) \in 1..MaxSeq /\ DeviceSeq(l) \in 1..MaxSeq /\ MaxSeq \in Nat
  BY EventTableAssumption DEF Keys, DeviceSeq
<1>2. CASE row[k] # 0 /\ row[l] # 0
  BY <1>2, RowStays DEF RowsAreInOrder
<1>3. CASE row[k] # 0 /\ row[l] = 0
  <2>1. PICK t \in Txns : FinishInsert(t) /\ l = Current(t)
    BY <1>3, NewRowIsCurrent
  <2>2. row'[l] = drawn[t] /\ drawn[t] # 0
    BY <1>3, <2>1, InsertedIsSeen DEF AppendResult, FinishInsert, InsertOrSkip
  <2>3. row'[k] = row[k]
    BY <1>3, RowStays
  <2>4. QED
    BY <2>2, <2>3 DEF NumbersFollowCommits
<1>4. CASE row[k] = 0
  <2>1. PICK t \in Txns : FinishInsert(t) /\ k = Current(t)
    BY <1>4, NewRowIsCurrent
  <2>2. pc[t] = "insert" /\ Judged(t) /\ ~BelowHighest(t, k)
    BY <2>1 DEF FinishInsert, TypeInv, RequestFlow
  <2>3. CASE row[l] # 0
    <3> DEFINE d == DeviceOf(k)
    <3>1. l \in Visible(t)
      BY <2>2, <2>3, AloneSeesAll
    <3>2. d \in DOMAIN highest[t] /\ ~(DeviceSeq(k) < highest[t][d])
      BY <2>1, <2>2 DEF Judged, BelowHighest
    <3>3. DeviceSeq(l) <= highest[t][d]
      BY <3>1, <3>2 DEF MarksAreHigh
    <3>4. highest[t][d] \in 0..MaxSeq
      BY <3>2 DEF TypeInv, RequestTypeOK
    <3>5. QED
      BY <1>1, <3>2, <3>3, <3>4
  <2>4. CASE row[l] = 0
    <3>1. PICK u \in Txns : FinishInsert(u) /\ l = Current(u)
      BY <2>4, NewRowIsCurrent
    <3>2. u = t
      BY <2>2, <3>1 DEF FinishInsert, OneAtATime
    <3>3. QED
      BY <1>1, <2>1, <3>1, <3>2
  <2>5. QED
    BY <2>3, <2>4
<1>5. QED
  BY <1>2, <1>3, <1>4

OrderInv ==
    /\ TypeInv
    /\ NumbersFollowCommits
    /\ MarksAreHigh
    /\ RowsAreInOrder

LEMMA OrderInitial == IngestionInit => OrderInv
BY TypeInitial DEF IngestionInit, TableInit, OrderInv, NumbersFollowCommits, MarksAreHigh,
   RowsAreInOrder, Committed, Nothing

LEMMA OrderInvStep ==
    ASSUME OrderInv, OneAtATime, [IngestionNext]_vars
    PROVE  OrderInv'
BY TypeStep, NumbersStep, MarksHighStep, OrderStep DEF OrderInv

\* As long as no two requests are evaluated at once, the events of a device get their
\* server_seqs in the order of their seqs, whatever fails, is repeated or comes late.
THEOREM OneAtATimeKeepsOrder ==
    IngestionSpec /\ []OneAtATime => []SeqOrderIsServerOrder
<1>1. OrderInv => SeqOrderIsServerOrder
  BY DEF OrderInv, RowsAreInOrder, SeqOrderIsServerOrder, Committed
<1>2. QED
  BY <1>1, OrderInitial, OrderInvStep, PTL DEF IngestionSpec

-----------------------------------------------------------------------------
(* The server does not see the pulls.                                      *)

LEMMA DeltaStepsIngestion ==
    ASSUME [DeltaNext]_allVars
    PROVE  [IngestionNext]_vars
BY DEF DeltaNext, PullStep, Ask, ReadPage, ApplyPage, AbandonPull, allVars

\* With pulls under way the server does what it does without them, so that what is proved
\* of Ingestion holds here too.
THEOREM DeltaRunsIngestion == DeltaSpec => IngestionSpec
<1>1. DeltaInit => IngestionInit
  BY DEF DeltaInit
<1>2. QED
  BY <1>1, DeltaStepsIngestion, PTL DEF DeltaSpec, IngestionSpec

-----------------------------------------------------------------------------
(* The rows of a page.                                                     *)

LEMMA PageKeepsToLimit ==
    ASSUME TableInv, NEW S, S \subseteq Committed
    PROVE  /\ FirstRows(S) \subseteq S
           /\ IsFiniteSet(FirstRows(S))
           /\ Cardinality(FirstRows(S)) <= PageLimit
<1> DEFINE F == FirstRows(S)
           numbers == {row[k] : k \in F}
           below(k) == {l \in S : row[l] < row[k]}
<1>1. F \subseteq S /\ S \subseteq {k \in Keys : row[k] # 0}
  BY DEF FirstRows, Committed
<1>2. IsFiniteSet(F) /\ IsFiniteSet(S)
  BY <1>1, RowsAreFinite
<1>3. PageLimit \in Nat /\ PageLimit >= 1
  BY DeltaAssumption
<1>4. CASE F = {}
  BY <1>2, <1>3, <1>4, FS_EmptySet
<1>5. CASE F # {}
  <2>1. numbers \subseteq 0..MaxServerSeq /\ numbers # {}
    BY <1>1, <1>5 DEF TableInv, TableTypeOK
  <2>2. PICK n \in numbers : \A i \in numbers : i <= n
    <3> HIDE DEF numbers
    <3>1. QED
      BY <2>1, GreatestBounded, EventTableAssumption
  <2>3. PICK m \in F : n = row[m]
    BY <2>2
  <2>4. F \subseteq below(m) \cup {m}
    <3>1. ASSUME NEW k \in F, k # m PROVE row[k] < row[m]
      <4>1. row[k] <= row[m] /\ row[k] \in Nat /\ row[m] \in Nat
        BY <1>1, <2>2, <2>3, EventTableAssumption DEF TableInv, TableTypeOK
      <4>2. row[k] # row[m]
        BY <1>1, <2>3, <3>1 DEF TableInv, NumbersAreUnique
      <4>3. QED
        BY <4>1, <4>2
    <3>2. QED
      BY <1>1, <3>1
  <2>5. Cardinality(below(m)) < PageLimit
    BY <2>3 DEF FirstRows
  <2>6. IsFiniteSet(below(m))
    BY <1>2, SubsetIsSmaller
  <2> HIDE DEF below, F
  <2>7. /\ IsFiniteSet(below(m) \cup {m})
        /\ Cardinality(below(m)) \in Nat
        /\ Cardinality(below(m) \cup {m}) <= Cardinality(below(m)) + 1
    BY <2>6, OneMore
  <2>8. /\ Cardinality(F) <= Cardinality(below(m) \cup {m})
        /\ Cardinality(F) \in Nat /\ Cardinality(below(m) \cup {m}) \in Nat
    BY <2>4, <2>7, SubsetIsSmaller
  <2>9. Cardinality(F) <= PageLimit
    BY <1>3, <2>5, <2>7, <2>8
  <2>10. QED
    BY <1>1, <1>2, <2>9 DEF F
<1>6. QED
  BY <1>4, <1>5, <1>1, <1>2

\* A page is taken from the front: with a row it holds every row that comes before it.
LEMMA PageIsTheFront ==
    ASSUME TableInv, NEW S, S \subseteq Committed,
           NEW k \in FirstRows(S), NEW l \in S, row[l] <= row[k]
    PROVE  l \in FirstRows(S)
<1> DEFINE below(j) == {i \in S : row[i] < row[j]}
<1>1. S \subseteq {j \in Keys : row[j] # 0}
  BY DEF Committed
<1>2. IsFiniteSet(S)
  BY <1>1, RowsAreFinite
<1>3. below(l) \subseteq below(k)
  <2>1. \A j \in S : row[j] \in Nat
    BY <1>1, EventTableAssumption DEF TableInv, TableTypeOK
  <2>2. k \in S
    BY DEF FirstRows
  <2>3. QED
    BY <2>1, <2>2
<1>4. IsFiniteSet(below(k))
  BY <1>2, SubsetIsSmaller
<1>5. Cardinality(below(k)) < PageLimit
  BY DEF FirstRows
<1>6. Cardinality(below(l)) < PageLimit
  <2> HIDE DEF below
  <2>1. /\ Cardinality(below(l)) <= Cardinality(below(k))
        /\ Cardinality(below(k)) \in Nat /\ Cardinality(below(l)) \in Nat
    BY <1>3, <1>4, SubsetIsSmaller
  <2>2. QED
    BY <1>5, <2>1, DeltaAssumption
<1>7. QED
  BY <1>6 DEF FirstRows

\* The cursor after a page is the one before it or the number of a row of the page, and no
\* row of the page is beyond it.
LEMMA NextSinceIs ==
    ASSUME TableInv, NEW p \in Pulls, since[p] \in 0..identity, page[p] \subseteq Committed
    PROVE  /\ NextSince(p) \in 0..identity
           /\ NextSince(p) = since[p] \/ \E k \in page[p] : NextSince(p) = row[k]
           /\ since[p] <= NextSince(p)
           /\ \A k \in page[p] : row[k] <= NextSince(p)
<1> DEFINE T == {since[p]} \cup {row[k] : k \in page[p]}
<1>1. identity \in Nat
  BY EventTableAssumption DEF TableInv, TableTypeOK
<1>2. \A k \in page[p] : row[k] \in 0..identity
  BY EventTableAssumption DEF Committed, TableInv, TableTypeOK, IdentityIsAhead
<1>3. T \subseteq 0..identity /\ T # {}
  BY <1>2
<1>4. Max(T) \in T /\ \A n \in T : n <= Max(T)
  <2> HIDE DEF T
  <2>1. QED
    BY <1>1, <1>3, MaxOfBounded
<1>5. NextSince(p) = Max(T)
  BY DEF NextSince
<1>6. QED
  BY <1>3, <1>4, <1>5

-----------------------------------------------------------------------------
(* Types: what the handset has seen of the server's numbers.               *)

\* A page holds committed rows, and only a pull that has its page holds one.
PagesAreCommitted == \A p \in Pulls : page[p] \subseteq Committed

\* A watermark or cursor is the number of a committed row; no cursor is ahead.
CursorsAreCommitted ==
    /\ mark # 0 => \E k \in Committed : row[k] = mark
    /\ \A p \in Pulls :
          /\ since[p] <= mark
          /\ since[p] # 0 => \E k \in Committed : row[k] = since[p]

PullInv ==
    /\ TypeInv
    /\ DeltaTypeOK
    /\ page \in [Pulls -> SUBSET Keys]
    /\ PagesAreCommitted
    /\ CursorsAreCommitted

LEMMA IdentityGrows ==
    ASSUME TypeInv, [IngestionNext]_vars
    PROVE  identity \in Nat /\ identity' \in Nat /\ identity <= identity'
<1> USE EventTableAssumption DEF TypeInv, TableInv, TableTypeOK
<1>1. TableStep
  BY IngestionStepsTable
<1>2. identity \in Nat
  OBVIOUS
<1>3. QED
  BY <1>1, <1>2
     DEF TableStep, DrawServerSeq, InsertOrSkip, CommitTable, RollbackTable, tableVars

LEMMA PullInitial == DeltaInit => PullInv
<1> SUFFICES ASSUME DeltaInit PROVE PullInv
  OBVIOUS
<1>1. TypeInv
  BY TypeInitial DEF DeltaInit
<1>2. Cardinality({}) = 0 /\ PageLimit \in Nat
  BY FS_EmptySet, DeltaAssumption
<1>3. identity = 0
  BY DEF DeltaInit, IngestionInit, TableInit
<1>4. QED
  BY <1>1, <1>2, <1>3
     DEF DeltaInit, PullInv, DeltaTypeOK, PagesAreCommitted, CursorsAreCommitted

\* The server goes on while the pulls stand still.
LEMMA ServerStepPull ==
    ASSUME PullInv, [IngestionNext]_vars, UNCHANGED deltaVars
    PROVE  PullInv'
<1> USE DEF PullInv
<1>1. TypeInv'
  BY TypeStep
<1>2. /\ Committed \subseteq Committed'
      /\ \A k \in Committed : row'[k] = row[k]
  BY IngestionStepsTable, CommittedStays DEF TypeInv
<1>3. DeltaTypeOK'
  <2>1. 0..identity \subseteq 0..identity'
    BY IdentityGrows
  <2>2. QED
    BY <2>1 DEF DeltaTypeOK, deltaVars, pullVars
<1>4. PagesAreCommitted'
  BY <1>2 DEF PagesAreCommitted, deltaVars, pullVars
<1>5. CursorsAreCommitted'
  BY <1>2 DEF CursorsAreCommitted, deltaVars, pullVars
<1>6. QED
  BY <1>1, <1>3, <1>4, <1>5 DEF deltaVars, pullVars

LEMMA AskPull ==
    ASSUME PullInv, NEW p \in Pulls, Ask(p)
    PROVE  PullInv'
<1> USE DEF PullInv, Ask
<1>1. TypeInv' /\ UNCHANGED <<identity, Committed, row>>
  BY TypeStep DEF vars, tableVars, Committed
<1>2. /\ \A q \in Pulls : q # p => stage'[q] = stage[q] /\ since'[q] = since[q]
      /\ stage'[p] = "asked" /\ since'[p] = mark /\ stage[p] = "idle"
  BY DEF DeltaTypeOK
<1>3. DeltaTypeOK'
  BY <1>1, <1>2 DEF DeltaTypeOK
<1>4. PagesAreCommitted'
  BY <1>1 DEF PagesAreCommitted
<1>5. CursorsAreCommitted'
  <2>1. mark <= mark
    BY <1>1 DEF DeltaTypeOK
  <2>2. QED
    BY <1>1, <1>2, <2>1 DEF CursorsAreCommitted
<1>6. QED
  BY <1>1, <1>3, <1>4, <1>5

LEMMA ReadPagePull ==
    ASSUME PullInv, NEW p \in Pulls, ReadPage(p)
    PROVE  PullInv'
<1> USE DEF PullInv, ReadPage
<1>1. TypeInv' /\ UNCHANGED <<identity, Committed, row>>
  BY TypeStep DEF vars, tableVars, Committed
<1>2. Above(since[p]) \subseteq Committed /\ Committed \subseteq Keys
  BY DEF Above, Committed
<1>3. /\ FirstRows(Above(since[p])) \subseteq Committed
      /\ Cardinality(FirstRows(Above(since[p]))) <= PageLimit
  BY <1>2, PageKeepsToLimit DEF TypeInv
<1>4. /\ \A q \in Pulls : q # p => stage'[q] = stage[q] /\ page'[q] = page[q]
      /\ stage'[p] = "page" /\ page'[p] = FirstRows(Above(since[p]))
  BY DEF DeltaTypeOK
<1>5. DeltaTypeOK' /\ page' \in [Pulls -> SUBSET Keys]
  BY <1>1, <1>2, <1>3, <1>4 DEF DeltaTypeOK
<1>6. PagesAreCommitted'
  BY <1>1, <1>3, <1>4 DEF PagesAreCommitted
<1>7. CursorsAreCommitted'
  BY <1>1 DEF CursorsAreCommitted
<1>8. QED
  BY <1>1, <1>5, <1>6, <1>7

LEMMA EndPullPull ==
    ASSUME PullInv, NEW p \in Pulls, EndPull(p), UNCHANGED vars,
           copy' \in [Keys -> {"none", "own", "full"}],
           mark' \in 0..identity, mark <= mark',
           mark' # 0 => \E k \in Committed : row[k] = mark'
    PROVE  PullInv'
<1> USE DEF PullInv, EndPull
<1>1. TypeInv' /\ UNCHANGED <<identity, Committed, row>>
  BY TypeStep DEF vars, tableVars, Committed
<1>2. /\ \A q \in Pulls : q # p => /\ stage'[q] = stage[q] /\ page'[q] = page[q]
                                   /\ since'[q] = since[q]
      /\ stage'[p] = "idle" /\ page'[p] = {} /\ since'[p] = 0
  BY DEF DeltaTypeOK
<1>3. Cardinality({}) = 0 /\ PageLimit \in Nat
  BY FS_EmptySet, DeltaAssumption
<1>4. identity \in Nat
  BY EventTableAssumption DEF TypeInv, TableInv, TableTypeOK
<1>5. DeltaTypeOK' /\ page' \in [Pulls -> SUBSET Keys]
  BY <1>1, <1>2, <1>3, <1>4 DEF DeltaTypeOK
<1>6. PagesAreCommitted'
  BY <1>1, <1>2 DEF PagesAreCommitted
<1>7. CursorsAreCommitted'
  BY <1>1, <1>2, <1>4 DEF CursorsAreCommitted, DeltaTypeOK
<1>8. QED
  BY <1>1, <1>5, <1>6, <1>7

\* What applyPage makes of the watermark.
LEMMA AdvancedMark ==
    ASSUME PullInv, NEW p \in Pulls, ApplyPage(p)
    PROVE  /\ mark' \in 0..identity
           /\ mark <= mark'
           /\ mark' = mark \/ mark' = NextSince(p)
           /\ mark' # 0 => \E k \in Committed : row[k] = mark'
<1> USE DEF PullInv
<1>1. identity \in Nat
  BY EventTableAssumption DEF TypeInv, TableInv, TableTypeOK
<1>2. /\ NextSince(p) \in 0..identity
      /\ NextSince(p) = since[p] \/ \E k \in page[p] : NextSince(p) = row[k]
  BY NextSinceIs DEF TypeInv, DeltaTypeOK, PagesAreCommitted
<1>3. NextSince(p) # 0 => \E k \in Committed : row[k] = NextSince(p)
  BY <1>2 DEF CursorsAreCommitted, PagesAreCommitted
<1>4. mark' = IF NextSince(p) > mark THEN NextSince(p) ELSE mark
  BY DEF ApplyPage, AdvanceTo
<1>5. QED
  BY <1>1, <1>2, <1>3, <1>4 DEF CursorsAreCommitted, DeltaTypeOK

LEMMA PullStepInv ==
    ASSUME PullInv, [DeltaNext]_allVars
    PROVE  PullInv'
<1>1. ASSUME NEW p \in Pulls, ApplyPage(p) PROVE PullInv'
  <2>1. copy' \in [Keys -> {"none", "own", "full"}]
    BY <1>1 DEF ApplyPage, PullInv, DeltaTypeOK
  <2>2. QED
    BY <1>1, <2>1, AdvancedMark, EndPullPull DEF ApplyPage
<1>2. ASSUME NEW p \in Pulls, AbandonPull(p) PROVE PullInv'
  <2>1. mark <= mark
    BY EventTableAssumption DEF PullInv, DeltaTypeOK, TypeInv, TableInv, TableTypeOK
  <2>2. QED
    BY <1>2, <2>1, EndPullPull DEF AbandonPull, PullInv, DeltaTypeOK, CursorsAreCommitted
<1>3. CASE IngestionNext /\ UNCHANGED deltaVars
  BY <1>3, ServerStepPull
<1>4. CASE UNCHANGED allVars
  BY <1>4, ServerStepPull DEF allVars
<1>5. QED
  BY <1>1, <1>2, <1>3, <1>4, AskPull, ReadPagePull DEF DeltaNext, PullStep

\* Type correctness: no cursor runs ahead of the server, no page is over its limit.
THEOREM DeltaTypeCorrect == DeltaSpec => []DeltaTypeOK
<1>1. PullInv => DeltaTypeOK
  BY DEF PullInv
<1>2. QED
  BY <1>1, PullInitial, PullStepInv, PTL DEF DeltaSpec

-----------------------------------------------------------------------------
(* The watermark, as long as commits come in the order of the numbers.     *)

\* Every row that is yet to be committed is above every committed one.
CommitsFollowNumbers ==
    \A k \in Committed, l \in Keys : owner[l] # NoTxn => row[k] < row[l]

\* A page holds every committed row between its cursor and the next one.
PagesAreWhole ==
    \A p \in Pulls : stage[p] = "page" =>
        \A k \in Committed : since[p] < row[k] /\ row[k] <= NextSince(p) => k \in page[p]

WatermarkInv ==
    /\ PullInv
    /\ PagesAreWhole
    /\ NoEventIsSkipped

\* A row that comes to be committed is above every number that a handset has seen.
LEMMA NewRowsAreAbove ==
    ASSUME WatermarkInv, CommitsFollowNumbers, [IngestionNext]_vars,
           NEW k \in Committed', k \notin Committed
    PROVE  /\ mark < row'[k]
           /\ \A p \in Pulls : NextSince(p) < row'[k]
<1> USE DEF WatermarkInv, PullInv
<1>1. row'[k] = row[k] /\ row[k] # 0 /\ owner[k] # NoTxn
  BY IngestionStepsTable, NewlyCommitted DEF TypeInv
<1>2. k \in Keys /\ row[k] \in Nat
  BY EventTableAssumption DEF Committed, TypeInv, TableInv, TableTypeOK
<1>3. \A l \in Committed : row[l] < row[k]
  BY <1>1, <1>2 DEF CommitsFollowNumbers
<1>4. mark \in Nat /\ 0 < row[k]
  BY <1>1, <1>2, EventTableAssumption DEF DeltaTypeOK, TypeInv, TableInv, TableTypeOK
<1>5. mark < row[k]
  BY <1>3, <1>4 DEF CursorsAreCommitted
<1>6. ASSUME NEW p \in Pulls PROVE NextSince(p) < row[k]
  <2>1. /\ NextSince(p) \in 0..identity
        /\ NextSince(p) = since[p] \/ \E l \in page[p] : NextSince(p) = row[l]
    BY NextSinceIs DEF TypeInv, DeltaTypeOK, PagesAreCommitted
  <2>2. NextSince(p) = 0 \/ \E l \in Committed : NextSince(p) = row[l]
    BY <2>1 DEF CursorsAreCommitted, PagesAreCommitted
  <2>3. QED
    BY <1>3, <1>4, <2>2
<1>7. QED
  BY <1>1, <1>5, <1>6

LEMMA ServerStepWatermark ==
    ASSUME WatermarkInv, CommitsFollowNumbers, [IngestionNext]_vars, UNCHANGED deltaVars
    PROVE  WatermarkInv'
<1> USE DEF WatermarkInv
<1>1. PullInv'
  BY ServerStepPull
<1>2. \A k \in Committed : k \in Committed' /\ row'[k] = row[k]
  BY IngestionStepsTable, CommittedStays DEF PullInv, TypeInv
<1>3. NoEventIsSkipped'
  <2>1. SUFFICES ASSUME NEW k \in Committed', row'[k] <= mark' PROVE copy'[k] # "none"
    BY DEF NoEventIsSkipped
  <2>2. mark' = mark /\ copy' = copy /\ mark \in Nat
    BY EventTableAssumption
       DEF deltaVars, PullInv, DeltaTypeOK, TypeInv, TableInv, TableTypeOK
  <2>3. row'[k] \in Nat
    BY <1>1, EventTableAssumption DEF PullInv, TypeInv, TableInv, TableTypeOK, Committed
  <2>4. k \in Committed
    BY <2>1, <2>2, <2>3, NewRowsAreAbove
  <2>5. QED
    BY <1>2, <2>1, <2>2, <2>4 DEF NoEventIsSkipped
<1>4. PagesAreWhole'
  <2>1. SUFFICES ASSUME NEW p \in Pulls, stage'[p] = "page", NEW k \in Committed',
                        since'[p] < row'[k], row'[k] <= NextSince(p)'
                 PROVE  k \in page'[p]
    BY DEF PagesAreWhole
  <2>2. UNCHANGED <<stage, since, page>>
    BY DEF deltaVars, pullVars
  <2>3. \A l \in page[p] : row'[l] = row[l]
    BY <1>2 DEF PullInv, PagesAreCommitted
  <2>4. {row'[l] : l \in page[p]} = {row[l] : l \in page[p]}
    BY <2>3
  <2>5. NextSince(p)' = NextSince(p)
    BY <2>2, <2>4 DEF NextSince
  <2>6. NextSince(p) \in 0..identity
    BY NextSinceIs DEF PullInv, TypeInv, DeltaTypeOK, PagesAreCommitted
  <2>7. row'[k] \in Nat
    BY <1>1, EventTableAssumption DEF PullInv, TypeInv, TableInv, TableTypeOK, Committed
  <2>8. k \in Committed
    BY <2>1, <2>5, <2>6, <2>7, NewRowsAreAbove
  <2>9. QED
    BY <1>2, <2>1, <2>2, <2>5, <2>8 DEF PagesAreWhole
<1>5. QED
  BY <1>1, <1>3, <1>4

LEMMA PullStepWatermark ==
    ASSUME WatermarkInv, NEW p \in Pulls, PullStep(p)
    PROVE  WatermarkInv'
<1> USE DEF WatermarkInv
<1>1. PullInv'
  BY PullStepInv DEF DeltaNext
<1>2. UNCHANGED vars
  BY DEF PullStep, Ask, ReadPage, ApplyPage, AbandonPull
<1>3. UNCHANGED <<row, owner, drawn, Committed>>
  BY <1>2 DEF vars, tableVars, Committed
<1>4. page \in [Pulls -> SUBSET Keys] /\ stage \in [Pulls -> {"idle", "asked", "page"}]
  BY DEF PullInv, DeltaTypeOK
<1>5. ASSUME NEW q \in Pulls, q # p, stage'[q] = "page"
      PROVE  stage[q] = "page" /\ UNCHANGED <<since[q], page[q], NextSince(q)>>
  <2>1. stage[q] = "page" /\ UNCHANGED <<since[q], page[q]>>
    BY <1>5 DEF PullStep, Ask, ReadPage, ApplyPage, AbandonPull, EndPull, PullInv, DeltaTypeOK
  <2>2. {row'[l] : l \in page'[q]} = {row[l] : l \in page[q]}
    BY <1>3, <2>1
  <2>3. QED
    BY <2>1, <2>2 DEF NextSince
<1>6. PagesAreWhole'
  <2>1. SUFFICES ASSUME NEW q \in Pulls, stage'[q] = "page", NEW k \in Committed,
                        since'[q] < row[k], row[k] <= NextSince(q)'
                 PROVE  k \in page'[q]
    BY <1>3 DEF PagesAreWhole
  <2>2. CASE q # p
    BY <1>5, <2>1, <2>2 DEF PagesAreWhole
  <2>3. CASE q = p
    <3>1. ReadPage(p)
      BY <1>4, <2>1, <2>3 DEF PullStep, Ask, ApplyPage, AbandonPull, EndPull
    <3>2. page'[p] = FirstRows(Above(since[p])) /\ since'[p] = since[p]
      BY <1>4, <3>1 DEF ReadPage
    <3>3. k \in Above(since[p])
      BY <2>1, <2>3, <3>2 DEF Above
    <3>4. NextSince(p)' = since[p] \/ \E l \in page'[p] : NextSince(p)' = row[l]
      <4>1. page'[p] \subseteq Committed
        BY <1>1, <1>3 DEF PullInv, PagesAreCommitted
      <4> DEFINE T == {since'[p]} \cup {row'[l] : l \in page'[p]}
      <4>2. NextSince(p)' = Max(T)
        BY DEF NextSince
      <4>3. T \subseteq 0..MaxServerSeq /\ T # {}
        <5>1. row' = row /\ \A l \in Committed : row[l] \in 0..MaxServerSeq
          BY <1>3 DEF Committed, PullInv, TypeInv, TableInv, TableTypeOK
        <5>2. since'[p] \in 0..MaxServerSeq
          BY <3>2, EventTableAssumption
             DEF PullInv, DeltaTypeOK, TypeInv, TableInv, TableTypeOK
        <5>3. QED
          BY <4>1, <5>1, <5>2
      <4>4. Max(T) \in T
        <5> HIDE DEF T
        <5>1. QED
          BY <4>3, MaxOfBounded, EventTableAssumption
      <4>5. QED
        BY <1>3, <3>2, <4>2, <4>4
    <3>5. row[k] \in Nat /\ since[p] \in Nat
      BY EventTableAssumption DEF PullInv, DeltaTypeOK, TypeInv, TableInv, TableTypeOK, Committed
    <3>6. PICK l \in page'[p] : NextSince(p)' = row[l]
      BY <1>3, <2>1, <2>3, <3>2, <3>4, <3>5
    <3>7. row[k] <= row[l]
      BY <2>1, <2>3, <3>6
    <3>8. QED
      BY <2>3, <3>2, <3>3, <3>6, <3>7, PageIsTheFront DEF Above, PullInv, TypeInv
  <2>4. QED
    BY <2>2, <2>3
<1>7. NoEventIsSkipped'
  <2>1. SUFFICES ASSUME NEW k \in Committed, row[k] <= mark' PROVE copy'[k] # "none"
    BY <1>3 DEF NoEventIsSkipped
  <2>2. k \in Keys
    BY DEF Committed
  <2>3. CASE ApplyPage(p)
    <3>1. copy'[k] = IF k \in page[p] /\ copy[k] = "none" THEN "full" ELSE copy[k]
      BY <2>2, <2>3 DEF ApplyPage
    <3>2. CASE row[k] <= mark
      BY <3>1, <3>2 DEF NoEventIsSkipped
    <3>3. CASE ~(row[k] <= mark)
      <4>1. mark' = NextSince(p) /\ stage[p] = "page"
        BY <2>1, <2>3, <3>3, AdvancedMark DEF ApplyPage
      <4>2. since[p] < row[k]
        <5>1. row[k] \in Nat /\ since[p] \in Nat /\ mark \in Nat /\ since[p] <= mark
          BY EventTableAssumption
             DEF PullInv, DeltaTypeOK, CursorsAreCommitted, TypeInv, TableInv, TableTypeOK, Committed
        <5>2. QED
          BY <3>3, <5>1
      <4>3. k \in page[p]
        BY <2>1, <4>1, <4>2 DEF PagesAreWhole
      <4>4. QED
        BY <3>1, <4>3
    <3>4. QED
      BY <3>2, <3>3
  <2>4. CASE Ask(p) \/ ReadPage(p) \/ AbandonPull(p)
    BY <2>1, <2>4 DEF Ask, ReadPage, AbandonPull, NoEventIsSkipped
  <2>5. QED
    BY <2>3, <2>4 DEF PullStep
<1>8. QED
  BY <1>1, <1>6, <1>7

LEMMA WatermarkInitial == DeltaInit => WatermarkInv
BY PullInitial
   DEF DeltaInit, IngestionInit, TableInit, WatermarkInv, PagesAreWhole, NoEventIsSkipped,
       Committed

LEMMA WatermarkStep ==
    ASSUME WatermarkInv, CommitsFollowNumbers, [DeltaNext]_allVars
    PROVE  WatermarkInv'
BY ServerStepWatermark, PullStepWatermark DEF DeltaNext, allVars

\* As long as no row is committed below a committed one, the handset holds every committed
\* event at or below its watermark, however its pulls overlap and whatever is lost.
THEOREM CommitsInOrderSkipNothing ==
    DeltaSpec /\ []CommitsFollowNumbers => []NoEventIsSkipped
<1>1. WatermarkInv => NoEventIsSkipped
  BY DEF WatermarkInv
<1>2. QED
  BY <1>1, WatermarkInitial, WatermarkStep, PTL DEF DeltaSpec

\* Requests that are evaluated one after the other commit in the order of their numbers,
\* so that the watermark skips nothing.
THEOREM OneAtATimeSkipsNothing ==
    DeltaSpec /\ []OneAtATime => []NoEventIsSkipped
<1> DEFINE InOrder == TypeInv /\ NumbersFollowCommits
<1>1. DeltaInit => InOrder
  BY OrderInitial DEF DeltaInit, OrderInv
<1>2. InOrder /\ OneAtATime /\ [DeltaNext]_allVars => InOrder'
  BY DeltaStepsIngestion, TypeStep, NumbersStep
<1>3. InOrder => CommitsFollowNumbers
  BY DEF CommitsFollowNumbers, NumbersFollowCommits
<1> HIDE DEF InOrder
<1>4. QED
  BY <1>1, <1>2, <1>3, CommitsInOrderSkipNothing, PTL DEF DeltaSpec
=============================================================================
