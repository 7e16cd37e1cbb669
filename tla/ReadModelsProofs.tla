--------------------------- MODULE ReadModelsProofs ---------------------------
(***************************************************************************)
(* Proofs about ReadModels, for every number of writers, every traffic and *)
(* every table: that the cursors which the read side gives out are         *)
(* complete if they were read while nobody wrote, and what holds of every  *)
(* log that uploads leave.                                                 *)
(***************************************************************************)
EXTENDS ReadModels, EventTableProofs

-----------------------------------------------------------------------------
(* The inductive invariant: the writers.                                   *)

IsWriter(w) ==
    /\ w = [upload |-> w.upload, pos |-> w.pos, highest |-> w.highest, inserting |-> w.inserting]
    /\ w.upload \in Uploads \cup {NoUpload}
    /\ w.pos \in Nat \ {0}
    /\ w.inserting \in BOOLEAN

\* A writer that is inserting stands at an event which was found acceptable.
IsPlaced(t) ==
    /\ ~Idle(t)
    /\ writer[t].pos <= Len(writer[t].upload.events)
    /\ Judge(Raw(t), writer[t].upload.caller) = "ok"
    /\ <<Raw(t).device, Raw(t).seq>> \in Keys

\* A writer holds a number while it inserts, and an idle one has left nothing open.
WriterInv(t) ==
    /\ IsWriter(writer[t])
    /\ writer[t].inserting <=> drawn[t] # 0
    /\ writer[t].inserting => IsPlaced(t)
    /\ Idle(t) => \A k \in Keys : owner[k] # t

WritersInv ==
    /\ traffic \subseteq Uploads
    /\ writer = [t \in Txns |-> writer[t]]
    /\ \A t \in Txns : WriterInv(t)

\* Whoever sent a stored event, it was found acceptable.
WasJudged(e) == \E u \in Uploads : Judge(e, u.caller) = "ok"

ContentInv ==
    /\ content = [k \in Keys |-> content[k]]
    /\ \A k \in Keys :
          /\ row[k] = 0 => content[k] = NoEvent
          /\ row[k] # 0 => content[k] \in RawEvents /\ WasJudged(content[k])

-----------------------------------------------------------------------------
(* The inductive invariant: the reader and the read models.                *)

\* A number that was read is that of a committed row, which stays.
Reached(n) == n = 0 \/ \E k \in Committed : row[k] = n

ReaderInv ==
    /\ reader \in [kind : {"none", "log", "diagnostics"},
                   stage : {"idle", "read", "max", "watermark"},
                   rows : SUBSET Keys, number : 0..MaxServerSeq,
                   projected : 0..MaxServerSeq, calm : BOOLEAN]
    /\ models \in [rows : SUBSET Keys, watermark : 0..MaxServerSeq, calm : BOOLEAN]
    /\ reader.rows \subseteq Committed /\ models.rows \subseteq Committed
    /\ Reached(reader.number) /\ Reached(models.watermark)
    /\ reader.stage \in {"max", "watermark"} => \A k \in reader.rows : row[k] <= reader.number
    /\ reader.stage = "max" /\ reader.kind = "diagnostics" /\ reader.calm =>
          models.watermark <= reader.number
    /\ reader.stage = "watermark" /\ reader.calm => reader.projected <= reader.number

\* Every row up to n is in the set, and no row that is still to come will be up to n.
Complete(rows, n) ==
    /\ n <= identity
    /\ \A k \in Keys : row[k] # 0 /\ row[k] <= n => k \in rows
    /\ \A t \in Txns : drawn[t] # 0 => drawn[t] > n

CursorInv ==
    /\ reader.calm /\ reader.kind = "log" /\ reader.stage = "read" =>
          Calm /\ reader.rows = Committed
    /\ reader.calm /\ reader.kind = "log" /\ reader.stage = "max" =>
          Complete(reader.rows, reader.number)
    /\ models.calm => Complete(models.rows, models.watermark)

ReadInv == TableInv /\ WritersInv /\ ContentInv /\ ReaderInv /\ CursorInv

-----------------------------------------------------------------------------
(* Facts about single states.                                              *)

\* SELECT max(server_seq) of some rows.
LEMMA HighestNumberIs ==
    ASSUME TableInv, NEW K, K \subseteq Keys
    PROVE  /\ HighestNumber(K) \in 0..MaxServerSeq
           /\ \A k \in K : row[k] <= HighestNumber(K)
           /\ HighestNumber(K) = 0 \/ \E k \in K : row[k] = HighestNumber(K)
<1> DEFINE T == {0} \cup {row[k] : k \in K}
<1>1. MaxServerSeq \in Nat /\ T \subseteq 0..MaxServerSeq /\ T # {}
  BY EventTableAssumption DEF TableInv, TableTypeOK
<1>2. HighestNumber(K) = Max(T)
  BY DEF HighestNumber
<1>3. \A k \in K : row[k] \in T
  OBVIOUS
<1>4. \A n \in T : n = 0 \/ \E k \in K : row[k] = n
  OBVIOUS
<1> HIDE DEF T
<1>5. Max(T) \in T /\ \A n \in T : n <= Max(T)
  BY <1>1, MaxOfBounded
<1>6. QED
  BY <1>1, <1>2, <1>3, <1>4, <1>5

\* While nobody writes, all that will ever be up to the highest number is there.
LEMMA CalmIsComplete ==
    ASSUME TableInv, WritersInv, Calm
    PROVE  Complete(Committed, HighestNumber(Committed))
<1>1. \A t \in Txns : drawn[t] = 0
  BY DEF WritersInv, WriterInv, Calm, IsPlaced
<1>2. \A k \in Keys : owner[k] = NoTxn
  BY DEF WritersInv, WriterInv, Calm, TableInv, TableTypeOK
<1>3. HighestNumber(Committed) <= identity
  <2>1. Committed \subseteq Keys
    BY DEF Committed
  <2>2. HighestNumber(Committed) = 0 \/ \E k \in Committed : row[k] = HighestNumber(Committed)
    BY <2>1, HighestNumberIs
  <2>3. 0 <= identity
    BY EventTableAssumption DEF TableInv, TableTypeOK
  <2>4. QED
    BY <2>1, <2>2, <2>3 DEF TableInv, IdentityIsAhead
<1>4. QED
  BY <1>1, <1>2, <1>3 DEF Complete, Committed

\* What was found acceptable holds what the folds and the queries read.
LEMMA JudgedIsReadable ==
    ASSUME NEW raw, NEW caller, Judge(raw, caller) = "ok"
    PROVE  raw.type \in EventType /\ ReadOf(raw.type) \subseteq DOMAIN raw.payload
<1>1. ParseEvent(raw) = "ok"
  BY DEF Judge
<1>2. raw.type \in EventType /\ IsCanonical(raw)
  BY <1>1 DEF ParseEvent
<1>3. Required[raw.type] \subseteq DOMAIN raw.payload
  BY <1>2 DEF IsCanonical, PayloadMatchesType
<1>4. \A type \in EventType : ReadOf(type) \subseteq Required[type]
  BY DEF EventType, EventTypeCode, ReadOf, Required
<1>5. QED
  BY <1>2, <1>3, <1>4

\* The event at which a writer stands is one of those that were sent.
LEMMA RawIsSent ==
    ASSUME WritersInv, NEW t \in Txns, ~Idle(t),
           writer[t].pos <= Len(writer[t].upload.events)
    PROVE  /\ writer[t].upload \in Uploads
           /\ Raw(t) \in RawEvents
<1>1. writer[t].upload \in Uploads /\ writer[t].pos \in Nat \ {0}
  BY DEF WritersInv, WriterInv, IsWriter, Idle
<1>2. writer[t].upload.events \in Seq(RawEvents)
  BY <1>1, ReadModelsAssumption
<1>3. writer[t].pos \in 1..Len(writer[t].upload.events)
  BY <1>1, <1>2
<1>4. QED
  BY <1>1, <1>2, <1>3 DEF Raw

-----------------------------------------------------------------------------
(* The steps of the writers.                                               *)

\* Whatever a writer or the reader does is a step of the table, or none.
LEMMA StepsOfTheTable ==
    ASSUME TableInv, WritersInv, [ReadModelsNext]_vars
    PROVE  TableStep
<1>1. ASSUME NEW t \in Txns, WriterStep(t) PROVE TableStep
  <2>1. CASE Arrive(t) \/ RejectEvent(t)
    BY <2>1 DEF Arrive, RejectEvent, TableStep
  <2>2. CASE StartInsert(t)
    BY <2>2 DEF StartInsert, TableStep
  <2>3. CASE FinishInsert(t)
    BY <2>3 DEF FinishInsert, TableStep, WritersInv, WriterInv, IsPlaced
  <2>4. CASE CommitUpload(t)
    BY <2>4 DEF CommitUpload, TableStep
  <2>5. CASE FailUpload(t)
    BY <2>5 DEF FailUpload, TableStep
  <2>6. QED
    BY <1>1, <2>1, <2>2, <2>3, <2>4, <2>5 DEF WriterStep
<1>2. CASE ReaderStep
  BY <1>2 DEF ReaderStep, ReadLog, ReadMax, ReadWatermark, CommitRebuild, RebuildMeanwhile,
              EndRead, TableStep
<1>3. CASE UNCHANGED vars
  BY <1>3 DEF vars, TableStep
<1>4. QED
  BY <1>1, <1>2, <1>3 DEF ReadModelsNext

\* The other writers are not touched.
Others(t) == \A u \in Txns \ {t} : writer'[u] = writer[u] /\ drawn'[u] = drawn[u]

LEMMA OthersStay ==
    ASSUME WritersInv, NEW t \in Txns, Others(t), NEW u \in Txns \ {t},
           \A k \in Keys : owner'[k] = u => owner[k] = u
    PROVE  WriterInv(u)'
<1>1. writer'[u] = writer[u] /\ drawn'[u] = drawn[u]
  BY DEF Others
<1>2. IsPlaced(u)' <=> IsPlaced(u)
  BY <1>1 DEF IsPlaced, Idle, Raw
<1>3. Idle(u)' <=> Idle(u)
  BY <1>1 DEF Idle
<1>4. IsWriter(writer[u])' <=> IsWriter(writer[u])
  BY <1>1 DEF IsWriter
<1>5. QED
  BY <1>1, <1>2, <1>3, <1>4 DEF WritersInv, WriterInv

LEMMA ArriveWriters ==
    ASSUME WritersInv, NEW t \in Txns, Arrive(t)
    PROVE  WritersInv'
<1>1. PICK u \in traffic : /\ writer' = [writer EXCEPT ![t].upload = u]
                           /\ traffic' = traffic \ {u}
  BY DEF Arrive
<1>2. u \in Uploads /\ u # NoUpload
  BY ReadModelsAssumption DEF WritersInv
<1>3. /\ IsWriter(writer[t]) /\ Idle(t) /\ ~writer[t].inserting /\ drawn[t] = 0
      /\ \A k \in Keys : owner[k] # t
  BY DEF WritersInv, WriterInv, Arrive, IsPlaced
<1>4. writer'[t] = [upload |-> u, pos |-> writer[t].pos, highest |-> writer[t].highest,
                    inserting |-> writer[t].inserting]
  BY <1>1, <1>3 DEF WritersInv, IsWriter
<1>5. Others(t) /\ UNCHANGED <<owner, drawn>>
  BY <1>1 DEF WritersInv, Others, Arrive, tableVars
<1>6. WriterInv(t)'
  BY <1>2, <1>3, <1>4, <1>5 DEF IsWriter, WriterInv
<1>7. \A v \in Txns \ {t} : WriterInv(v)'
  BY <1>5, OthersStay
<1>8. writer' = [v \in Txns |-> writer'[v]] /\ traffic' \subseteq Uploads
  BY <1>1 DEF WritersInv
<1>9. QED
  BY <1>6, <1>7, <1>8 DEF WritersInv

LEMMA RejectWriters ==
    ASSUME WritersInv, NEW t \in Txns, RejectEvent(t)
    PROVE  WritersInv'
<1>1. IsWriter(writer[t]) /\ ~Idle(t) /\ ~writer[t].inserting /\ drawn[t] = 0
  BY DEF WritersInv, WriterInv, RejectEvent, AtAnEvent
<1>2. writer'[t] = [upload |-> writer[t].upload, pos |-> writer[t].pos + 1,
                    highest |-> writer[t].highest, inserting |-> FALSE]
  BY <1>1 DEF WritersInv, IsWriter, RejectEvent
<1>3. Others(t) /\ UNCHANGED <<owner, drawn>>
  BY DEF WritersInv, Others, RejectEvent, tableVars
<1>4. WriterInv(t)'
  BY <1>1, <1>2, <1>3 DEF IsWriter, WriterInv, Idle
<1>5. \A v \in Txns \ {t} : WriterInv(v)'
  BY <1>3, OthersStay
<1>6. writer' = [v \in Txns |-> writer'[v]] /\ traffic' = traffic
  BY DEF WritersInv, RejectEvent
<1>7. QED
  BY <1>4, <1>5, <1>6 DEF WritersInv

LEMMA StartInsertWriters ==
    ASSUME TableInv, WritersInv, NEW t \in Txns, StartInsert(t)
    PROVE  WritersInv'
<1>1. IsWriter(writer[t]) /\ ~Idle(t) /\ ~writer[t].inserting
  BY DEF WritersInv, WriterInv, StartInsert, AtAnEvent
<1>2. PICK g : writer' = [writer EXCEPT ![t].inserting = TRUE, ![t].highest = g]
  BY DEF StartInsert
<1>3. writer'[t] = [upload |-> writer[t].upload, pos |-> writer[t].pos, highest |-> g,
                    inserting |-> TRUE]
  BY <1>1, <1>2 DEF WritersInv, IsWriter
<1>4. drawn'[t] # 0 /\ UNCHANGED owner /\ Others(t)
  BY <1>2, EventTableAssumption
     DEF WritersInv, Others, StartInsert, DrawServerSeq, TableInv, TableTypeOK
<1>5. IsPlaced(t)'
  <2>1. /\ writer[t].pos <= Len(writer[t].upload.events)
        /\ Judge(Raw(t), writer[t].upload.caller) = "ok"
        /\ <<Raw(t).device, Raw(t).seq>> \in Keys
    BY DEF StartInsert, AtAnEvent, IsAcceptable
  <2>2. Raw(t)' = Raw(t) /\ writer'[t].upload = writer[t].upload /\ writer'[t].pos = writer[t].pos
    BY <1>3 DEF Raw
  <2>3. QED
    BY <1>1, <2>1, <2>2 DEF IsPlaced, Idle
<1>6. WriterInv(t)'
  BY <1>1, <1>3, <1>4, <1>5 DEF IsWriter, WriterInv, Idle
<1>7. \A v \in Txns \ {t} : WriterInv(v)'
  BY <1>4, OthersStay
<1>8. writer' = [v \in Txns |-> writer'[v]] /\ traffic' = traffic
  BY <1>2 DEF WritersInv, StartInsert
<1>9. QED
  BY <1>6, <1>7, <1>8 DEF WritersInv

LEMMA FinishInsertWriters ==
    ASSUME TableInv, WritersInv, NEW t \in Txns, FinishInsert(t)
    PROVE  WritersInv'
<1> DEFINE k == <<Raw(t).device, Raw(t).seq>>
<1>1. IsWriter(writer[t]) /\ ~Idle(t) /\ k \in Keys /\ InsertOrSkip(t, k)
  BY DEF WritersInv, WriterInv, FinishInsert, IsPlaced
<1> HIDE DEF k
<1>2. writer'[t] = [upload |-> writer[t].upload, pos |-> writer[t].pos + 1,
                    highest |-> writer[t].highest, inserting |-> FALSE]
  BY <1>1 DEF WritersInv, IsWriter, FinishInsert
<1>3. drawn'[t] = 0 /\ Others(t) /\ \A l \in Keys : owner'[l] \in {owner[l], t}
  BY <1>1 DEF WritersInv, Others, FinishInsert, InsertOrSkip, TableInv, TableTypeOK
<1>4. WriterInv(t)'
  BY <1>1, <1>2, <1>3 DEF IsWriter, WriterInv, Idle
<1>5. \A v \in Txns \ {t} : WriterInv(v)'
  BY <1>3, OthersStay
<1>6. writer' = [v \in Txns |-> writer'[v]] /\ traffic' = traffic
  BY DEF WritersInv, FinishInsert
<1>7. QED
  BY <1>4, <1>5, <1>6 DEF WritersInv

LEMMA LeaveWriters ==
    ASSUME TableInv, WritersInv, NEW t \in Txns, CommitUpload(t) \/ FailUpload(t)
    PROVE  WritersInv'
<1>1. IsWriter(writer[t]) /\ ~Idle(t)
  BY DEF WritersInv, WriterInv, CommitUpload, FailUpload
<1>2. writer'[t] = IdleWriter /\ writer' = [v \in Txns |-> writer'[v]]
  BY DEF WritersInv, CommitUpload, FailUpload
<1>3. /\ drawn'[t] = 0 /\ Others(t)
      /\ \A l \in Keys : owner'[l] = IF owner[l] = t THEN NoTxn ELSE owner[l]
  BY DEF WritersInv, Others, CommitUpload, FailUpload, CommitTable, RollbackTable,
         TableInv, TableTypeOK
<1>4. WriterInv(t)'
  BY <1>2, <1>3, EventTableAssumption DEF IsWriter, WriterInv, Idle, IdleWriter
<1>5. \A v \in Txns \ {t} : WriterInv(v)'
  BY <1>3, EventTableAssumption, OthersStay
<1>6. traffic' \subseteq Uploads
  BY <1>1 DEF WritersInv, IsWriter, Idle, CommitUpload, FailUpload
<1>7. QED
  BY <1>2, <1>4, <1>5, <1>6 DEF WritersInv

LEMMA WritersStep ==
    ASSUME TableInv, WritersInv, [ReadModelsNext]_vars
    PROVE  WritersInv'
<1>1. ASSUME NEW t \in Txns, WriterStep(t) PROVE WritersInv'
  BY <1>1, ArriveWriters, RejectWriters, StartInsertWriters, FinishInsertWriters, LeaveWriters
     DEF WriterStep
<1>2. ASSUME UNCHANGED <<traffic, writer, drawn, owner>> PROVE WritersInv'
  BY <1>2 DEF WritersInv, WriterInv, IsWriter, IsPlaced, Idle, Raw
<1>3. CASE ReaderStep
  BY <1>2, <1>3 DEF ReaderStep, ReadLog, ReadMax, ReadWatermark, CommitRebuild,
                    RebuildMeanwhile, EndRead, tableVars
<1>4. CASE UNCHANGED vars
  BY <1>2, <1>4 DEF vars, tableVars
<1>5. QED
  BY <1>1, <1>3, <1>4 DEF ReadModelsNext

-----------------------------------------------------------------------------
(* The steps of the content.                                               *)

LEMMA ContentStep ==
    ASSUME TableInv, WritersInv, ContentInv, [ReadModelsNext]_vars
    PROVE  ContentInv'
<1>1. ASSUME NEW t \in Txns, FinishInsert(t) PROVE ContentInv'
  <2> DEFINE k == <<Raw(t).device, Raw(t).seq>>
  <2>1. ~Idle(t) /\ k \in Keys /\ IsPlaced(t)
    BY <1>1 DEF FinishInsert, WritersInv, WriterInv, IsPlaced
  <2>2. Raw(t) \in RawEvents /\ WasJudged(Raw(t))
    BY <2>1, RawIsSent DEF IsPlaced, WasJudged
  <2>3. /\ InsertOrSkip(t, k)
        /\ content' = [content EXCEPT ![k] = IF row[k] = 0 THEN Raw(t) ELSE @]
    BY <1>1 DEF FinishInsert
  <2> HIDE DEF k
  <2>4. CASE row[k] = 0
    <3>1. content' = [l \in Keys |-> IF l = k THEN Raw(t) ELSE content[l]]
      BY <2>1, <2>3, <2>4 DEF ContentInv
    <3>2. \A l \in Keys : row'[l] = IF l = k THEN drawn[t] ELSE row[l]
      BY <2>1, <2>3, <2>4 DEF InsertOrSkip, TableInv, TableTypeOK
    <3>3. drawn[t] # 0
      BY <2>3 DEF InsertOrSkip
    <3>4. QED
      BY <2>2, <3>1, <3>2, <3>3 DEF ContentInv, WasJudged
  <2>5. CASE row[k] # 0
    <3>1. content' = content /\ row' = row
      BY <2>1, <2>3, <2>5 DEF ContentInv, InsertOrSkip
    <3>2. QED
      BY <3>1 DEF ContentInv, WasJudged
  <2>6. QED
    BY <2>4, <2>5
<1>2. ASSUME NEW t \in Txns, FailUpload(t) PROVE ContentInv'
  <2>1. /\ content' = [k \in Keys |-> IF owner[k] = t THEN NoEvent ELSE content[k]]
        /\ \A k \in Keys : row'[k] = IF owner[k] = t THEN 0 ELSE row[k]
    BY <1>2 DEF FailUpload, RollbackTable
  <2>2. QED
    BY <2>1 DEF ContentInv, WasJudged
<1>3. ASSUME UNCHANGED <<row, content>> PROVE ContentInv'
  BY <1>3 DEF ContentInv, WasJudged
<1>4. ASSUME NEW t \in Txns, WriterStep(t) PROVE ContentInv'
  <2>1. CASE Arrive(t) \/ RejectEvent(t)
    BY <1>3, <2>1 DEF Arrive, RejectEvent, tableVars
  <2>2. CASE StartInsert(t) \/ CommitUpload(t)
    BY <1>3, <2>2 DEF StartInsert, DrawServerSeq, CommitUpload, CommitTable
  <2>3. QED
    BY <1>1, <1>2, <1>4, <2>1, <2>2 DEF WriterStep
<1>5. CASE ReaderStep
  BY <1>3, <1>5 DEF ReaderStep, ReadLog, ReadMax, ReadWatermark, CommitRebuild,
                    RebuildMeanwhile, EndRead, tableVars
<1>6. CASE UNCHANGED vars
  BY <1>3, <1>6 DEF vars, tableVars
<1>7. QED
  BY <1>4, <1>5, <1>6 DEF ReadModelsNext

\* The columns of a committed row never change.
LEMMA ContentStays ==
    ASSUME TableInv, WritersInv, ContentInv, [ReadModelsNext]_vars, NEW k \in Committed
    PROVE  content'[k] = content[k]
<1>1. k \in Keys /\ row[k] # 0 /\ owner[k] = NoTxn
  BY DEF Committed
<1>2. ASSUME NEW t \in Txns, WriterStep(t) PROVE content'[k] = content[k]
  <2>1. CASE FinishInsert(t)
    BY <1>1, <2>1 DEF FinishInsert, ContentInv
  <2>2. CASE FailUpload(t)
    BY <1>1, <2>2, EventTableAssumption DEF FailUpload
  <2>3. QED
    BY <1>2, <2>1, <2>2 DEF WriterStep, Arrive, RejectEvent, StartInsert, CommitUpload
<1>3. CASE ReaderStep
  BY <1>3 DEF ReaderStep, ReadLog, ReadMax, ReadWatermark, CommitRebuild, RebuildMeanwhile, EndRead
<1>4. CASE UNCHANGED vars
  BY <1>4 DEF vars
<1>5. QED
  BY <1>2, <1>3, <1>4 DEF ReadModelsNext

-----------------------------------------------------------------------------
(* The steps of the reader.                                                *)

LEMMA ReachedStays ==
    ASSUME TableInv, TableStep, NEW n, Reached(n)
    PROVE  Reached(n)'
BY CommittedStays DEF Reached

\* A reader that does not move keeps what it has read.
LEMMA ReaderStays ==
    ASSUME TableInv, TableStep, ReaderInv, models' = models,
           reader' = reader \/ reader' = [reader EXCEPT !.calm = FALSE]
    PROVE  ReaderInv'
<1>1. /\ reader'.kind = reader.kind /\ reader'.stage = reader.stage
      /\ reader'.rows = reader.rows /\ reader'.number = reader.number
      /\ reader'.projected = reader.projected /\ reader'.calm \in {reader.calm, FALSE}
      /\ reader' \in [kind : {"none", "log", "diagnostics"},
                      stage : {"idle", "read", "max", "watermark"},
                      rows : SUBSET Keys, number : 0..MaxServerSeq,
                      projected : 0..MaxServerSeq, calm : BOOLEAN]
  BY DEF ReaderInv
<1>2. \A k \in Committed : k \in Committed' /\ row'[k] = row[k]
  BY CommittedStays
<1>3. Reached(reader.number)' /\ Reached(models.watermark)'
  BY <1>1, <1>2 DEF ReaderInv, Reached
<1>4. \A k \in reader.rows : k \in Committed' /\ row'[k] = row[k]
  BY <1>2 DEF ReaderInv
<1>5. QED
  BY <1>1, <1>2, <1>3, <1>4 DEF ReaderInv

LEMMA IdleReaderInv ==
    ASSUME TableInv, ReaderInv, reader' = IdleReader, UNCHANGED tableVars,
           models' = models \/ models' = [rows |-> reader.rows, watermark |-> reader.number,
                                          calm |-> reader.calm]
    PROVE  ReaderInv'
<1>1. models' \in [rows : SUBSET Keys, watermark : 0..MaxServerSeq, calm : BOOLEAN]
  BY DEF ReaderInv
<1>2. models'.rows \subseteq Committed /\ Reached(models'.watermark)
  BY DEF ReaderInv
<1>3. Committed' = Committed /\ row' = row
  BY DEF Committed, tableVars
<1>4. QED
  BY <1>1, <1>2, <1>3, EventTableAssumption DEF ReaderInv, IdleReader, Reached

LEMMA ReaderMoves ==
    ASSUME TableInv, ReaderInv, ReaderStep
    PROVE  ReaderInv'
<1> USE EventTableAssumption
<1>1. UNCHANGED tableVars
  BY DEF ReaderStep, ReadLog, ReadMax, ReadWatermark, CommitRebuild, RebuildMeanwhile, EndRead
<1>2. Committed' = Committed /\ row' = row
  BY <1>1 DEF Committed, tableVars
<1>3. Committed \subseteq Keys
  BY DEF Committed
<1>4. \A n : Reached(n)' <=> Reached(n)
  BY <1>2 DEF Reached
<1> DEFINE top == HighestNumber(Committed)
<1>5. top \in 0..MaxServerSeq /\ Reached(top) /\ \A k \in Committed : row[k] <= top
  BY <1>3, HighestNumberIs DEF Reached
<1>6. Calm \in BOOLEAN
  BY DEF Calm
<1> HIDE DEF top
<1>7. ASSUME NEW kind \in {"log", "diagnostics"}, ReadLog(kind) PROVE ReaderInv'
  <2>1. models' = models
    BY <1>7 DEF ReadLog
  <2>2. reader' = [kind |-> kind, stage |-> "read", rows |-> Committed, number |-> 0,
                   projected |-> 0, calm |-> Calm]
    BY <1>7 DEF ReadLog, IdleReader
  <2>3. Reached(0)
    BY DEF Reached
  <2>4. QED
    BY <1>2, <1>3, <1>4, <1>6, <2>1, <2>2, <2>3 DEF ReaderInv
<1>8. CASE ReadMax
  <2>1. models' = models /\ reader.stage = "read"
    BY <1>8 DEF ReadMax
  <2>2. reader' = [reader EXCEPT !.stage = "max", !.number = top]
    BY <1>8 DEF ReadMax, top
  <2>3. models.watermark <= top
    BY <1>5, EventTableAssumption DEF ReaderInv, Reached
  <2>4. QED
    BY <1>2, <1>4, <1>5, <2>1, <2>2, <2>3 DEF ReaderInv
<1>9. CASE ReadWatermark
  BY <1>2, <1>4, <1>9 DEF ReadWatermark, ReaderInv
<1>10. CASE CommitRebuild \/ EndRead
  BY <1>1, <1>10, IdleReaderInv DEF CommitRebuild, EndRead
<1>11. CASE RebuildMeanwhile
  <2>1. models' = [rows |-> Committed, watermark |-> top, calm |-> Calm]
    BY <1>11 DEF RebuildMeanwhile, top
  <2>2. reader' = [reader EXCEPT !.calm = FALSE] /\ reader.stage \in {"read", "max"}
    BY <1>11 DEF RebuildMeanwhile
  <2>3. QED
    BY <1>2, <1>3, <1>4, <1>5, <1>6, <2>1, <2>2 DEF ReaderInv
<1>12. QED
  BY <1>7, <1>8, <1>9, <1>10, <1>11 DEF ReaderStep

LEMMA ReaderInvStep ==
    ASSUME TableInv, WritersInv, ReaderInv, [ReadModelsNext]_vars
    PROVE  ReaderInv'
<1>1. TableStep
  BY StepsOfTheTable
<1>2. ASSUME NEW t \in Txns, WriterStep(t) PROVE ReaderInv'
  <2>1. CASE Arrive(t)
    <3>1. reader.calm \in BOOLEAN /\ reader = [reader EXCEPT !.calm = reader.calm]
      BY DEF ReaderInv
    <3>2. reader' = [reader EXCEPT !.calm = reader.calm /\ ~(reader.stage = "read" /\ reader.kind = "log")]
      BY <2>1 DEF Arrive
    <3>3. reader' = reader \/ reader' = [reader EXCEPT !.calm = FALSE]
      BY <3>1, <3>2
    <3>4. QED
      BY <1>1, <2>1, <3>3, ReaderStays DEF Arrive
  <2>2. CASE ~Arrive(t)
    BY <1>1, <1>2, <2>2, ReaderStays
       DEF WriterStep, RejectEvent, StartInsert, FinishInsert, CommitUpload, FailUpload
  <2>3. QED
    BY <2>1, <2>2
<1>3. CASE UNCHANGED vars
  BY <1>1, <1>3, ReaderStays DEF vars
<1>4. QED
  BY <1>2, <1>3, ReaderMoves DEF ReadModelsNext

-----------------------------------------------------------------------------
(* The steps of the cursors.                                               *)

\* What was complete stays complete: the next number is above all that were drawn.
LEMMA CompleteStays ==
    ASSUME TableInv, TableStep, NEW rows, NEW n \in Nat, Complete(rows, n)
    PROVE  Complete(rows, n)'
<1> USE EventTableAssumption DEF Complete, TableInv, TableTypeOK
<1>1. ASSUME NEW t \in Txns, DrawServerSeq(t) PROVE Complete(rows, n)'
  BY <1>1 DEF DrawServerSeq
<1>2. ASSUME NEW t \in Txns, NEW k \in Keys, InsertOrSkip(t, k) PROVE Complete(rows, n)'
  BY <1>2 DEF InsertOrSkip
<1>3. ASSUME NEW t \in Txns, CommitTable(t) PROVE Complete(rows, n)'
  BY <1>3 DEF CommitTable
<1>4. ASSUME NEW t \in Txns, RollbackTable(t) PROVE Complete(rows, n)'
  BY <1>4 DEF RollbackTable
<1>5. CASE UNCHANGED tableVars
  BY <1>5 DEF tableVars
<1>6. QED
  BY <1>1, <1>2, <1>3, <1>4, <1>5 DEF TableStep

\* Those who do not move keep their promises.
LEMMA CursorsStay ==
    ASSUME TableInv, TableStep, ReaderInv, CursorInv, models' = models,
           \/ reader' = reader /\ (Calm => Calm' /\ Committed' = Committed)
           \/ reader' = [reader EXCEPT !.calm = @ /\ ~(reader.stage = "read" /\ reader.kind = "log")]
    PROVE  CursorInv'
<1>1. PICK R, n : R = reader.rows /\ n = reader.number
  OBVIOUS
<1>2. PICK S, m : S = models.rows /\ m = models.watermark
  OBVIOUS
<1>3. n \in Nat /\ m \in Nat
  BY <1>1, <1>2, EventTableAssumption DEF ReaderInv
<1>4. Complete(R, n) => Complete(R, n)'
  BY <1>3, CompleteStays
<1>5. Complete(S, m) => Complete(S, m)'
  BY <1>3, CompleteStays
<1>6. /\ reader'.kind = reader.kind /\ reader'.stage = reader.stage
      /\ reader'.rows = reader.rows /\ reader'.number = reader.number
      /\ reader'.calm => reader.calm
      /\ reader'.calm /\ reader.kind = "log" /\ reader.stage = "read" =>
            (Calm => Calm' /\ Committed' = Committed)
  BY DEF ReaderInv
<1>7. (models.calm => Complete(models.rows, models.watermark))'
  BY <1>2, <1>5 DEF CursorInv
<1>8. (reader.calm /\ reader.kind = "log" /\ reader.stage = "max" =>
          Complete(reader.rows, reader.number))'
  BY <1>1, <1>4, <1>6 DEF CursorInv
<1>9. (reader.calm /\ reader.kind = "log" /\ reader.stage = "read" =>
          Calm /\ reader.rows = Committed)'
  BY <1>6 DEF CursorInv
<1>10. QED
  BY <1>7, <1>8, <1>9 DEF CursorInv

LEMMA CursorMoves ==
    ASSUME TableInv, WritersInv, ReaderInv, CursorInv, ReaderStep
    PROVE  CursorInv'
<1>1. UNCHANGED <<tableVars, writer>>
  BY DEF ReaderStep, ReadLog, ReadMax, ReadWatermark, CommitRebuild, RebuildMeanwhile, EndRead
<1>2. Committed' = Committed /\ Calm' = Calm /\ \A R, n : Complete(R, n)' <=> Complete(R, n)
  BY <1>1 DEF Committed, Calm, Idle, tableVars, Complete
<1> DEFINE top == HighestNumber(Committed)
<1>3. Calm => Complete(Committed, top)
  BY CalmIsComplete
<1> HIDE DEF top
<1>4. ASSUME NEW kind \in {"log", "diagnostics"}, ReadLog(kind) PROVE CursorInv'
  <2>1. models' = models
    BY <1>4 DEF ReadLog
  <2>2. reader' = [kind |-> kind, stage |-> "read", rows |-> Committed, number |-> 0,
                   projected |-> 0, calm |-> Calm]
    BY <1>4 DEF ReadLog, IdleReader
  <2>3. QED
    BY <1>2, <2>1, <2>2 DEF CursorInv
<1>5. CASE ReadMax
  <2>1. models' = models /\ reader.stage = "read"
    BY <1>5 DEF ReadMax
  <2>2. reader' = [reader EXCEPT !.stage = "max", !.number = top]
    BY <1>5 DEF ReadMax, top
  <2>3. /\ reader'.kind = reader.kind /\ reader'.stage = "max" /\ reader'.rows = reader.rows
        /\ reader'.number = top /\ reader'.calm = reader.calm
    BY <2>2 DEF ReaderInv
  <2>4. QED
    BY <1>2, <1>3, <2>1, <2>3 DEF CursorInv
<1>6. CASE ReadWatermark
  <2>1. models' = models /\ reader'.stage = "watermark"
    BY <1>6 DEF ReadWatermark, ReaderInv
  <2>2. QED
    BY <1>2, <2>1 DEF CursorInv
<1>7. CASE CommitRebuild
  <2>1. reader'.stage = "idle"
    BY <1>7 DEF CommitRebuild, IdleReader
  <2>2. models' = [rows |-> reader.rows, watermark |-> reader.number, calm |-> reader.calm]
    BY <1>7 DEF CommitRebuild
  <2>3. models'.calm => Complete(models'.rows, models'.watermark)
    BY <1>7, <2>2 DEF CursorInv, CommitRebuild
  <2>4. QED
    BY <1>2, <2>1, <2>3 DEF CursorInv
<1>8. CASE EndRead
  <2>1. reader'.stage = "idle" /\ models' = models
    BY <1>8 DEF EndRead, IdleReader
  <2>2. QED
    BY <1>2, <2>1 DEF CursorInv
<1>9. CASE RebuildMeanwhile
  <2>1. models' = [rows |-> Committed, watermark |-> top, calm |-> Calm]
    BY <1>9 DEF RebuildMeanwhile, top
  <2>2. reader'.calm = FALSE
    BY <1>9 DEF RebuildMeanwhile, ReaderInv
  <2>3. QED
    BY <1>2, <1>3, <2>1, <2>2 DEF CursorInv
<1>10. QED
  BY <1>4, <1>5, <1>6, <1>7, <1>8, <1>9 DEF ReaderStep

LEMMA CursorStep ==
    ASSUME TableInv, WritersInv, ReaderInv, CursorInv, [ReadModelsNext]_vars
    PROVE  CursorInv'
<1>1. TableStep
  BY StepsOfTheTable
<1>2. ASSUME NEW t \in Txns, WriterStep(t) PROVE CursorInv'
  <2>1. CASE Arrive(t)
    BY <1>1, <2>1, CursorsStay DEF Arrive
  <2>2. CASE ~Arrive(t)
    <3>1. ~Idle(t)
      BY <1>2, <2>2 DEF WriterStep, RejectEvent, StartInsert, AtAnEvent, FinishInsert, CommitUpload,
                        FailUpload, WritersInv, WriterInv, IsPlaced
    <3>2. reader' = reader /\ models' = models
      BY <1>2, <2>2 DEF WriterStep, RejectEvent, StartInsert, FinishInsert, CommitUpload, FailUpload
    <3>3. QED
      BY <1>1, <3>1, <3>2, CursorsStay DEF Calm
  <2>3. QED
    BY <2>1, <2>2
<1>3. CASE UNCHANGED vars
  <2>1. Calm' = Calm /\ Committed' = Committed
    BY <1>3 DEF vars, tableVars, Calm, Idle, Committed
  <2>2. QED
    BY <1>1, <1>3, <2>1, CursorsStay DEF vars
<1>4. QED
  BY <1>2, <1>3, CursorMoves DEF ReadModelsNext

-----------------------------------------------------------------------------
(* The invariant holds.                                                    *)

LEMMA ReadInitial == ReadModelsInit => ReadInv
<1> SUFFICES ASSUME ReadModelsInit PROVE ReadInv
  OBVIOUS
<1> USE EventTableAssumption DEF ReadModelsInit
<1>1. TableInv
  BY TableInitInv
<1>2. Committed = {} /\ \A t \in Txns : drawn[t] = 0 /\ \A k \in Keys : owner[k] # t /\ row[k] = 0
  BY DEF TableInit, Committed
<1>3. WritersInv
  <2>1. \A t \in Txns : writer[t] = IdleWriter
    OBVIOUS
  <2>2. IsWriter(IdleWriter) /\ ~IdleWriter.inserting
    BY DEF IsWriter, IdleWriter
  <2>3. ASSUME NEW t \in Txns PROVE WriterInv(t)
    <3>1. writer[t] = IdleWriter /\ drawn[t] = 0 /\ \A k \in Keys : owner[k] # t
      BY <1>2, <2>1
    <3>2. QED
      BY <2>2, <3>1 DEF WriterInv
  <2>4. writer = [t \in Txns |-> writer[t]] /\ traffic \subseteq Uploads
    BY DEF Uploads
  <2>5. QED
    BY <2>3, <2>4 DEF WritersInv
<1>4. ContentInv
  BY DEF TableInit, ContentInv
<1>5. ReaderInv
  BY DEF ReaderInv, IdleReader, Reached
<1>6. CursorInv
  BY <1>1, <1>2 DEF CursorInv, IdleReader, Complete, TableInit
<1>7. QED
  BY <1>1, <1>3, <1>4, <1>5, <1>6 DEF ReadInv

LEMMA ReadStep == ReadInv /\ [ReadModelsNext]_vars => ReadInv'
BY StepsOfTheTable, TableStepInv, WritersStep, ContentStep, ReaderInvStep, CursorStep DEF ReadInv

LEMMA AlwaysRead == ReadModelsSpec => []ReadInv
BY ReadInitial, ReadStep, PTL DEF ReadModelsSpec

-----------------------------------------------------------------------------
(* What follows from it.                                                   *)

\* Every variable of the writers, the reader and the read models keeps its type, and the
\* read models are folded from committed rows only (read_since, rebuild).
THEOREM ReadModelsTypeCorrect == ReadModelsSpec => []ReadModelsTypeOK
<1>1. ReadInv => ReadModelsTypeOK
  <2> SUFFICES ASSUME ReadInv PROVE ReadModelsTypeOK
    OBVIOUS
  <2>1. \A k \in Keys : row[k] = 0 <=> content[k] = NoEvent
    BY ReadModelsAssumption DEF ReadInv, ContentInv
  <2>2. \A t \in Txns : writer[t].inserting <=> drawn[t] # 0
    BY DEF ReadInv, WritersInv, WriterInv
  <2>3. QED
    BY <2>1, <2>2 DEF ReadInv, TableInv, ReaderInv, ReadModelsTypeOK
<1>2. QED
  BY <1>1, AlwaysRead, PTL

\* A cursor that was read while nobody wrote never skips an event, whatever is written
\* afterwards, by however many writers (snapshot, rebuild).
THEOREM CalmCursorsSkipNothing == ReadModelsSpec => []CalmCursorsAreComplete
<1>1. ReadInv => CalmCursorsAreComplete
  BY DEF ReadInv, CursorInv, Complete, Committed, CalmCursorsAreComplete
<1>2. QED
  BY <1>1, AlwaysRead, PTL

\* The counts and the numbers of diagnostics fit each other (diagnostics).
THEOREM DiagnosticsFit == ReadModelsSpec => []DiagnosticsAddUp
<1>1. ReadInv => DiagnosticsAddUp
  <2> SUFFICES ASSUME ReadInv, reader.stage = "watermark"
               PROVE  /\ Cardinality(reader.rows) <= reader.number
                      /\ reader.calm => reader.projected <= reader.number
    BY DEF DiagnosticsAddUp
  <2> DEFINE S == reader.rows
             n == reader.number
             f == [k \in S |-> row[k]]
  <2>1. n \in Nat /\ S \subseteq Committed /\ \A k \in S : row[k] <= n
    BY EventTableAssumption DEF ReadInv, ReaderInv
  <2>2. \A k \in S : row[k] \in 1..n
    BY <2>1, EventTableAssumption DEF ReadInv, TableInv, TableTypeOK, Committed
  <2>3. \A k, l \in S : row[k] = row[l] => k = l
    BY <2>1 DEF ReadInv, TableInv, NumbersAreUnique, Committed
  <2> HIDE DEF S, n
  <2>4. f \in Injection(S, 1..n)
    BY <2>2, <2>3 DEF Injection, IsInjective
  <2> HIDE DEF f
  <2>5. IsFiniteSet(1..n) /\ Cardinality(1..n) = n
    BY <2>1, FS_Interval
  <2>6. Cardinality(S) <= n
    BY <2>4, <2>5, FS_Injection
  <2>7. QED
    BY <2>6 DEF S, n, ReadInv, ReaderInv
<1>2. QED
  BY <1>1, AlwaysRead, PTL

\* The events of committed rows, with the fields that they were sent with.
LEMMA LogIs ==
    ASSUME ReadInv, NEW e \in Log
    PROVE  \E k \in Committed :
              /\ e = [content[k] EXCEPT !.server_seq = row[k]]
              /\ content[k] \in RawEvents /\ WasJudged(content[k])
              /\ e.type = content[k].type /\ e.payload = content[k].payload
<1>1. PICK k \in Committed : e = [content[k] EXCEPT !.server_seq = row[k]]
  BY DEF Log, EventsOf
<1>2. content[k] \in RawEvents /\ WasJudged(content[k])
  BY DEF ReadInv, ContentInv, Committed
<1>3. {"type", "payload", "server_seq"} \subseteq DOMAIN content[k]
  BY <1>2, ReadModelsAssumption
<1>4. e.type = content[k].type /\ e.payload = content[k].payload
  BY <1>1, <1>3
<1>5. QED
  BY <1>1, <1>2, <1>4

\* No upload, of whomever, leaves an event in the log that a fold or a query could not
\* read (parse_event, folds.py).
THEOREM LogIsReadable == ReadModelsSpec => []CommittedEventsAreReadable
<1>1. ReadInv => CommittedEventsAreReadable
  BY LogIs, JudgedIsReadable DEF CommittedEventsAreReadable, WasJudged
<1>2. QED
  BY <1>1, AlwaysRead, PTL

-----------------------------------------------------------------------------
(* The log as a whole.                                                     *)

LogIsFinite == IsFiniteSet(Log)

LEMMA FiniteLog == ReadInv => LogIsFinite
<1> SUFFICES ASSUME ReadInv PROVE IsFiniteSet(Log)
  BY DEF LogIsFinite
<1> DEFINE f == [k \in Committed |-> [content[k] EXCEPT !.server_seq = row[k]]]
<1>1. IsFiniteSet(Committed)
  BY RowsAreFinite DEF ReadInv, Committed
<1>2. f \in Surjection(Committed, Log)
  BY DEF Surjection, Log, EventsOf
<1> HIDE DEF f
<1>3. QED
  BY <1>1, <1>2, FS_Surjection

\* Every step only adds to the events that readers see.
LEMMA LogGrows ==
    ASSUME ReadInv, [ReadModelsNext]_vars
    PROVE  Log \subseteq Log'
<1>1. ASSUME NEW k \in Committed
      PROVE  k \in Committed' /\ row'[k] = row[k] /\ content'[k] = content[k]
  BY <1>1, StepsOfTheTable, CommittedStays, ContentStays DEF ReadInv
<1>2. QED
  BY <1>1 DEF Log, EventsOf

\* The searchers of a cell are the teams of some of the events.
LEMMA MoreEventsMoreSearchers ==
    ASSUME NEW E, NEW F, E \subseteq F, IsFiniteSet(F), NEW k
    PROVE  /\ Searchers(E, k) \subseteq Searchers(F, k)
           /\ Cardinality(Searchers(E, k)) \in Nat /\ Cardinality(Searchers(F, k)) \in Nat
           /\ Cardinality(Searchers(E, k)) <= Cardinality(Searchers(F, k))
<1> DEFINE Reports(G) == {r \in OfType(G, "CELL_STATUS_REPORTED") :
                            CellKey(r) = k /\ r.payload.status = "SEARCHED"}
           R == Reports(F)
           f == [e \in R |-> e.team]
<1>1. Searchers(E, k) \subseteq Searchers(F, k)
  BY DEF Searchers, OfType
<1>2. IsFiniteSet(R)
  <2>1. R \subseteq F
    BY DEF OfType
  <2>2. QED
    BY <2>1, FS_Subset
<1>3. f \in Surjection(R, Searchers(F, k))
  BY DEF Surjection, Searchers
<1> HIDE DEF R, f
<1>4. IsFiniteSet(Searchers(F, k))
  BY <1>2, <1>3, FS_Surjection
<1>5. QED
  BY <1>1, <1>4, SubsetIsSmaller

LEMMA DuplicatesGrow ==
    ASSUME NEW E, NEW F, E \subseteq F, IsFiniteSet(F), NEW k \in DOMAIN FoldDuplicateSearch(E)
    PROVE  /\ k \in DOMAIN FoldDuplicateSearch(F)
           /\ FoldDuplicateSearch(E)[k] \subseteq FoldDuplicateSearch(F)[k]
<1>1. k \in {CellKey(e) : e \in OfType(E, "CELL_STATUS_REPORTED")}
  BY DEF FoldDuplicateSearch
<1>2. Cardinality(Searchers(E, k)) >= 2 /\ FoldDuplicateSearch(E)[k] = Searchers(E, k)
  BY DEF FoldDuplicateSearch
<1>3. k \in {CellKey(e) : e \in OfType(F, "CELL_STATUS_REPORTED")}
  BY <1>1 DEF OfType
<1>4. /\ Searchers(E, k) \subseteq Searchers(F, k)
      /\ Cardinality(Searchers(F, k)) >= 2
  BY <1>2, MoreEventsMoreSearchers
<1>5. k \in DOMAIN FoldDuplicateSearch(F) /\ FoldDuplicateSearch(F)[k] = Searchers(F, k)
  BY <1>3, <1>4 DEF FoldDuplicateSearch
<1>6. QED
  BY <1>2, <1>4, <1>5

\* A detected duplicate search is never taken back, in whatever order the reports of any
\* number of devices are accepted (fold_duplicate_search; DM-22).
THEOREM DuplicatesStay == ReadModelsSpec => DuplicatesAreKept
<1>1. ReadInv /\ LogIsFinite' /\ [ReadModelsNext]_vars =>
        [\A k \in DOMAIN FoldDuplicateSearch(Log) :
            /\ k \in DOMAIN FoldDuplicateSearch(Log')
            /\ FoldDuplicateSearch(Log)[k] \subseteq FoldDuplicateSearch(Log')[k]]_vars
  <2> SUFFICES ASSUME ReadInv, LogIsFinite', [ReadModelsNext]_vars,
                      NEW k \in DOMAIN FoldDuplicateSearch(Log)
               PROVE  /\ k \in DOMAIN FoldDuplicateSearch(Log')
                      /\ FoldDuplicateSearch(Log)[k] \subseteq FoldDuplicateSearch(Log')[k]
    OBVIOUS
  <2>1. PICK E, F : E = Log /\ F = Log'
    OBVIOUS
  <2>2. E \subseteq F /\ IsFiniteSet(F)
    BY <2>1, LogGrows DEF LogIsFinite
  <2>3. QED
    BY <2>1, <2>2, DuplicatesGrow
<1>2. QED
  BY <1>1, FiniteLog, AlwaysRead, PTL DEF ReadModelsSpec, DuplicatesAreKept

\* The read side runs over an append-only EventLog: its uploads write the table as
\* ingestion and author do.
THEOREM ReadModelsImplementLog == ReadModelsSpec => TableLog!Spec
<1>1. ReadModelsInit => TableLog!Init
  BY TableLogInit DEF ReadModelsInit
<1>2. ReadInv /\ [ReadModelsNext]_vars => TableLog!Next
  BY StepsOfTheTable, TableStepAppends DEF ReadInv
<1>3. QED
  BY <1>1, <1>2, AlwaysRead, PTL DEF ReadModelsSpec, TableLog!Spec
=============================================================================
