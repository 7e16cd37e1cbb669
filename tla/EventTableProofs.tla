--------------------------- MODULE EventTableProofs ---------------------------
(***************************************************************************)
(* Proofs about EventTable, for every number of devices, transactions and  *)
(* rows: what every module built on the table keeps needing.               *)
(***************************************************************************)
EXTENDS EventTable, DataLemmas

-----------------------------------------------------------------------------
(* The inductive invariant of the table.                                   *)

\* No two rows have one server_seq, and a number that is drawn is nobody else's.
NumbersAreUnique ==
    /\ \A k, l \in Keys : row[k] # 0 /\ row[k] = row[l] => k = l
    /\ \A t \in Txns, k \in Keys : drawn[t] # 0 => row[k] # drawn[t]
    /\ \A t, u \in Txns : drawn[t] # 0 /\ drawn[t] = drawn[u] => t = u

\* The identity column is ahead of every number in use, so that the next one is new.
IdentityIsAhead ==
    /\ \A k \in Keys : row[k] <= identity
    /\ \A t \in Txns : drawn[t] <= identity

\* Only a row that is there has a transaction.
OwnersHaveRows == \A k \in Keys : owner[k] # NoTxn => row[k] # 0

TableInv ==
    /\ TableTypeOK
    /\ NumbersAreUnique
    /\ IdentityIsAhead
    /\ OwnersHaveRows

LEMMA TableInitInv == TableInit => TableInv
BY EventTableAssumption
   DEF TableInit, TableInv, TableTypeOK, NumbersAreUnique, IdentityIsAhead, OwnersHaveRows

LEMMA DrawInv ==
    ASSUME TableInv, NEW t \in Txns, DrawServerSeq(t)
    PROVE  TableInv'
<1> USE EventTableAssumption DEF TableInv, DrawServerSeq
<1>1. identity + 1 \in 0..MaxServerSeq /\ drawn'[t] = identity + 1
  BY DEF TableTypeOK
<1>2. TableTypeOK'
  BY <1>1 DEF TableTypeOK
<1>3. NumbersAreUnique'
  <2>1. \A u \in Txns : u # t => drawn'[u] = drawn[u] /\ drawn[u] < identity + 1
    BY DEF TableTypeOK, IdentityIsAhead
  <2>2. \A k \in Keys : row'[k] = row[k] /\ row[k] < identity + 1
    BY DEF TableTypeOK, IdentityIsAhead
  <2>3. QED
    BY <1>1, <2>1, <2>2 DEF TableTypeOK, NumbersAreUnique
<1>4. IdentityIsAhead'
  BY <1>1 DEF TableTypeOK, IdentityIsAhead
<1>5. OwnersHaveRows'
  BY DEF OwnersHaveRows
<1>6. QED
  BY <1>2, <1>3, <1>4, <1>5

LEMMA InsertInv ==
    ASSUME TableInv, NEW t \in Txns, NEW k \in Keys, InsertOrSkip(t, k)
    PROVE  TableInv'
<1> USE EventTableAssumption DEF TableInv, InsertOrSkip
<1>1. TableTypeOK'
  BY DEF TableTypeOK
<1>2. CASE row[k] = 0
  <2>1. /\ \A l \in Keys : row'[l] = IF l = k THEN drawn[t] ELSE row[l]
        /\ \A u \in Txns : drawn'[u] = IF u = t THEN 0 ELSE drawn[u]
        /\ \A l \in Keys : owner'[l] = IF l = k THEN t ELSE owner[l]
    BY <1>2 DEF TableTypeOK
  <2>2. NumbersAreUnique'
    BY <1>2, <2>1 DEF NumbersAreUnique
  <2>3. IdentityIsAhead'
    BY <1>2, <2>1 DEF IdentityIsAhead, TableTypeOK
  <2>4. OwnersHaveRows'
    BY <2>1 DEF OwnersHaveRows
  <2>5. QED
    BY <1>1, <2>2, <2>3, <2>4
<1>3. CASE row[k] # 0
  BY <1>1, <1>3 DEF NumbersAreUnique, IdentityIsAhead, OwnersHaveRows, TableTypeOK
<1>4. QED
  BY <1>2, <1>3

LEMMA CommitInv ==
    ASSUME TableInv, NEW t \in Txns, CommitTable(t)
    PROVE  TableInv'
BY DEF TableInv, CommitTable, TableTypeOK, NumbersAreUnique, IdentityIsAhead, OwnersHaveRows

LEMMA RollbackInv ==
    ASSUME TableInv, NEW t \in Txns, RollbackTable(t)
    PROVE  TableInv'
<1> USE EventTableAssumption DEF TableInv, RollbackTable
<1>1. /\ \A k \in Keys : row'[k] = IF owner[k] = t THEN 0 ELSE row[k]
      /\ \A k \in Keys : owner'[k] = IF owner[k] = t THEN NoTxn ELSE owner[k]
      /\ \A u \in Txns : drawn'[u] = IF u = t THEN 0 ELSE drawn[u]
  BY DEF TableTypeOK
<1>2. TableTypeOK'
  BY DEF TableTypeOK
<1>3. NumbersAreUnique'
  BY <1>1 DEF NumbersAreUnique, TableTypeOK
<1>4. IdentityIsAhead'
  BY <1>1 DEF IdentityIsAhead, TableTypeOK
<1>5. OwnersHaveRows'
  BY <1>1 DEF OwnersHaveRows
<1>6. QED
  BY <1>2, <1>3, <1>4, <1>5

LEMMA StillInv ==
    ASSUME TableInv, UNCHANGED tableVars
    PROVE  TableInv'
BY DEF TableInv, tableVars, TableTypeOK, NumbersAreUnique, IdentityIsAhead, OwnersHaveRows

\* What the modules built on the table do to it.
TableStep ==
    \/ \E t \in Txns :
          \/ DrawServerSeq(t)
          \/ \E k \in Keys : InsertOrSkip(t, k)
          \/ CommitTable(t)
          \/ RollbackTable(t)
    \/ UNCHANGED tableVars

LEMMA TableStepInv ==
    ASSUME TableInv, TableStep
    PROVE  TableInv'
BY DrawInv, InsertInv, CommitInv, RollbackInv, StillInv DEF TableStep

-----------------------------------------------------------------------------
(* The committed rows.                                                     *)

LEMMA CommittedLogIs ==
    \A e : e \in CommittedLog <=> \E k \in Committed : e = <<k, row[k]>>
BY DEF CommittedLog

\* Nothing changes a committed row or takes it away.
LEMMA CommittedStays ==
    ASSUME TableInv, TableStep, NEW k \in Committed
    PROVE  k \in Committed' /\ row'[k] = row[k]
<1> USE EventTableAssumption DEF Committed, TableInv, TableTypeOK
<1>1. ASSUME NEW t \in Txns, DrawServerSeq(t) PROVE k \in Committed' /\ row'[k] = row[k]
  BY <1>1 DEF DrawServerSeq
<1>2. ASSUME NEW t \in Txns, NEW l \in Keys, InsertOrSkip(t, l)
      PROVE  k \in Committed' /\ row'[k] = row[k]
  BY <1>2 DEF InsertOrSkip
<1>3. ASSUME NEW t \in Txns, CommitTable(t) PROVE k \in Committed' /\ row'[k] = row[k]
  BY <1>3 DEF CommitTable
<1>4. ASSUME NEW t \in Txns, RollbackTable(t) PROVE k \in Committed' /\ row'[k] = row[k]
  BY <1>4 DEF RollbackTable
<1>5. CASE UNCHANGED tableVars
  BY <1>5 DEF tableVars
<1>6. QED
  BY <1>1, <1>2, <1>3, <1>4, <1>5 DEF TableStep

\* A row that comes to be committed was there, under the same number, in a transaction.
LEMMA NewlyCommitted ==
    ASSUME TableInv, TableStep, NEW k \in Committed', k \notin Committed
    PROVE  row'[k] = row[k] /\ row[k] # 0 /\ owner[k] # NoTxn
<1> USE EventTableAssumption DEF Committed, TableInv, TableTypeOK
<1>1. ASSUME NEW t \in Txns, DrawServerSeq(t) PROVE FALSE
  BY <1>1 DEF DrawServerSeq
<1>2. ASSUME NEW t \in Txns, NEW l \in Keys, InsertOrSkip(t, l) PROVE FALSE
  BY <1>2 DEF InsertOrSkip
<1>3. ASSUME NEW t \in Txns, CommitTable(t)
      PROVE  row'[k] = row[k] /\ row[k] # 0 /\ owner[k] # NoTxn
  BY <1>3 DEF CommitTable
<1>4. ASSUME NEW t \in Txns, RollbackTable(t) PROVE FALSE
  BY <1>4 DEF RollbackTable
<1>5. ASSUME UNCHANGED tableVars PROVE FALSE
  BY <1>5 DEF tableVars
<1>6. QED
  BY <1>1, <1>2, <1>3, <1>4, <1>5 DEF TableStep

\* There are finitely many rows: their numbers are distinct and bounded.
LEMMA RowsAreFinite ==
    ASSUME TableInv, NEW S, S \subseteq {k \in Keys : row[k] # 0}
    PROVE  IsFiniteSet(S)
<1> DEFINE f == [k \in S |-> row[k]]
<1>1. IsFiniteSet(1..MaxServerSeq)
  BY FS_Interval, EventTableAssumption
<1>2. f \in Injection(S, 1..MaxServerSeq)
  <2>1. \A k \in S : row[k] \in 1..MaxServerSeq
    BY EventTableAssumption DEF TableInv, TableTypeOK
  <2>2. \A k, l \in S : row[k] = row[l] => k = l
    BY DEF TableInv, NumbersAreUnique
  <2>3. QED
    BY <2>1, <2>2 DEF Injection, IsInjective
<1> HIDE DEF f
<1>3. QED
  BY <1>1, <1>2, FS_Injection

\* The refinement mapping: the committed rows are the abstract log.
TableLog == INSTANCE EventLog WITH
    Identities <- Keys, Numbers <- 1..MaxServerSeq, log <- CommittedLog

LEMMA TableLogInit ==
    ASSUME TableInit
    PROVE  TableLog!Init
BY DEF TableInit, TableLog!Init, CommittedLog, Committed

\* Every step of the table appends a batch of new events under new numbers, or nothing.
LEMMA TableStepAppends ==
    ASSUME TableInv, TableStep
    PROVE  TableLog!Next
<1> DEFINE batch == CommittedLog' \ CommittedLog
<1>1. ASSUME NEW e \in batch
      PROVE  \E k \in Keys : e = <<k, row[k]>> /\ row[k] \in 1..MaxServerSeq /\ owner[k] # NoTxn
  <2>1. PICK k \in Committed' : e = <<k, row'[k]>>
    BY <1>1, CommittedLogIs DEF CommittedLog
  <2>2. k \notin Committed
    BY <1>1, <2>1, CommittedStays, CommittedLogIs
  <2>3. row'[k] = row[k] /\ row[k] # 0 /\ owner[k] # NoTxn
    BY <2>1, <2>2, NewlyCommitted
  <2>4. k \in Keys
    BY <2>1 DEF Committed
  <2>5. QED
    BY <2>1, <2>3, <2>4, EventTableAssumption DEF TableInv, TableTypeOK
<1>2. ASSUME NEW e \in CommittedLog
      PROVE  \E k \in Keys : e = <<k, row[k]>> /\ row[k] # 0 /\ owner[k] = NoTxn
  BY <1>2, CommittedLogIs DEF Committed
<1>3. \A k, l \in Keys : row[k] # 0 /\ row[k] = row[l] => k = l
  BY DEF TableInv, NumbersAreUnique
<1>4. CommittedLog \subseteq CommittedLog'
  <2>1. ASSUME NEW k \in Committed PROVE <<k, row[k]>> \in CommittedLog'
    <3>1. k \in Committed' /\ row'[k] = row[k]
      BY <2>1, CommittedStays
    <3>2. QED
      BY <3>1 DEF CommittedLog
  <2>2. QED
    BY <2>1, CommittedLogIs
<1>5. CommittedLog' = CommittedLog \cup batch
  BY <1>4
<1>6. batch \subseteq Keys \X (1..MaxServerSeq)
  BY <1>1
<1> HIDE DEF batch
<1>7. \A e, f \in batch : (e[1] = f[1]) <=> (e[2] = f[2])
  <2>1. ASSUME NEW e \in batch, NEW f \in batch PROVE (e[1] = f[1]) <=> (e[2] = f[2])
    <3>1. PICK k \in Keys : e = <<k, row[k]>> /\ row[k] # 0
      BY <1>1
    <3>2. PICK l \in Keys : f = <<l, row[l]>> /\ row[l] # 0
      BY <1>1
    <3>3. QED
      BY <1>3, <3>1, <3>2
  <2>2. QED
    BY <2>1
<1>8. \A e \in batch, f \in CommittedLog : e[1] # f[1] /\ e[2] # f[2]
  <2>1. ASSUME NEW e \in batch, NEW f \in CommittedLog PROVE e[1] # f[1] /\ e[2] # f[2]
    <3>1. PICK k \in Keys : e = <<k, row[k]>> /\ row[k] # 0 /\ owner[k] # NoTxn
      BY <1>1
    <3>2. PICK l \in Keys : f = <<l, row[l]>> /\ row[l] # 0 /\ owner[l] = NoTxn
      BY <1>2
    <3>3. QED
      BY <1>3, <3>1, <3>2
  <2>2. QED
    BY <2>1
<1>9. TableLog!Append(batch)
  BY <1>5, <1>6, <1>7, <1>8 DEF TableLog!Append
<1>10. QED
  BY <1>9 DEF TableLog!Next, batch

\* One server_seq per event, and one event per server_seq.
OneNumberEach ==
    /\ CommittedLog \subseteq Keys \X (1..MaxServerSeq)
    /\ \A e, f \in CommittedLog : (e[1] = f[1]) <=> (e[2] = f[2])

\* What every implementation of the log gives its readers: a committed event keeps its
\* server_seq for ever, and no other event ever has it (append; AD-01, DM-29).
THEOREM LogKeepsItsPromise ==
    TableLog!Spec => []OneNumberEach /\ [][CommittedLog \subseteq CommittedLog']_CommittedLog
<1>1. TableLog!Init => OneNumberEach
  BY DEF TableLog!Init, OneNumberEach
<1>2. OneNumberEach /\ [TableLog!Next]_CommittedLog =>
        OneNumberEach' /\ [CommittedLog \subseteq CommittedLog']_CommittedLog
  <2> SUFFICES ASSUME OneNumberEach, [TableLog!Next]_CommittedLog
               PROVE  OneNumberEach' /\ CommittedLog \subseteq CommittedLog'
    OBVIOUS
  <2> DEFINE batch == CommittedLog' \ CommittedLog
  <2>1. CASE TableLog!Next
    <3>1. /\ batch \subseteq Keys \X (1..MaxServerSeq)
          /\ \A e, f \in batch : (e[1] = f[1]) <=> (e[2] = f[2])
          /\ \A e \in batch, f \in CommittedLog : e[1] # f[1] /\ e[2] # f[2]
          /\ CommittedLog' = CommittedLog \cup batch
      BY <2>1 DEF TableLog!Next, TableLog!Append
    <3> HIDE DEF batch
    <3>2. PICK L, M : L = CommittedLog /\ M = CommittedLog'
      OBVIOUS
    <3>3. /\ M \subseteq Keys \X (1..MaxServerSeq)
          /\ \A e, f \in M : (e[1] = f[1]) <=> (e[2] = f[2])
      BY <3>1, <3>2 DEF OneNumberEach
    <3>4. Keys' = Keys
      BY DEF Keys
    <3>5. QED
      BY <3>1, <3>2, <3>3, <3>4 DEF OneNumberEach
  <2>2. CASE UNCHANGED CommittedLog
    BY <2>2 DEF OneNumberEach, Keys
  <2>3. QED
    BY <2>1, <2>2
<1>3. QED
  BY <1>1, <1>2, PTL DEF TableLog!Spec

-----------------------------------------------------------------------------
(* What a transaction reads.                                               *)

\* SELECT max(seq) of a device gives the seq of a row the transaction sees, and no row of
\* the device that it sees is above it; 0 where it sees none.
LEMMA HighestSeqIs ==
    ASSUME NEW t \in Txns, NEW d \in Devices
    PROVE  /\ HighestSeq(t, d) \in 0..MaxSeq
           /\ \A k \in Visible(t) : DeviceOf(k) = d => DeviceSeq(k) <= HighestSeq(t, d)
           /\ HighestSeq(t, d) # 0 =>
                 \E k \in Visible(t) : DeviceOf(k) = d /\ DeviceSeq(k) = HighestSeq(t, d)
<1> DEFINE S == {DeviceSeq(k) : k \in {v \in Visible(t) : DeviceOf(v) = d}}
           T == {0} \cup S
<1>1. MaxSeq \in Nat /\ T \subseteq 0..MaxSeq /\ T # {}
  BY EventTableAssumption DEF Visible, Keys, DeviceSeq
<1>2. HighestSeq(t, d) = Max(T)
  BY DEF HighestSeq
<1>3. Max(T) \in T /\ \A n \in T : n <= Max(T)
  <2> HIDE DEF T
  <2>1. QED
    BY <1>1, MaxOfBounded
<1>4. \A k \in Visible(t) : DeviceOf(k) = d => DeviceSeq(k) \in T
  OBVIOUS
<1>5. HighestSeq(t, d) # 0 => HighestSeq(t, d) \in S
  BY <1>2, <1>3
<1>6. QED
  BY <1>1, <1>2, <1>3, <1>4, <1>5

\* What a transaction sees stays there, unless it is the one that is rolled back.
LEMMA VisibleStays ==
    ASSUME TableInv, NEW t \in Txns, NEW u \in Txns, NEW k \in Visible(u),
           \/ DrawServerSeq(t)
           \/ \E l \in Keys : InsertOrSkip(t, l)
           \/ CommitTable(t)
           \/ RollbackTable(t) /\ t # u
           \/ UNCHANGED tableVars
    PROVE  k \in Visible(u)' /\ row'[k] = row[k]
<1> USE EventTableAssumption DEF Visible, TableInv, TableTypeOK
<1>1. CASE DrawServerSeq(t)
  BY <1>1 DEF DrawServerSeq
<1>2. ASSUME NEW l \in Keys, InsertOrSkip(t, l) PROVE k \in Visible(u)' /\ row'[k] = row[k]
  BY <1>2 DEF InsertOrSkip
<1>3. CASE CommitTable(t)
  BY <1>3 DEF CommitTable
<1>4. CASE RollbackTable(t) /\ t # u
  BY <1>4 DEF RollbackTable
<1>5. CASE UNCHANGED tableVars
  BY <1>5 DEF tableVars
<1>6. QED
  BY <1>1, <1>2, <1>3, <1>4, <1>5

\* A commit leaves committed what its transaction saw.
LEMMA CommitPublishes ==
    ASSUME TableInv, NEW t \in Txns, CommitTable(t), NEW k \in Visible(t)
    PROVE  k \in Committed' /\ row'[k] = row[k]
BY EventTableAssumption DEF CommitTable, Visible, Committed, TableInv, TableTypeOK

\* append returns the number of the row that is there when it ends.
LEMMA AppendReturnsRow ==
    ASSUME TableInv, NEW t \in Txns, NEW k \in Keys, InsertOrSkip(t, k)
    PROVE  k \in Visible(t)' /\ row'[k] = AppendResult(t, k)
BY EventTableAssumption
   DEF InsertOrSkip, Unlocked, AppendResult, Visible, TableInv, TableTypeOK
=============================================================================
