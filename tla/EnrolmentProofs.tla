-------------------------- MODULE EnrolmentProofs --------------------------
(***************************************************************************)
(* Proofs about Enrolment, and with it about CommandPost and               *)
(* ServerAuthoring, for every number of transactions, incidents, codes,    *)
(* devices and events: what the commander's requests and the enrolments    *)
(* leave in the log and in their own tables, however they overlap.  The    *)
(* first part is about author() alone, whatever the requests read before   *)
(* they have the server write; the second brings in what they read.        *)
(***************************************************************************)
EXTENDS Enrolment, EventTableProofs

-----------------------------------------------------------------------------
(* What the requests do to the author's state.                             *)

\* Before it has the server write, a request reads and inserts in tables of its own.
Preparing == {"held", "enrol", "device", "credential"}
Writing == {"numbered", "insert", "written"}

Begins(t) ==
    \E event, next :
        event # NoEvent /\ next \in Preparing \cup {"author"} /\ Begin(t, event, next)

Prepares(t) ==
    /\ pc[t] \in Preparing
    /\ \E next \in Preparing \cup {"author"} : pc' = [pc EXCEPT ![t] = next]
    /\ \E event : event # NoEvent /\ draft' = [draft EXCEPT ![t] = event]
    /\ UNCHANGED <<tableVars, content, seq, number, history>>

Commits(t) == \E others : CommitAuthored(t, others)

AuthorMove(t) ==
    Begins(t) \/ Prepares(t) \/ AuthorStep(t) \/ Commits(t) \/ FailAuthoring(t)

AuthorNext ==
    \/ \E t \in Txns : AuthorMove(t)
    \/ UNCHANGED <<tableVars, authorVars>>

-----------------------------------------------------------------------------
(* The inductive invariant.                                                *)

AuthorTypeOK ==
    /\ DOMAIN content = Keys
    /\ DOMAIN draft = Txns
    /\ pc \in [Txns -> Preparing \cup Writing \cup {"idle", "author"}]
    /\ seq \in [Txns -> 0..MaxSeq]
    /\ number \in [Txns -> Nat]
    /\ alone \in BOOLEAN

\* Where a transaction stands says what it has: an event, a number for it, and at the end a
\* row that it sees, of its own or of another event that took the seq.
AuthorFlow ==
    \A t \in Txns :
        /\ pc[t] # "idle" => draft[t] # NoEvent
        /\ drawn[t] # 0 <=> pc[t] = "insert"
        /\ pc[t] \in Writing => seq[t] \in 1..MaxSeq
        /\ pc[t] = "written" =>
              ServerKey(seq[t]) \in Visible(t) /\ row[ServerKey(seq[t])] = number[t]

\* A transaction has one row at most, which says what it was to write.
OwnRowIsTheDraft ==
    \A k \in Keys : owner[k] # NoTxn =>
        /\ pc[owner[k]] = "written"
        /\ k = ServerKey(seq[owner[k]])
        /\ content[k] = draft[owner[k]]

RowsHaveContent == \A k \in Keys : row[k] = 0 <=> content[k] = NoEvent

\* Below a row of the server every seq is taken, committed, and has a lower number.
ServerRowsAreDense ==
    \A n \in 1..MaxSeq, m \in 1..MaxSeq : m < n /\ row[ServerKey(n)] # 0 =>
        ServerKey(m) \in Committed /\ row[ServerKey(m)] < row[ServerKey(n)]

\* ... which a transaction that has computed a seq may rely on.
SeqsFit ==
    \A t \in Txns : pc[t] \in {"numbered", "insert"} =>
        \A m \in 1..MaxSeq : m < seq[t] =>
            /\ ServerKey(m) \in Committed
            /\ pc[t] = "insert" => row[ServerKey(m)] < drawn[t]

\* As long as no two requests were under way at once, the one that is has its seq for
\* itself, and a number above all others.
AloneIsAlone ==
    alone =>
        /\ \A t, u \in Txns : pc[t] # "idle" /\ pc[u] # "idle" => t = u
        /\ \A t \in Txns :
              /\ pc[t] \in {"numbered", "insert"} => row[ServerKey(seq[t])] = 0
              /\ pc[t] = "written" => owner[ServerKey(seq[t])] = t
              /\ drawn[t] # 0 => \A k \in Keys : row[k] < drawn[t]
              /\ pc[t] = "written" =>
                    \A k \in Keys : k # ServerKey(seq[t]) => row[k] < number[t]

AuthorInv ==
    /\ TableInv
    /\ AuthorTypeOK
    /\ AuthorFlow
    /\ OwnRowIsTheDraft
    /\ RowsHaveContent
    /\ ServerRowsAreDense
    /\ SeqsFit
    /\ AloneIsAlone
    /\ AnsweredAloneIsRecorded

LEMMA ServerKeyIs ==
    /\ \A n \in 1..MaxSeq : /\ ServerKey(n) \in Keys
                            /\ DeviceOf(ServerKey(n)) = Server /\ DeviceSeq(ServerKey(n)) = n
    /\ \A k \in Keys : DeviceOf(k) = Server => DeviceSeq(k) \in 1..MaxSeq /\ k = ServerKey(DeviceSeq(k))
    /\ \A m, n : ServerKey(m) = ServerKey(n) => m = n
BY AuthoringAssumption DEF ServerKey, Keys, DeviceOf, DeviceSeq

LEMMA AuthorStepsTable ==
    ASSUME AuthorInv, AuthorNext
    PROVE  TableStep
<1>1. ASSUME NEW t \in Txns, FinishAppend(t) PROVE TableStep
  <2>1. ServerKey(seq[t]) \in Keys
    BY <1>1, ServerKeyIs DEF FinishAppend, AuthorInv, AuthorFlow, Writing
  <2>2. QED
    BY <1>1, <2>1 DEF FinishAppend, TableStep
<1>2. ASSUME NEW t \in Txns, Begins(t) \/ Prepares(t) \/ ReadNextSeq(t) PROVE TableStep
  BY <1>2 DEF Begins, Begin, Prepares, ReadNextSeq, TableStep
<1>3. ASSUME NEW t \in Txns, StartAppend(t) PROVE TableStep
  BY <1>3 DEF StartAppend, TableStep
<1>4. ASSUME NEW t \in Txns, Commits(t) PROVE TableStep
  BY <1>4 DEF Commits, CommitAuthored, TableStep
<1>5. ASSUME NEW t \in Txns, FailAuthoring(t) PROVE TableStep
  BY <1>5 DEF FailAuthoring, TableStep
<1>6. CASE UNCHANGED <<tableVars, authorVars>>
  BY <1>6 DEF TableStep
<1>7. QED
  BY <1>1, <1>2, <1>3, <1>4, <1>5, <1>6 DEF AuthorNext, AuthorMove, AuthorStep

LEMMA AuthorInitial == AuthoringInit => AuthorInv
<1> SUFFICES ASSUME AuthoringInit PROVE AuthorInv
  OBVIOUS
<1>1. TableInv
  BY TableInitInv DEF AuthoringInit
<1>2. \A n \in 1..MaxSeq : row[ServerKey(n)] = 0
  BY ServerKeyIs DEF AuthoringInit, TableInit
<1>3. AuthorTypeOK /\ AuthorFlow /\ OwnRowIsTheDraft /\ RowsHaveContent
  BY EventTableAssumption DEF AuthoringInit, TableInit, AuthorTypeOK, AuthorFlow,
     OwnRowIsTheDraft, RowsHaveContent, Preparing, Writing
<1>4. ServerRowsAreDense /\ SeqsFit /\ AloneIsAlone /\ AnsweredAloneIsRecorded
  BY <1>2 DEF AuthoringInit, TableInit, ServerRowsAreDense, SeqsFit, AloneIsAlone,
     AnsweredAloneIsRecorded, AnsweredIsRecorded
<1>5. QED
  BY <1>1, <1>3, <1>4 DEF AuthorInv

\* What is committed keeps its content.
LEMMA ContentStays ==
    ASSUME AuthorInv, AuthorNext, NEW k \in Committed
    PROVE  k \in Committed' /\ row'[k] = row[k] /\ content'[k] = content[k]
<1>1. k \in Committed' /\ row'[k] = row[k]
  BY AuthorStepsTable, CommittedStays DEF AuthorInv
<1>2. k \in Keys /\ row[k] # 0 /\ owner[k] = NoTxn
  BY DEF Committed
<1>3. ASSUME NEW t \in Txns, AuthorMove(t) PROVE content'[k] = content[k]
  BY <1>2, <1>3, EventTableAssumption
     DEF AuthorMove, Begins, Begin, Prepares, AuthorStep, ReadNextSeq, StartAppend, FinishAppend,
         Commits, CommitAuthored, FailAuthoring, AuthorInv, AuthorTypeOK
<1>4. QED
  BY <1>1, <1>3 DEF AuthorNext, authorVars

-----------------------------------------------------------------------------
(* Each move preserves the invariant.                                      *)

\* A move that leaves the table alone and takes a transaction from reading to reading.
LEMMA BeforeWriting ==
    ASSUME AuthorInv, NEW t \in Txns, pc[t] \notin Writing,
           NEW next \in Preparing \cup {"author"}, pc' = [pc EXCEPT ![t] = next],
           NEW event, event # NoEvent, draft' = [draft EXCEPT ![t] = event],
           alone' \in BOOLEAN,
           alone' => alone /\ (pc[t] = "idle" => \A u \in Txns : pc[u] = "idle"),
           UNCHANGED <<tableVars, content, seq, number, answered>>
    PROVE  AuthorInv'
<1> USE DEF AuthorInv
<1>1. TableInv'
  BY StillInv
<1>2. /\ \A u \in Txns : u # t => pc'[u] = pc[u] /\ draft'[u] = draft[u]
      /\ pc'[t] = next /\ draft'[t] = event
      /\ pc'[t] \notin Writing /\ pc'[t] # "idle" /\ pc'[t] # "insert" /\ pc'[t] # "written"
      /\ UNCHANGED <<row, owner, drawn>>
  BY DEF AuthorTypeOK, Preparing, Writing, tableVars
<1>3. AuthorTypeOK'
  BY DEF AuthorTypeOK
<1>4. AuthorFlow'
  BY <1>2 DEF AuthorFlow, Visible, Writing
<1>5. OwnRowIsTheDraft'
  BY <1>2 DEF OwnRowIsTheDraft, TableInv, TableTypeOK, Writing
<1>6. RowsHaveContent' /\ ServerRowsAreDense'
  BY <1>2 DEF RowsHaveContent, ServerRowsAreDense, Committed
<1>7. SeqsFit'
  BY <1>2 DEF SeqsFit, Committed, Writing
<1>8. AloneIsAlone'
  BY <1>2 DEF AloneIsAlone, Writing, AuthorFlow
<1>9. AnsweredAloneIsRecorded'
  BY <1>2 DEF AnsweredAloneIsRecorded, AnsweredIsRecorded, Committed
<1>10. QED
  BY <1>1, <1>3, <1>4, <1>5, <1>6, <1>7, <1>8, <1>9

LEMMA BeginsInv ==
    ASSUME AuthorInv, NEW t \in Txns, Begins(t)
    PROVE  AuthorInv'
<1>1. PICK event, next :
        event # NoEvent /\ next \in Preparing \cup {"author"} /\ Begin(t, event, next)
  BY DEF Begins
<1>2. pc[t] = "idle" /\ pc[t] \notin Writing
  BY <1>1 DEF Begin, Writing
<1>3. alone' = (alone /\ \A u \in Txns : pc[u] = "idle")
  BY <1>1 DEF Begin
<1>4. QED
  BY <1>1, <1>2, <1>3, BeforeWriting DEF Begin

LEMMA PreparesInv ==
    ASSUME AuthorInv, NEW t \in Txns, Prepares(t)
    PROVE  AuthorInv'
<1>1. pc[t] \notin Writing /\ pc[t] # "idle"
  BY DEF Prepares, Preparing, Writing
<1>2. alone' = alone /\ answered' = answered /\ alone \in BOOLEAN
  BY DEF Prepares, history, AuthorInv, AuthorTypeOK
<1>3. QED
  BY <1>1, <1>2, BeforeWriting DEF Prepares

LEMMA ReadNextSeqInv ==
    ASSUME AuthorInv, NEW t \in Txns, ReadNextSeq(t)
    PROVE  AuthorInv'
<1> USE EventTableAssumption DEF AuthorInv
<1> DEFINE h == HighestSeq(t, Server)
           n == seq'[t]
<1>1. TableInv'
  BY StillInv DEF ReadNextSeq
<1>2. /\ h \in 0..MaxSeq
      /\ \A k \in Visible(t) : DeviceOf(k) = Server => DeviceSeq(k) <= h
      /\ h # 0 => \E k \in Visible(t) : DeviceOf(k) = Server /\ DeviceSeq(k) = h
  BY HighestSeqIs, AuthoringAssumption
<1>3. n = h + 1 /\ n \in 1..MaxSeq
  BY <1>2 DEF ReadNextSeq, NextSeq, AuthorTypeOK
<1>4. /\ \A u \in Txns : u # t => pc'[u] = pc[u] /\ seq'[u] = seq[u]
      /\ pc'[t] = "numbered" /\ pc[t] = "author"
      /\ UNCHANGED <<row, owner, drawn, content, draft, number, answered, alone>>
  BY DEF ReadNextSeq, AuthorTypeOK, tableVars, history
<1>5. \A k \in Keys : owner[k] # t
  BY <1>4 DEF OwnRowIsTheDraft
<1>6. \A m \in 1..MaxSeq : m < n => ServerKey(m) \in Committed
  <2>1. SUFFICES ASSUME NEW m \in 1..MaxSeq, m < n PROVE ServerKey(m) \in Committed
    OBVIOUS
  <2>2. h # 0 /\ h \in 1..MaxSeq
    BY <1>2, <1>3, <2>1
  <2>3. PICK k \in Visible(t) : DeviceOf(k) = Server /\ DeviceSeq(k) = h
    BY <1>2, <2>2
  <2>4. k = ServerKey(h) /\ k \in Committed /\ row[k] # 0
    BY <1>5, <2>3, ServerKeyIs DEF Visible, Committed
  <2>5. CASE m = h
    BY <2>4, <2>5
  <2>6. CASE m # h
    <3>1. m < h
      BY <1>2, <1>3, <2>1, <2>6
    <3>2. QED
      BY <2>2, <2>4, <3>1 DEF ServerRowsAreDense
  <2>7. QED
    BY <2>5, <2>6
<1>7. alone => row[ServerKey(n)] = 0
  <2>1. SUFFICES ASSUME alone, row[ServerKey(n)] # 0 PROVE FALSE
    OBVIOUS
  <2>2. ServerKey(n) \in Keys /\ DeviceOf(ServerKey(n)) = Server /\ DeviceSeq(ServerKey(n)) = n
    BY <1>3, ServerKeyIs
  <2>3. owner[ServerKey(n)] = NoTxn
    BY <1>4, <1>5, <2>1, <2>2 DEF OwnRowIsTheDraft, AloneIsAlone, TableInv, TableTypeOK
  <2>4. ServerKey(n) \in Visible(t)
    BY <2>1, <2>2, <2>3 DEF Visible
  <2>5. QED
    BY <1>2, <1>3, <2>2, <2>4
<1>8. AuthorTypeOK'
  BY <1>3 DEF ReadNextSeq, AuthorTypeOK, Preparing, Writing, history
<1> HIDE DEF n, h
<1>9. AuthorFlow'
  BY <1>3, <1>4 DEF AuthorFlow, Visible, Writing, n
<1>10. OwnRowIsTheDraft'
  BY <1>4, <1>5 DEF OwnRowIsTheDraft, TableInv, TableTypeOK
<1>11. RowsHaveContent' /\ ServerRowsAreDense'
  BY <1>4 DEF RowsHaveContent, ServerRowsAreDense, Committed
<1>12. SeqsFit'
  BY <1>4, <1>6 DEF SeqsFit, Committed, n
<1>13. AloneIsAlone'
  BY <1>4, <1>7 DEF AloneIsAlone, n, AuthorFlow
<1>14. AnsweredAloneIsRecorded'
  BY <1>4 DEF AnsweredAloneIsRecorded, AnsweredIsRecorded, Committed
<1>15. QED
  BY <1>1, <1>8, <1>9, <1>10, <1>11, <1>12, <1>13, <1>14

LEMMA StartAppendInv ==
    ASSUME AuthorInv, NEW t \in Txns, StartAppend(t)
    PROVE  AuthorInv'
<1> USE EventTableAssumption DEF AuthorInv
<1>1. TableInv'
  BY DrawInv DEF StartAppend
<1>2. /\ \A u \in Txns : u # t => pc'[u] = pc[u] /\ drawn'[u] = drawn[u]
      /\ pc'[t] = "insert" /\ pc[t] = "numbered"
      /\ drawn'[t] = identity + 1
      /\ UNCHANGED <<row, owner, content, draft, seq, number, answered, alone>>
  BY DEF StartAppend, DrawServerSeq, AuthorTypeOK, TableInv, TableTypeOK, history
<1>3. \A k \in Keys : row[k] < identity + 1 /\ identity \in Nat
  BY DEF TableInv, TableTypeOK, IdentityIsAhead
<1>4. AuthorTypeOK'
  BY DEF StartAppend, AuthorTypeOK, Writing, history
<1>5. AuthorFlow'
  BY <1>2, <1>3 DEF AuthorFlow, Visible, Writing, TableInv, TableTypeOK
<1>6. OwnRowIsTheDraft'
  BY <1>2 DEF OwnRowIsTheDraft, TableInv, TableTypeOK
<1>7. RowsHaveContent' /\ ServerRowsAreDense'
  BY <1>2 DEF RowsHaveContent, ServerRowsAreDense, Committed
<1>8. SeqsFit'
  <2>1. \A m \in 1..MaxSeq : ServerKey(m) \in Keys
    BY ServerKeyIs
  <2>2. QED
    BY <1>2, <1>3, <2>1 DEF SeqsFit, Committed
<1>9. AloneIsAlone'
  BY <1>2, <1>3 DEF AloneIsAlone
<1>10. AnsweredAloneIsRecorded'
  BY <1>2 DEF AnsweredAloneIsRecorded, AnsweredIsRecorded, Committed
<1>11. QED
  BY <1>1, <1>4, <1>5, <1>6, <1>7, <1>8, <1>9, <1>10

LEMMA FinishAppendInv ==
    ASSUME AuthorInv, NEW t \in Txns, FinishAppend(t)
    PROVE  AuthorInv'
<1> USE EventTableAssumption DEF AuthorInv
<1> DEFINE k == ServerKey(seq[t])
<1>1. pc[t] = "insert" /\ drawn[t] # 0 /\ seq[t] \in 1..MaxSeq /\ k \in Keys
  BY ServerKeyIs DEF FinishAppend, InsertOrSkip, AuthorFlow, Writing
<1>2. TableInv'
  BY <1>1, InsertInv DEF FinishAppend
<1>3. /\ \A u \in Txns : u # t => /\ pc'[u] = pc[u] /\ drawn'[u] = drawn[u]
                                  /\ number'[u] = number[u]
      /\ pc'[t] = "written" /\ drawn'[t] = 0 /\ number'[t] = AppendResult(t, k)
      /\ UNCHANGED <<draft, seq, answered, alone>>
  BY DEF FinishAppend, InsertOrSkip, AuthorTypeOK, TableInv, TableTypeOK, history
<1>4. /\ \A l \in Keys : l # k => /\ row'[l] = row[l] /\ owner'[l] = owner[l]
                                  /\ content'[l] = content[l]
      /\ row[k] = 0 => row'[k] = drawn[t] /\ owner'[k] = t /\ content'[k] = draft[t]
      /\ row[k] # 0 => row'[k] = row[k] /\ owner'[k] = owner[k] /\ content'[k] = content[k]
  BY <1>1 DEF FinishAppend, InsertOrSkip, AuthorTypeOK, TableInv, TableTypeOK
<1>5. k \in Visible(t)' /\ row'[k] = AppendResult(t, k)
  BY <1>1, AppendReturnsRow DEF FinishAppend
<1>6. AuthorTypeOK'
  BY <1>1 DEF FinishAppend, AuthorTypeOK, AppendResult, Writing, TableInv, TableTypeOK, history
<1>7. \A l \in Committed : l \in Committed' /\ row'[l] = row[l] /\ content'[l] = content[l]
  BY ContentStays DEF AuthorNext, AuthorMove, AuthorStep
<1>8. \A l \in Keys : owner[l] # t
  BY <1>1 DEF OwnRowIsTheDraft
<1> HIDE DEF k
<1>9. AuthorFlow'
  <2>1. ASSUME NEW u \in Txns, u # t, pc[u] = "written"
        PROVE  ServerKey(seq[u]) \in Visible(u)' /\ row'[ServerKey(seq[u])] = row[ServerKey(seq[u])]
    <3>1. ServerKey(seq[u]) \in Visible(u)
      BY <2>1 DEF AuthorFlow
    <3>2. QED
      BY <1>1, <3>1, VisibleStays DEF FinishAppend, k
  <2>2. QED
    BY <1>1, <1>3, <1>5, <2>1 DEF AuthorFlow, Writing, k
<1>10. OwnRowIsTheDraft'
  BY <1>1, <1>3, <1>4, <1>8 DEF OwnRowIsTheDraft, TableInv, TableTypeOK, k
<1>11. RowsHaveContent'
  BY <1>1, <1>4 DEF RowsHaveContent, AuthorFlow
<1>12. ServerRowsAreDense'
  <2>1. SUFFICES ASSUME NEW n \in 1..MaxSeq, NEW m \in 1..MaxSeq, m < n, row'[ServerKey(n)] # 0
                 PROVE  ServerKey(m) \in Committed' /\ row'[ServerKey(m)] < row'[ServerKey(n)]
    BY DEF ServerRowsAreDense
  <2>2. ServerKey(n) \in Keys
    BY ServerKeyIs
  <2>3. CASE row[ServerKey(n)] # 0
    BY <1>4, <1>7, <2>1, <2>2, <2>3 DEF ServerRowsAreDense
  <2>4. CASE row[ServerKey(n)] = 0
    <3>1. n = seq[t] /\ row'[ServerKey(n)] = drawn[t]
      BY <1>4, <2>1, <2>2, <2>4, ServerKeyIs DEF k
    <3>2. QED
      BY <1>1, <1>7, <2>1, <3>1 DEF SeqsFit
  <2>5. QED
    BY <2>3, <2>4
<1>13. SeqsFit'
  BY <1>3, <1>7 DEF SeqsFit
<1>14. AloneIsAlone'
  <2>1. SUFFICES ASSUME alone PROVE AloneIsAlone'
    BY <1>3 DEF AloneIsAlone
  <2>2. \A u \in Txns : u # t => pc[u] = "idle"
    BY <1>1, <2>1 DEF AloneIsAlone
  <2>3. row[k] = 0
    BY <1>1, <2>1 DEF AloneIsAlone, k
  <2>4. \A u \in Txns : drawn'[u] = 0
    BY <1>2, <1>3, <2>2 DEF AuthorFlow
  <2>5. number'[t] = drawn[t]
    BY <1>3, <2>3 DEF AppendResult
  <2>6. \A l \in Keys : l # k => row'[l] < number'[t]
    BY <1>1, <1>4, <2>1, <2>5 DEF AloneIsAlone
  <2>7. QED
    BY <1>3, <1>4, <2>2, <2>3, <2>4, <2>6 DEF AloneIsAlone, k
<1>15. AnsweredAloneIsRecorded'
  BY <1>3, <1>7 DEF AnsweredAloneIsRecorded, AnsweredIsRecorded
<1>16. QED
  BY <1>2, <1>6, <1>9, <1>10, <1>11, <1>12, <1>13, <1>14, <1>15

\* A transaction that ends leaves the others where they were.
LEMMA LeaveOthers ==
    ASSUME AuthorInv, NEW t \in Txns, Leave(t)
    PROVE  /\ \A u \in Txns : u # t => /\ pc'[u] = pc[u] /\ draft'[u] = draft[u]
                                       /\ seq'[u] = seq[u] /\ number'[u] = number[u]
           /\ pc'[t] = "idle" /\ "idle" \notin Writing
           /\ DOMAIN draft' = Txns
           /\ pc' \in [Txns -> Preparing \cup Writing \cup {"idle", "author"}]
           /\ seq' \in [Txns -> 0..MaxSeq]
           /\ number' \in [Txns -> Nat]
BY EventTableAssumption DEF Leave, AuthorInv, AuthorTypeOK, Writing

LEMMA CommitsInv ==
    ASSUME AuthorInv, NEW t \in Txns, Commits(t)
    PROVE  AuthorInv'
<1> USE EventTableAssumption DEF AuthorInv
<1>1. PICK others : CommitAuthored(t, others)
  BY DEF Commits
<1>2. TableInv'
  BY <1>1, CommitInv DEF CommitAuthored
<1>3. pc[t] = "written" /\ Leave(t) /\ UNCHANGED <<row, drawn, content, alone>>
  BY <1>1 DEF CommitAuthored, CommitTable
<1>4. \A k \in Keys : owner'[k] = IF owner[k] = t THEN NoTxn ELSE owner[k]
  BY <1>1 DEF CommitAuthored, CommitTable
<1>5. \A l \in Committed : l \in Committed' /\ row'[l] = row[l] /\ content'[l] = content[l]
  BY ContentStays DEF AuthorNext, AuthorMove
<1>6. AuthorTypeOK'
  BY <1>3, LeaveOthers DEF AuthorTypeOK
<1>7. AuthorFlow'
  <2>1. ASSUME NEW u \in Txns, u # t, NEW k \in Visible(u) PROVE k \in Visible(u)'
    BY <1>1, <2>1, VisibleStays DEF CommitAuthored
  <2>2. drawn[t] = 0
    BY <1>3 DEF AuthorFlow
  <2>3. QED
    BY <1>3, <2>1, <2>2, LeaveOthers DEF AuthorFlow, Writing
<1>8. OwnRowIsTheDraft'
  BY <1>3, <1>4, LeaveOthers DEF OwnRowIsTheDraft, TableInv, TableTypeOK
<1>9. RowsHaveContent'
  BY <1>3 DEF RowsHaveContent
<1>10. ServerRowsAreDense'
  BY <1>3, <1>5 DEF ServerRowsAreDense
<1>11. SeqsFit'
  BY <1>3, <1>5, LeaveOthers DEF SeqsFit
<1>12. AloneIsAlone'
  BY <1>3, LeaveOthers DEF AloneIsAlone, AuthorFlow
<1>13. AnsweredAloneIsRecorded'
  <2>1. SUFFICES ASSUME alone, NEW a \in answered'
                 PROVE  \E k \in Committed' : row'[k] = a.number /\ content'[k] = a.event
    BY <1>3 DEF AnsweredAloneIsRecorded, AnsweredIsRecorded
  <2>2. CASE a \in answered
    BY <1>5, <2>1, <2>2 DEF AnsweredAloneIsRecorded, AnsweredIsRecorded
  <2>3. CASE a \notin answered
    <3> DEFINE k == ServerKey(seq[t])
    <3>1. a = [event |-> draft[t], number |-> number[t], held |-> others]
      BY <1>1, <2>1, <2>3 DEF CommitAuthored
    <3>2. k \in Visible(t) /\ row[k] = number[t] /\ owner[k] = t
      BY <1>3, <2>1 DEF AuthorFlow, AloneIsAlone
    <3>3. k \in Committed' /\ content'[k] = draft[t]
      BY <1>3, <1>4, <3>2 DEF OwnRowIsTheDraft, Visible, Committed
    <3>4. QED
      BY <1>3, <3>1, <3>2, <3>3
  <2>4. QED
    BY <2>2, <2>3
<1>14. QED
  BY <1>2, <1>6, <1>7, <1>8, <1>9, <1>10, <1>11, <1>12, <1>13

LEMMA FailAuthoringInv ==
    ASSUME AuthorInv, NEW t \in Txns, FailAuthoring(t)
    PROVE  AuthorInv'
<1> USE EventTableAssumption DEF AuthorInv
<1>1. TableInv'
  BY RollbackInv DEF FailAuthoring
<1>2. Leave(t) /\ UNCHANGED <<answered, alone>>
  BY DEF FailAuthoring, history
<1>3. /\ \A k \in Keys : /\ row'[k] = IF owner[k] = t THEN 0 ELSE row[k]
                         /\ owner'[k] = IF owner[k] = t THEN NoTxn ELSE owner[k]
                         /\ content'[k] = IF owner[k] = t THEN NoEvent ELSE content[k]
      /\ \A u \in Txns : drawn'[u] = IF u = t THEN 0 ELSE drawn[u]
      /\ DOMAIN content' = Keys
  BY DEF FailAuthoring, RollbackTable, TableInv, TableTypeOK
<1>4. \A l \in Committed : l \in Committed' /\ row'[l] = row[l] /\ content'[l] = content[l]
  BY ContentStays DEF AuthorNext, AuthorMove
<1>5. AuthorTypeOK'
  BY <1>2, <1>3, LeaveOthers DEF AuthorTypeOK
<1>6. AuthorFlow'
  <2>1. ASSUME NEW u \in Txns, u # t, NEW k \in Visible(u)
        PROVE  k \in Visible(u)' /\ row'[k] = row[k]
    BY <2>1, VisibleStays DEF FailAuthoring
  <2>2. QED
    BY <1>2, <1>3, <2>1, LeaveOthers DEF AuthorFlow, Writing
<1>7. OwnRowIsTheDraft'
  BY <1>2, <1>3, LeaveOthers DEF OwnRowIsTheDraft, TableInv, TableTypeOK
<1>8. RowsHaveContent'
  BY <1>3 DEF RowsHaveContent
<1>9. ServerRowsAreDense'
  <2>1. \A n \in 1..MaxSeq : ServerKey(n) \in Keys
    BY ServerKeyIs
  <2>2. QED
    BY <1>3, <1>4, <2>1 DEF ServerRowsAreDense
<1>10. SeqsFit'
  BY <1>2, <1>3, <1>4, LeaveOthers DEF SeqsFit
<1>11. AloneIsAlone'
  BY <1>2, <1>3, LeaveOthers DEF AloneIsAlone, AuthorFlow, FailAuthoring
<1>12. AnsweredAloneIsRecorded'
  BY <1>2, <1>4 DEF AnsweredAloneIsRecorded, AnsweredIsRecorded
<1>13. QED
  BY <1>1, <1>5, <1>6, <1>7, <1>8, <1>9, <1>10, <1>11, <1>12

LEMMA AuthorInvStep ==
    ASSUME AuthorInv, AuthorNext
    PROVE  AuthorInv'
<1>1. CASE UNCHANGED <<tableVars, authorVars>>
  <2>1. TableInv'
    BY <1>1, StillInv DEF AuthorInv
  <2>2. QED
    BY <1>1, <2>1 DEF tableVars, authorVars, history, AuthorInv, AuthorTypeOK, AuthorFlow,
       OwnRowIsTheDraft, RowsHaveContent, ServerRowsAreDense, SeqsFit, AloneIsAlone,
       AnsweredAloneIsRecorded, AnsweredIsRecorded, Visible, Committed
<1>2. QED
  BY <1>1, BeginsInv, PreparesInv, ReadNextSeqInv, StartAppendInv, FinishAppendInv, CommitsInv,
     FailAuthoringInv DEF AuthorNext, AuthorMove, AuthorStep

-----------------------------------------------------------------------------
(* The server's seqs.                                                      *)

\* The committed rows of the server have the seqs 1 to their count, in the order of the
\* numbers: what is below a row of the server is there.
LEMMA SeqsFollowFromDensity ==
    ASSUME AuthorInv
    PROVE  ServerSeqsFollowTheLog
<1> USE DEF AuthorInv
<1> DEFINE S == {DeviceSeq(k) : k \in ServerRows}
<1>1. ServerRows \subseteq {k \in Keys : row[k] # 0}
  BY DEF ServerRows, Committed
<1>2. IsFiniteSet(ServerRows)
  BY <1>1, RowsAreFinite
<1>3. \A k \in ServerRows : DeviceSeq(k) \in 1..MaxSeq /\ k = ServerKey(DeviceSeq(k)) /\ row[k] # 0
  BY ServerKeyIs DEF ServerRows, Committed
<1>4. \A k, l \in ServerRows : DeviceSeq(k) < DeviceSeq(l) => row[k] < row[l]
  BY <1>3 DEF ServerRowsAreDense
<1>5. \A n \in S, m \in 1..MaxSeq : m < n => m \in S
  <2>1. SUFFICES ASSUME NEW k \in ServerRows, NEW m \in 1..MaxSeq, m < DeviceSeq(k)
                 PROVE  m \in S
    OBVIOUS
  <2>2. ServerKey(m) \in Committed
    BY <1>3, <2>1 DEF ServerRowsAreDense
  <2>3. QED
    BY <2>2, ServerKeyIs DEF ServerRows
<1>6. S \subseteq 1..MaxSeq /\ MaxSeq \in Nat
  BY <1>3, EventTableAssumption
<1>7. \E n \in Nat : S = 1..n
  <2> HIDE DEF S
  <2>1. QED
    BY <1>5, <1>6, NoGap
<1>8. PICK n \in Nat : S = 1..n
  BY <1>7
<1>9. Cardinality(ServerRows) = n
  <2> DEFINE f == [m \in 1..n |-> ServerKey(m)]
  <2>1. f \in Bijection(1..n, ServerRows)
    <3>1. \A m \in 1..n : ServerKey(m) \in ServerRows
      <4>1. SUFFICES ASSUME NEW m \in S PROVE ServerKey(m) \in ServerRows
        BY <1>8
      <4>2. QED
        BY <1>3, <4>1
    <3>2. \A k \in ServerRows : DeviceSeq(k) \in 1..n /\ f[DeviceSeq(k)] = k
      <4>1. SUFFICES ASSUME NEW k \in ServerRows PROVE DeviceSeq(k) \in 1..n /\ f[DeviceSeq(k)] = k
        OBVIOUS
      <4>2. DeviceSeq(k) \in 1..n
        BY <1>8
      <4>3. QED
        BY <1>3, <4>2
    <3>3. \A l, m \in 1..n : f[l] = f[m] => l = m
      BY ServerKeyIs
    <3>4. QED
      BY <3>1, <3>2, <3>3 DEF Bijection, Injection, IsInjective, Surjection
  <2>2. ExistsBijection(1..n, ServerRows)
    BY <2>1 DEF ExistsBijection
  <2>3. QED
    BY <2>2, FS_CountingElements
<1>10. QED
  BY <1>4, <1>8, <1>9 DEF ServerSeqsFollowTheLog

-----------------------------------------------------------------------------
(* Enrolment and CommandPost: the events that are written.                 *)

AllKinds == Kinds \cup {"enrol"}
AnyEvent == Events(AllKinds)

\* A request of this kind is under way.
Doing(t, kind) == pc[t] # "idle" /\ draft[t].kind = kind

ScopeOf(e) == [team |-> e.team, incident |-> e.incident]

\* The steps of author(), to the commit.
Served == {"author", "numbered", "insert", "written"}

-----------------------------------------------------------------------------
(* The inductive invariant, in parts.                                      *)

EventsAreTyped ==
    /\ content \in [Keys -> AnyEvent \cup {NoEvent}]
    /\ draft \in [Txns -> AnyEvent \cup {NoEvent}]

\* What a request reads before it writes goes with its kind.
KindsFitSteps ==
    \A t \in Txns :
        /\ pc[t] = "held" => draft[t].kind = "assign"
        /\ pc[t] \in {"enrol", "device", "credential"} => draft[t].kind = "enrol"

CommandTyped ==
    /\ lastId \in 0..MaxIncident
    /\ declared \in [Incidents -> {"none", "open", "committed"}]
    /\ declarer \in [Incidents -> Txns \cup {NoTxn}]
    /\ session \subseteq {Bootstrapped}
    /\ DOMAIN held = Txns

\* An open incident row is that of the transaction that declares the incident.
DeclarersDeclare ==
    /\ session # {} => declared[Bootstrapped] = "committed"
    /\ declared[Bootstrapped] # "open"
    /\ \A i \in Incidents :
          /\ declared[i] = "open" <=> declarer[i] # NoTxn
          /\ declared[i] # "none" => i <= lastId
          /\ declarer[i] # NoTxn =>
                Doing(declarer[i], "declare") /\ draft[declarer[i]].subject = i
    /\ \A t \in Txns : Doing(t, "declare") =>
          draft[t].subject \in Incidents /\ declarer[draft[t].subject] = t

CodeRows ==
    [state : {"none", "live", "expired"}, team : Teams \cup {NoTeam}, incident : Nat,
     uses : 0..MaxUses]

EnrolmentTyped ==
    /\ code \in [Codes -> CodeRows]
    /\ update \in [Codes -> [by : Txns \cup {NoTxn}, uses : 0..MaxUses]]
    /\ device \in [DeviceIds -> [state : {"none", "open", "committed"},
                                 by : Txns \cup {NoTxn}, code : Codes \cup {NoCode}]]
    /\ read \in [Txns -> [code : Codes \cup {NoCode}, uses : 0..(MaxUses - 1),
                           device : 0..MaxDevice]]

BaseInv ==
    /\ AuthorInv
    /\ EventsAreTyped
    /\ KindsFitSteps
    /\ CommandTyped
    /\ EnrolmentTyped

-----------------------------------------------------------------------------
(* The requests are moves of the author.                                   *)

LEMMA EventFacts ==
    /\ NoEvent \notin AnyEvent
    /\ \A w \in Wishes : /\ w \in AnyEvent /\ w.kind # "enrol" /\ w.cells \subseteq Cells
                         /\ w.team \in Teams \cup {NoTeam} /\ w.incident \in Nat
                         /\ w.subject \in Nat
    /\ \A e \in AnyEvent, n \in Nat :
          /\ [e EXCEPT !.subject = n] \in AnyEvent
          /\ [e EXCEPT !.incident = n] \in AnyEvent
          /\ [e EXCEPT !.subject = n].kind = e.kind
          /\ [e EXCEPT !.incident = n].kind = e.kind
    /\ 1 \in Incidents /\ Incidents \subseteq Nat /\ MaxIncident \in Nat
BY CommandAssumption DEF AnyEvent, AllKinds, Events, Kinds, Incidents

LEMMA DeclaredEvent ==
    ASSUME NEW w \in Wishes, NEW n \in Nat
    PROVE  LET e == [w EXCEPT !.subject = n, !.incident = n]
           IN  e \in AnyEvent /\ e.kind = w.kind /\ e.subject = n
<1> DEFINE v == [w EXCEPT !.subject = n]
           e == [v EXCEPT !.incident = n]
<1>1. w \in AnyEvent
  BY EventFacts
<1>2. v \in AnyEvent /\ v.kind = w.kind /\ v.subject = n
  BY <1>1 DEF AnyEvent, Events
<1> HIDE DEF v
<1>3. e \in AnyEvent /\ e.kind = w.kind /\ e.subject = n
  BY <1>2 DEF AnyEvent, Events
<1>4. QED
  BY <1>3 DEF v

LEMMA NextAssignmentIdIs ==
    ASSUME BaseInv, NEW t \in Txns
    PROVE  /\ NextAssignmentId(t) \in Nat
           /\ \A k \in OfKind(Visible(t), "assign") : content[k].subject < NextAssignmentId(t)
<1> DEFINE S == OfKind(Visible(t), "assign")
           T == {content[k].subject : k \in S}
           U == {0} \cup T
<1>1. S \subseteq {k \in Keys : row[k] # 0}
  BY DEF OfKind, Visible
<1>2. IsFiniteSet(S)
  BY <1>1, RowsAreFinite DEF BaseInv, AuthorInv
<1>3. IsFiniteSet(T)
  <2> DEFINE f == [k \in S |-> content[k].subject]
  <2> HIDE DEF S
  <2>1. f \in Surjection(S, T)
    BY DEF Surjection
  <2> HIDE DEF T, f
  <2>2. QED
    BY <1>2, <2>1, FS_Surjection
<1>4. \A k \in S : content[k].subject \in Nat
  BY DEF BaseInv, EventsAreTyped, OfKind, Visible, AnyEvent, Events
<1>5. U \subseteq Nat /\ U # {} /\ \A k \in S : content[k].subject \in U
  BY <1>4
<1>6. IsFiniteSet(U)
  <2> HIDE DEF T
  <2>1. IsFiniteSet({0})
    BY FS_Singleton
  <2>2. QED
    BY <1>3, <2>1, FS_Union
<1>7. NextAssignmentId(t) = 1 + Max(U)
  BY DEF NextAssignmentId
<1> HIDE DEF S, U
<1>8. Max(U) \in U /\ \A n \in U : n <= Max(U)
  BY <1>5, <1>6, MaxOfFinite
<1>9. Max(U) \in Nat
  BY <1>5, <1>8
<1>10. \A k \in S : content[k].subject < 1 + Max(U)
  <2>1. SUFFICES ASSUME NEW k \in S PROVE content[k].subject < 1 + Max(U)
    OBVIOUS
  <2>2. content[k].subject \in U /\ content[k].subject \in Nat /\ content[k].subject <= Max(U)
    BY <1>5, <1>8
  <2>3. QED
    BY <1>9, <2>2
<1>11. QED
  BY <1>7, <1>9, <1>10 DEF S

\* The row with the least number.
LEMMA FirstRow ==
    ASSUME BaseInv, NEW S, S \subseteq {k \in Keys : row[k] # 0}, S # {}
    PROVE  (CHOOSE k \in S : \A l \in S : row[k] <= row[l]) \in S
<1> DEFINE T == {row[k] : k \in S}
<1>1. \A k \in S : row[k] \in Nat
  BY EventTableAssumption DEF BaseInv, AuthorInv, TableInv, TableTypeOK
<1>2. T \subseteq Nat /\ T # {}
  BY <1>1
<1>3. \E m \in T : \A n \in T : m <= n
  <2> HIDE DEF T
  <2>1. QED
    BY <1>2, LeastNat
<1>4. \E k \in S : \A l \in S : row[k] <= row[l]
  BY <1>3
<1>5. QED
  BY <1>4

\* How the commander's requests begin.
LEMMA CommandBegins ==
    ASSUME BaseInv, NEW t \in Txns,
           \/ InsertIncident(t) \/ RegisterTeam(t) \/ GenerateGrid(t) \/ FindHolders(t)
           \/ RevokeAssignment(t)
    PROVE  \E e \in AnyEvent, next \in {"author", "held"} :
              /\ Begin(t, e, next)
              /\ e.kind # "enrol"
              /\ next = "held" <=> e.kind = "assign"
              /\ e.kind = "declare" <=> InsertIncident(t)
<1>1. CASE InsertIncident(t)
  <2>1. lastId' \in Nat /\ lastId' = lastId + 1
    <3>1. lastId' = lastId + 1
      BY <1>1, Zenon DEF InsertIncident
    <3>2. QED
      BY <3>1, CommandAssumption DEF BaseInv, CommandTyped
  <2>2. PICK w \in Wishes :
           /\ w.kind = "declare"
           /\ Begin(t, [w EXCEPT !.subject = lastId', !.incident = lastId'], "author")
    BY <1>1, Zenon DEF InsertIncident
  <2> DEFINE e == [w EXCEPT !.subject = lastId', !.incident = lastId']
  <2>3. e \in AnyEvent /\ e.kind = "declare"
    BY <2>1, <2>2, DeclaredEvent
  <2> HIDE DEF e
  <2>4. Begin(t, e, "author")
    BY <2>2 DEF e
  <2>5. QED
    BY <1>1, <2>3, <2>4
<1>2. ASSUME ~InsertIncident(t), NEW w \in AnyEvent, NEW next \in {"author", "held"}, Begin(t, w, next),
             w.kind \notin {"enrol", "declare"}, next = "held" <=> w.kind = "assign"
      PROVE  \E e \in AnyEvent, nxt \in {"author", "held"} :
                /\ Begin(t, e, nxt)
                /\ e.kind # "enrol"
                /\ nxt = "held" <=> e.kind = "assign"
                /\ e.kind = "declare" <=> InsertIncident(t)
  BY <1>2
<1>3. CASE RegisterTeam(t) /\ ~InsertIncident(t)
  BY <1>2, <1>3, EventFacts DEF RegisterTeam
<1>4. CASE GenerateGrid(t) /\ ~InsertIncident(t)
  BY <1>2, <1>4, EventFacts DEF GenerateGrid
<1>5. CASE FindHolders(t) /\ ~InsertIncident(t)
  BY <1>2, <1>5, EventFacts DEF FindHolders
<1>6. CASE RevokeAssignment(t) /\ ~InsertIncident(t)
  <2> DEFINE Issued(w) == {k \in OfKind(Visible(t), "assign") : content[k].subject = w.subject}
             First(w) == CHOOSE k \in Issued(w) : \A l \in Issued(w) : row[k] <= row[l]
  <2>1. PICK w \in Wishes : /\ w.kind = "revoke"
                            /\ Issued(w) # {}
                            /\ Begin(t, [w EXCEPT !.incident = content[First(w)].incident], "author")
    BY <1>6 DEF RevokeAssignment
  <2> DEFINE S == Issued(w)
             first == CHOOSE k \in S : \A l \in S : row[k] <= row[l]
             e == [w EXCEPT !.incident = content[first].incident]
  <2>2. S \subseteq {k \in Keys : row[k] # 0} /\ S # {}
    BY <2>1 DEF OfKind, Visible
  <2>3. \A k \in S : content[k].incident \in Nat
    BY DEF OfKind, Visible, BaseInv, EventsAreTyped, AnyEvent, Events
  <2>4. Begin(t, e, "author")
    BY <2>1
  <2> HIDE DEF S
  <2>5. first \in S
    BY <2>2, FirstRow
  <2>6. content[first].incident \in Nat
    BY <2>3, <2>5
  <2> HIDE DEF first
  <2>7. e \in AnyEvent /\ e.kind = "revoke"
    BY <2>1, <2>6, EventFacts
  <2> HIDE DEF e
  <2>8. QED
    BY <1>2, <1>6, <2>4, <2>7
<1>7. QED
  BY <1>1, <1>3, <1>4, <1>5, <1>6

LEMMA NextDeviceIdIs ==
    /\ NextDeviceId \in Nat \ {0}
    /\ \A d \in Enrolled : d < NextDeviceId
<1> DEFINE U == {0} \cup Enrolled
<1>1. MaxDevice \in Nat /\ U \subseteq 0..MaxDevice /\ U # {} /\ U \subseteq Nat
  BY EnrolmentAssumption DEF Enrolled, DeviceIds
<1>2. NextDeviceId = 1 + Max(U) /\ \A d \in Enrolled : d \in U
  BY DEF NextDeviceId
<1> HIDE DEF U
<1>3. Max(U) \in U /\ \A d \in U : d <= Max(U)
  BY <1>1, MaxOfBounded
<1>4. Max(U) \in Nat /\ \A d \in U : d \in Nat
  BY <1>1, <1>3
<1>5. QED
  BY <1>2, <1>3, <1>4

\* How an enrolment begins.
LEMMA EnrolBegins ==
    ASSUME BaseInv, NEW t \in Txns, ReadJoinCode(t)
    PROVE  \E e \in AnyEvent, c \in Codes :
              /\ Begin(t, e, "enrol")
              /\ e.kind = "enrol" /\ e.team = code[c].team /\ e.incident = code[c].incident
              /\ code[c].state = "live"
              /\ read' = [read EXCEPT ![t] = [@ EXCEPT !.code = c, !.uses = code[c].uses]]
              /\ code[c].uses \in 0..(MaxUses - 1)
<1>1. PICK c \in Codes :
         /\ code[c].state = "live" /\ code[c].uses < MaxUses
         /\ Begin(t, [kind |-> "enrol", subject |-> 0, incident |-> code[c].incident,
                       team |-> code[c].team, cells |-> {}], "enrol")
         /\ read' = [read EXCEPT ![t] = [@ EXCEPT !.code = c, !.uses = code[c].uses]]
  BY DEF ReadJoinCode
<1> DEFINE e == [kind |-> "enrol", subject |-> 0, incident |-> code[c].incident,
                 team |-> code[c].team, cells |-> {}]
<1>2. code[c] \in CodeRows
  BY DEF BaseInv, EnrolmentTyped
<1>3. e \in AnyEvent
  BY <1>2 DEF AnyEvent, AllKinds, Events, CodeRows
<1>4. code[c].uses \in 0..(MaxUses - 1)
  BY <1>1, <1>2, EnrolmentAssumption DEF CodeRows
<1>5. QED
  BY <1>1, <1>3, <1>4

\* A request that reads on, or inserts in a table of its own.
LEMMA ReadsOn ==
    ASSUME BaseInv, NEW t \in Txns,
           \/ ReadNextAssignmentId(t) \/ ReadNextDeviceId(t) \/ InsertCredential(t) \/ UpdateUses(t)
    PROVE  /\ Prepares(t)
           /\ \E e \in AnyEvent : draft' = [draft EXCEPT ![t] = e] /\ e.kind = draft[t].kind
           /\ pc'[t] \in {"device", "credential"} => draft[t].kind = "enrol"
           /\ pc'[t] \in {"device", "credential", "author"}
           /\ \A u \in Txns : u # t => pc'[u] = pc[u] /\ draft'[u] = draft[u]
<1>1. pc[t] \in {"held", "enrol", "device", "credential"} /\ pc[t] # "idle"
  BY DEF ReadNextAssignmentId, ReadNextDeviceId, InsertCredential, UpdateUses
<1>2. draft[t] \in AnyEvent /\ DOMAIN draft = Txns /\ DOMAIN pc = Txns
  BY <1>1 DEF BaseInv, EventsAreTyped, AuthorInv, AuthorFlow, AuthorTypeOK
<1>3. draft = [draft EXCEPT ![t] = draft[t]]
  BY <1>2 DEF BaseInv, EventsAreTyped
<1>4. CASE ReadNextAssignmentId(t)
  <2> DEFINE e == [draft[t] EXCEPT !.subject = NextAssignmentId(t)]
  <2>1. e \in AnyEvent /\ e.kind = draft[t].kind
    BY <1>2, NextAssignmentIdIs, EventFacts
  <2>2. draft' = [draft EXCEPT ![t] = e]
    BY <1>4, <1>2 DEF ReadNextAssignmentId
  <2>3. pc' = [pc EXCEPT ![t] = "author"] /\ UNCHANGED <<tableVars, content, seq, number, history>>
    BY <1>4 DEF ReadNextAssignmentId
  <2>4. e # NoEvent
    BY <2>1, EventFacts
  <2> HIDE DEF e
  <2>5. QED
    BY <1>1, <1>2, <2>1, <2>2, <2>3, <2>4 DEF Prepares, Preparing
<1>5. CASE ReadNextDeviceId(t)
  <2> DEFINE e == [draft[t] EXCEPT !.subject = NextDeviceId]
  <2>1. e \in AnyEvent /\ e.kind = draft[t].kind
    BY <1>2, NextDeviceIdIs, EventFacts
  <2>2. draft' = [draft EXCEPT ![t] = e]
    BY <1>5, <1>2 DEF ReadNextDeviceId
  <2>3. /\ pc[t] = "enrol" /\ pc' = [pc EXCEPT ![t] = "device"]
        /\ UNCHANGED <<tableVars, content, seq, number, history>>
    BY <1>5 DEF ReadNextDeviceId
  <2>4. e # NoEvent
    BY <2>1, EventFacts
  <2>5. draft[t].kind = "enrol"
    BY <2>3 DEF BaseInv, KindsFitSteps
  <2> HIDE DEF e
  <2>6. QED
    BY <1>1, <1>2, <2>1, <2>2, <2>3, <2>4, <2>5 DEF Prepares, Preparing
<1>6. ASSUME NEW next \in {"credential", "author"}, pc' = [pc EXCEPT ![t] = next],
             pc[t] \in {"device", "credential"},
             UNCHANGED <<tableVars, content, draft, seq, number, history>>
      PROVE  /\ Prepares(t)
             /\ \E e \in AnyEvent : draft' = [draft EXCEPT ![t] = e] /\ e.kind = draft[t].kind
             /\ pc'[t] \in {"device", "credential"} => draft[t].kind = "enrol"
             /\ pc'[t] \in {"device", "credential", "author"}
             /\ \A u \in Txns : u # t => pc'[u] = pc[u] /\ draft'[u] = draft[u]
  <2>1. draft[t] # NoEvent
    BY <1>2, EventFacts
  <2>2. draft' = [draft EXCEPT ![t] = draft[t]]
    BY <1>3, <1>6
  <2>3. draft[t].kind = "enrol"
    BY <1>6 DEF BaseInv, KindsFitSteps
  <2>4. QED
    BY <1>1, <1>2, <1>6, <2>1, <2>2, <2>3 DEF Prepares, Preparing
<1>7. CASE InsertCredential(t)
  BY <1>6, <1>7 DEF InsertCredential
<1>8. CASE UpdateUses(t)
  BY <1>6, <1>8 DEF UpdateUses
<1>9. QED
  BY <1>4, <1>5, <1>7, <1>8

LEMMA EnrolmentMoves ==
    ASSUME BaseInv, EnrolmentNext
    PROVE  AuthorNext
<1>1. CASE SessionStep \/ \E c \in Codes : MintJoinCode(c) \/ CodeExpires(c)
  BY <1>1 DEF SessionStep, Bootstrap, OpenSession, SessionExpires, MintJoinCode, CodeExpires,
     vars, AuthorNext
<1>2. ASSUME NEW t \in Txns, NEW e \in AnyEvent, NEW next \in Preparing \cup {"author"},
             Begin(t, e, next)
      PROVE  AuthorNext
  BY <1>2, EventFacts DEF AuthorNext, AuthorMove, Begins
<1>3. ASSUME NEW t \in Txns, CommandStep(t)
      PROVE  AuthorNext
  <2>1. CASE \/ InsertIncident(t) \/ RegisterTeam(t) \/ GenerateGrid(t) \/ FindHolders(t)
             \/ RevokeAssignment(t)
    BY <1>2, <2>1, CommandBegins DEF Preparing
  <2>2. CASE ReadNextAssignmentId(t)
    BY <2>2, ReadsOn DEF AuthorNext, AuthorMove
  <2>3. CASE AuthorStep(t)
    BY <2>3 DEF AuthorNext, AuthorMove
  <2>4. QED
    BY <1>3, <2>1, <2>2, <2>3 DEF CommandStep
<1>4. ASSUME NEW t \in Txns, EnrolStep(t)
      PROVE  AuthorNext
  <2>1. CASE ReadJoinCode(t)
    BY <1>2, <2>1, EnrolBegins DEF Preparing
  <2>2. CASE ~ReadJoinCode(t)
    BY <1>4, <2>2, ReadsOn DEF EnrolStep, AuthorNext, AuthorMove
  <2>3. QED
    BY <2>1, <2>2
<1>5. ASSUME NEW t \in Txns, CommitEnrolment(t) \/ FailEnrolment(t)
      PROVE  AuthorNext
  BY <1>5 DEF CommitEnrolment, FailEnrolment, Commit, Fail, AuthorNext, AuthorMove, Commits
<1>6. QED
  BY <1>1, <1>3, <1>4, <1>5 DEF EnrolmentNext

-----------------------------------------------------------------------------
(* The types.                                                              *)

\* What begins and reads on keeps the events typed.
LEMMA BeginKeepsEvents ==
    ASSUME BaseInv, NEW t \in Txns, NEW e \in AnyEvent,
           NEW next \in {"author", "held", "enrol"}, Begin(t, e, next),
           next = "held" => e.kind = "assign", next = "enrol" => e.kind = "enrol"
    PROVE  EventsAreTyped' /\ KindsFitSteps'
<1>1. /\ pc' = [pc EXCEPT ![t] = next] /\ draft' = [draft EXCEPT ![t] = e]
      /\ content' = content
  BY DEF Begin
<1>2. /\ \A u \in Txns : u # t => pc'[u] = pc[u] /\ draft'[u] = draft[u]
      /\ pc'[t] = next /\ draft'[t] = e
  BY <1>1 DEF BaseInv, EventsAreTyped, AuthorInv, AuthorTypeOK
<1>3. EventsAreTyped'
  BY <1>1 DEF BaseInv, EventsAreTyped
<1>4. KindsFitSteps'
  <2>1. ASSUME NEW u \in Txns, u # t
        PROVE  /\ pc'[u] = "held" => draft'[u].kind = "assign"
               /\ pc'[u] \in {"enrol", "device", "credential"} => draft'[u].kind = "enrol"
    BY <1>2, <2>1 DEF BaseInv, KindsFitSteps
  <2>2. QED
    BY <1>2, <2>1 DEF KindsFitSteps
<1>5. QED
  BY <1>3, <1>4

LEMMA ReadsOnKeepsEvents ==
    ASSUME BaseInv, NEW t \in Txns,
           \/ ReadNextAssignmentId(t) \/ ReadNextDeviceId(t) \/ InsertCredential(t) \/ UpdateUses(t)
    PROVE  EventsAreTyped' /\ KindsFitSteps'
<1>1. PICK e \in AnyEvent : draft' = [draft EXCEPT ![t] = e] /\ e.kind = draft[t].kind
  BY ReadsOn
<1>2. /\ pc'[t] \in {"device", "credential"} => draft[t].kind = "enrol"
      /\ pc'[t] \in {"device", "credential", "author"}
      /\ \A u \in Txns : u # t => pc'[u] = pc[u] /\ draft'[u] = draft[u]
      /\ content' = content
  BY ReadsOn DEF Prepares
<1>3. draft'[t].kind = draft[t].kind
  BY <1>1 DEF BaseInv, EventsAreTyped
<1>4. EventsAreTyped'
  BY <1>1, <1>2 DEF BaseInv, EventsAreTyped
<1>5. KindsFitSteps'
  BY <1>2, <1>3 DEF BaseInv, KindsFitSteps
<1>6. QED
  BY <1>4, <1>5

\* The author's own steps leave the drafts as they are and go from one step to the next.
LEMMA AuthorStepIs ==
    ASSUME BaseInv, NEW t \in Txns, AuthorStep(t)
    PROVE  /\ pc[t] \in Served /\ pc'[t] \in Served
           /\ \A u \in Txns : u # t => pc'[u] = pc[u]
           /\ draft' = draft /\ alone' = alone /\ answered' = answered
           /\ \A k \in Keys :
                 \/ row'[k] = row[k] /\ owner'[k] = owner[k] /\ content'[k] = content[k]
                 \/ /\ pc[t] = "insert" /\ pc'[t] = "written" /\ k = ServerKey(seq[t])
                    /\ row[k] = 0 /\ row'[k] = drawn[t] /\ drawn[t] # 0
                    /\ owner'[k] = t /\ content'[k] = draft[t]
           /\ DOMAIN content' = Keys
<1> USE DEF BaseInv, AuthorInv, AuthorTypeOK, TableInv, TableTypeOK
<1>1. CASE ReadNextSeq(t)
  BY <1>1 DEF ReadNextSeq, Served, tableVars, history
<1>2. CASE StartAppend(t)
  BY <1>2 DEF StartAppend, DrawServerSeq, Served, history
<1>3. CASE FinishAppend(t)
  <2>1. /\ pc[t] = "insert" /\ pc' = [pc EXCEPT ![t] = "written"]
        /\ UNCHANGED <<draft, seq, answered, alone>>
        /\ content' = [content EXCEPT ![ServerKey(seq[t])] =
               IF row[ServerKey(seq[t])] = 0 THEN draft[t] ELSE @]
        /\ drawn[t] # 0
        /\ IF row[ServerKey(seq[t])] = 0
              THEN /\ row' = [row EXCEPT ![ServerKey(seq[t])] = drawn[t]]
                   /\ owner' = [owner EXCEPT ![ServerKey(seq[t])] = t]
              ELSE UNCHANGED <<row, owner>>
    BY <1>3 DEF FinishAppend, InsertOrSkip, history
  <2> HIDE DEF ServerKey
  <2>2. QED
    BY <2>1 DEF Served
<1>4. QED
  BY <1>1, <1>2, <1>3 DEF AuthorStep

LEMMA AuthorStepKeepsEvents ==
    ASSUME BaseInv, NEW t \in Txns, AuthorStep(t)
    PROVE  EventsAreTyped' /\ KindsFitSteps'
<1>1. draft[t] \in AnyEvent \cup {NoEvent}
  BY DEF BaseInv, EventsAreTyped
<1>2. \A k \in Keys : content'[k] \in AnyEvent \cup {NoEvent}
  BY <1>1, AuthorStepIs DEF BaseInv, EventsAreTyped
<1>3. content' \in [Keys -> AnyEvent \cup {NoEvent}]
  <2>1. content' = [k \in Keys |-> content'[k]]
    <3>1. CASE FinishAppend(t)
      BY <3>1 DEF FinishAppend, BaseInv, EventsAreTyped
    <3>2. CASE ReadNextSeq(t) \/ StartAppend(t)
      BY <3>2 DEF ReadNextSeq, StartAppend, BaseInv, EventsAreTyped
    <3>3. QED
      BY <3>1, <3>2 DEF AuthorStep
  <2>2. QED
    BY <1>2, <2>1
<1>4. draft' \in [Txns -> AnyEvent \cup {NoEvent}]
  BY AuthorStepIs DEF BaseInv, EventsAreTyped
<1>5. KindsFitSteps'
  BY AuthorStepIs DEF BaseInv, KindsFitSteps, Served
<1>6. QED
  BY <1>3, <1>4, <1>5 DEF EventsAreTyped

LEMMA EndKeepsEvents ==
    ASSUME BaseInv, NEW t \in Txns, Commits(t) \/ FailAuthoring(t)
    PROVE  EventsAreTyped' /\ KindsFitSteps'
<1>1. draft' = [draft EXCEPT ![t] = NoEvent] /\ pc' = [pc EXCEPT ![t] = "idle"]
  BY DEF Commits, CommitAuthored, FailAuthoring, Leave
<1>2. EventsAreTyped'
  BY <1>1 DEF Commits, CommitAuthored, FailAuthoring, BaseInv, EventsAreTyped
<1>3. KindsFitSteps'
  BY <1>1 DEF BaseInv, EventsAreTyped, AuthorInv, AuthorTypeOK, KindsFitSteps
<1>4. QED
  BY <1>2, <1>3

LEMMA EventsStep ==
    ASSUME BaseInv, EnrolmentNext
    PROVE  EventsAreTyped' /\ KindsFitSteps'
<1>1. CASE SessionStep \/ \E c \in Codes : MintJoinCode(c) \/ CodeExpires(c)
  BY <1>1 DEF SessionStep, Bootstrap, OpenSession, SessionExpires, MintJoinCode, CodeExpires,
     vars, authorVars, BaseInv, EventsAreTyped, KindsFitSteps
<1>2. ASSUME NEW t \in Txns, CommandStep(t)
      PROVE  EventsAreTyped' /\ KindsFitSteps'
  <2>1. CASE \/ InsertIncident(t) \/ RegisterTeam(t) \/ GenerateGrid(t) \/ FindHolders(t)
             \/ RevokeAssignment(t)
    BY <2>1, CommandBegins, BeginKeepsEvents
  <2>2. CASE ReadNextAssignmentId(t)
    BY <2>2, ReadsOnKeepsEvents
  <2>3. CASE AuthorStep(t)
    BY <2>3, AuthorStepKeepsEvents
  <2>4. QED
    BY <1>2, <2>1, <2>2, <2>3 DEF CommandStep
<1>3. ASSUME NEW t \in Txns, EnrolStep(t)
      PROVE  EventsAreTyped' /\ KindsFitSteps'
  <2>1. CASE ReadJoinCode(t)
    BY <2>1, EnrolBegins, BeginKeepsEvents
  <2>2. CASE ~ReadJoinCode(t)
    BY <1>3, <2>2, ReadsOnKeepsEvents DEF EnrolStep
  <2>3. QED
    BY <2>1, <2>2
<1>4. ASSUME NEW t \in Txns, CommitEnrolment(t) \/ FailEnrolment(t)
      PROVE  EventsAreTyped' /\ KindsFitSteps'
  BY <1>4, EndKeepsEvents DEF CommitEnrolment, FailEnrolment, Commit, Fail, Commits
<1>5. QED
  BY <1>1, <1>2, <1>3, <1>4 DEF EnrolmentNext

LEMMA InsertsIncident ==
    ASSUME BaseInv, NEW t \in Txns, InsertIncident(t)
    PROVE  /\ session # {} /\ lastId < MaxIncident
           /\ lastId' = lastId + 1 /\ lastId' \in Incidents
           /\ declared' = [declared EXCEPT ![lastId'] = "open"]
           /\ declarer' = [declarer EXCEPT ![lastId'] = t]
           /\ \E e \in AnyEvent :
                 Begin(t, e, "author") /\ e.kind = "declare" /\ e.subject = lastId'
           /\ UNCHANGED <<session, held>>
<1>1. /\ session # {} /\ lastId < MaxIncident
      /\ lastId' = lastId + 1
      /\ declared' = [declared EXCEPT ![lastId'] = "open"]
      /\ declarer' = [declarer EXCEPT ![lastId'] = t]
      /\ UNCHANGED <<session, held>>
  BY Zenon DEF InsertIncident, Commander
<1>2. lastId' \in Nat /\ lastId' \in Incidents
  BY <1>1, CommandAssumption DEF BaseInv, CommandTyped, Incidents
<1>3. PICK w \in Wishes :
         /\ w.kind = "declare"
         /\ Begin(t, [w EXCEPT !.subject = lastId', !.incident = lastId'], "author")
  BY Zenon DEF InsertIncident
<1> DEFINE e == [w EXCEPT !.subject = lastId', !.incident = lastId']
<1>4. e \in AnyEvent /\ e.kind = "declare" /\ e.subject = lastId'
  BY <1>2, <1>3, DeclaredEvent
<1> HIDE DEF e
<1>5. Begin(t, e, "author")
  BY <1>3 DEF e
<1>6. QED
  BY <1>1, <1>2, <1>4, <1>5

\* The requests that leave the incident table alone.
LEMMA IncidentsStay ==
    ASSUME BaseInv, NEW t \in Txns, CommandStep(t), ~InsertIncident(t)
    PROVE  UNCHANGED incidentVars /\ DOMAIN held' = Txns
BY DEF CommandStep, RegisterTeam, GenerateGrid, FindHolders, ReadNextAssignmentId,
   RevokeAssignment, commandVars, incidentVars, BaseInv, CommandTyped

LEMMA CommandTypedStep ==
    ASSUME BaseInv, EnrolmentNext
    PROVE  CommandTyped'
<1> USE DEF BaseInv, CommandTyped
<1>1. CASE SessionStep
  <2>1. CASE Bootstrap
    <3>1. Bootstrapped \in Incidents /\ Bootstrapped \in 0..MaxIncident
      BY EventFacts, CommandAssumption DEF Bootstrapped
    <3>2. QED
      BY <2>1, <3>1 DEF Bootstrap
  <2>2. CASE OpenSession \/ SessionExpires
    BY <2>2 DEF OpenSession, SessionExpires
  <2>3. QED
    BY <1>1, <2>1, <2>2 DEF SessionStep
<1>2. CASE \E c \in Codes : MintJoinCode(c) \/ CodeExpires(c)
  BY <1>2 DEF MintJoinCode, CodeExpires, vars, commandVars, incidentVars
<1>3. ASSUME NEW t \in Txns, CommandStep(t) PROVE CommandTyped'
  <2>1. CASE InsertIncident(t)
    <3>1. lastId' \in 0..MaxIncident
      BY <2>1, InsertsIncident, CommandAssumption DEF Incidents
    <3>2. QED
      BY <2>1, <3>1, InsertsIncident
  <2>2. CASE ~InsertIncident(t)
    BY <1>3, <2>2, IncidentsStay DEF incidentVars
  <2>3. QED
    BY <2>1, <2>2
<1>4. ASSUME NEW t \in Txns, EnrolStep(t) PROVE CommandTyped'
  BY <1>4 DEF EnrolStep, ReadJoinCode, ReadNextDeviceId, InsertCredential, UpdateUses,
     commandVars, incidentVars
<1>5. ASSUME NEW t \in Txns, NEW fate \in {"none", "committed"}, CloseIncident(t, fate)
      PROVE  CommandTyped'
  BY <1>5 DEF CloseIncident
<1>6. ASSUME NEW t \in Txns, CommitEnrolment(t) \/ FailEnrolment(t) PROVE CommandTyped'
  BY <1>5, <1>6 DEF CommitEnrolment, FailEnrolment, Commit, Fail
<1>7. QED
  BY <1>1, <1>2, <1>3, <1>4, <1>6 DEF EnrolmentNext

\* The rows of the join codes that the actions write.
LEMMA CodeRowsAre ==
    ASSUME NEW r \in CodeRows
    PROVE  /\ [r EXCEPT !.state = "expired"] \in CodeRows
           /\ \A n \in 0..MaxUses : [r EXCEPT !.uses = n] \in CodeRows
           /\ \A team \in Teams, i \in Nat :
                 [r EXCEPT !.state = "live", !.team = team, !.incident = i] \in CodeRows
<1>1. r = [state |-> r.state, team |-> r.team, incident |-> r.incident, uses |-> r.uses]
  BY DEF CodeRows
<1>2. [r EXCEPT !.state = "expired"]
         = [state |-> "expired", team |-> r.team, incident |-> r.incident, uses |-> r.uses]
  BY DEF CodeRows
<1>3. \A n \in 0..MaxUses : [r EXCEPT !.uses = n]
         = [state |-> r.state, team |-> r.team, incident |-> r.incident, uses |-> n]
  BY DEF CodeRows
<1>4. ASSUME NEW team \in Teams, NEW i \in Nat
      PROVE  [r EXCEPT !.state = "live", !.team = team, !.incident = i] \in CodeRows
  <2> DEFINE u == [r EXCEPT !.state = "live"]
             v == [u EXCEPT !.team = team]
             w == [v EXCEPT !.incident = i]
  <2>1. u \in CodeRows
    BY DEF CodeRows
  <2> HIDE DEF u
  <2>2. v \in CodeRows
    BY <2>1 DEF CodeRows
  <2> HIDE DEF v
  <2>3. w \in CodeRows
    BY <2>2 DEF CodeRows
  <2>4. QED
    BY <2>3 DEF u, v
<1>5. QED
  BY <1>2, <1>3, <1>4 DEF CodeRows

LEMMA EnrolmentTypedStep ==
    ASSUME BaseInv, EnrolmentNext
    PROVE  EnrolmentTyped'
<1> USE EnrolmentAssumption DEF BaseInv, EnrolmentTyped
<1>1. CASE UNCHANGED enrolVars
  BY <1>1 DEF enrolVars
<1>2. ASSUME NEW c \in Codes, MintJoinCode(c) PROVE EnrolmentTyped'
  <2>1. PICK i \in session, team \in Teams :
          code' = [code EXCEPT ![c] = [@ EXCEPT !.state = "live", !.team = team, !.incident = i]]
    BY <1>2 DEF MintJoinCode
  <2>2. i \in Nat
    BY DEF CommandTyped, Bootstrapped
  <2>3. code' \in [Codes -> CodeRows]
    BY <2>1, <2>2, CodeRowsAre
  <2>4. QED
    BY <1>2, <2>3 DEF MintJoinCode
<1>3. ASSUME NEW c \in Codes, CodeExpires(c) PROVE EnrolmentTyped'
  <2>1. code' = [code EXCEPT ![c] = [code[c] EXCEPT !.state = "expired"]]
    BY <1>3 DEF CodeExpires
  <2>2. code' \in [Codes -> CodeRows]
    BY <2>1, CodeRowsAre
  <2>3. QED
    BY <1>3, <2>2 DEF CodeExpires
<1>4. ASSUME NEW t \in Txns, ReadJoinCode(t) PROVE EnrolmentTyped'
  <2>1. PICK c \in Codes :
          /\ read' = [read EXCEPT ![t] = [@ EXCEPT !.code = c, !.uses = code[c].uses]]
          /\ code[c].uses \in 0..(MaxUses - 1)
    BY <1>4, EnrolBegins
  <2>2. UNCHANGED <<code, update, device>>
    BY <1>4 DEF ReadJoinCode
  <2>3. QED
    BY <2>1, <2>2
<1>5. ASSUME NEW t \in Txns, ReadNextDeviceId(t) PROVE EnrolmentTyped'
  <2>1. NextDeviceId \in 0..MaxDevice
    BY <1>5, NextDeviceIdIs DEF ReadNextDeviceId
  <2>2. QED
    BY <1>5, <2>1 DEF ReadNextDeviceId
<1>6. ASSUME NEW t \in Txns, InsertCredential(t) PROVE EnrolmentTyped'
  BY <1>6 DEF InsertCredential
<1>7. ASSUME NEW t \in Txns, UpdateUses(t) PROVE EnrolmentTyped'
  <2>1. read[t].uses + 1 \in 0..MaxUses
    OBVIOUS
  <2>2. QED
    BY <1>7, <2>1 DEF UpdateUses
<1>8. ASSUME NEW t \in Txns, Release(t)
      PROVE  /\ update' \in [Codes -> [by : Txns \cup {NoTxn}, uses : 0..MaxUses]]
             /\ read' \in [Txns -> [code : Codes \cup {NoCode}, uses : 0..(MaxUses - 1),
                                    device : 0..MaxDevice]]
  <2>1. NothingRead \in [code : Codes \cup {NoCode}, uses : 0..(MaxUses - 1), device : 0..MaxDevice]
    BY DEF NothingRead
  <2>2. NoUpdate \in [by : Txns \cup {NoTxn}, uses : 0..MaxUses]
    BY DEF NoUpdate
  <2>3. QED
    BY <1>8, <2>1, <2>2 DEF Release
<1>9. ASSUME NEW t \in Txns, CommitEnrolment(t) PROVE EnrolmentTyped'
  <2>1. code' = [c \in Codes |-> IF update[c].by = t
           THEN [code[c] EXCEPT !.uses = update[c].uses] ELSE code[c]]
    BY <1>9 DEF CommitEnrolment
  <2>2. \A c \in Codes : code[c] \in CodeRows /\ update[c].uses \in 0..MaxUses
    OBVIOUS
  <2>3. code' \in [Codes -> CodeRows]
    BY <2>1, <2>2, CodeRowsAre
  <2>4. device' = [d \in DeviceIds |-> IF device[d].by = t
           THEN [device[d] EXCEPT !.state = "committed", !.by = NoTxn] ELSE device[d]]
    BY <1>9 DEF CommitEnrolment
  <2>5. device' \in [DeviceIds -> [state : {"none", "open", "committed"},
                                   by : Txns \cup {NoTxn}, code : Codes \cup {NoCode}]]
    BY <2>4
  <2>6. QED
    BY <1>8, <1>9, <2>3, <2>5 DEF CommitEnrolment
<1>10. ASSUME NEW t \in Txns, FailEnrolment(t) PROVE EnrolmentTyped'
  <2>1. NoDevice \in [state : {"none", "open", "committed"},
                      by : Txns \cup {NoTxn}, code : Codes \cup {NoCode}]
    BY DEF NoDevice
  <2>2. QED
    BY <1>8, <1>10, <2>1 DEF FailEnrolment
<1>11. QED
  BY <1>1, <1>2, <1>3, <1>4, <1>5, <1>6, <1>7, <1>9, <1>10 DEF EnrolmentNext, EnrolStep

LEMMA BaseInitial == EnrolmentInit => BaseInv
<1> SUFFICES ASSUME EnrolmentInit PROVE BaseInv
  OBVIOUS
<1>1. AuthorInv
  BY AuthorInitial DEF EnrolmentInit, CommandInit
<1>2. EventsAreTyped /\ KindsFitSteps
  BY DEF EnrolmentInit, CommandInit, AuthoringInit, EventsAreTyped, KindsFitSteps
<1>3. CommandTyped
  BY CommandAssumption DEF EnrolmentInit, CommandInit, CommandTyped
<1>4. EnrolmentTyped
  BY EnrolmentAssumption
     DEF EnrolmentInit, EnrolmentTyped, CodeRows, NoUpdate, NoDevice, NothingRead
<1>5. QED
  BY <1>1, <1>2, <1>3, <1>4 DEF BaseInv

LEMMA BaseStep ==
    ASSUME BaseInv, EnrolmentNext
    PROVE  BaseInv'
<1>1. AuthorInv'
  BY EnrolmentMoves, AuthorInvStep DEF BaseInv
<1>2. QED
  BY <1>1, EventsStep, CommandTypedStep, EnrolmentTypedStep DEF BaseInv

-----------------------------------------------------------------------------
(* What a step does to the transactions.                                   *)

\* A request that begins: its transaction was idle, and is the only one under way if the
\* requests are to count as alone.
LEMMA BeginIs ==
    ASSUME BaseInv, NEW t \in Txns, NEW e, NEW next, Begin(t, e, next)
    PROVE  /\ pc[t] = "idle" /\ pc'[t] = next /\ draft'[t] = e
           /\ \A u \in Txns : u # t => pc'[u] = pc[u] /\ draft'[u] = draft[u]
           /\ alone' => alone /\ \A u \in Txns : pc[u] = "idle"
           /\ UNCHANGED <<row, owner, drawn, content, seq, number, answered>>
BY DEF Begin, BaseInv, EventsAreTyped, AuthorInv, AuthorTypeOK, tableVars

LEMMA ReadsOnIs ==
    ASSUME BaseInv, NEW t \in Txns,
           \/ ReadNextAssignmentId(t) \/ ReadNextDeviceId(t) \/ InsertCredential(t) \/ UpdateUses(t)
    PROVE  /\ pc[t] \in {"held", "enrol", "device", "credential"}
           /\ pc'[t] \in {"device", "credential", "author"}
           /\ draft'[t].kind = draft[t].kind
           /\ draft[t].kind \in {"assign", "enrol"}
           /\ \A u \in Txns : u # t => pc'[u] = pc[u] /\ draft'[u] = draft[u]
           /\ UNCHANGED <<row, owner, drawn, content, seq, number, answered, alone>>
<1>1. /\ Prepares(t)
      /\ pc'[t] \in {"device", "credential", "author"}
      /\ \A u \in Txns : u # t => pc'[u] = pc[u] /\ draft'[u] = draft[u]
  BY ReadsOn
<1>2. PICK e \in AnyEvent : draft' = [draft EXCEPT ![t] = e] /\ e.kind = draft[t].kind
  BY ReadsOn
<1>3. draft'[t].kind = draft[t].kind
  BY <1>2 DEF BaseInv, EventsAreTyped
<1>4. pc[t] \in {"held", "enrol", "device", "credential"}
  BY <1>1 DEF Prepares, Preparing
<1>5. draft[t].kind \in {"assign", "enrol"}
  BY <1>4 DEF BaseInv, KindsFitSteps
<1>6. UNCHANGED <<row, owner, drawn, content, seq, number, answered, alone>>
  BY <1>1 DEF Prepares, tableVars, history
<1>7. QED
  BY <1>1, <1>3, <1>4, <1>5, <1>6

\* The end of a request, by commit or not.
LEMMA EndIs ==
    ASSUME BaseInv, NEW t \in Txns, Commits(t) \/ FailAuthoring(t)
    PROVE  /\ pc[t] # "idle" /\ pc'[t] = "idle" /\ alone' = alone
           /\ \A u \in Txns : u # t => pc'[u] = pc[u] /\ draft'[u] = draft[u]
           /\ Commits(t) => /\ pc[t] = "written"
                            /\ row' = row /\ content' = content
                            /\ \A k \in Keys : owner'[k] = IF owner[k] = t THEN NoTxn ELSE owner[k]
           /\ FailAuthoring(t) =>
                 /\ answered' = answered
                 /\ \A k \in Keys :
                       /\ owner'[k] = IF owner[k] = t THEN NoTxn ELSE owner[k]
                       /\ row'[k] = IF owner[k] = t THEN 0 ELSE row[k]
                       /\ content'[k] = IF owner[k] = t THEN NoEvent ELSE content[k]
<1>1. Leave(t) /\ alone' = alone /\ pc[t] # "idle"
  BY DEF Commits, CommitAuthored, FailAuthoring, history
<1>2. /\ pc'[t] = "idle"
      /\ \A u \in Txns : u # t => pc'[u] = pc[u] /\ draft'[u] = draft[u]
  BY <1>1 DEF Leave, BaseInv, EventsAreTyped, AuthorInv, AuthorTypeOK
<1>3. QED
  BY <1>1, <1>2
     DEF Commits, CommitAuthored, CommitTable, FailAuthoring, RollbackTable, history

-----------------------------------------------------------------------------
(* The incidents.                                                          *)

LEMMA DeclarersInitial == EnrolmentInit => DeclarersDeclare
BY CommandAssumption DEF EnrolmentInit, CommandInit, AuthoringInit, DeclarersDeclare, Doing,
   Incidents, Bootstrapped

\* A step that leaves the incident table alone and changes no declaration.
LEMMA DeclarersStay ==
    ASSUME BaseInv, DeclarersDeclare, UNCHANGED <<declared, declarer, lastId>>,
           session' # {} => declared[Bootstrapped] = "committed",
           \A u \in Txns : /\ Doing(u, "declare")' <=> Doing(u, "declare")
                           /\ Doing(u, "declare") => draft'[u] = draft[u]
    PROVE  DeclarersDeclare'
<1>1. \A i \in Incidents : declarer[i] # NoTxn => declarer[i] \in Txns
  BY DEF BaseInv, CommandTyped
<1>2. QED
  BY <1>1 DEF DeclarersDeclare

LEMMA DeclarersStep ==
    ASSUME BaseInv, DeclarersDeclare, EnrolmentNext
    PROVE  DeclarersDeclare'
<1> USE EventTableAssumption
<1>1. CASE SessionStep
  <2>1. UNCHANGED <<pc, draft, declarer>>
    BY <1>1 DEF SessionStep, Bootstrap, OpenSession, SessionExpires, authorVars
  <2>2. CASE Bootstrap
    <3>1. /\ lastId = 0 /\ lastId' = 1 /\ session' = session
          /\ declared' = [declared EXCEPT ![1] = "committed"]
      BY <2>2 DEF Bootstrap, Bootstrapped
    <3>2. \A i \in Incidents : declared[i] = "none" /\ declarer[i] = NoTxn
      BY <3>1 DEF DeclarersDeclare, BaseInv, CommandTyped, Incidents
    <3>3. 1 \in Incidents /\ Incidents \subseteq Nat
      BY EventFacts
    <3>4. \A i \in Incidents : declared'[i] = IF i = 1 THEN "committed" ELSE "none"
      BY <3>1, <3>2 DEF BaseInv, CommandTyped
    <3>5. QED
      BY <2>1, <3>1, <3>2, <3>3, <3>4 DEF DeclarersDeclare, Doing, Bootstrapped
  <2>3. CASE OpenSession \/ SessionExpires
    <3>1. UNCHANGED <<declared, lastId>> /\ (session' # {} => declared[Bootstrapped] = "committed")
      BY <2>3 DEF OpenSession, SessionExpires
    <3>2. QED
      BY <2>1, <3>1, DeclarersStay DEF Doing
  <2>4. QED
    BY <1>1, <2>2, <2>3 DEF SessionStep
<1>2. ASSUME UNCHANGED incidentVars,
             \A u \in Txns : /\ Doing(u, "declare")' <=> Doing(u, "declare")
                             /\ Doing(u, "declare") => draft'[u] = draft[u]
      PROVE  DeclarersDeclare'
  BY <1>2, DeclarersStay DEF incidentVars, DeclarersDeclare
<1>3. CASE \E c \in Codes : MintJoinCode(c) \/ CodeExpires(c)
  <2>1. UNCHANGED incidentVars /\ UNCHANGED <<pc, draft>>
    BY <1>3 DEF MintJoinCode, CodeExpires, vars, commandVars, authorVars
  <2>2. QED
    BY <1>2, <2>1 DEF Doing
<1>4. ASSUME NEW t \in Txns, InsertIncident(t) PROVE DeclarersDeclare'
  <2>1. /\ session # {} /\ session' = session
        /\ lastId' = lastId + 1 /\ lastId' \in Incidents
        /\ declared' = [declared EXCEPT ![lastId'] = "open"]
        /\ declarer' = [declarer EXCEPT ![lastId'] = t]
    BY <1>4, InsertsIncident
  <2>2. PICK e \in AnyEvent : Begin(t, e, "author") /\ e.kind = "declare" /\ e.subject = lastId'
    BY <1>4, InsertsIncident
  <2>3. /\ pc[t] = "idle" /\ pc'[t] = "author" /\ draft'[t] = e
        /\ \A u \in Txns : u # t => pc'[u] = pc[u] /\ draft'[u] = draft[u]
    BY <2>2, BeginIs
  <2>4. 1 \in Incidents /\ Incidents \subseteq Nat /\ lastId \in Nat
    BY EventFacts DEF BaseInv, CommandTyped
  <2>5. 1 <= lastId /\ declared[1] = "committed"
    BY <2>1, <2>4 DEF DeclarersDeclare, Bootstrapped
  <2>6. declared[lastId'] = "none" /\ declarer[lastId'] = NoTxn /\ lastId' # 1
    BY <2>1, <2>4, <2>5 DEF DeclarersDeclare, BaseInv, CommandTyped
  <2>7. \A i \in Incidents : declarer[i] # t /\ (declarer[i] # NoTxn => declarer[i] \in Txns)
    BY <2>3 DEF DeclarersDeclare, Doing, BaseInv, CommandTyped
  <2>8. \A i \in Incidents : /\ declared'[i] = IF i = lastId' THEN "open" ELSE declared[i]
                             /\ declarer'[i] = IF i = lastId' THEN t ELSE declarer[i]
    BY <2>1 DEF BaseInv, CommandTyped
  <2>9. \A i \in Incidents : i <= lastId => i <= lastId'
    BY <2>1, <2>4
  <2>10. \A i \in Incidents : declarer'[i] # NoTxn =>
           pc'[declarer'[i]] # "idle" /\ draft'[declarer'[i]].kind = "declare"
           /\ draft'[declarer'[i]].subject = i
    BY <2>2, <2>3, <2>7, <2>8 DEF DeclarersDeclare, Doing
  <2>11. \A u \in Txns : pc'[u] # "idle" /\ draft'[u].kind = "declare" =>
           draft'[u].subject \in Incidents /\ declarer'[draft'[u].subject] = u
    BY <2>1, <2>2, <2>3, <2>6, <2>8 DEF DeclarersDeclare, Doing
  <2>12. \A i \in Incidents : /\ declared'[i] = "open" <=> declarer'[i] # NoTxn
                              /\ declared'[i] # "none" => i <= lastId'
    BY <2>4, <2>8, <2>9 DEF DeclarersDeclare
  <2>13. declared'[1] = "committed"
    BY <2>4, <2>5, <2>6, <2>8
  <2>14. QED
    BY <2>10, <2>11, <2>12, <2>13 DEF DeclarersDeclare, Doing, Bootstrapped
<1>5. ASSUME NEW t \in Txns, NEW e, NEW next, Begin(t, e, next), e.kind # "declare"
      PROVE  \A u \in Txns : /\ Doing(u, "declare")' <=> Doing(u, "declare")
                             /\ Doing(u, "declare") => draft'[u] = draft[u]
  BY <1>5, BeginIs DEF Doing
<1>6. ASSUME NEW t \in Txns,
             \/ ReadNextAssignmentId(t) \/ ReadNextDeviceId(t) \/ InsertCredential(t) \/ UpdateUses(t)
      PROVE  \A u \in Txns : /\ Doing(u, "declare")' <=> Doing(u, "declare")
                             /\ Doing(u, "declare") => draft'[u] = draft[u]
  BY <1>6, ReadsOnIs DEF Doing
<1>7. ASSUME NEW t \in Txns, CommandStep(t) PROVE DeclarersDeclare'
  <2>1. CASE InsertIncident(t)
    BY <1>4, <2>1
  <2>2. CASE ~InsertIncident(t)
    <3>1. UNCHANGED incidentVars
      BY <1>7, <2>2, IncidentsStay
    <3>2. CASE RegisterTeam(t) \/ GenerateGrid(t) \/ FindHolders(t) \/ RevokeAssignment(t)
      BY <1>2, <1>5, <2>2, <3>1, <3>2, CommandBegins
    <3>3. CASE ReadNextAssignmentId(t)
      BY <1>2, <1>6, <3>1, <3>3
    <3>4. CASE AuthorStep(t)
      <4>1. \A u \in Txns : (pc'[u] # "idle" <=> pc[u] # "idle") /\ draft' = draft
        BY <3>4, AuthorStepIs DEF Served
      <4>2. QED
        BY <1>2, <3>1, <4>1 DEF Doing
    <3>5. QED
      BY <1>7, <2>2, <3>2, <3>3, <3>4 DEF CommandStep
  <2>3. QED
    BY <2>1, <2>2
<1>8. ASSUME NEW t \in Txns, EnrolStep(t) PROVE DeclarersDeclare'
  <2>1. UNCHANGED incidentVars
    BY <1>8 DEF EnrolStep, ReadJoinCode, ReadNextDeviceId, InsertCredential, UpdateUses, commandVars
  <2>2. CASE ReadJoinCode(t)
    BY <1>2, <1>5, <2>1, <2>2, EnrolBegins
  <2>3. CASE ~ReadJoinCode(t)
    BY <1>2, <1>6, <1>8, <2>1, <2>3 DEF EnrolStep
  <2>4. QED
    BY <2>2, <2>3
<1>9. ASSUME NEW t \in Txns, NEW fate \in {"none", "committed"}, CloseIncident(t, fate),
             Commits(t) \/ FailAuthoring(t)
      PROVE  DeclarersDeclare'
  <2>1. /\ pc'[t] = "idle"
        /\ \A u \in Txns : u # t => pc'[u] = pc[u] /\ draft'[u] = draft[u]
    BY <1>9, EndIs
  <2>2. /\ \A i \in Incidents : /\ declared'[i] = IF declarer[i] = t THEN fate ELSE declared[i]
                                /\ declarer'[i] = IF declarer[i] = t THEN NoTxn ELSE declarer[i]
        /\ UNCHANGED <<lastId, session>>
    BY <1>9 DEF CloseIncident
  <2>3. 1 \in Incidents /\ declarer[1] # t
    BY EventFacts DEF DeclarersDeclare, Bootstrapped
  <2>4. \A i \in Incidents : declarer[i] # NoTxn => declarer[i] \in Txns
    BY DEF BaseInv, CommandTyped
  <2>5. \A i \in Incidents : declarer'[i] # NoTxn =>
           pc'[declarer'[i]] # "idle" /\ draft'[declarer'[i]].kind = "declare"
           /\ draft'[declarer'[i]].subject = i
    BY <2>1, <2>2, <2>4 DEF DeclarersDeclare, Doing
  <2>6. \A u \in Txns : pc'[u] # "idle" /\ draft'[u].kind = "declare" =>
           draft'[u].subject \in Incidents /\ declarer'[draft'[u].subject] = u
    BY <2>1, <2>2 DEF DeclarersDeclare, Doing
  <2>7. QED
    BY <2>2, <2>3, <2>5, <2>6 DEF DeclarersDeclare, Doing, Bootstrapped
<1>10. ASSUME NEW t \in Txns, CommitEnrolment(t) \/ FailEnrolment(t) PROVE DeclarersDeclare'
  BY <1>9, <1>10 DEF CommitEnrolment, FailEnrolment, Commit, Fail, Commits
<1>11. QED
  BY <1>1, <1>3, <1>7, <1>8, <1>10 DEF EnrolmentNext

-----------------------------------------------------------------------------
(* The enrolments.                                                         *)

\* What an enrolment has read, inserted and updated, step by step; and whose an open
\* credential or an open UPDATE is.
TxnFlow(t) ==
    /\ read[t] # NothingRead => Doing(t, "enrol")
    /\ Doing(t, "enrol") =>
          /\ read[t].code \in Codes /\ code[read[t].code].state # "none"
          /\ ScopeOf(draft[t]) = CodeScope(read[t].code)
          /\ pc[t] # "enrol" =>
                read[t].device \in DeviceIds /\ draft[t].subject = read[t].device
          /\ pc[t] \in {"credential"} \cup Served =>
                device[read[t].device] = [state |-> "open", by |-> t, code |-> read[t].code]
          /\ pc[t] \in Served => update[read[t].code].by = t

UpdateFlow(c) ==
    update[c].by # NoTxn =>
        /\ Doing(update[c].by, "enrol") /\ pc[update[c].by] \in Served
        /\ read[update[c].by].code = c /\ update[c].uses = read[update[c].by].uses + 1

DeviceFlow(d) ==
    /\ device[d].state = "open" <=> device[d].by # NoTxn
    /\ device[d].by # NoTxn =>
          /\ Doing(device[d].by, "enrol") /\ pc[device[d].by] \in {"credential"} \cup Served
          /\ read[device[d].by].device = d
    /\ device[d].state # "none" =>
          device[d].code \in Codes /\ code[device[d].code].state # "none"

EnrolFlow ==
    /\ \A t \in Txns : TxnFlow(t)
    /\ \A c \in Codes : UpdateFlow(c)
    /\ \A d \in DeviceIds : DeviceFlow(d)

LEMMA EnrolFlowInitial == EnrolmentInit => EnrolFlow
BY DEF EnrolmentInit, CommandInit, AuthoringInit, EnrolFlow, TxnFlow, UpdateFlow, DeviceFlow,
   Doing, NoUpdate, NoDevice

\* What is not a transaction's own does not change under it.
LEMMA TxnFlowStays ==
    ASSUME NEW u \in Txns, TxnFlow(u), read'[u] = read[u],
           \A c \in Codes : code[c].state # "none" =>
               code'[c].state # "none" /\ CodeScope(c)' = CodeScope(c),
           Doing(u, "enrol")' <=> Doing(u, "enrol"),
           Doing(u, "enrol") =>
               draft'[u] = draft[u] /\ (pc'[u] = pc[u] \/ {pc[u], pc'[u]} \subseteq Served),
           \A c \in Codes : update[c].by = u => update'[c] = update[c],
           \A d \in DeviceIds : device[d].by = u => device'[d] = device[d]
    PROVE  TxnFlow(u)'
<1>1. read'[u] # NothingRead => Doing(u, "enrol")'
  BY DEF TxnFlow
<1>2. SUFFICES ASSUME Doing(u, "enrol")
               PROVE  /\ read[u].code \in Codes /\ code'[read[u].code].state # "none"
                      /\ ScopeOf(draft[u])' = CodeScope(read[u].code)'
                      /\ pc'[u] # "enrol" =>
                            read[u].device \in DeviceIds /\ draft'[u].subject = read[u].device
                      /\ pc'[u] \in {"credential"} \cup Served =>
                            device'[read[u].device]
                              = [state |-> "open", by |-> u, code |-> read[u].code]
                      /\ pc'[u] \in Served => update'[read[u].code].by = u
  BY <1>1 DEF TxnFlow
<1>3. /\ read[u].code \in Codes /\ code[read[u].code].state # "none"
      /\ ScopeOf(draft[u]) = CodeScope(read[u].code)
      /\ pc[u] # "enrol" =>
            read[u].device \in DeviceIds /\ draft[u].subject = read[u].device
      /\ pc[u] \in {"credential"} \cup Served =>
            device[read[u].device] = [state |-> "open", by |-> u, code |-> read[u].code]
      /\ pc[u] \in Served => update[read[u].code].by = u
  BY <1>2 DEF TxnFlow
<1>4. draft'[u] = draft[u] /\ (pc'[u] = pc[u] \/ {pc[u], pc'[u]} \subseteq Served)
  BY <1>2
<1>5. code'[read[u].code].state # "none" /\ CodeScope(read[u].code)' = CodeScope(read[u].code)
  BY <1>3 DEF CodeScope
<1>6. ScopeOf(draft[u])' = ScopeOf(draft[u])
  BY <1>4 DEF ScopeOf
<1>7. pc'[u] \in Served => update'[read[u].code].by = u
  BY <1>3, <1>4
<1>8. pc'[u] \in {"credential"} \cup Served =>
        device'[read[u].device] = [state |-> "open", by |-> u, code |-> read[u].code]
  <2>1. SUFFICES ASSUME pc'[u] \in {"credential"} \cup Served
                 PROVE  device'[read[u].device]
                          = [state |-> "open", by |-> u, code |-> read[u].code]
    OBVIOUS
  <2>2. pc[u] \in {"credential"} \cup Served /\ pc[u] # "enrol"
    BY <1>4, <2>1 DEF Served
  <2>3. QED
    BY <1>3, <2>2
<1>9. pc'[u] # "enrol" => read[u].device \in DeviceIds /\ draft'[u].subject = read[u].device
  BY <1>3, <1>4 DEF Served
<1>10. QED
  BY <1>3, <1>5, <1>6, <1>7, <1>8, <1>9

\* A step that leaves the enrolments alone: no code loses its scope.
LEMMA EnrolFlowStays ==
    ASSUME BaseInv, EnrolFlow, UNCHANGED <<update, device, read>>,
           \A c \in Codes : code[c].state # "none" =>
               code'[c].state # "none" /\ CodeScope(c)' = CodeScope(c),
           \A u \in Txns :
               /\ Doing(u, "enrol")' <=> Doing(u, "enrol")
               /\ Doing(u, "enrol") =>
                     draft'[u] = draft[u] /\ (pc'[u] = pc[u] \/ {pc[u], pc'[u]} \subseteq Served)
    PROVE  EnrolFlow'
<1>1. /\ \A c \in Codes : update[c].by \in Txns \cup {NoTxn}
      /\ \A d \in DeviceIds : device[d].by \in Txns \cup {NoTxn}
  BY DEF BaseInv, EnrolmentTyped
<1>2. ASSUME NEW t \in Txns PROVE TxnFlow(t)'
  <2>1. TxnFlow(t) /\ read'[t] = read[t]
    BY DEF EnrolFlow
  <2>2. /\ \A c \in Codes : update[c].by = t => update'[c] = update[c]
        /\ \A d \in DeviceIds : device[d].by = t => device'[d] = device[d]
    OBVIOUS
  <2>3. QED
    BY <2>1, <2>2, TxnFlowStays
<1>3. ASSUME NEW c \in Codes PROVE UpdateFlow(c)'
  BY <1>1 DEF EnrolFlow, UpdateFlow
<1>4. ASSUME NEW d \in DeviceIds PROVE DeviceFlow(d)'
  BY <1>1 DEF EnrolFlow, DeviceFlow
<1>5. QED
  BY <1>2, <1>3, <1>4 DEF EnrolFlow

\* Every open UPDATE and credential is that of a transaction.
LEMMA OpenIsOwned ==
    ASSUME BaseInv, EnrolFlow
    PROVE  /\ \A c \in Codes : update[c].by # NoTxn =>
                 update[c].by \in Txns /\ Doing(update[c].by, "enrol")
           /\ \A d \in DeviceIds : device[d].by # NoTxn =>
                 device[d].by \in Txns /\ Doing(device[d].by, "enrol")
           /\ \A c \in Codes, t \in Txns : update[c].by = t =>
                 Doing(t, "enrol") /\ pc[t] \in Served /\ read[t].code = c
           /\ \A d \in DeviceIds, t \in Txns : device[d].by = t =>
                 /\ Doing(t, "enrol") /\ pc[t] \in {"credential"} \cup Served
                 /\ read[t].device = d
BY EventTableAssumption DEF BaseInv, EnrolmentTyped, EnrolFlow, UpdateFlow, DeviceFlow

LEMMA ReadJoinCodeFlow ==
    ASSUME BaseInv, EnrolFlow, NEW t \in Txns, ReadJoinCode(t)
    PROVE  EnrolFlow'
<1>1. PICK e \in AnyEvent, c \in Codes :
         /\ Begin(t, e, "enrol")
         /\ e.kind = "enrol" /\ e.team = code[c].team /\ e.incident = code[c].incident
         /\ code[c].state = "live"
         /\ read' = [read EXCEPT ![t] = [@ EXCEPT !.code = c, !.uses = code[c].uses]]
  BY EnrolBegins
<1>2. /\ pc[t] = "idle" /\ pc'[t] = "enrol" /\ draft'[t] = e
      /\ \A u \in Txns : u # t => pc'[u] = pc[u] /\ draft'[u] = draft[u]
  BY <1>1, BeginIs
<1>3. UNCHANGED <<code, update, device>>
  BY DEF ReadJoinCode
<1>4. read'[t].code = c /\ \A u \in Txns : u # t => read'[u] = read[u]
  BY <1>1 DEF BaseInv, EnrolmentTyped
<1>5. ~Doing(t, "enrol")
  BY <1>2 DEF Doing
<1>6. ASSUME NEW u \in Txns, u # t PROVE TxnFlow(u)'
  <2>1. TxnFlow(u) /\ read'[u] = read[u]
    BY <1>4, <1>6 DEF EnrolFlow
  <2>2. /\ Doing(u, "enrol")' <=> Doing(u, "enrol")
        /\ draft'[u] = draft[u] /\ pc'[u] = pc[u]
    BY <1>2, <1>6 DEF Doing
  <2>3. \A cc \in Codes : code[cc].state # "none" =>
           code'[cc].state # "none" /\ CodeScope(cc)' = CodeScope(cc)
    BY <1>3 DEF CodeScope
  <2>4. /\ \A cc \in Codes : update[cc].by = u => update'[cc] = update[cc]
        /\ \A d \in DeviceIds : device[d].by = u => device'[d] = device[d]
    BY <1>3
  <2>5. QED
    BY <2>1, <2>2, <2>3, <2>4, TxnFlowStays
<1>7. TxnFlow(t)'
  <2>1. Doing(t, "enrol")'
    BY <1>1, <1>2 DEF Doing
  <2>2. ScopeOf(draft[t])' = CodeScope(read[t].code)'
    BY <1>1, <1>2, <1>3, <1>4 DEF ScopeOf, CodeScope
  <2>3. QED
    BY <1>1, <1>2, <1>3, <1>4, <2>1, <2>2 DEF TxnFlow, Served
<1>8. ASSUME NEW cc \in Codes PROVE UpdateFlow(cc)'
  BY <1>2, <1>3, <1>4, <1>5, <1>8, OpenIsOwned DEF EnrolFlow, UpdateFlow, Doing
<1>9. ASSUME NEW d \in DeviceIds PROVE DeviceFlow(d)'
  BY <1>2, <1>3, <1>4, <1>5, <1>9, OpenIsOwned DEF EnrolFlow, DeviceFlow, Doing
<1>10. QED
  BY <1>6, <1>7, <1>8, <1>9 DEF EnrolFlow

\* What the other transactions of an enrolment's step keep.
LEMMA OthersFlow ==
    ASSUME BaseInv, EnrolFlow, NEW t \in Txns, UNCHANGED code,
           \A u \in Txns : u # t => pc'[u] = pc[u] /\ draft'[u] = draft[u] /\ read'[u] = read[u],
           \A c \in Codes : update[c].by \notin {t, NoTxn} => update'[c] = update[c],
           \A d \in DeviceIds : device[d].by \notin {t, NoTxn} => device'[d] = device[d]
    PROVE  \A u \in Txns : u # t => TxnFlow(u)'
<1>1. SUFFICES ASSUME NEW u \in Txns, u # t PROVE TxnFlow(u)'
  OBVIOUS
<1>2. TxnFlow(u) /\ read'[u] = read[u]
  BY <1>1 DEF EnrolFlow
<1>3. /\ Doing(u, "enrol")' <=> Doing(u, "enrol")
      /\ draft'[u] = draft[u] /\ pc'[u] = pc[u]
  BY <1>1 DEF Doing
<1>4. \A c \in Codes : code[c].state # "none" =>
         code'[c].state # "none" /\ CodeScope(c)' = CodeScope(c)
  BY DEF CodeScope
<1>5. /\ \A c \in Codes : update[c].by = u => update'[c] = update[c]
      /\ \A d \in DeviceIds : device[d].by = u => device'[d] = device[d]
  BY <1>1, EventTableAssumption
<1>6. QED
  BY <1>2, <1>3, <1>4, <1>5, TxnFlowStays

LEMMA ReadNextDeviceIdFlow ==
    ASSUME BaseInv, EnrolFlow, NEW t \in Txns, ReadNextDeviceId(t)
    PROVE  EnrolFlow'
<1>1. /\ pc[t] = "enrol" /\ pc'[t] = "device" /\ NextDeviceId \in DeviceIds
      /\ read'[t].device = NextDeviceId /\ read'[t].code = read[t].code
      /\ draft'[t].subject = NextDeviceId /\ draft'[t].kind = draft[t].kind
      /\ draft'[t].team = draft[t].team /\ draft'[t].incident = draft[t].incident
      /\ \A u \in Txns : u # t => pc'[u] = pc[u] /\ draft'[u] = draft[u] /\ read'[u] = read[u]
      /\ UNCHANGED <<code, update, device>>
  <2>1. pc[t] = "enrol" /\ pc' = [pc EXCEPT ![t] = "device"] /\ NextDeviceId <= MaxDevice
    BY DEF ReadNextDeviceId
  <2>2. NextDeviceId \in DeviceIds
    BY <2>1, NextDeviceIdIs, EnrolmentAssumption DEF DeviceIds
  <2>3. draft[t] \in AnyEvent
    BY <2>1, EventFacts DEF BaseInv, EventsAreTyped, AuthorInv, AuthorFlow
  <2>4. /\ draft' = [draft EXCEPT ![t] = [@ EXCEPT !.subject = NextDeviceId]]
        /\ read' = [read EXCEPT ![t] = [@ EXCEPT !.device = NextDeviceId]]
        /\ UNCHANGED <<code, update, device>>
    BY DEF ReadNextDeviceId
  <2>5. /\ read'[t].device = NextDeviceId /\ read'[t].code = read[t].code
        /\ \A u \in Txns : u # t => read'[u] = read[u]
    BY <2>4 DEF BaseInv, EnrolmentTyped
  <2>6. /\ draft'[t].subject = NextDeviceId /\ draft'[t].kind = draft[t].kind
        /\ draft'[t].team = draft[t].team /\ draft'[t].incident = draft[t].incident
        /\ \A u \in Txns : u # t => draft'[u] = draft[u]
    BY <2>3, <2>4 DEF BaseInv, EventsAreTyped, AnyEvent, Events
  <2>7. pc'[t] = "device" /\ \A u \in Txns : u # t => pc'[u] = pc[u]
    BY <2>1 DEF BaseInv, AuthorInv, AuthorTypeOK
  <2>8. QED
    BY <2>1, <2>2, <2>4, <2>5, <2>6, <2>7
<1>2. Doing(t, "enrol") /\ Doing(t, "enrol")'
  BY <1>1 DEF Doing, BaseInv, KindsFitSteps
<1>3. \A u \in Txns : u # t => TxnFlow(u)'
  BY <1>1, OthersFlow
<1>4. TxnFlow(t)'
  <2>1. /\ read[t].code \in Codes /\ code[read[t].code].state # "none"
        /\ ScopeOf(draft[t]) = CodeScope(read[t].code)
    BY <1>2 DEF EnrolFlow, TxnFlow
  <2>2. ScopeOf(draft[t])' = CodeScope(read[t].code)'
    BY <1>1, <2>1 DEF ScopeOf, CodeScope
  <2>3. QED
    BY <1>1, <1>2, <2>1, <2>2 DEF TxnFlow, Served
<1>5. ASSUME NEW c \in Codes PROVE UpdateFlow(c)'
  BY <1>1, <1>5, OpenIsOwned DEF EnrolFlow, UpdateFlow, Doing, Served
<1>6. ASSUME NEW d \in DeviceIds PROVE DeviceFlow(d)'
  BY <1>1, <1>6, OpenIsOwned DEF EnrolFlow, DeviceFlow, Doing, Served
<1>7. QED
  BY <1>3, <1>4, <1>5, <1>6 DEF EnrolFlow

LEMMA InsertCredentialFlow ==
    ASSUME BaseInv, EnrolFlow, NEW t \in Txns, InsertCredential(t)
    PROVE  EnrolFlow'
<1> DEFINE new == read[t].device
<1>1. /\ pc[t] = "device" /\ pc'[t] = "credential" /\ device[new].state = "none"
      /\ device' = [device EXCEPT ![new] = [state |-> "open", by |-> t, code |-> read[t].code]]
      /\ \A u \in Txns : u # t => pc'[u] = pc[u]
      /\ UNCHANGED <<draft, code, update, read>>
  BY DEF InsertCredential, BaseInv, AuthorInv, AuthorTypeOK
<1>2. Doing(t, "enrol") /\ Doing(t, "enrol")'
  BY <1>1 DEF Doing, BaseInv, KindsFitSteps
<1>3. /\ read[t].code \in Codes /\ code[read[t].code].state # "none"
      /\ ScopeOf(draft[t]) = CodeScope(read[t].code)
      /\ new \in DeviceIds /\ draft[t].subject = new
  BY <1>1, <1>2 DEF EnrolFlow, TxnFlow
<1>4. device[new].by = NoTxn
  BY <1>1, <1>3 DEF EnrolFlow, DeviceFlow
<1>5. /\ device'[new] = [state |-> "open", by |-> t, code |-> read[t].code]
      /\ \A d \in DeviceIds : d # new => device'[d] = device[d]
  BY <1>1, <1>3 DEF BaseInv, EnrolmentTyped
<1>6. \A u \in Txns : u # t => TxnFlow(u)'
  BY <1>1, <1>4, <1>5, OthersFlow
<1>7. TxnFlow(t)'
  <2>1. ScopeOf(draft[t])' = CodeScope(read[t].code)'
    BY <1>1, <1>3 DEF ScopeOf, CodeScope
  <2>2. QED
    BY <1>1, <1>2, <1>3, <1>5, <2>1 DEF TxnFlow, Served
<1>8. ASSUME NEW c \in Codes PROVE UpdateFlow(c)'
  BY <1>1, <1>8, OpenIsOwned DEF EnrolFlow, UpdateFlow, Doing, Served
<1>9. ASSUME NEW d \in DeviceIds PROVE DeviceFlow(d)'
  <2>1. CASE d = new
    BY <1>1, <1>2, <1>3, <1>5, <2>1, EventTableAssumption DEF DeviceFlow
  <2>2. CASE d # new
    BY <1>1, <1>5, <1>9, <2>2, OpenIsOwned DEF EnrolFlow, DeviceFlow, Doing, Served
  <2>3. QED
    BY <2>1, <2>2
<1>10. QED
  BY <1>6, <1>7, <1>8, <1>9 DEF EnrolFlow

LEMMA UpdateUsesFlow ==
    ASSUME BaseInv, EnrolFlow, NEW t \in Txns, UpdateUses(t)
    PROVE  EnrolFlow'
<1> DEFINE c == read[t].code
<1>1. /\ pc[t] = "credential" /\ pc'[t] = "author" /\ update[c].by = NoTxn
      /\ update' = [update EXCEPT ![c] = [by |-> t, uses |-> read[t].uses + 1]]
      /\ \A u \in Txns : u # t => pc'[u] = pc[u]
      /\ UNCHANGED <<draft, code, device, read>>
  BY DEF UpdateUses, BaseInv, AuthorInv, AuthorTypeOK
<1>2. Doing(t, "enrol") /\ Doing(t, "enrol")'
  BY <1>1 DEF Doing, BaseInv, KindsFitSteps
<1>3. /\ c \in Codes /\ code[c].state # "none"
      /\ ScopeOf(draft[t]) = CodeScope(c)
      /\ read[t].device \in DeviceIds /\ draft[t].subject = read[t].device
      /\ device[read[t].device] = [state |-> "open", by |-> t, code |-> c]
  BY <1>1, <1>2 DEF EnrolFlow, TxnFlow
<1>4. /\ update'[c] = [by |-> t, uses |-> read[t].uses + 1]
      /\ \A cc \in Codes : cc # c => update'[cc] = update[cc]
  BY <1>1, <1>3 DEF BaseInv, EnrolmentTyped
<1>5. \A u \in Txns : u # t => TxnFlow(u)'
  BY <1>1, <1>4, OthersFlow
<1>6. TxnFlow(t)'
  <2>1. ScopeOf(draft[t])' = CodeScope(read[t].code)'
    BY <1>1, <1>3 DEF ScopeOf, CodeScope
  <2>2. QED
    BY <1>1, <1>2, <1>3, <1>4, <2>1 DEF TxnFlow, Served
<1>7. ASSUME NEW cc \in Codes PROVE UpdateFlow(cc)'
  <2>1. CASE cc = c
    BY <1>1, <1>2, <1>4, <2>1 DEF UpdateFlow, Served
  <2>2. CASE cc # c
    BY <1>1, <1>4, <1>7, <2>2, OpenIsOwned DEF EnrolFlow, UpdateFlow, Doing, Served
  <2>3. QED
    BY <2>1, <2>2
<1>8. ASSUME NEW d \in DeviceIds PROVE DeviceFlow(d)'
  BY <1>1, <1>8, OpenIsOwned DEF EnrolFlow, DeviceFlow, Doing, Served
<1>9. QED
  BY <1>5, <1>6, <1>7, <1>8 DEF EnrolFlow

\* The end of a request, whatever it was: what it had open is closed or gone.
LEMMA EndFlow ==
    ASSUME BaseInv, EnrolFlow, NEW t \in Txns, CommitEnrolment(t) \/ FailEnrolment(t)
    PROVE  /\ EnrolFlow'
           /\ \A c \in Codes : CodeScope(c)' = CodeScope(c) /\ code'[c].state = code[c].state
           /\ \A d \in DeviceIds : device[d].by # t => device'[d] = device[d]
           /\ \A c \in Codes : update[c].by # t => code'[c] = code[c]
           /\ \A u \in Txns : u # t => read'[u] = read[u]
<1>1. /\ pc'[t] = "idle"
      /\ \A u \in Txns : u # t => pc'[u] = pc[u] /\ draft'[u] = draft[u]
  BY EndIs DEF CommitEnrolment, FailEnrolment, Commit, Fail, Commits
<1>2. /\ \A c \in Codes : update'[c] = IF update[c].by = t THEN NoUpdate ELSE update[c]
      /\ read'[t] = NothingRead
      /\ \A u \in Txns : u # t => read'[u] = read[u]
  BY DEF CommitEnrolment, FailEnrolment, Release, BaseInv, EnrolmentTyped
<1>3. /\ \A d \in DeviceIds : device[d].by # t => device'[d] = device[d]
      /\ \A d \in DeviceIds : device[d].by = t =>
            \/ device'[d].state = "none" /\ device'[d].by = NoTxn
            \/ /\ device'[d].state = "committed" /\ device'[d].by = NoTxn
               /\ device'[d].code = device[d].code
  <2>1. CASE CommitEnrolment(t)
    <3>1. \A d \in DeviceIds : device'[d] = IF device[d].by = t
            THEN [device[d] EXCEPT !.state = "committed", !.by = NoTxn] ELSE device[d]
      BY <2>1 DEF CommitEnrolment
    <3>2. \A d \in DeviceIds : device[d] \in [state : {"none", "open", "committed"},
                                 by : Txns \cup {NoTxn}, code : Codes \cup {NoCode}]
      BY DEF BaseInv, EnrolmentTyped
    <3>3. QED
      BY <3>1, <3>2
  <2>2. CASE FailEnrolment(t)
    BY <2>2 DEF FailEnrolment, NoDevice
  <2>3. QED
    BY <2>1, <2>2
<1>4. \A c \in Codes : /\ code'[c].state = code[c].state /\ code'[c].team = code[c].team
                       /\ code'[c].incident = code[c].incident
                       /\ update[c].by # t => code'[c] = code[c]
  <2>1. CASE CommitEnrolment(t)
    <3>1. \A c \in Codes : code'[c] = IF update[c].by = t
            THEN [code[c] EXCEPT !.uses = update[c].uses] ELSE code[c]
      BY <2>1 DEF CommitEnrolment
    <3>2. \A c \in Codes : code[c] \in CodeRows
      BY DEF BaseInv, EnrolmentTyped
    <3>3. QED
      BY <3>1, <3>2 DEF CodeRows
  <2>2. CASE FailEnrolment(t)
    BY <2>2 DEF FailEnrolment
  <2>3. QED
    BY <2>1, <2>2
<1>5. \A c \in Codes : CodeScope(c)' = CodeScope(c) /\ code'[c].state = code[c].state
  BY <1>4 DEF CodeScope
<1>6. ASSUME NEW u \in Txns, u # t PROVE TxnFlow(u)'
  <2>1. TxnFlow(u) /\ read'[u] = read[u]
    BY <1>2, <1>6 DEF EnrolFlow
  <2>2. /\ Doing(u, "enrol")' <=> Doing(u, "enrol")
        /\ draft'[u] = draft[u] /\ pc'[u] = pc[u]
    BY <1>1, <1>6 DEF Doing
  <2>3. /\ \A c \in Codes : update[c].by = u => update'[c] = update[c]
        /\ \A d \in DeviceIds : device[d].by = u => device'[d] = device[d]
    BY <1>2, <1>3, <1>6
  <2>4. QED
    BY <1>5, <2>1, <2>2, <2>3, TxnFlowStays
<1>7. TxnFlow(t)'
  BY <1>1, <1>2 DEF TxnFlow, Doing
<1>8. ASSUME NEW c \in Codes PROVE UpdateFlow(c)'
  <2>1. CASE update[c].by = t
    BY <1>2, <1>8, <2>1 DEF UpdateFlow, NoUpdate
  <2>2. CASE update[c].by # t
    BY <1>1, <1>2, <1>8, <2>2, OpenIsOwned DEF EnrolFlow, UpdateFlow, Doing
  <2>3. QED
    BY <2>1, <2>2
<1>9. ASSUME NEW d \in DeviceIds PROVE DeviceFlow(d)'
  <2>1. DeviceFlow(d)
    BY <1>9 DEF EnrolFlow
  <2>2. CASE device[d].by = t
    BY <1>3, <1>4, <1>9, <2>1, <2>2, EventTableAssumption DEF DeviceFlow
  <2>3. CASE device[d].by # t
    BY <1>1, <1>2, <1>3, <1>4, <1>9, <2>1, <2>3, OpenIsOwned DEF DeviceFlow, Doing
  <2>4. QED
    BY <2>2, <2>3
<1>10. QED
  BY <1>2, <1>3, <1>4, <1>5, <1>6, <1>7, <1>8, <1>9 DEF EnrolFlow

\* The steps that are none of an enrolment's own leave the enrolments alone.
LEMMA NotEnrolling ==
    ASSUME BaseInv, NEW t \in Txns, CommandStep(t)
    PROVE  \A u \in Txns :
              /\ Doing(u, "enrol")' <=> Doing(u, "enrol")
              /\ Doing(u, "enrol") =>
                    draft'[u] = draft[u] /\ (pc'[u] = pc[u] \/ {pc[u], pc'[u]} \subseteq Served)
<1>1. CASE \/ InsertIncident(t) \/ RegisterTeam(t) \/ GenerateGrid(t) \/ FindHolders(t)
           \/ RevokeAssignment(t)
  <2>1. PICK e \in AnyEvent, next \in {"author", "held"} : Begin(t, e, next) /\ e.kind # "enrol"
    BY <1>1, CommandBegins
  <2>2. QED
    BY <2>1, BeginIs DEF Doing
<1>2. CASE ReadNextAssignmentId(t)
  <2>1. pc[t] = "held" /\ draft[t].kind = "assign"
    BY <1>2 DEF ReadNextAssignmentId, BaseInv, KindsFitSteps
  <2>2. QED
    BY <1>2, <2>1, ReadsOnIs DEF Doing
<1>3. CASE AuthorStep(t)
  BY <1>3, AuthorStepIs DEF Doing, Served
<1>4. QED
  BY <1>1, <1>2, <1>3 DEF CommandStep

LEMMA EnrolFlowStep ==
    ASSUME BaseInv, EnrolFlow, EnrolmentNext
    PROVE  EnrolFlow'
<1>1. CASE SessionStep /\ UNCHANGED enrolVars
  BY <1>1, EnrolFlowStays
     DEF SessionStep, Bootstrap, OpenSession, SessionExpires, authorVars, enrolVars, Doing, CodeScope
<1>2. ASSUME NEW c \in Codes, MintJoinCode(c) PROVE EnrolFlow'
  <2>1. code[c].state = "none" /\ \A cc \in Codes : cc # c => code'[cc] = code[cc]
    BY <1>2 DEF MintJoinCode, BaseInv, EnrolmentTyped
  <2>2. UNCHANGED <<pc, draft, update, device, read>>
    BY <1>2 DEF MintJoinCode, vars, authorVars
  <2>3. \A cc \in Codes : code[cc].state # "none" =>
           code'[cc].state # "none" /\ CodeScope(cc)' = CodeScope(cc)
    BY <2>1 DEF CodeScope
  <2>4. QED
    BY <2>2, <2>3, EnrolFlowStays DEF Doing
<1>3. ASSUME NEW c \in Codes, CodeExpires(c) PROVE EnrolFlow'
  <2>1. /\ \A cc \in Codes : cc # c => code'[cc] = code[cc]
        /\ code'[c].state = "expired" /\ code'[c].team = code[c].team
        /\ code'[c].incident = code[c].incident
    BY <1>3 DEF CodeExpires, BaseInv, EnrolmentTyped, CodeRows
  <2>2. UNCHANGED <<pc, draft, update, device, read>>
    BY <1>3 DEF CodeExpires, vars, authorVars
  <2>3. \A cc \in Codes : code[cc].state # "none" =>
           code'[cc].state # "none" /\ CodeScope(cc)' = CodeScope(cc)
    BY <2>1 DEF CodeScope
  <2>4. QED
    BY <2>2, <2>3, EnrolFlowStays DEF Doing
<1>4. ASSUME NEW t \in Txns, CommandStep(t), UNCHANGED enrolVars PROVE EnrolFlow'
  BY <1>4, NotEnrolling, EnrolFlowStays DEF enrolVars, CodeScope
<1>5. ASSUME NEW t \in Txns, EnrolStep(t) PROVE EnrolFlow'
  BY <1>5, ReadJoinCodeFlow, ReadNextDeviceIdFlow, InsertCredentialFlow, UpdateUsesFlow DEF EnrolStep
<1>6. ASSUME NEW t \in Txns, CommitEnrolment(t) \/ FailEnrolment(t) PROVE EnrolFlow'
  BY <1>6, EndFlow
<1>7. QED
  BY <1>1, <1>2, <1>3, <1>4, <1>5, <1>6 DEF EnrolmentNext

LEMMA TypesFollow ==
    ASSUME BaseInv, DeclarersDeclare, EnrolFlow
    PROVE  EnrolmentTypeOK
<1>1. CommandTypeOK
  <2>1. /\ TableTypeOK
        /\ pc \in [Txns -> {"idle", "held", "enrol", "device", "credential",
                            "author", "numbered", "insert", "written"}]
        /\ seq \in [Txns -> 0..MaxSeq]
        /\ lastId \in 0..MaxIncident
        /\ \A k \in Keys : row[k] = 0 <=> content[k] = NoEvent
    BY DEF BaseInv, AuthorInv, TableInv, AuthorTypeOK, Preparing, Writing, CommandTyped,
       RowsHaveContent
  <2>2. \A i \in Incidents : /\ declared[i] = "open" <=> declarer[i] # NoTxn
                             /\ declared[i] # "none" => i <= lastId
    BY DEF DeclarersDeclare
  <2>3. QED
    BY <2>1, <2>2 DEF CommandTypeOK
<1>2. \A c \in Codes : /\ code[c].state \in {"none", "live", "expired"}
                       /\ code[c].uses \in 0..MaxUses
                       /\ update[c].by # NoTxn => read[update[c].by].code = c
  BY DEF BaseInv, EnrolmentTyped, CodeRows, EnrolFlow, UpdateFlow
<1>3. \A d \in DeviceIds : device[d].state = "open" => read[device[d].by].device = d
  BY DEF EnrolFlow, DeviceFlow
<1>4. \A t \in Txns : read[t] # NothingRead => pc[t] # "idle"
  BY DEF EnrolFlow, TxnFlow, Doing
<1>5. QED
  BY <1>1, <1>2, <1>3, <1>4 DEF EnrolmentTypeOK

-----------------------------------------------------------------------------
(* The scope of a token.                                                   *)

EnrolRow(k) == content[k] # NoEvent /\ content[k].kind = "enrol"

\* The DEVICE_ENROLLED events, committed or not, are about devices that have a credential;
\* each is about a device of its own, and names what the device's code names.
EnrolRowsScope ==
    \A k \in Keys : EnrolRow(k) =>
        /\ content[k].subject \in DeviceIds
        /\ device[content[k].subject].state # "none"
        /\ owner[k] = NoTxn => device[content[k].subject].state = "committed"
        /\ ScopeOf(content[k]) = CodeScope(device[content[k].subject].code)

OneRowPerDevice ==
    \A k, l \in Keys :
        EnrolRow(k) /\ EnrolRow(l) /\ content[k].subject = content[l].subject => k = l

EnrolledAreRecorded ==
    alone => \A d \in Enrolled :
        \E k \in Keys : owner[k] = NoTxn /\ EnrolRow(k) /\ content[k].subject = d

ScopeInv == EnrolRowsScope /\ OneRowPerDevice /\ EnrolledAreRecorded

LEMMA ScopeInitial == EnrolmentInit => ScopeInv
BY DEF EnrolmentInit, CommandInit, AuthoringInit, ScopeInv, EnrolRowsScope, OneRowPerDevice,
   EnrolledAreRecorded, EnrolRow, Enrolled, NoDevice

\* A step that leaves the log alone and takes no device back.
LEMMA ScopeStays ==
    ASSUME BaseInv, EnrolFlow, ScopeInv, UNCHANGED <<row, owner, content>>,
           alone' => alone,
           \A c \in Codes : code[c].state # "none" => CodeScope(c)' = CodeScope(c),
           \A d \in DeviceIds : device[d].state # "none" => device'[d] = device[d],
           \A d \in DeviceIds : device[d].state = "none" => device'[d].state # "committed"
    PROVE  ScopeInv'
<1>1. EnrolRowsScope'
  <2>1. SUFFICES ASSUME NEW k \in Keys, EnrolRow(k)
                 PROVE  /\ content[k].subject \in DeviceIds
                        /\ device'[content[k].subject].state # "none"
                        /\ owner[k] = NoTxn => device'[content[k].subject].state = "committed"
                        /\ ScopeOf(content[k]) = CodeScope(device[content[k].subject].code)'
    BY DEF EnrolRowsScope, EnrolRow, ScopeOf
  <2> DEFINE d == content[k].subject
  <2>2. /\ d \in DeviceIds /\ device[d].state # "none"
        /\ owner[k] = NoTxn => device[d].state = "committed"
        /\ ScopeOf(content[k]) = CodeScope(device[d].code)
    BY <2>1 DEF ScopeInv, EnrolRowsScope
  <2>3. device'[d] = device[d] /\ device[d].code \in Codes /\ code[device[d].code].state # "none"
    BY <2>2 DEF EnrolFlow, DeviceFlow
  <2>4. CodeScope(device[d].code)' = CodeScope(device[d].code)
    BY <2>3 DEF CodeScope
  <2>5. QED
    BY <2>2, <2>3, <2>4
<1>2. OneRowPerDevice'
  BY DEF ScopeInv, OneRowPerDevice, EnrolRow
<1>3. \A d \in DeviceIds : d \in Enrolled' => d \in Enrolled
  BY DEF Enrolled
<1>4. EnrolledAreRecorded'
  BY <1>3 DEF ScopeInv, EnrolledAreRecorded, EnrolRow, Enrolled
<1>5. QED
  BY <1>1, <1>2, <1>4 DEF ScopeInv

LEMMA AuthorStepScope ==
    ASSUME BaseInv, EnrolFlow, ScopeInv, NEW t \in Txns, AuthorStep(t), UNCHANGED enrolVars
    PROVE  ScopeInv'
<1>1. \A k \in Keys :
         \/ row'[k] = row[k] /\ owner'[k] = owner[k] /\ content'[k] = content[k]
         \/ /\ pc[t] = "insert" /\ k = ServerKey(seq[t])
            /\ owner'[k] = t /\ content'[k] = draft[t] /\ row[k] = 0
  BY AuthorStepIs
<1>2. UNCHANGED <<code, device, read>> /\ alone' = alone
  BY AuthorStepIs DEF enrolVars
<1>3. t # NoTxn
  BY EventTableAssumption
<1>4. ASSUME NEW k \in Keys, EnrolRow(k)', content'[k] # content[k] \/ owner'[k] # owner[k]
      PROVE  /\ k = ServerKey(seq[t]) /\ owner'[k] = t
             /\ content'[k].subject \in DeviceIds
             /\ device[content'[k].subject]
                  = [state |-> "open", by |-> t, code |-> read[t].code]
             /\ ScopeOf(content[k])' = CodeScope(device[content'[k].subject].code)
  <2>1. pc[t] = "insert" /\ k = ServerKey(seq[t]) /\ owner'[k] = t /\ content'[k] = draft[t]
    BY <1>1, <1>4
  <2>2. Doing(t, "enrol")
    BY <1>4, <2>1 DEF EnrolRow, Doing
  <2>3. /\ ScopeOf(draft[t]) = CodeScope(read[t].code)
        /\ read[t].device \in DeviceIds /\ draft[t].subject = read[t].device
        /\ device[read[t].device] = [state |-> "open", by |-> t, code |-> read[t].code]
    BY <2>1, <2>2 DEF EnrolFlow, TxnFlow, Served
  <2>4. QED
    BY <2>1, <2>3 DEF ScopeOf
<1>5. ASSUME NEW k \in Keys, EnrolRow(k), content'[k] = content[k], owner'[k] = owner[k]
      PROVE  /\ content[k].subject \in DeviceIds
             /\ device[content[k].subject].state # "none"
             /\ owner[k] = NoTxn => device[content[k].subject].state = "committed"
             /\ ScopeOf(content[k]) = CodeScope(device[content[k].subject].code)
             /\ device[content[k].subject].by # t \/ pc[t] # "insert"
  <2>1. /\ content[k].subject \in DeviceIds
        /\ device[content[k].subject].state # "none"
        /\ owner[k] = NoTxn => device[content[k].subject].state = "committed"
        /\ ScopeOf(content[k]) = CodeScope(device[content[k].subject].code)
    BY <1>5 DEF ScopeInv, EnrolRowsScope
  <2>2. ASSUME pc[t] = "insert" PROVE device[content[k].subject].by # t
    <3>1. CASE owner[k] = NoTxn
      BY <1>3, <2>1, <3>1 DEF EnrolFlow, DeviceFlow
    <3>2. CASE owner[k] # NoTxn
      <4>1. owner[k] \in Txns /\ pc[owner[k]] = "written" /\ content[k] = draft[owner[k]]
        BY <3>2 DEF BaseInv, AuthorInv, OwnRowIsTheDraft, TableInv, TableTypeOK
      <4>2. Doing(owner[k], "enrol") /\ owner[k] # t
        BY <1>5, <2>2, <4>1 DEF EnrolRow, Doing
      <4>3. TxnFlow(owner[k])
        BY <4>1 DEF EnrolFlow
      <4>4. /\ draft[owner[k]].subject = read[owner[k]].device
            /\ device[read[owner[k]].device].by = owner[k]
        BY <4>1, <4>2, <4>3 DEF TxnFlow, Served
      <4>5. QED
        BY <4>1, <4>2, <4>4
    <3>3. QED
      BY <3>1, <3>2
  <2>3. QED
    BY <2>1, <2>2
<1>6. \A c : CodeScope(c)' = CodeScope(c)
  BY <1>2 DEF CodeScope
<1>7. EnrolRowsScope'
  <2>1. SUFFICES ASSUME NEW k \in Keys, EnrolRow(k)'
                 PROVE  /\ content'[k].subject \in DeviceIds
                        /\ device[content'[k].subject].state # "none"
                        /\ owner'[k] = NoTxn => device[content'[k].subject].state = "committed"
                        /\ ScopeOf(content[k])' = CodeScope(device[content'[k].subject].code)
    BY <1>2, <1>6 DEF EnrolRowsScope
  <2>2. CASE content'[k] # content[k] \/ owner'[k] # owner[k]
    BY <1>3, <1>4, <2>1, <2>2
  <2>3. CASE content'[k] = content[k] /\ owner'[k] = owner[k]
    <3>1. EnrolRow(k)
      BY <2>1, <2>3 DEF EnrolRow
    <3>2. QED
      BY <1>5, <2>3, <3>1 DEF ScopeOf
  <2>4. QED
    BY <2>2, <2>3
<1>8. OneRowPerDevice'
  <2>1. SUFFICES ASSUME NEW k \in Keys, NEW l \in Keys, EnrolRow(k)', EnrolRow(l)',
                        content'[k].subject = content'[l].subject, k # l
                 PROVE  FALSE
    BY DEF OneRowPerDevice
  <2>2. ASSUME NEW i \in Keys, NEW j \in Keys, EnrolRow(i)', EnrolRow(j)', i # j,
               content'[i].subject = content'[j].subject,
               content'[i] # content[i] \/ owner'[i] # owner[i]
        PROVE  FALSE
    <3>1. /\ i = ServerKey(seq[t]) /\ device[content'[i].subject].by = t /\ pc[t] = "insert"
      BY <1>1, <1>4, <2>2
    <3>2. content'[j] = content[j] /\ owner'[j] = owner[j]
      BY <1>1, <2>2, <3>1
    <3>3. EnrolRow(j)
      BY <2>2, <3>2 DEF EnrolRow
    <3>4. QED
      BY <1>5, <2>2, <3>1, <3>2, <3>3
  <2>3. CASE content'[k] = content[k] /\ content'[l] = content[l]
    BY <2>1, <2>3 DEF ScopeInv, OneRowPerDevice, EnrolRow
  <2>4. CASE content'[k] # content[k]
    BY <2>1, <2>2, <2>4
  <2>5. CASE content'[l] # content[l]
    BY <2>1, <2>2, <2>5
  <2>6. QED
    BY <2>3, <2>4, <2>5
<1>9. EnrolledAreRecorded'
  <2>1. \A k \in Keys : owner[k] = NoTxn /\ EnrolRow(k) =>
           owner'[k] = NoTxn /\ content'[k] = content[k]
    BY <1>1 DEF EnrolRow, BaseInv, AuthorInv, RowsHaveContent
  <2>2. QED
    BY <1>2, <2>1 DEF ScopeInv, EnrolledAreRecorded, EnrolRow, Enrolled
<1>10. QED
  BY <1>7, <1>8, <1>9 DEF ScopeInv

\* A transaction's own row has what it was to write, and at the commit it is there if no
\* other request was under way.
LEMMA OwnRowIs ==
    ASSUME BaseInv, NEW t \in Txns
    PROVE  /\ \A k \in Keys : owner[k] = t =>
                 pc[t] = "written" /\ k = ServerKey(seq[t]) /\ content[k] = draft[t] /\ row[k] # 0
           /\ alone /\ pc[t] = "written" =>
                 /\ ServerKey(seq[t]) \in Keys /\ owner[ServerKey(seq[t])] = t
                 /\ content[ServerKey(seq[t])] = draft[t] /\ draft[t] # NoEvent
                 /\ row[ServerKey(seq[t])] = number[t]
                 /\ \A u \in Txns : u # t => pc[u] = "idle"
<1>1. \A k \in Keys : owner[k] = t =>
         pc[t] = "written" /\ k = ServerKey(seq[t]) /\ content[k] = draft[t] /\ row[k] # 0
  <2>1. \A k \in Keys : owner[k] = t => row[k] # 0
    BY EventTableAssumption DEF BaseInv, AuthorInv, TableInv, OwnersHaveRows
  <2>2. QED
    BY <2>1, EventTableAssumption DEF BaseInv, AuthorInv, OwnRowIsTheDraft
<1>2. ASSUME alone, pc[t] = "written"
      PROVE  /\ ServerKey(seq[t]) \in Keys /\ owner[ServerKey(seq[t])] = t
             /\ content[ServerKey(seq[t])] = draft[t] /\ draft[t] # NoEvent
             /\ row[ServerKey(seq[t])] = number[t]
             /\ \A u \in Txns : u # t => pc[u] = "idle"
  <2>1. ServerKey(seq[t]) \in Keys /\ row[ServerKey(seq[t])] = number[t] /\ draft[t] # NoEvent
    BY <1>2, ServerKeyIs DEF BaseInv, AuthorInv, AuthorFlow, Writing
  <2>2. /\ owner[ServerKey(seq[t])] = t
        /\ \A u \in Txns : u # t => pc[u] = "idle"
    BY <1>2 DEF BaseInv, AuthorInv, AloneIsAlone
  <2>3. QED
    BY <1>1, <2>1, <2>2
<1>3. QED
  BY <1>1, <1>2

LEMMA EndScope ==
    ASSUME BaseInv, EnrolFlow, ScopeInv, NEW t \in Txns, CommitEnrolment(t) \/ FailEnrolment(t)
    PROVE  ScopeInv'
<1>1. /\ \A c \in Codes : CodeScope(c)' = CodeScope(c)
      /\ \A d \in DeviceIds : device[d].by # t => device'[d] = device[d]
  BY EndFlow
<1>2. alone' = alone
  BY EndIs DEF CommitEnrolment, FailEnrolment, Commit, Fail, Commits
<1>3. /\ CommitEnrolment(t) =>
            /\ pc[t] = "written" /\ content' = content
            /\ \A k \in Keys : owner'[k] = IF owner[k] = t THEN NoTxn ELSE owner[k]
            /\ \A d \in DeviceIds : device[d].by = t =>
                  /\ device'[d].state = "committed" /\ device'[d].code = device[d].code
      /\ FailEnrolment(t) =>
            /\ \A k \in Keys :
                  /\ owner'[k] = IF owner[k] = t THEN NoTxn ELSE owner[k]
                  /\ content'[k] = IF owner[k] = t THEN NoEvent ELSE content[k]
            /\ \A d \in DeviceIds : device[d].by = t => device'[d].state = "none"
  <2>1. ASSUME CommitEnrolment(t)
        PROVE  /\ pc[t] = "written" /\ content' = content
               /\ \A k \in Keys : owner'[k] = IF owner[k] = t THEN NoTxn ELSE owner[k]
    BY <2>1, EndIs DEF CommitEnrolment, Commit, Commits
  <2>2. ASSUME CommitEnrolment(t), NEW d \in DeviceIds, device[d].by = t
        PROVE  device'[d].state = "committed" /\ device'[d].code = device[d].code
    <3>1. device'[d] = [device[d] EXCEPT !.state = "committed", !.by = NoTxn]
      BY <2>2 DEF CommitEnrolment
    <3>2. device[d] \in [state : {"none", "open", "committed"},
                         by : Txns \cup {NoTxn}, code : Codes \cup {NoCode}]
      BY DEF BaseInv, EnrolmentTyped
    <3>3. QED
      BY <3>1, <3>2
  <2>3. ASSUME FailEnrolment(t)
        PROVE  /\ \A k \in Keys :
                  /\ owner'[k] = IF owner[k] = t THEN NoTxn ELSE owner[k]
                  /\ content'[k] = IF owner[k] = t THEN NoEvent ELSE content[k]
               /\ \A d \in DeviceIds : device[d].by = t => device'[d].state = "none"
    BY <2>3, EndIs DEF FailEnrolment, Fail, NoDevice
  <2>4. QED
    BY <2>1, <2>2, <2>3
<1>4. ASSUME NEW k \in Keys, EnrolRow(k)
      PROVE  /\ content[k].subject \in DeviceIds
             /\ device[content[k].subject].state # "none"
             /\ device[content[k].subject].code \in Codes
             /\ ScopeOf(content[k]) = CodeScope(device[content[k].subject].code)
             /\ owner[k] = NoTxn => device[content[k].subject].state = "committed"
             /\ owner[k] = t <=> device[content[k].subject].by = t
  <2> DEFINE d == content[k].subject
  <2>1. /\ d \in DeviceIds /\ device[d].state # "none"
        /\ ScopeOf(content[k]) = CodeScope(device[d].code)
        /\ owner[k] = NoTxn => device[d].state = "committed"
    BY <1>4 DEF ScopeInv, EnrolRowsScope
  <2>2. device[d].code \in Codes /\ (device[d].state = "open" <=> device[d].by # NoTxn)
    BY <2>1 DEF EnrolFlow, DeviceFlow
  <2>3. ASSUME NEW u \in Txns, owner[k] = u PROVE device[d].by = u
    <3>1. pc[u] = "written" /\ content[k] = draft[u]
      BY <2>3, OwnRowIs
    <3>2. Doing(u, "enrol") /\ TxnFlow(u)
      BY <1>4, <3>1 DEF EnrolRow, Doing, EnrolFlow
    <3>3. draft[u].subject = read[u].device /\ device[read[u].device].by = u
      BY <3>1, <3>2 DEF TxnFlow, Served
    <3>4. QED
      BY <3>1, <3>3
  <2>4. owner[k] \in Txns \cup {NoTxn}
    BY DEF BaseInv, AuthorInv, TableInv, TableTypeOK
  <2>5. owner[k] = t <=> device[d].by = t
    BY <2>1, <2>2, <2>3, <2>4, EventTableAssumption
  <2>6. QED
    BY <2>1, <2>2, <2>5
<1>5. EnrolRowsScope'
  <2>1. SUFFICES ASSUME NEW k \in Keys, EnrolRow(k)'
                 PROVE  /\ content'[k].subject \in DeviceIds
                        /\ device'[content'[k].subject].state # "none"
                        /\ owner'[k] = NoTxn => device'[content'[k].subject].state = "committed"
                        /\ ScopeOf(content[k])' = CodeScope(device[content[k].subject].code)'
    BY DEF EnrolRowsScope
  <2>2. EnrolRow(k) /\ content'[k] = content[k] /\ (FailEnrolment(t) => owner[k] # t)
    BY <1>3, <2>1 DEF EnrolRow
  <2> DEFINE d == content[k].subject
  <2>3. /\ d \in DeviceIds /\ device[d].state # "none" /\ device[d].code \in Codes
        /\ ScopeOf(content[k]) = CodeScope(device[d].code)
        /\ owner[k] = NoTxn => device[d].state = "committed"
        /\ owner[k] = t <=> device[d].by = t
    BY <1>4, <2>2
  <2>4. /\ device'[d].code = device[d].code /\ device'[d].state # "none"
        /\ owner'[k] = NoTxn => device'[d].state = "committed"
    BY <1>1, <1>3, <2>2, <2>3
  <2>5. CodeScope(device[d].code)' = CodeScope(device[d].code)
    BY <1>1, <2>2, <2>3, <2>4 DEF CodeScope
  <2>6. QED
    BY <2>2, <2>3, <2>4, <2>5 DEF ScopeOf
<1>6. OneRowPerDevice'
  BY <1>3 DEF ScopeInv, OneRowPerDevice, EnrolRow
<1>7. EnrolledAreRecorded'
  <2>1. SUFFICES ASSUME alone, NEW d \in Enrolled'
                 PROVE  \E k \in Keys : owner'[k] = NoTxn /\ EnrolRow(k)' /\ content'[k].subject = d
    BY <1>2 DEF EnrolledAreRecorded
  <2>2. d \in DeviceIds /\ device'[d].state = "committed"
    BY <2>1 DEF Enrolled
  <2>3. CASE device[d].by = t
    <3> DEFINE k == ServerKey(seq[t])
    <3>1. CommitEnrolment(t) /\ pc[t] = "written"
      BY <1>3, <2>2, <2>3
    <3>2. Doing(t, "enrol") /\ read[t].device = d
      BY <2>2, <2>3, OpenIsOwned
    <3>3. draft[t].subject = d /\ draft[t].kind = "enrol"
      BY <3>1, <3>2 DEF EnrolFlow, TxnFlow, Doing
    <3>4. k \in Keys /\ owner[k] = t /\ content[k] = draft[t] /\ draft[t] # NoEvent
      BY <2>1, <3>1, OwnRowIs
    <3> HIDE DEF k
    <3>5. owner'[k] = NoTxn /\ content'[k] = draft[t]
      BY <1>3, <3>1, <3>4
    <3>6. QED
      BY <3>3, <3>4, <3>5 DEF EnrolRow
  <2>4. CASE device[d].by # t
    <3>1. d \in Enrolled
      BY <1>1, <2>2, <2>4 DEF Enrolled
    <3>2. PICK k \in Keys : owner[k] = NoTxn /\ EnrolRow(k) /\ content[k].subject = d
      BY <2>1, <3>1 DEF ScopeInv, EnrolledAreRecorded
    <3>3. owner'[k] = NoTxn /\ content'[k] = content[k]
      BY <1>3, <3>2, EventTableAssumption
    <3>4. QED
      BY <3>2, <3>3 DEF EnrolRow
  <2>5. QED
    BY <2>3, <2>4
<1>8. QED
  BY <1>5, <1>6, <1>7 DEF ScopeInv

LEMMA ScopeStep ==
    ASSUME BaseInv, EnrolFlow, ScopeInv, EnrolmentNext
    PROVE  ScopeInv'
<1>1. CASE SessionStep /\ UNCHANGED enrolVars
  BY <1>1, ScopeStays
     DEF SessionStep, Bootstrap, OpenSession, SessionExpires, tableVars, authorVars, history,
         enrolVars, CodeScope
<1>2. ASSUME NEW c \in Codes, MintJoinCode(c) \/ CodeExpires(c) PROVE ScopeInv'
  <2>1. UNCHANGED <<row, owner, content, alone, device>>
    BY <1>2 DEF MintJoinCode, CodeExpires, vars, tableVars, authorVars, history
  <2>2. \A cc \in Codes : code[cc].state # "none" => CodeScope(cc)' = CodeScope(cc)
    <3>1. CASE MintJoinCode(c)
      <4>1. code[c].state = "none" /\ \A cc \in Codes : cc # c => code'[cc] = code[cc]
        BY <3>1 DEF MintJoinCode, BaseInv, EnrolmentTyped
      <4>2. QED
        BY <4>1 DEF CodeScope
    <3>2. CASE CodeExpires(c)
      <4>1. /\ \A cc \in Codes : cc # c => code'[cc] = code[cc]
            /\ code'[c].team = code[c].team /\ code'[c].incident = code[c].incident
        BY <3>2 DEF CodeExpires, BaseInv, EnrolmentTyped, CodeRows
      <4>2. QED
        BY <4>1 DEF CodeScope
    <3>3. QED
      BY <1>2, <3>1, <3>2
  <2>3. QED
    BY <2>1, <2>2, ScopeStays
<1>3. ASSUME NEW t \in Txns, CommandStep(t), UNCHANGED enrolVars PROVE ScopeInv'
  <2>1. CASE AuthorStep(t)
    BY <1>3, <2>1, AuthorStepScope
  <2>2. CASE ~AuthorStep(t)
    <3>1. UNCHANGED <<row, owner, content>> /\ (alone' => alone)
      <4>1. CASE ReadNextAssignmentId(t)
        BY <4>1, ReadsOnIs
      <4>2. CASE ~ReadNextAssignmentId(t)
        BY <1>3, <2>2, <4>2, CommandBegins, BeginIs DEF CommandStep
      <4>3. QED
        BY <4>1, <4>2
    <3>2. QED
      BY <1>3, <3>1, ScopeStays DEF enrolVars, CodeScope
  <2>3. QED
    BY <2>1, <2>2
<1>4. ASSUME NEW t \in Txns, EnrolStep(t) PROVE ScopeInv'
  <2>1. UNCHANGED <<row, owner, content>> /\ (alone' => alone)
    <3>1. CASE ReadJoinCode(t)
      BY <3>1, EnrolBegins, BeginIs
    <3>2. CASE ~ReadJoinCode(t)
      BY <1>4, <3>2, ReadsOnIs DEF EnrolStep
    <3>3. QED
      BY <3>1, <3>2
  <2>2. code' = code
    BY <1>4 DEF EnrolStep, ReadJoinCode, ReadNextDeviceId, InsertCredential, UpdateUses
  <2>3. \A d \in DeviceIds : /\ device[d].state # "none" => device'[d] = device[d]
                             /\ device[d].state = "none" => device'[d].state # "committed"
    <3>1. CASE InsertCredential(t)
      BY <3>1 DEF InsertCredential, BaseInv, EnrolmentTyped
    <3>2. CASE ~InsertCredential(t)
      <4>1. device' = device
        BY <1>4, <3>2 DEF EnrolStep, ReadJoinCode, ReadNextDeviceId, UpdateUses
      <4>2. QED
        BY <4>1
    <3>3. QED
      BY <3>1, <3>2
  <2>4. QED
    BY <2>1, <2>2, <2>3, ScopeStays DEF CodeScope
<1>5. ASSUME NEW t \in Txns, CommitEnrolment(t) \/ FailEnrolment(t) PROVE ScopeInv'
  BY <1>5, EndScope
<1>6. QED
  BY <1>1, <1>2, <1>3, <1>4, <1>5 DEF EnrolmentNext

LEMMA ScopeFollows ==
    ASSUME BaseInv, ScopeInv
    PROVE  TokenScopeIsItsCodes
<1>1. \A k : k \in OfKind(Committed, "enrol") <=> k \in Keys /\ row[k] # 0 /\ owner[k] = NoTxn /\ EnrolRow(k)
  BY DEF OfKind, Committed, EnrolRow
<1>2. ASSUME NEW d \in Enrolled PROVE Cardinality(EnrolmentsOf(d)) <= 1
  <2>1. EnrolmentsOf(d) \subseteq {k \in Keys : row[k] # 0}
    BY <1>1 DEF EnrolmentsOf
  <2>2. IsFiniteSet(EnrolmentsOf(d))
    BY <2>1, RowsAreFinite DEF BaseInv, AuthorInv
  <2>3. \A k, l \in EnrolmentsOf(d) : k = l
    BY <1>1 DEF EnrolmentsOf, ScopeInv, OneRowPerDevice
  <2>4. QED
    BY <2>2, <2>3, AtMostOne
<1>3. ASSUME NEW d \in Enrolled, NEW k \in EnrolmentsOf(d)
      PROVE  Scope(k) = CodeScope(device[d].code)
  <2>1. k \in Keys /\ EnrolRow(k) /\ content[k].subject = d
    BY <1>1 DEF EnrolmentsOf
  <2>2. QED
    BY <2>1 DEF ScopeInv, EnrolRowsScope, Scope, ScopeOf
<1>4. ASSUME alone, NEW d \in Enrolled PROVE EnrolmentsOf(d) # {}
  <2>1. PICK k \in Keys : owner[k] = NoTxn /\ EnrolRow(k) /\ content[k].subject = d
    BY <1>4 DEF ScopeInv, EnrolledAreRecorded
  <2>2. row[k] # 0
    BY <2>1 DEF EnrolRow, BaseInv, AuthorInv, RowsHaveContent
  <2>3. QED
    BY <1>1, <2>1, <2>2 DEF EnrolmentsOf
<1>5. ASSUME NEW k \in OfKind(Committed, "enrol") PROVE content[k].subject \in Enrolled
  BY <1>1, <1>5 DEF ScopeInv, EnrolRowsScope, Enrolled
<1>6. QED
  BY <1>2, <1>3, <1>4, <1>5 DEF TokenScopeIsItsCodes

-----------------------------------------------------------------------------
(* The uses of a join code.                                                *)

UsesInv ==
    /\ \A c \in Codes :
          /\ code[c].uses <= Cardinality(EnrolledBy(c))
          /\ alone => Cardinality(EnrolledBy(c)) = code[c].uses
    /\ \A t \in Txns : Doing(t, "enrol") =>
          /\ read[t].uses <= Cardinality(EnrolledBy(read[t].code))
          /\ alone => read[t].uses = code[read[t].code].uses

LEMMA DevicesAreFinite ==
    \A c : /\ IsFiniteSet(EnrolledBy(c))
           /\ Cardinality(EnrolledBy(c)) \in Nat
<1>1. MaxDevice \in Nat /\ 1 \in Nat
  BY EnrolmentAssumption
<1>2. IsFiniteSet(DeviceIds)
  BY <1>1, FS_Interval DEF DeviceIds
<1>3. \A c : EnrolledBy(c) \subseteq DeviceIds
  BY DEF EnrolledBy, Enrolled
<1>4. QED
  BY <1>2, <1>3, FS_Subset, FS_CardinalityType

LEMMA UsesInitial == EnrolmentInit => UsesInv
<1> SUFFICES ASSUME EnrolmentInit PROVE UsesInv
  OBVIOUS
<1>1. \A c : EnrolledBy(c) = {}
  BY DEF EnrolmentInit, EnrolledBy, Enrolled, NoDevice
<1>2. \A c : Cardinality(EnrolledBy(c)) = 0
  BY <1>1, FS_EmptySet
<1>3. QED
  BY <1>2 DEF EnrolmentInit, CommandInit, AuthoringInit, UsesInv, Doing

\* A step that enrols nobody and changes no uses.
LEMMA UsesStay ==
    ASSUME BaseInv, EnrolFlow, UsesInv, alone' => alone,
           \A c \in Codes : code'[c].uses = code[c].uses,
           \A d \in DeviceIds : device[d].state = "committed" => device'[d] = device[d],
           \A d \in DeviceIds : device[d].state # "committed" => device'[d].state # "committed",
           \A u \in Txns : Doing(u, "enrol")' =>
               \/ /\ Doing(u, "enrol") /\ read'[u].uses = read[u].uses
                  /\ read'[u].code = read[u].code
               \/ read'[u].code \in Codes /\ read'[u].uses = code[read'[u].code].uses
    PROVE  UsesInv'
<1>1. \A c : EnrolledBy(c)' = EnrolledBy(c)
  <2>1. Enrolled' = Enrolled /\ \A d \in Enrolled : device'[d] = device[d]
    BY DEF Enrolled
  <2>2. QED
    BY <2>1 DEF EnrolledBy
<1>2. ASSUME NEW c \in Codes
      PROVE  /\ code'[c].uses <= Cardinality(EnrolledBy(c)')
             /\ alone' => Cardinality(EnrolledBy(c)') = code'[c].uses
  BY <1>1, <1>2 DEF UsesInv
<1>3. ASSUME NEW u \in Txns, Doing(u, "enrol")'
      PROVE  /\ read'[u].uses <= Cardinality(EnrolledBy(read[u].code)')
             /\ alone' => read'[u].uses = code'[read'[u].code].uses
  <2>1. CASE /\ Doing(u, "enrol") /\ read'[u].uses = read[u].uses
             /\ read'[u].code = read[u].code
    <3>1. read[u].code \in Codes
      BY <2>1 DEF EnrolFlow, TxnFlow
    <3>2. EnrolledBy(read[u].code)' = EnrolledBy(read[u].code)
      BY <1>1, <2>1 DEF EnrolledBy, Enrolled
    <3>3. QED
      BY <2>1, <3>1, <3>2 DEF UsesInv
  <2>2. CASE read'[u].code \in Codes /\ read'[u].uses = code[read'[u].code].uses
    <3> DEFINE c == read'[u].code
    <3>1. code[c].uses <= Cardinality(EnrolledBy(c)) /\ code'[c].uses = code[c].uses
      BY <2>2 DEF UsesInv
    <3>2. EnrolledBy(read[u].code)' = {d \in Enrolled : device[d].code = c}
      BY <1>1 DEF EnrolledBy, Enrolled
    <3>3. QED
      BY <2>2, <3>1, <3>2 DEF EnrolledBy
  <2>3. QED
    BY <1>3, <2>1, <2>2
<1>4. QED
  BY <1>2, <1>3 DEF UsesInv

LEMMA FailUses ==
    ASSUME BaseInv, EnrolFlow, UsesInv, NEW t \in Txns, FailEnrolment(t)
    PROVE  UsesInv'
<1>1. /\ alone' = alone /\ pc'[t] = "idle"
      /\ \A u \in Txns : u # t => pc'[u] = pc[u] /\ draft'[u] = draft[u]
  BY EndIs DEF FailEnrolment, Fail
<1>2. /\ \A u \in Txns : u # t => read'[u] = read[u]
      /\ \A d \in DeviceIds : device[d].by # t => device'[d] = device[d]
  BY EndFlow
<1>3. /\ code' = code
      /\ \A d \in DeviceIds : device[d].by = t =>
            device'[d].state # "committed" /\ device[d].state = "open"
  BY EventTableAssumption DEF FailEnrolment, NoDevice, EnrolFlow, DeviceFlow
<1>4. \A d \in DeviceIds : /\ device[d].state = "committed" => device'[d] = device[d]
                           /\ device[d].state # "committed" => device'[d].state # "committed"
  BY <1>2, <1>3
<1>5. \A u \in Txns : Doing(u, "enrol")' =>
         Doing(u, "enrol") /\ read'[u].uses = read[u].uses /\ read'[u].code = read[u].code
  BY <1>1, <1>2 DEF Doing
<1>6. QED
  BY <1>1, <1>3, <1>4, <1>5, UsesStay

LEMMA CommitUses ==
    ASSUME BaseInv, EnrolFlow, UsesInv, NEW t \in Txns, CommitEnrolment(t)
    PROVE  UsesInv'
<1>1. /\ alone' = alone /\ pc'[t] = "idle" /\ pc[t] = "written"
      /\ \A u \in Txns : u # t => pc'[u] = pc[u] /\ draft'[u] = draft[u]
  BY EndIs DEF CommitEnrolment, Commit, Commits
<1>2. /\ \A u \in Txns : u # t => read'[u] = read[u]
      /\ \A d \in DeviceIds : device[d].by # t => device'[d] = device[d]
      /\ \A c \in Codes : update[c].by # t => code'[c] = code[c]
  BY EndFlow
<1>3. \A u \in Txns : Doing(u, "enrol")' =>
         /\ Doing(u, "enrol") /\ u # t /\ ~alone
         /\ read'[u] = read[u] /\ read[u].code \in Codes
  <2>1. SUFFICES ASSUME NEW u \in Txns, Doing(u, "enrol")'
                 PROVE  /\ Doing(u, "enrol") /\ u # t /\ ~alone
                        /\ read'[u] = read[u] /\ read[u].code \in Codes
    OBVIOUS
  <2>2. Doing(u, "enrol") /\ u # t
    BY <1>1, <2>1 DEF Doing
  <2>3. read'[u] = read[u] /\ read[u].code \in Codes
    BY <1>2, <2>2 DEF EnrolFlow, TxnFlow
  <2>4. ~alone
    BY <1>1, <2>2, OwnRowIs DEF Doing
  <2>5. QED
    BY <2>2, <2>3, <2>4
<1>4. CASE ~Doing(t, "enrol")
  <2>1. /\ \A d \in DeviceIds : device'[d] = device[d]
        /\ \A c \in Codes : code'[c] = code[c]
    BY <1>2, <1>4, OpenIsOwned
  <2>2. QED
    BY <1>1, <1>3, <2>1, UsesStay
<1>5. CASE Doing(t, "enrol")
  <2>1. PICK c \in Codes, new \in DeviceIds :
           /\ c = read[t].code /\ new = read[t].device /\ update[c].by = t
           /\ device[new] = [state |-> "open", by |-> t, code |-> c]
    BY <1>1, <1>5 DEF EnrolFlow, TxnFlow, Served
  <2>2. update[c].uses = read[t].uses + 1
    BY <2>1, EventTableAssumption DEF EnrolFlow, UpdateFlow
  <2>3. /\ code'[c].uses = read[t].uses + 1
        /\ \A cc \in Codes : cc # c => code'[cc] = code[cc]
    <3>1. code'[c] = [code[c] EXCEPT !.uses = update[c].uses]
      BY <2>1 DEF CommitEnrolment
    <3>2. code'[c].uses = update[c].uses
      BY <2>1, <3>1 DEF BaseInv, EnrolmentTyped, CodeRows
    <3>3. \A cc \in Codes : cc # c => update[cc].by # t
      BY <2>1, OpenIsOwned
    <3>4. QED
      BY <1>2, <2>2, <3>2, <3>3
  <2>4. /\ device'[new].state = "committed" /\ device'[new].code = c
        /\ \A d \in DeviceIds : d # new => device'[d] = device[d]
    <3>1. device'[new] = [device[new] EXCEPT !.state = "committed", !.by = NoTxn]
      <4>1. device[new].by = t
        BY <2>1
      <4>2. QED
        BY <4>1 DEF CommitEnrolment
    <3>2. device'[new].state = "committed" /\ device'[new].code = c
      BY <2>1, <3>1
    <3>3. \A d \in DeviceIds : d # new => device[d].by # t
      BY <2>1, OpenIsOwned
    <3>4. QED
      BY <1>2, <3>2, <3>3
  <2>5. /\ EnrolledBy(c)' = EnrolledBy(c) \cup {new} /\ new \notin EnrolledBy(c)
        /\ \A cc \in Codes : cc # c => EnrolledBy(cc)' = EnrolledBy(cc)
    <3>1. Enrolled' = Enrolled \cup {new} /\ new \notin Enrolled
      BY <2>1, <2>4 DEF Enrolled
    <3>2. \A d \in Enrolled : d \in DeviceIds /\ d # new
      BY <3>1 DEF Enrolled
    <3>3. {d \in Enrolled' : device'[d].code = c} = {d \in Enrolled : device[d].code = c} \cup {new}
      BY <2>4, <3>1, <3>2
    <3>4. \A cc \in Codes : cc # c =>
            {d \in Enrolled' : device'[d].code = cc} = {d \in Enrolled : device[d].code = cc}
      BY <2>4, <3>1, <3>2
    <3>5. QED
      BY <2>1, <3>1, <3>3, <3>4 DEF EnrolledBy
  <2>6. Cardinality(EnrolledBy(c)') = Cardinality(EnrolledBy(c)) + 1
    BY <2>5, OneMore, DevicesAreFinite
  <2>7. /\ read[t].uses <= Cardinality(EnrolledBy(c))
        /\ alone => read[t].uses = Cardinality(EnrolledBy(c))
    BY <1>5, <2>1 DEF UsesInv
  <2>8. Cardinality(EnrolledBy(c)) \in Nat /\ read[t].uses \in Nat
    BY DevicesAreFinite, EnrolmentAssumption DEF BaseInv, EnrolmentTyped
  <2>9. ASSUME NEW cc \in Codes
        PROVE  /\ code'[cc].uses <= Cardinality(EnrolledBy(cc)')
               /\ alone => Cardinality(EnrolledBy(cc)') = code'[cc].uses
    <3>1. CASE cc = c
      BY <2>3, <2>6, <2>7, <2>8, <3>1
    <3>2. CASE cc # c
      BY <2>3, <2>5, <2>9, <3>2 DEF UsesInv
    <3>3. QED
      BY <3>1, <3>2
  <2>10. ASSUME NEW u \in Txns, Doing(u, "enrol")'
         PROVE  /\ read'[u].uses <= Cardinality(EnrolledBy(read[u].code)')
                /\ ~alone
    <3>1. PICK cc \in Codes : /\ Doing(u, "enrol") /\ ~alone
                              /\ read'[u] = read[u] /\ cc = read[u].code
      BY <1>3, <2>10
    <3>2. read[u].uses <= Cardinality(EnrolledBy(cc)) /\ read[u].uses \in Nat
      BY <3>1, EnrolmentAssumption DEF UsesInv, BaseInv, EnrolmentTyped
    <3>3. EnrolledBy(read[u].code)' = EnrolledBy(cc)'
      BY <3>1 DEF EnrolledBy
    <3>4. Cardinality(EnrolledBy(cc)')
            \in {Cardinality(EnrolledBy(cc)), Cardinality(EnrolledBy(cc)) + 1}
      BY <2>5, <2>6
    <3>5. Cardinality(EnrolledBy(cc)) \in Nat
      BY DevicesAreFinite
    <3>6. read[u].uses <= Cardinality(EnrolledBy(cc)')
      BY <3>2, <3>4, <3>5
    <3>7. QED
      BY <3>1, <3>3, <3>6
  <2>11. QED
    BY <1>1, <2>9, <2>10 DEF UsesInv
<1>6. QED
  BY <1>4, <1>5

LEMMA UsesStep ==
    ASSUME BaseInv, EnrolFlow, UsesInv, EnrolmentNext
    PROVE  UsesInv'
<1>1. CASE SessionStep /\ UNCHANGED enrolVars
  <2>1. UNCHANGED <<pc, draft, alone, code, device, read>>
    BY <1>1 DEF SessionStep, Bootstrap, OpenSession, SessionExpires, authorVars, history, enrolVars
  <2>2. QED
    BY <2>1, UsesStay DEF Doing
<1>2. ASSUME NEW c \in Codes, MintJoinCode(c) \/ CodeExpires(c) PROVE UsesInv'
  <2>1. UNCHANGED <<pc, draft, alone, device, read>>
    BY <1>2 DEF MintJoinCode, CodeExpires, vars, authorVars, history
  <2>2. \A cc \in Codes : code'[cc].uses = code[cc].uses
    <3>1. CASE MintJoinCode(c)
      <4>1. PICK i \in session, team \in Teams :
              code' = [code EXCEPT ![c] = [@ EXCEPT !.state = "live", !.team = team, !.incident = i]]
        BY <3>1 DEF MintJoinCode
      <4>2. QED
        BY <4>1 DEF BaseInv, EnrolmentTyped, CodeRows
    <3>2. CASE CodeExpires(c)
      BY <3>2 DEF CodeExpires, BaseInv, EnrolmentTyped, CodeRows
    <3>3. QED
      BY <1>2, <3>1, <3>2
  <2>3. QED
    BY <2>1, <2>2, UsesStay DEF Doing
<1>3. ASSUME NEW t \in Txns, CommandStep(t), UNCHANGED enrolVars PROVE UsesInv'
  <2>1. alone' => alone
    <3>1. CASE ReadNextAssignmentId(t)
      BY <3>1, ReadsOnIs
    <3>2. CASE AuthorStep(t)
      BY <3>2, AuthorStepIs
    <3>3. CASE ~ReadNextAssignmentId(t) /\ ~AuthorStep(t)
      BY <1>3, <3>3, CommandBegins, BeginIs DEF CommandStep
    <3>4. QED
      BY <3>1, <3>2, <3>3
  <2>2. QED
    BY <1>3, <2>1, NotEnrolling, UsesStay DEF enrolVars
<1>4. ASSUME NEW t \in Txns, ReadJoinCode(t) PROVE UsesInv'
  <2>1. PICK e \in AnyEvent, c \in Codes :
          /\ Begin(t, e, "enrol")
          /\ read' = [read EXCEPT ![t] = [@ EXCEPT !.code = c, !.uses = code[c].uses]]
    BY <1>4, EnrolBegins
  <2>2. /\ alone' => alone
        /\ \A u \in Txns : u # t => pc'[u] = pc[u] /\ draft'[u] = draft[u]
    BY <2>1, BeginIs
  <2>3. /\ read'[t].code = c /\ read'[t].uses = code[c].uses
        /\ \A u \in Txns : u # t => read'[u] = read[u]
    BY <2>1 DEF BaseInv, EnrolmentTyped
  <2>4. UNCHANGED <<code, device>>
    BY <1>4 DEF ReadJoinCode
  <2>5. \A u \in Txns : Doing(u, "enrol")' =>
          \/ /\ Doing(u, "enrol") /\ read'[u].uses = read[u].uses
             /\ read'[u].code = read[u].code
          \/ read'[u].code \in Codes /\ read'[u].uses = code[read'[u].code].uses
    BY <2>2, <2>3 DEF Doing
  <2>6. QED
    BY <2>2, <2>4, <2>5, UsesStay
<1>5. ASSUME NEW t \in Txns, ReadNextDeviceId(t) \/ InsertCredential(t) \/ UpdateUses(t) PROVE UsesInv'
  <2>1. /\ alone' = alone /\ pc[t] # "idle" /\ draft'[t].kind = draft[t].kind
        /\ \A u \in Txns : u # t => pc'[u] = pc[u] /\ draft'[u] = draft[u]
    BY <1>5, ReadsOnIs
  <2>2. code' = code
    BY <1>5 DEF ReadNextDeviceId, InsertCredential, UpdateUses
  <2>3. \A u \in Txns : read'[u].uses = read[u].uses /\ read'[u].code = read[u].code
    BY <1>5 DEF ReadNextDeviceId, InsertCredential, UpdateUses, BaseInv, EnrolmentTyped
  <2>4. \A d \in DeviceIds : /\ device[d].state = "committed" => device'[d] = device[d]
                             /\ device[d].state # "committed" => device'[d].state # "committed"
    BY <1>5 DEF ReadNextDeviceId, InsertCredential, UpdateUses, BaseInv, EnrolmentTyped
  <2>5. QED
    BY <2>1, <2>2, <2>3, <2>4, UsesStay DEF Doing
<1>6. ASSUME NEW t \in Txns, CommitEnrolment(t) \/ FailEnrolment(t) PROVE UsesInv'
  BY <1>6, CommitUses, FailUses
<1>7. QED
  BY <1>1, <1>2, <1>3, <1>4, <1>5, <1>6 DEF EnrolmentNext, EnrolStep

LEMMA UsesFollow ==
    ASSUME BaseInv, UsesInv
    PROVE  UsesAreCounted
BY EnrolmentAssumption DEF UsesInv, UsesAreCounted, BaseInv, EnrolmentTyped, CodeRows

-----------------------------------------------------------------------------
(* What a step does to the log.                                            *)

Acts(t) ==
    CommandStep(t) \/ EnrolStep(t) \/ CommitEnrolment(t) \/ FailEnrolment(t)

\* The steps of nobody's request leave the log and the requests alone.
LEMMA NobodyActs ==
    ASSUME EnrolmentNext, \A t \in Txns : ~Acts(t)
    PROVE  UNCHANGED <<row, owner, drawn, content, pc, draft, seq, number, answered, alone, held>>
BY DEF EnrolmentNext, Acts, SessionStep, Bootstrap, OpenSession, SessionExpires, MintJoinCode,
   CodeExpires, vars, tableVars, authorVars, history, commandVars

\* As long as the requests come one after the other, the one that acts is the only one.
LEMMA AloneActs ==
    ASSUME BaseInv, NEW t \in Txns, Acts(t), alone'
    PROVE  alone /\ \A u \in Txns : u # t => pc[u] = "idle" /\ pc'[u] = "idle"
<1>1. ASSUME NEW e, NEW next, Begin(t, e, next)
      PROVE  alone /\ \A u \in Txns : u # t => pc[u] = "idle" /\ pc'[u] = "idle"
  BY <1>1, BeginIs
<1>2. ASSUME pc[t] # "idle", alone, \A u \in Txns : u # t => pc'[u] = pc[u]
      PROVE  alone /\ \A u \in Txns : u # t => pc[u] = "idle" /\ pc'[u] = "idle"
  BY <1>2 DEF BaseInv, AuthorInv, AloneIsAlone
<1>3. CASE CommandStep(t)
  <2>1. CASE ReadNextAssignmentId(t)
    BY <1>2, <2>1, ReadsOnIs
  <2>2. CASE AuthorStep(t)
    BY <1>2, <2>2, AuthorStepIs DEF Served
  <2>3. CASE ~ReadNextAssignmentId(t) /\ ~AuthorStep(t)
    BY <1>1, <1>3, <2>3, CommandBegins DEF CommandStep
  <2>4. QED
    BY <2>1, <2>2, <2>3
<1>4. CASE EnrolStep(t)
  <2>1. CASE ReadJoinCode(t)
    BY <1>1, <2>1, EnrolBegins
  <2>2. CASE ~ReadJoinCode(t)
    BY <1>2, <1>4, <2>2, ReadsOnIs DEF EnrolStep
  <2>3. QED
    BY <2>1, <2>2
<1>5. CASE CommitEnrolment(t) \/ FailEnrolment(t)
  BY <1>2, <1>5, EndIs DEF CommitEnrolment, FailEnrolment, Commit, Fail, Commits
<1>6. QED
  BY <1>3, <1>4, <1>5 DEF Acts

\* A row that is committed was, or is the row of the request that is being committed.
LEMMA LogGrows ==
    ASSUME BaseInv, EnrolmentNext
    PROVE  /\ \A k \in Committed :
                 k \in Committed' /\ content'[k] = content[k] /\ row'[k] = row[k]
           /\ \A k \in Committed' :
                 /\ content'[k] = content[k] /\ row'[k] = row[k]
                 /\ \/ k \in Committed
                    \/ \E t \in Txns : /\ CommitEnrolment(t) /\ pc[t] = "written"
                                      /\ owner[k] = t /\ k = ServerKey(seq[t])
                                      /\ content[k] = draft[t]
           /\ (\A t \in Txns : ~CommitEnrolment(t)) => Committed' = Committed
<1>1. \A k \in Committed :
         k \in Committed' /\ content'[k] = content[k] /\ row'[k] = row[k]
  BY EnrolmentMoves, ContentStays DEF BaseInv
<1>2. ASSUME UNCHANGED <<row, owner, content>>
      PROVE  \A k \in Committed' : content'[k] = content[k] /\ row'[k] = row[k] /\ k \in Committed
  BY <1>2 DEF Committed
<1>3. ASSUME NEW t \in Txns, CommandStep(t) \/ EnrolStep(t)
      PROVE  \A k \in Committed' : content'[k] = content[k] /\ row'[k] = row[k] /\ k \in Committed
  <2>1. CASE AuthorStep(t)
    BY <2>1, AuthorStepIs, EventTableAssumption DEF Committed
  <2>2. CASE ReadNextAssignmentId(t)
    BY <1>2, <2>2, ReadsOnIs
  <2>3. CASE CommandStep(t) /\ ~AuthorStep(t) /\ ~ReadNextAssignmentId(t)
    BY <1>2, <2>3, CommandBegins, BeginIs DEF CommandStep
  <2>4. CASE ReadJoinCode(t)
    BY <1>2, <2>4, EnrolBegins, BeginIs
  <2>5. CASE EnrolStep(t) /\ ~ReadJoinCode(t)
    BY <1>2, <2>5, ReadsOnIs DEF EnrolStep
  <2>6. QED
    BY <1>3, <2>1, <2>2, <2>3, <2>4, <2>5
<1>4. ASSUME NEW t \in Txns, FailEnrolment(t)
      PROVE  \A k \in Committed' : content'[k] = content[k] /\ row'[k] = row[k] /\ k \in Committed
  BY <1>4, EndIs DEF FailEnrolment, Fail, Committed
<1>5. ASSUME NEW t \in Txns, CommitEnrolment(t), NEW k \in Committed'
      PROVE  /\ content'[k] = content[k] /\ row'[k] = row[k]
             /\ k \in Committed \/ /\ pc[t] = "written" /\ owner[k] = t
                                   /\ k = ServerKey(seq[t]) /\ content[k] = draft[t]
  <2>1. /\ pc[t] = "written" /\ row' = row /\ content' = content
        /\ \A l \in Keys : owner'[l] = IF owner[l] = t THEN NoTxn ELSE owner[l]
    BY <1>5, EndIs DEF CommitEnrolment, Commit, Commits
  <2>2. k \in Keys /\ row[k] # 0 /\ (owner[k] = t \/ owner[k] = NoTxn)
    BY <1>5, <2>1 DEF Committed
  <2>3. QED
    BY <2>1, <2>2, OwnRowIs DEF Committed
<1>6. CASE \A t \in Txns : ~Acts(t)
  <2>1. UNCHANGED <<row, owner, content>>
    BY <1>6, NobodyActs
  <2>2. \A k \in Committed' : content'[k] = content[k] /\ row'[k] = row[k] /\ k \in Committed
    BY <1>2, <2>1
  <2>3. QED
    BY <1>1, <2>2
<1>7. ASSUME NEW t \in Txns, CommandStep(t) \/ EnrolStep(t) \/ FailEnrolment(t)
      PROVE  \A k \in Committed' : content'[k] = content[k] /\ row'[k] = row[k] /\ k \in Committed
  BY <1>3, <1>4, <1>7
<1>8. CASE \E t \in Txns : CommandStep(t) \/ EnrolStep(t) \/ FailEnrolment(t)
  <2>1. \A k \in Committed' : content'[k] = content[k] /\ row'[k] = row[k] /\ k \in Committed
    BY <1>7, <1>8
  <2>2. QED
    BY <1>1, <2>1
<1>9. CASE \E t \in Txns : CommitEnrolment(t)
  BY <1>1, <1>5, <1>9
<1>10. QED
  BY <1>6, <1>8, <1>9 DEF Acts

\* Requests that come one after the other do so from the start.
LEMMA AloneStays ==
    ASSUME BaseInv, EnrolmentNext
    PROVE  alone' => alone
<1>1. CASE \A t \in Txns : ~Acts(t)
  BY <1>1, NobodyActs
<1>2. CASE \E t \in Txns : Acts(t)
  BY <1>2, AloneActs
<1>3. QED
  BY <1>1, <1>2

-----------------------------------------------------------------------------
(* The declared incidents.                                                 *)

\* A declaration in the log is that of a committed incident; and the incidents have theirs.
DeclaredInv ==
    /\ \A k \in OfKind(Committed, "declare") :
          /\ content[k].subject \in Incidents \ {Bootstrapped}
          /\ declared[content[k].subject] = "committed"
    /\ alone => \A i \in Incidents \ {Bootstrapped} : declared[i] = "committed" =>
          \E k \in OfKind(Committed, "declare") : content[k].subject = i

LEMMA IncidentsOnlyClose ==
    ASSUME BaseInv, DeclarersDeclare, EnrolmentNext, NEW i \in Incidents
    PROVE  /\ declared[i] = "committed" => declared'[i] = "committed"
           /\ declared'[i] = "committed" =>
                 \/ declared[i] = "committed" \/ i = Bootstrapped
                 \/ \E t \in Txns : CommitEnrolment(t) /\ declarer[i] = t
           /\ \A t \in Txns : CommitEnrolment(t) /\ declarer[i] = t => declared'[i] = "committed"
<1> USE EventTableAssumption
<1>1. declared[i] = "committed" => declarer[i] = NoTxn
  BY DEF DeclarersDeclare
<1>2. ASSUME NEW t \in Txns, CommitEnrolment(t)
      PROVE  declared'[i] = IF declarer[i] = t THEN "committed" ELSE declared[i]
  BY <1>2 DEF CommitEnrolment, Commit, CloseIncident
<1>3. CASE \E t \in Txns : CommitEnrolment(t)
  BY <1>1, <1>2, <1>3
<1>4. CASE \A t \in Txns : ~CommitEnrolment(t)
  <2>1. CASE SessionStep
    BY <1>4, <2>1 DEF SessionStep, Bootstrap, OpenSession, SessionExpires, BaseInv, CommandTyped
  <2>2. CASE \E c \in Codes : MintJoinCode(c) \/ CodeExpires(c)
    BY <1>4, <2>2 DEF MintJoinCode, CodeExpires, vars, commandVars, incidentVars
  <2>3. ASSUME NEW t \in Txns, CommandStep(t), ~InsertIncident(t) PROVE declared' = declared
    BY <2>3, IncidentsStay DEF incidentVars
  <2>4. ASSUME NEW t \in Txns, InsertIncident(t)
        PROVE  /\ declared[i] = "committed" => declared'[i] = "committed"
               /\ declared'[i] = "committed" => declared[i] = "committed"
    <3>1. /\ lastId' = lastId + 1 /\ lastId' \in Incidents
          /\ declared' = [declared EXCEPT ![lastId'] = "open"]
      BY <2>4, InsertsIncident
    <3>2. \A j \in Incidents : declared'[j] = IF j = lastId' THEN "open" ELSE declared[j]
      BY <3>1 DEF BaseInv, CommandTyped
    <3>3. Incidents \subseteq Nat /\ lastId \in Nat
      BY EventFacts DEF BaseInv, CommandTyped
    <3>4. declared[lastId'] = "none"
      BY <3>1, <3>3 DEF DeclarersDeclare
    <3>5. QED
      BY <3>1, <3>2, <3>4
  <2>5. ASSUME NEW t \in Txns, EnrolStep(t) PROVE declared' = declared
    BY <2>5 DEF EnrolStep, ReadJoinCode, ReadNextDeviceId, InsertCredential, UpdateUses,
       commandVars, incidentVars
  <2>6. ASSUME NEW t \in Txns, FailEnrolment(t)
        PROVE  declared'[i] = IF declarer[i] = t THEN "none" ELSE declared[i]
    BY <2>6 DEF FailEnrolment, Fail, CloseIncident
  <2>7. QED
    BY <1>1, <1>4, <2>1, <2>2, <2>3, <2>4, <2>5, <2>6 DEF EnrolmentNext
<1>5. QED
  BY <1>3, <1>4

LEMMA NothingYet ==
    ASSUME EnrolmentInit
    PROVE  /\ \A V, kind : V \subseteq Keys => OfKind(V, kind) = {}
           /\ \A kind : OfKind(Committed, kind) = {}
           /\ \A t \in Txns : pc[t] = "idle"
BY DEF EnrolmentInit, CommandInit, AuthoringInit, OfKind, Committed

LEMMA DeclaredInitial == EnrolmentInit => DeclaredInv
BY NothingYet DEF EnrolmentInit, CommandInit, DeclaredInv

LEMMA DeclaredStep ==
    ASSUME BaseInv, DeclarersDeclare, DeclaredInv, EnrolmentNext
    PROVE  DeclaredInv'
<1>1. \A k \in Committed' : content'[k] = content[k]
  BY LogGrows
<1>2. ASSUME NEW k \in OfKind(Committed, "declare")'
      PROVE  /\ content'[k].subject \in Incidents \ {Bootstrapped}
             /\ declared'[content'[k].subject] = "committed"
  <2>1. /\ k \in Committed' /\ content'[k] = content[k]
        /\ content[k] # NoEvent /\ content[k].kind = "declare"
    BY <1>1, <1>2 DEF OfKind
  <2>2. CASE k \in Committed
    <3>1. /\ content[k].subject \in Incidents \ {Bootstrapped}
          /\ declared[content[k].subject] = "committed"
      BY <2>1, <2>2 DEF DeclaredInv, OfKind
    <3>2. QED
      BY <2>1, <3>1, IncidentsOnlyClose
  <2>3. ASSUME NEW t \in Txns, CommitEnrolment(t), pc[t] = "written", content[k] = draft[t]
        PROVE  /\ content'[k].subject \in Incidents \ {Bootstrapped}
               /\ declared'[content'[k].subject] = "committed"
    <3>1. Doing(t, "declare")
      BY <2>1, <2>3 DEF Doing
    <3>2. draft[t].subject \in Incidents /\ declarer[draft[t].subject] = t
      BY <3>1 DEF DeclarersDeclare
    <3>3. draft[t].subject # Bootstrapped
      BY <3>2, EventTableAssumption DEF DeclarersDeclare
    <3>4. QED
      BY <2>1, <2>3, <3>2, <3>3, IncidentsOnlyClose
  <2>4. QED
    BY <2>1, <2>2, <2>3, LogGrows
<1>3. ASSUME alone', NEW i \in Incidents \ {Bootstrapped}, declared'[i] = "committed"
      PROVE  \E k \in OfKind(Committed, "declare")' : content'[k].subject = i
  <2>1. alone
    BY <1>3, AloneStays
  <2>2. CASE declared[i] = "committed"
    <3>1. PICK k \in OfKind(Committed, "declare") : content[k].subject = i
      BY <1>3, <2>1, <2>2 DEF DeclaredInv
    <3>2. k \in Committed' /\ content'[k] = content[k]
      BY <3>1, LogGrows DEF OfKind
    <3>3. QED
      BY <3>1, <3>2 DEF OfKind
  <2>3. ASSUME NEW t \in Txns, CommitEnrolment(t), declarer[i] = t
        PROVE  \E k \in OfKind(Committed, "declare")' : content'[k].subject = i
    <3>1. draft[t].kind = "declare" /\ draft[t].subject = i
      BY <2>3, EventTableAssumption DEF DeclarersDeclare, Doing
    <3>2. /\ pc[t] = "written" /\ row' = row /\ content' = content
          /\ \A l \in Keys : owner'[l] = IF owner[l] = t THEN NoTxn ELSE owner[l]
      BY <2>3, EndIs DEF CommitEnrolment, Commit, Commits
    <3>3. PICK k \in Keys : owner[k] = t /\ content[k] = draft[t] /\ draft[t] # NoEvent
      BY <2>1, <3>2, OwnRowIs
    <3>4. k \in Committed' /\ content'[k] = draft[t]
      BY <3>2, <3>3, OwnRowIs DEF Committed
    <3>5. QED
      BY <3>1, <3>3, <3>4 DEF OfKind
  <2>4. QED
    BY <1>3, <2>2, <2>3, IncidentsOnlyClose
<1>4. QED
  BY <1>2, <1>3 DEF DeclaredInv

LEMMA DeclaredFollows ==
    ASSUME DeclaredInv
    PROVE  DeclaredIncidentHasItsEvent
<1>1. ASSUME alone, NEW i \in Incidents \ {Bootstrapped}, declared[i] = "committed"
      PROVE  \E k \in OfKind(Committed, "declare") : content[k].subject = i
  BY <1>1 DEF DeclaredInv
<1>2. ASSUME NEW i \in Incidents \ {Bootstrapped},
             NEW k \in OfKind(Committed, "declare"), content[k].subject = i
      PROVE  declared[i] = "committed"
  BY <1>2 DEF DeclaredInv
<1>3. QED
  BY <1>1, <1>2 DEF DeclaredIncidentHasItsEvent

-----------------------------------------------------------------------------
(* One reading of the log.                                                 *)

\* What is in the log is read in one way, and what a request is about to write will be.
ReadingInv ==
    alone =>
        /\ \A k, l \in OfKind(Committed, "grid") :
              content[k].incident = content[l].incident => k = l
        /\ \A k, l \in OfKind(Committed, "assign") :
              content[k].subject = content[l].subject => k = l
        /\ \A t \in Txns : Doing(t, "grid") =>
              \A k \in OfKind(Committed, "grid") : content[k].incident # draft[t].incident
        /\ \A t \in Txns : Doing(t, "assign") /\ pc[t] # "held" =>
              \A k \in OfKind(Committed, "assign") : content[k].subject # draft[t].subject

\* A request that will write a grid has found none; one that will write an assignment has
\* found who holds its cells, and one that will revoke an assignment has found its issue.
LEMMA BeginsWith ==
    ASSUME BaseInv, NEW t \in Txns,
           \/ InsertIncident(t) \/ RegisterTeam(t) \/ GenerateGrid(t) \/ FindHolders(t)
           \/ RevokeAssignment(t)
    PROVE  /\ draft'[t].kind = "grid" =>
                 \A k \in OfKind(Visible(t), "grid") : content[k].incident # draft'[t].incident
           /\ draft'[t].kind = "assign" =>
                 /\ pc'[t] = "held"
                 /\ draft'[t] \in Wishes
                 /\ held'[t] = OtherHolders(Visible(t), draft'[t])
           /\ draft'[t].kind = "revoke" =>
                 \E k \in OfKind(Visible(t), "assign") : content[k].subject = draft'[t].subject
<1>1. PICK e \in AnyEvent, next \in {"author", "held"} :
         /\ Begin(t, e, next)
         /\ next = "held" <=> e.kind = "assign"
         /\ e.kind = "declare" <=> InsertIncident(t)
  BY CommandBegins
<1>2. pc'[t] = next /\ draft'[t] = e
  BY <1>1, BeginIs
<1>3. CASE InsertIncident(t)
  BY <1>1, <1>2, <1>3
<1>4. CASE RegisterTeam(t)
  <2>1. \E w \in Wishes : w.kind = "team" /\ draft'[t] = w
    BY <1>4, BeginIs DEF RegisterTeam
  <2>2. QED
    BY <2>1
<1>5. CASE GenerateGrid(t)
  <2>1. PICK w \in Wishes :
           /\ w.kind = "grid"
           /\ \A k \in OfKind(Visible(t), "grid") : content[k].incident # w.incident
           /\ Begin(t, w, "author")
    BY <1>5 DEF GenerateGrid
  <2>2. draft'[t] = w
    BY <2>1, BeginIs
  <2>3. QED
    BY <2>1, <2>2
<1>6. CASE FindHolders(t)
  <2>1. PICK w \in Wishes :
           /\ w.kind = "assign"
           /\ Begin(t, w, "held")
           /\ held' = [held EXCEPT ![t] = OtherHolders(Visible(t), w)]
    BY <1>6 DEF FindHolders
  <2>2. draft'[t] = w /\ pc'[t] = "held"
    BY <2>1, BeginIs
  <2>3. held'[t] = OtherHolders(Visible(t), w)
    BY <2>1 DEF BaseInv, CommandTyped
  <2>4. QED
    BY <2>1, <2>2, <2>3
<1>7. CASE RevokeAssignment(t)
  <2>1. PICK w \in Wishes :
           \E n : /\ w.kind = "revoke" /\ Begin(t, [w EXCEPT !.incident = n], "author")
                  /\ {k \in OfKind(Visible(t), "assign") : content[k].subject = w.subject} # {}
    BY <1>7 DEF RevokeAssignment
  <2>2. PICK n :
           /\ w.kind = "revoke" /\ Begin(t, [w EXCEPT !.incident = n], "author")
           /\ {k \in OfKind(Visible(t), "assign") : content[k].subject = w.subject} # {}
    BY <2>1
  <2> DEFINE f == [w EXCEPT !.incident = n]
  <2>3. draft'[t] = f
    BY <2>2, BeginIs
  <2>4. f.kind = "revoke" /\ f.subject = w.subject
    BY <2>2, EventFacts DEF AnyEvent, Events
  <2> HIDE DEF f
  <2>5. QED
    BY <2>2, <2>3, <2>4
<1>8. QED
  BY <1>3, <1>4, <1>5, <1>6, <1>7

\* The steps that the cases of the proofs below tell apart.
LEMMA ActsAre ==
    ASSUME NEW t \in Txns, Acts(t)
    PROVE  \/ \/ InsertIncident(t) \/ RegisterTeam(t) \/ GenerateGrid(t) \/ FindHolders(t)
              \/ RevokeAssignment(t)
           \/ ReadNextAssignmentId(t)
           \/ AuthorStep(t) /\ UNCHANGED commandVars
           \/ ReadJoinCode(t)
           \/ ReadNextDeviceId(t) \/ InsertCredential(t) \/ UpdateUses(t)
           \/ CommitEnrolment(t) \/ FailEnrolment(t)
BY DEF Acts, CommandStep, EnrolStep

LEMMA ReadingInitial == EnrolmentInit => ReadingInv
BY NothingYet DEF ReadingInv, Doing

\* A log that is the same, read by requests that are.
LEMMA ReadingStays ==
    ASSUME ReadingInv, Committed' = Committed, alone' => alone,
           \A k \in Committed : content'[k] = content[k],
           \A t \in Txns : alone' =>
              /\ Doing(t, "grid")' => \A k \in OfKind(Committed, "grid") :
                    content[k].incident # draft'[t].incident
              /\ Doing(t, "assign")' /\ pc'[t] # "held" => \A k \in OfKind(Committed, "assign") :
                    content[k].subject # draft'[t].subject
    PROVE  ReadingInv'
<1>1. \A kind : OfKind(Committed, kind)' = OfKind(Committed, kind)
  BY DEF OfKind
<1>2. \A kind : \A k \in OfKind(Committed, kind) : content'[k] = content[k]
  BY DEF OfKind
<1>3. QED
  BY <1>1, <1>2 DEF ReadingInv

LEMMA ReadingStep ==
    ASSUME BaseInv, ReadingInv, EnrolmentNext
    PROVE  ReadingInv'
<1>1. /\ alone' => alone
      /\ \A k \in Committed : content'[k] = content[k]
  BY AloneStays, LogGrows
<1>2. CASE \A t \in Txns : ~Acts(t)
  <2>1. UNCHANGED <<row, owner, content, pc, draft, alone>>
    BY <1>2, NobodyActs
  <2>2. QED
    BY <1>1, <2>1 DEF ReadingInv, OfKind, Committed, Doing
<1>3. ASSUME NEW t \in Txns, Acts(t), ~CommitEnrolment(t) PROVE ReadingInv'
  <2> DEFINE Grids == OfKind(Committed, "grid")
             Assigns == OfKind(Committed, "assign")
             Fresh(u) == /\ Doing(u, "grid")' =>
                               \A k \in Grids : content[k].incident # draft'[u].incident
                         /\ Doing(u, "assign")' /\ pc'[u] # "held" =>
                               \A k \in Assigns : content[k].subject # draft'[u].subject
  <2>1. ASSUME alone' PROVE \A u \in Txns : u # t => pc[u] = "idle" /\ pc'[u] = "idle"
    BY <1>3, <2>1, AloneActs
  <2>2. \A u \in Txns : u # t => ~CommitEnrolment(u) \/ ~alone'
    BY <2>1, EndIs DEF CommitEnrolment, Commit, Commits
  <2>3. ASSUME alone' PROVE Committed' = Committed
    BY <1>3, <2>2, <2>3, LogGrows
  <2>4. \A k \in Committed : k \in Visible(t)
    BY DEF Committed, Visible
  <2>5. Grids \subseteq OfKind(Visible(t), "grid") /\ Assigns \subseteq OfKind(Visible(t), "assign")
    BY <2>4 DEF OfKind
  <2>6. ASSUME alone' PROVE Fresh(t)
    <3>1. alone
      BY <1>1, <2>6
    <3>2. CASE \/ InsertIncident(t) \/ RegisterTeam(t) \/ GenerateGrid(t) \/ FindHolders(t)
               \/ RevokeAssignment(t)
      BY <2>5, <3>2, BeginsWith DEF Doing
    <3>3. CASE ReadNextAssignmentId(t)
      <4>1. draft[t].kind = "assign" /\ draft'[t].kind = draft[t].kind
        BY <3>3, ReadsOnIs DEF ReadNextAssignmentId, BaseInv, KindsFitSteps
      <4>2. draft'[t].subject = NextAssignmentId(t)
        <5>1. draft[t] \in AnyEvent /\ draft' = [draft EXCEPT ![t].subject = NextAssignmentId(t)]
          BY <3>3 DEF ReadNextAssignmentId, BaseInv, EventsAreTyped, AuthorInv, AuthorFlow
        <5>2. QED
          BY <5>1 DEF BaseInv, EventsAreTyped, AnyEvent, Events
      <4>3. \A k \in Assigns : content[k].subject # NextAssignmentId(t)
        <5>1. \A k \in Assigns : content[k].subject \in Nat
          BY DEF OfKind, Committed, BaseInv, EventsAreTyped, AnyEvent, Events
        <5>2. QED
          BY <2>5, <5>1, NextAssignmentIdIs
      <4>4. QED
        BY <4>1, <4>2, <4>3 DEF Doing
    <3>4. CASE AuthorStep(t)
      <4>1. /\ draft'[t] = draft[t] /\ pc[t] # "idle" /\ pc[t] # "held"
        BY <3>4, AuthorStepIs DEF Served
      <4>2. /\ Doing(t, "grid") =>
                  \A k \in Grids : content[k].incident # draft[t].incident
            /\ Doing(t, "assign") => \A k \in Assigns : content[k].subject # draft[t].subject
        BY <3>1, <4>1 DEF ReadingInv
      <4>3. QED
        BY <4>1, <4>2 DEF Doing
    <3>5. CASE ReadJoinCode(t)
      <4>1. PICK e \in AnyEvent : Begin(t, e, "enrol") /\ e.kind = "enrol"
        BY <3>5, EnrolBegins
      <4>2. draft'[t].kind = "enrol"
        BY <4>1, BeginIs
      <4>3. QED
        BY <4>2 DEF Doing
    <3>6. CASE ReadNextDeviceId(t) \/ InsertCredential(t) \/ UpdateUses(t)
      <4>1. pc[t] \in {"enrol", "device", "credential"}
        BY <3>6 DEF ReadNextDeviceId, InsertCredential, UpdateUses
      <4>2. draft[t].kind = "enrol" /\ draft'[t].kind = draft[t].kind
        BY <3>6, <4>1, ReadsOnIs DEF BaseInv, KindsFitSteps
      <4>3. QED
        BY <4>2 DEF Doing
    <3>7. CASE FailEnrolment(t)
      BY <3>7, EndIs DEF FailEnrolment, Fail, Doing
    <3>8. QED
      BY <1>3, <3>2, <3>3, <3>4, <3>5, <3>6, <3>7, ActsAre
  <2>7. ASSUME alone', NEW u \in Txns, u # t PROVE Fresh(u)
    BY <2>1, <2>7 DEF Doing
  <2>8. CASE ~alone'
    BY <2>8 DEF ReadingInv
  <2>9. CASE alone'
    <3>1. \A u \in Txns : Fresh(u)
      BY <2>6, <2>7, <2>9
    <3>2. Committed' = Committed
      BY <2>3, <2>9
    <3>3. QED
      BY <1>1, <3>1, <3>2, ReadingStays
  <2>10. QED
    BY <2>8, <2>9
<1>4. ASSUME NEW t \in Txns, CommitEnrolment(t), alone' PROVE ReadingInv'
  <2>1. alone /\ \A u \in Txns : u # t => pc'[u] = "idle"
    BY <1>4, AloneActs DEF Acts
  <2>2. pc'[t] = "idle" /\ pc[t] = "written"
    BY <1>4, EndIs DEF CommitEnrolment, Commit, Commits
  <2>3. \A u \in Txns : pc'[u] = "idle"
    BY <2>1, <2>2
  <2>4. ASSUME NEW k \in Committed'
        PROVE  /\ content'[k] = content[k]
               /\ k \in Committed \/ (k = ServerKey(seq[t]) /\ content[k] = draft[t])
    <3>1. ASSUME NEW u \in Txns, CommitEnrolment(u) PROVE u = t
      <4>1. pc[u] # "idle" /\ pc[t] # "idle"
        BY <2>2, <3>1, EndIs DEF CommitEnrolment, Commit, Commits
      <4>2. QED
        BY <2>1, <4>1 DEF BaseInv, AuthorInv, AloneIsAlone
    <3>2. QED
      BY <3>1, <2>4, LogGrows
  <2>5. \A kind : \A k \in OfKind(Committed, kind)' :
           /\ k \in Committed' /\ content'[k] = content[k]
           /\ \/ k \in OfKind(Committed, kind)
              \/ k = ServerKey(seq[t]) /\ content[k] = draft[t] /\ Doing(t, kind)
    BY <2>2, <2>4 DEF OfKind, Doing
  <2>6. ASSUME NEW k \in OfKind(Committed, "grid")', NEW l \in OfKind(Committed, "grid")',
               content'[k].incident = content'[l].incident
        PROVE  k = l
    <3>1. CASE k \in OfKind(Committed, "grid") /\ l \in OfKind(Committed, "grid")
      BY <2>1, <2>5, <2>6, <3>1 DEF ReadingInv
    <3>2. CASE k \notin OfKind(Committed, "grid") \/ l \notin OfKind(Committed, "grid")
      BY <2>1, <2>5, <2>6, <3>2 DEF ReadingInv
    <3>3. QED
      BY <3>1, <3>2
  <2>7. ASSUME NEW k \in OfKind(Committed, "assign")', NEW l \in OfKind(Committed, "assign")',
               content'[k].subject = content'[l].subject
        PROVE  k = l
    <3>1. CASE k \in OfKind(Committed, "assign") /\ l \in OfKind(Committed, "assign")
      BY <2>1, <2>5, <2>7, <3>1 DEF ReadingInv
    <3>2. CASE k \notin OfKind(Committed, "assign") \/ l \notin OfKind(Committed, "assign")
      BY <2>1, <2>2, <2>5, <2>7, <3>2 DEF ReadingInv
    <3>3. QED
      BY <3>1, <3>2
  <2>8. QED
    BY <2>3, <2>6, <2>7 DEF ReadingInv, Doing
<1>5. ASSUME ~alone' PROVE ReadingInv'
  BY <1>5 DEF ReadingInv
<1>6. QED
  BY <1>2, <1>3, <1>4, <1>5 DEF Acts

LEMMA ReadingFollows == ReadingInv => LogHasOneReading
BY DEF ReadingInv, LogHasOneReading

-----------------------------------------------------------------------------
(* What a 201 for an assignment says.                                      *)

Below(n) == {k \in Committed : row[k] < n}

\* An assignment that is revoked was issued: without that a revocation would touch cells
\* that nothing in the log names.
RevokedWereIssued ==
    alone =>
        /\ \A k \in OfKind(Committed, "revoke") :
              \E j \in OfKind(Committed, "assign") :
                  content[j].subject = content[k].subject /\ row[j] <= row[k]
        /\ \A t \in Txns : Doing(t, "revoke") =>
              \E j \in OfKind(Committed, "assign") : content[j].subject = draft[t].subject

\* What a request has found is what the log still says, as long as it is the only one; and
\* what a response said is what the log said below the event that it stood for.
CollisionInv ==
    /\ RevokedWereIssued
    /\ alone =>
        /\ \A a \in answered : a.event.kind = "assign" =>
              OtherHolders(Below(a.number), a.event) = a.held
        /\ \A t \in Txns : Doing(t, "assign") => held[t] = OtherHolders(Committed, draft[t])

LEMMA LastRow ==
    ASSUME BaseInv, NEW S, S \subseteq {k \in Keys : row[k] # 0}, S # {}
    PROVE  Latest(S) \in S
<1> DEFINE T == {row[k] : k \in S}
<1>1. \A k \in S : row[k] \in 0..MaxServerSeq
  BY DEF BaseInv, AuthorInv, TableInv, TableTypeOK
<1>2. T \subseteq 0..MaxServerSeq /\ T # {}
  BY <1>1
<1>3. \E m \in T : \A n \in T : n <= m
  <2> HIDE DEF T
  <2>1. QED
    BY <1>2, EventTableAssumption, GreatestBounded
<1>4. \E k \in S : \A l \in S : row[l] <= row[k]
  BY <1>3
<1>5. QED
  BY <1>4 DEF Latest

\* Rows in which every assignment that is touched has its issue.
Issued(V) ==
    /\ V \subseteq {k \in Keys : row[k] # 0}
    /\ \A k \in OfKind(V, "revoke") : \E j \in OfKind(V, "assign") :
          content[j].subject = content[k].subject /\ row[j] <= row[k]

LEMMA IssueIsThere ==
    ASSUME BaseInv, NEW V, Issued(V),
           NEW k \in OfKind(V, "assign") \cup OfKind(V, "revoke")
    PROVE  IssueOf(V, k) \in V
<1> DEFINE S == {j \in OfKind(V, "assign") :
                    content[j].subject = content[k].subject /\ row[j] <= row[k]}
<1>1. k \in V /\ row[k] <= row[k]
  <2>1. k \in V /\ k \in Keys
    BY DEF OfKind, Issued
  <2>2. row[k] \in Nat
    BY <2>1, EventTableAssumption DEF BaseInv, AuthorInv, TableInv, TableTypeOK
  <2>3. QED
    BY <2>1, <2>2
<1>2. S # {}
  BY <1>1 DEF Issued
<1>3. S \subseteq V /\ S \subseteq {j \in Keys : row[j] # 0}
  BY DEF OfKind, Issued
<1>4. IssueOf(V, k) = Latest(S)
  BY DEF IssueOf
<1> HIDE DEF S
<1>5. QED
  BY <1>2, <1>3, <1>4, LastRow

\* Who holds a cell is read off the rows alone ...
LEMMA HoldersStay ==
    ASSUME BaseInv, NEW V, NEW e, Issued(V),
           \A k \in V : row'[k] = row[k] /\ content'[k] = content[k]
    PROVE  OtherHolders(V, e)' = OtherHolders(V, e)
<1>1. \A S \in SUBSET V : Latest(S)' = Latest(S)
  BY DEF Latest
<1>2. \A kind : OfKind(V, kind)' = OfKind(V, kind) /\ OfKind(V, kind) \in SUBSET V
  BY DEF OfKind
<1> DEFINE Touched == OfKind(V, "assign") \cup OfKind(V, "revoke")
<1>3. \A k \in Touched : content'[IssueOf(V, k)'] = content[IssueOf(V, k)]
  <2>1. SUFFICES ASSUME NEW k \in Touched
                 PROVE  content'[IssueOf(V, k)'] = content[IssueOf(V, k)]
    OBVIOUS
  <2>2. PICK S : S = {j \in OfKind(V, "assign") :
                         content[j].subject = content[k].subject /\ row[j] <= row[k]}
    OBVIOUS
  <2>3. S \in SUBSET V
    BY <1>2, <2>2
  <2>4. {j \in OfKind(V, "assign") :
            content[j].subject = content[k].subject /\ row[j] <= row[k]}' = S
    <3>1. k \in V /\ \A j \in OfKind(V, "assign") : j \in V
      BY <1>2
    <3>2. QED
      BY <1>2, <2>2, <3>1
  <2>5. IssueOf(V, k) = Latest(S)
    BY <2>2 DEF IssueOf
  <2>6. IssueOf(V, k)' = Latest(S)'
    BY <2>4 DEF IssueOf, Latest
  <2>7. IssueOf(V, k) \in V
    BY IssueIsThere
  <2>8. QED
    BY <1>1, <2>3, <2>5, <2>6, <2>7
<1>4. \A i, c : Touching(V, i, c)' = Touching(V, i, c) /\ Touching(V, i, c) \in SUBSET V
  <2>1. SUFFICES ASSUME NEW i, NEW c
                 PROVE  Touching(V, i, c)' = Touching(V, i, c) /\ Touching(V, i, c) \in SUBSET V
    OBVIOUS
  <2>2. \A k : k \in Touching(V, i, c) <=>
           /\ k \in Touched
           /\ content[IssueOf(V, k)].incident = i /\ c \in content[IssueOf(V, k)].cells
    BY DEF Touching
  <2>3. \A k : k \in Touching(V, i, c)' <=>
           /\ k \in Touched'
           /\ content'[IssueOf(V, k)'].incident = i /\ c \in content'[IssueOf(V, k)'].cells
    BY DEF Touching
  <2>4. Touched' = Touched
    BY <1>2
  <2>5. \A k : k \in Touching(V, i, c)' <=> k \in Touching(V, i, c)
    BY <1>3, <2>2, <2>3, <2>4
  <2>6. QED
    BY <1>2, <2>2, <2>5
<1>5. \A i, c : Holder(V, i, c)' = Holder(V, i, c)
  <2>1. SUFFICES ASSUME NEW i, NEW c PROVE Holder(V, i, c)' = Holder(V, i, c)
    OBVIOUS
  <2>2. PICK T : T = Touching(V, i, c)
    OBVIOUS
  <2>3. T \in SUBSET V /\ Touching(V, i, c)' = T /\ T \subseteq {k \in Keys : row[k] # 0}
    BY <1>4, <2>2 DEF Issued
  <2>4. Latest(T)' = Latest(T)
    BY <1>1, <2>3
  <2>5. Holder(V, i, c) = IF T = {} \/ content[Latest(T)].kind = "revoke" THEN NoTeam
                          ELSE content[Latest(T)].team
    BY <2>2 DEF Holder
  <2>6. Holder(V, i, c)' = IF T = {} \/ content'[Latest(T)'].kind = "revoke" THEN NoTeam
                           ELSE content'[Latest(T)'].team
    BY <2>3 DEF Holder, Latest
  <2>7. T # {} => content'[Latest(T)] = content[Latest(T)]
    BY <2>3, LastRow
  <2>8. QED
    BY <2>4, <2>5, <2>6, <2>7
<1>6. QED
  BY <1>5 DEF OtherHolders

\* ... and whatever the number of the assignment is.
LEMMA HoldersOf ==
    ASSUME NEW V, NEW e, NEW f, e.cells = f.cells, e.incident = f.incident, e.team = f.team
    PROVE  OtherHolders(V, e) = OtherHolders(V, f)
BY DEF OtherHolders

LEMMA CollisionInitial == EnrolmentInit => CollisionInv
BY NothingYet DEF EnrolmentInit, CommandInit, AuthoringInit, CollisionInv, RevokedWereIssued, Doing

\* The log, and the part of it below a number, have an issue for every revocation.
LEMMA LogIsIssued ==
    ASSUME BaseInv, RevokedWereIssued, alone
    PROVE  /\ Issued(Committed)
           /\ \A n : n \in Nat => Issued(Below(n))
<1>1. Committed \subseteq {k \in Keys : row[k] # 0}
  BY DEF Committed
<1>2. \A k \in Committed : row[k] \in Nat
  BY <1>1, EventTableAssumption DEF BaseInv, AuthorInv, TableInv, TableTypeOK
<1>3. Issued(Committed)
  BY <1>1 DEF RevokedWereIssued, Issued
<1>4. ASSUME NEW n \in Nat PROVE Issued(Below(n))
  <2>1. Below(n) \subseteq {k \in Keys : row[k] # 0}
    BY <1>1 DEF Below
  <2>2. ASSUME NEW k \in OfKind(Below(n), "revoke")
        PROVE  \E j \in OfKind(Below(n), "assign") :
                  content[j].subject = content[k].subject /\ row[j] <= row[k]
    <3>1. k \in OfKind(Committed, "revoke") /\ row[k] < n
      BY <2>2 DEF OfKind, Below
    <3>2. PICK j \in OfKind(Committed, "assign") :
                  content[j].subject = content[k].subject /\ row[j] <= row[k]
      BY <3>1 DEF RevokedWereIssued
    <3>3. j \in Committed /\ k \in Committed
      BY <3>1 DEF OfKind
    <3>4. row[j] < n
      BY <1>2, <3>1, <3>2, <3>3
    <3>5. j \in OfKind(Below(n), "assign")
      BY <3>4 DEF OfKind, Below
    <3>6. QED
      BY <3>2, <3>5
  <2>3. QED
    BY <2>1, <2>2 DEF Issued
<1>5. QED
  BY <1>3, <1>4

\* What a request that comes alone has drafted, before the commit.
LEMMA DraftsFit ==
    ASSUME BaseInv, CollisionInv, alone', alone, NEW t \in Txns, Acts(t), ~CommitEnrolment(t)
    PROVE  /\ Doing(t, "revoke")' =>
                 \E j \in OfKind(Committed, "assign") : content[j].subject = draft'[t].subject
           /\ Doing(t, "assign")' => held'[t] = OtherHolders(Committed, draft'[t])
<1>1. CASE \/ InsertIncident(t) \/ RegisterTeam(t) \/ GenerateGrid(t) \/ FindHolders(t)
           \/ RevokeAssignment(t)
  <2>1. pc[t] = "idle"
    BY <1>1, CommandBegins, BeginIs
  <2>2. \A k \in Keys : owner[k] # t
    BY <2>1, OwnRowIs
  <2>3. Visible(t) = Committed
    BY <2>2 DEF Visible, Committed
  <2>4. QED
    BY <1>1, <2>3, BeginsWith DEF Doing
<1>2. CASE ReadNextAssignmentId(t)
  <2>1. pc[t] = "held" /\ draft' = [draft EXCEPT ![t].subject = NextAssignmentId(t)]
        /\ held' = held
    BY <1>2 DEF ReadNextAssignmentId, commandVars
  <2>2. draft[t].kind = "assign" /\ draft'[t].kind = "assign"
    BY <1>2, <2>1, ReadsOnIs DEF BaseInv, KindsFitSteps
  <2>3. draft[t] \in AnyEvent
    BY <2>1 DEF BaseInv, EventsAreTyped, AuthorInv, AuthorFlow
  <2>4. /\ draft'[t].cells = draft[t].cells /\ draft'[t].incident = draft[t].incident
        /\ draft'[t].team = draft[t].team
    BY <2>1, <2>3 DEF BaseInv, EventsAreTyped, AnyEvent, Events
  <2>5. PICK e : e = draft'[t]
    OBVIOUS
  <2>6. PICK f : f = draft[t]
    OBVIOUS
  <2>7. OtherHolders(Committed, e) = OtherHolders(Committed, f)
    BY <2>4, <2>5, <2>6, HoldersOf
  <2>8. held[t] = OtherHolders(Committed, f)
    BY <2>1, <2>2, <2>6 DEF CollisionInv, Doing
  <2>9. QED
    BY <2>1, <2>2, <2>5, <2>7, <2>8 DEF Doing
<1>3. CASE AuthorStep(t) /\ UNCHANGED commandVars
  <2>1. draft'[t] = draft[t] /\ pc[t] # "idle" /\ held' = held
    BY <1>3, AuthorStepIs DEF Served, commandVars
  <2>2. QED
    BY <2>1 DEF CollisionInv, RevokedWereIssued, Doing
<1>4. CASE ReadJoinCode(t)
  <2>1. PICK e \in AnyEvent : Begin(t, e, "enrol") /\ e.kind = "enrol"
    BY <1>4, EnrolBegins
  <2>2. draft'[t].kind = "enrol"
    BY <2>1, BeginIs
  <2>3. QED
    BY <2>2 DEF Doing
<1>5. CASE ReadNextDeviceId(t) \/ InsertCredential(t) \/ UpdateUses(t)
  <2>1. pc[t] \in {"enrol", "device", "credential"}
    BY <1>5 DEF ReadNextDeviceId, InsertCredential, UpdateUses
  <2>2. draft[t].kind = "enrol" /\ draft'[t].kind = draft[t].kind
    BY <1>5, <2>1, ReadsOnIs DEF BaseInv, KindsFitSteps
  <2>3. QED
    BY <2>2 DEF Doing
<1>6. CASE FailEnrolment(t)
  BY <1>6, EndIs DEF FailEnrolment, Fail, Doing
<1>7. QED
  BY <1>1, <1>2, <1>3, <1>4, <1>5, <1>6, ActsAre

\* A step that commits nothing answers nothing.
LEMMA AnsweredStays ==
    ASSUME BaseInv, NEW t \in Txns, Acts(t), ~CommitEnrolment(t)
    PROVE  answered' = answered
<1>1. CASE \/ InsertIncident(t) \/ RegisterTeam(t) \/ GenerateGrid(t) \/ FindHolders(t)
           \/ RevokeAssignment(t)
  BY <1>1, CommandBegins, BeginIs
<1>2. CASE ReadNextAssignmentId(t) \/ ReadNextDeviceId(t) \/ InsertCredential(t) \/ UpdateUses(t)
  BY <1>2, ReadsOnIs
<1>3. CASE AuthorStep(t)
  BY <1>3, AuthorStepIs
<1>4. CASE ReadJoinCode(t)
  BY <1>4, EnrolBegins, BeginIs
<1>5. CASE FailEnrolment(t)
  BY <1>5, EndIs DEF FailEnrolment, Fail
<1>6. QED
  BY <1>1, <1>2, <1>3, <1>4, <1>5, ActsAre

\* A log that is the same, and requests that have found what it says.
LEMMA CollisionStays ==
    ASSUME BaseInv, CollisionInv, alone', alone, Committed' = Committed, answered' = answered,
           \A k \in Committed : content'[k] = content[k] /\ row'[k] = row[k],
           \A t \in Txns :
              /\ Doing(t, "revoke")' =>
                    \E j \in OfKind(Committed, "assign") : content[j].subject = draft'[t].subject
              /\ Doing(t, "assign")' => held'[t] = OtherHolders(Committed, draft'[t])
    PROVE  CollisionInv'
<1>1. \A kind : OfKind(Committed, kind)' = OfKind(Committed, kind)
  BY DEF OfKind
<1>2. \A kind : \A k \in OfKind(Committed, kind) : content'[k] = content[k] /\ row'[k] = row[k]
  BY DEF OfKind
<1>3. RevokedWereIssued /\ RevokedWereIssued'
  BY <1>1, <1>2 DEF CollisionInv, RevokedWereIssued
<1>4. PICK L : L = Committed
  OBVIOUS
<1>5. Issued(L) /\ Committed' = L
  BY <1>3, <1>4, LogIsIssued
<1>6. ASSUME NEW a \in answered', a.event.kind = "assign"
      PROVE  OtherHolders(Below(a.number), a.event)' = a.held
  <2>1. a \in answered /\ OtherHolders(Below(a.number), a.event) = a.held
    BY <1>6 DEF CollisionInv
  <2>2. PICK V : V = Below(a.number)
    OBVIOUS
  <2>3. PICK e : e = a.event
    OBVIOUS
  <2>4. a.number \in Nat
    <3>1. PICK k \in Committed : row[k] = a.number
      BY <2>1 DEF BaseInv, AuthorInv, AnsweredAloneIsRecorded, AnsweredIsRecorded
    <3>2. k \in Keys
      BY <3>1 DEF Committed
    <3>3. QED
      BY <3>1, <3>2, EventTableAssumption DEF BaseInv, AuthorInv, TableInv, TableTypeOK
  <2>5. Issued(V) /\ \A k \in V : row'[k] = row[k] /\ content'[k] = content[k]
    BY <1>3, <2>2, <2>4, LogIsIssued DEF Below
  <2>6. Below(a.number)' = V
    BY <2>2 DEF Below
  <2>7. OtherHolders(V, e)' = OtherHolders(V, e)
    BY <2>5, HoldersStay
  <2>8. QED
    BY <2>1, <2>2, <2>3, <2>6, <2>7
<1>7. ASSUME NEW t \in Txns, Doing(t, "assign")'
      PROVE  held'[t] = OtherHolders(Committed, draft[t])'
  <2>1. held'[t] = OtherHolders(Committed, draft'[t])
    BY <1>7
  <2>2. PICK e : e = draft'[t]
    OBVIOUS
  <2>3. OtherHolders(L, e)' = OtherHolders(L, e)
    BY <1>4, <1>5, HoldersStay
  <2>4. OtherHolders(Committed, draft[t])' = OtherHolders(L, e)'
    BY <1>5, <2>2
  <2>5. QED
    BY <1>4, <2>1, <2>2, <2>3, <2>4
<1>8. QED
  BY <1>3, <1>6, <1>7 DEF CollisionInv

\* The commit puts one row above all others, and answers with what was found below it.
LEMMA CollisionCommits ==
    ASSUME BaseInv, CollisionInv, EnrolmentNext, NEW t \in Txns, CommitEnrolment(t), alone'
    PROVE  CollisionInv'
<1>1. alone /\ \A u \in Txns : u # t => pc'[u] = "idle"
  BY AloneActs DEF Acts
<1>2. /\ pc'[t] = "idle" /\ pc[t] = "written" /\ row' = row /\ content' = content
      /\ \A k \in Keys : owner'[k] = IF owner[k] = t THEN NoTxn ELSE owner[k]
  BY EndIs DEF CommitEnrolment, Commit, Commits
<1>3. \A u \in Txns : pc'[u] = "idle"
  BY <1>1, <1>2
<1>4. answered' =
         answered \cup {[event |-> draft[t], number |-> number[t], held |-> held[t]]}
  BY DEF CommitEnrolment, Commit, CommitAuthored
<1> DEFINE new == ServerKey(seq[t])
<1>5. /\ new \in Keys /\ owner[new] = t /\ content[new] = draft[t] /\ row[new] = number[t]
      /\ \A k \in Keys : owner[k] = t => k = new
  BY <1>1, <1>2, OwnRowIs
<1>6. \A k \in Keys : k # new => row[k] < number[t]
  BY <1>1, <1>2 DEF BaseInv, AuthorInv, AloneIsAlone
<1>7. /\ new \notin Committed
      /\ \A k : k \in Committed' => k \in Committed \/ k = new
      /\ \A k \in Committed : k \in Committed'
  BY <1>2, <1>5, EventTableAssumption DEF Committed
<1> HIDE DEF new
<1>8. \A k \in Committed : k \in Keys /\ row[k] \in Nat /\ row[k] < number[t]
  BY <1>6, <1>7, EventTableAssumption DEF Committed, BaseInv, AuthorInv, TableInv, TableTypeOK
<1>9. number[t] \in Nat
  BY DEF BaseInv, AuthorInv, AuthorTypeOK
<1>10. \A n \in Nat : n <= number[t] => Below(n)' = Below(n)
  <2>1. SUFFICES ASSUME NEW n \in Nat, n <= number[t], NEW k
                 PROVE  k \in Below(n)' <=> k \in Below(n)
    BY DEF Below
  <2>2. ~ (row[new] < n)
    BY <1>5, <1>9, <2>1
  <2>3. QED
    BY <1>2, <1>7, <2>2 DEF Below
<1>11. Below(number[t]) = Committed
  BY <1>8 DEF Below
<1>12. RevokedWereIssued'
  <2>1. ASSUME NEW k \in OfKind(Committed, "revoke")'
        PROVE  \E j \in OfKind(Committed, "assign")' :
                  content'[j].subject = content'[k].subject /\ row'[j] <= row'[k]
    <3>1. \A j \in OfKind(Committed, "assign") : j \in OfKind(Committed, "assign")' /\ j \in Committed
      BY <1>2, <1>7 DEF OfKind
    <3>2. CASE k \in Committed
      <4>1. k \in OfKind(Committed, "revoke")
        BY <1>2, <2>1, <3>2 DEF OfKind
      <4>2. PICK j \in OfKind(Committed, "assign") :
               content[j].subject = content[k].subject /\ row[j] <= row[k]
        BY <1>1, <4>1 DEF CollisionInv, RevokedWereIssued
      <4>3. QED
        BY <1>2, <3>1, <4>2
    <3>3. CASE k = new
      <4>1. Doing(t, "revoke")
        BY <1>2, <1>5, <2>1, <3>3 DEF OfKind, Doing
      <4>2. PICK j \in OfKind(Committed, "assign") : content[j].subject = draft[t].subject
        BY <1>1, <4>1 DEF CollisionInv, RevokedWereIssued
      <4>3. row[j] \in Nat /\ row[j] < number[t]
        BY <1>8, <3>1, <4>2
      <4>4. row[j] <= row[k]
        BY <1>5, <1>9, <3>3, <4>3
      <4>5. QED
        BY <1>2, <1>5, <3>1, <3>3, <4>2, <4>4
    <3>4. QED
      BY <1>7, <2>1, <3>2, <3>3 DEF OfKind
  <2>2. QED
    BY <1>3, <2>1 DEF RevokedWereIssued, Doing
<1>13. RevokedWereIssued
  BY DEF CollisionInv
<1>14. ASSUME NEW a \in answered', a.event.kind = "assign"
       PROVE  OtherHolders(Below(a.number), a.event)' = a.held
  <2>1. ASSUME a.number \in Nat, a.number <= number[t],
               OtherHolders(Below(a.number), a.event) = a.held
        PROVE  OtherHolders(Below(a.number), a.event)' = a.held
    <3>1. PICK V : V = Below(a.number)
      OBVIOUS
    <3>2. PICK e : e = a.event
      OBVIOUS
    <3>3. Issued(V)
      BY <1>1, <1>13, <2>1, <3>1, LogIsIssued
    <3>4. Below(a.number)' = V
      BY <1>10, <2>1, <3>1
    <3>5. OtherHolders(V, e)' = OtherHolders(V, e)
      BY <1>2, <3>3, HoldersStay
    <3>6. QED
      BY <2>1, <3>1, <3>2, <3>4, <3>5
  <2>2. CASE a \in answered
    <3>1. PICK k \in Committed : row[k] = a.number
      BY <1>1, <2>2 DEF BaseInv, AuthorInv, AnsweredAloneIsRecorded, AnsweredIsRecorded
    <3>2. a.number \in Nat /\ a.number <= number[t]
      BY <1>8, <1>9, <3>1
    <3>3. OtherHolders(Below(a.number), a.event) = a.held
      BY <1>1, <1>14, <2>2 DEF CollisionInv
    <3>4. QED
      BY <2>1, <3>2, <3>3
  <2>3. CASE a = [event |-> draft[t], number |-> number[t], held |-> held[t]]
    <3>1. a.event = draft[t] /\ a.number = number[t] /\ a.held = held[t]
      BY <2>3
    <3>2. Doing(t, "assign")
      BY <1>2, <1>14, <3>1 DEF Doing
    <3>3. OtherHolders(Below(a.number), a.event) = a.held
      BY <1>1, <1>11, <3>1, <3>2 DEF CollisionInv
    <3>4. QED
      BY <1>9, <2>1, <3>1, <3>3
  <2>4. QED
    BY <1>4, <1>14, <2>2, <2>3
<1>15. QED
  BY <1>3, <1>12, <1>14 DEF CollisionInv, Doing

LEMMA CollisionStep ==
    ASSUME BaseInv, CollisionInv, EnrolmentNext
    PROVE  CollisionInv'
<1>1. /\ alone' => alone
      /\ \A k \in Committed : content'[k] = content[k] /\ row'[k] = row[k]
  BY AloneStays, LogGrows
<1>2. CASE ~alone'
  BY <1>2 DEF CollisionInv, RevokedWereIssued
<1>3. CASE alone' /\ \A t \in Txns : ~Acts(t)
  <2>1. UNCHANGED <<row, owner, content, pc, draft, alone, answered, held>>
    BY <1>3, NobodyActs
  <2>2. Committed' = Committed
    BY <2>1 DEF Committed
  <2>3. ASSUME NEW t \in Txns
        PROVE  /\ Doing(t, "revoke")' =>
                     \E j \in OfKind(Committed, "assign") : content[j].subject = draft'[t].subject
               /\ Doing(t, "assign")' => held'[t] = OtherHolders(Committed, draft'[t])
    BY <1>1, <1>3, <2>1 DEF CollisionInv, RevokedWereIssued, Doing
  <2>4. QED
    BY <1>1, <1>3, <2>1, <2>2, <2>3, CollisionStays
<1>4. ASSUME NEW t \in Txns, Acts(t), ~CommitEnrolment(t), alone' PROVE CollisionInv'
  <2>1. \A u \in Txns : u # t => pc[u] = "idle" /\ pc'[u] = "idle"
    BY <1>4, AloneActs
  <2>2. \A u \in Txns : u # t => ~CommitEnrolment(u)
    BY <2>1, EndIs DEF CommitEnrolment, Commit, Commits
  <2>3. Committed' = Committed
    BY <1>4, <2>2, LogGrows
  <2>4. answered' = answered
    BY <1>4, AnsweredStays
  <2>5. ASSUME NEW u \in Txns
        PROVE  /\ Doing(u, "revoke")' =>
                     \E j \in OfKind(Committed, "assign") : content[j].subject = draft'[u].subject
               /\ Doing(u, "assign")' => held'[u] = OtherHolders(Committed, draft'[u])
    <3>1. CASE u = t
      BY <1>1, <1>4, <3>1, DraftsFit
    <3>2. CASE u # t
      BY <2>1, <3>2 DEF Doing
    <3>3. QED
      BY <3>1, <3>2
  <2>6. QED
    BY <1>1, <1>4, <2>3, <2>4, <2>5, CollisionStays
<1>5. ASSUME NEW t \in Txns, CommitEnrolment(t), alone' PROVE CollisionInv'
  BY <1>5, CollisionCommits
<1>6. QED
  BY <1>2, <1>3, <1>4, <1>5

LEMMA CollisionFollows == CollisionInv => CollisionIsSurfaced
BY DEF CollisionInv, CollisionIsSurfaced, Below

-----------------------------------------------------------------------------
(* The specification.                                                      *)

EnrolmentInv ==
    /\ BaseInv
    /\ DeclarersDeclare
    /\ EnrolFlow
    /\ ScopeInv
    /\ UsesInv
    /\ DeclaredInv
    /\ ReadingInv
    /\ CollisionInv

LEMMA EnrolmentInitial == EnrolmentInit => EnrolmentInv
BY BaseInitial, DeclarersInitial, EnrolFlowInitial, ScopeInitial, UsesInitial, DeclaredInitial,
   ReadingInitial, CollisionInitial
   DEF EnrolmentInv

\* A step of something else.
LEMMA EnrolmentStutters ==
    ASSUME EnrolmentInv, UNCHANGED allVars
    PROVE  EnrolmentInv'
<1>1. UNCHANGED <<row, owner, drawn, content, pc, draft, seq, number, answered, alone,
                  declared, declarer, lastId, session, held, code, update, device, read>>
  BY DEF allVars, vars, tableVars, authorVars, history, commandVars, incidentVars, enrolVars
<1>2. Committed' = Committed
  BY <1>1 DEF Committed
<1>3. BaseInv'
  <2>1. AuthorInv'
    BY AuthorInvStep DEF EnrolmentInv, BaseInv, AuthorNext, allVars, vars
  <2>2. QED
    BY <1>1, <2>1
       DEF EnrolmentInv, BaseInv, EventsAreTyped, KindsFitSteps, CommandTyped, EnrolmentTyped
<1>4. DeclarersDeclare' /\ EnrolFlow'
  BY <1>1 DEF EnrolmentInv, DeclarersDeclare, Doing, EnrolFlow, TxnFlow, UpdateFlow, DeviceFlow,
     CodeScope
<1>5. ScopeInv' /\ UsesInv'
  BY <1>1 DEF EnrolmentInv, ScopeInv, EnrolRowsScope, OneRowPerDevice, EnrolledAreRecorded,
     EnrolRow, CodeScope, UsesInv, Doing, EnrolledBy, Enrolled
<1>6. DeclaredInv' /\ ReadingInv'
  BY <1>1, <1>2 DEF EnrolmentInv, DeclaredInv, ReadingInv, OfKind, Doing
<1>7. CollisionInv'
  <2>1. CASE ~alone
    BY <1>1, <2>1 DEF CollisionInv, RevokedWereIssued
  <2>2. CASE alone
    <3>1. ASSUME NEW t \in Txns
          PROVE  /\ Doing(t, "revoke")' => \E j \in OfKind(Committed, "assign") :
                       content[j].subject = draft'[t].subject
                 /\ Doing(t, "assign")' => held'[t] = OtherHolders(Committed, draft'[t])
      BY <1>1, <2>2 DEF EnrolmentInv, CollisionInv, RevokedWereIssued, Doing
    <3>2. QED
      BY <1>1, <1>2, <2>2, <3>1, CollisionStays DEF EnrolmentInv
  <2>3. QED
    BY <2>1, <2>2
<1>8. QED
  BY <1>3, <1>4, <1>5, <1>6, <1>7 DEF EnrolmentInv

LEMMA EnrolmentStep ==
    ASSUME EnrolmentInv, [EnrolmentNext]_allVars
    PROVE  EnrolmentInv'
<1>1. CASE EnrolmentNext
  BY <1>1, BaseStep, DeclarersStep, EnrolFlowStep, ScopeStep, UsesStep, DeclaredStep, ReadingStep,
     CollisionStep
     DEF EnrolmentInv
<1>2. CASE UNCHANGED allVars
  BY <1>2, EnrolmentStutters
<1>3. QED
  BY <1>1, <1>2

LEMMA EnrolmentInvariant == EnrolmentSpec => []EnrolmentInv
BY EnrolmentInitial, EnrolmentStep, PTL DEF EnrolmentSpec

\* Type correctness: an open row, lock or credential is that of a request under way, and an
\* enrolment holds the code and the device that it has read.
THEOREM EnrolmentTypeCorrect == EnrolmentSpec => []EnrolmentTypeOK
<1>1. EnrolmentInv => EnrolmentTypeOK
  BY TypesFollow DEF EnrolmentInv
<1>2. QED
  BY <1>1, EnrolmentInvariant, PTL

\* However the server's writers overlap, fail and die, their seqs have no gap and follow the
\* order of the log (next_server_seq).
THEOREM ServerSeqsAreDense == EnrolmentSpec => []ServerSeqsFollowTheLog
<1>1. EnrolmentInv => ServerSeqsFollowTheLog
  BY SeqsFollowFromDensity DEF EnrolmentInv, BaseInv
<1>2. QED
  BY <1>1, EnrolmentInvariant, PTL

\* What a 201 stands for is in the log, as long as the requests come one after the other
\* (author, append).
THEOREM AnsweredMeansRecorded == EnrolmentSpec => []AnsweredAloneIsRecorded
<1>1. EnrolmentInv => AnsweredAloneIsRecorded
  BY DEF EnrolmentInv, BaseInv, AuthorInv
<1>2. QED
  BY <1>1, EnrolmentInvariant, PTL

\* A device_id is one handset's, and its token has the scope of its join code, however the
\* enrolments overlap (enrol, _device_enrolment).
THEOREM TokensKeepScope == EnrolmentSpec => []TokenScopeIsItsCodes
<1>1. EnrolmentInv => TokenScopeIsItsCodes
  BY ScopeFollows DEF EnrolmentInv
<1>2. QED
  BY <1>1, EnrolmentInvariant, PTL

\* A join code counts no use that it was not put to, and is not used up twice by enrolments
\* that come one after the other (enrol).
THEOREM UsesCounted == EnrolmentSpec => []UsesAreCounted
<1>1. EnrolmentInv => UsesAreCounted
  BY UsesFollow DEF EnrolmentInv
<1>2. QED
  BY <1>1, EnrolmentInvariant, PTL

\* The log names every incident that was declared, and no other, as long as the requests
\* come one after the other (declare_incident).
THEOREM LogNamesIncidents == EnrolmentSpec => []DeclaredIncidentHasItsEvent
<1>1. EnrolmentInv => DeclaredIncidentHasItsEvent
  BY DeclaredFollows DEF EnrolmentInv
<1>2. QED
  BY <1>1, EnrolmentInvariant, PTL

\* As long as the requests come one after the other, an incident has one grid and an
\* assignment_id one assignment (generate_grid, _next_assignment_id).
THEOREM LogReadsOneWay == EnrolmentSpec => []LogHasOneReading
<1>1. EnrolmentInv => LogHasOneReading
  BY ReadingFollows DEF EnrolmentInv
<1>2. QED
  BY <1>1, EnrolmentInvariant, PTL

\* As long as the requests come one after the other, a 201 for an assignment names everyone
\* who held one of its cells when it took its place in the log (issue).
THEOREM CollisionsAreNamed == EnrolmentSpec => []CollisionIsSurfaced
<1>1. EnrolmentInv => CollisionIsSurfaced
  BY CollisionFollows DEF EnrolmentInv
<1>2. QED
  BY <1>1, EnrolmentInvariant, PTL

\* The commander's requests and the enrolments leave the event store what it promises to
\* be: every step appends new events under new numbers to the log, or nothing.
THEOREM EnrolmentImplementsLog == EnrolmentSpec => TableLog!Spec
<1>1. EnrolmentInit => TableLog!Init
  BY TableLogInit DEF EnrolmentInit, CommandInit, AuthoringInit
<1>2. EnrolmentInv /\ [EnrolmentNext]_allVars => TableLog!Next
  BY EnrolmentMoves, AuthorStepsTable, TableStepAppends
     DEF EnrolmentInv, BaseInv, AuthorInv, AuthorNext, allVars, vars
<1>3. QED
  BY <1>1, <1>2, EnrolmentInvariant, PTL DEF EnrolmentSpec, TableLog!Spec
=============================================================================
