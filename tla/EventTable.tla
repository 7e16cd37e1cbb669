----------------------------- MODULE EventTable -----------------------------
(***************************************************************************)
(* The server's `event` table under concurrent transactions.               *)
(*                                                                         *)
(* Every request runs in one transaction (api/deps.py) at PostgreSQL's     *)
(* default isolation, READ COMMITTED: a statement sees what is committed   *)
(* when it starts and the transaction's own rows.  `server_seq` is an      *)
(* identity column: a number is drawn when an INSERT starts, is never      *)
(* given back, and becomes visible only when its transaction commits.      *)
(* An INSERT that conflicts with a row of an open transaction waits for it.*)
(***************************************************************************)
EXTENDS Naturals, FiniteSets, FiniteSetsExt

CONSTANTS
    Devices,       \* the device_ids that author events
    MaxSeq,        \* the highest device seq
    MaxServerSeq,  \* the bound on the numbers drawn; the code's is 2^63
    Txns,          \* the concurrent transactions (the pool's connections)
    NoTxn          \* a value that is no transaction

ASSUME EventTableAssumption ==
    /\ MaxSeq \in Nat
    /\ MaxServerSeq \in Nat
    /\ NoTxn \notin Txns

VARIABLES
    row,       \* server_seq of the row of each (device_id, seq), 0 where there is none
    owner,     \* the open transaction that inserted it, NoTxn once it is committed
    identity,  \* the last number the identity column gave out
    drawn      \* the number a transaction's INSERT holds, 0 outside an INSERT

tableVars == <<row, owner, identity, drawn>>

Keys == Devices \X (1..MaxSeq)
DeviceOf(k) == k[1]
DeviceSeq(k) == k[2]

Committed == {k \in Keys : row[k] # 0 /\ owner[k] = NoTxn}
Visible(t) == {k \in Keys : row[k] # 0 /\ owner[k] \in {NoTxn, t}}

\* SELECT coalesce(max(seq), ...) of one device, as transaction t sees it; seqs start at 1.
HighestSeq(t, d) == Max({0} \cup {DeviceSeq(k) : k \in {v \in Visible(t) : DeviceOf(v) = d}})

TableInit ==
    /\ row = [k \in Keys |-> 0]
    /\ owner = [k \in Keys |-> NoTxn]
    /\ identity = 0
    /\ drawn = [t \in Txns |-> 0]

\* An INSERT starts: the identity column gives it a number, conflict or not.
DrawServerSeq(t) ==
    /\ drawn[t] = 0
    /\ identity < MaxServerSeq
    /\ identity' = identity + 1
    /\ drawn' = [drawn EXCEPT ![t] = identity + 1]
    /\ UNCHANGED <<row, owner>>

\* The row of k is not being inserted by another open transaction.
Unlocked(t, k) == owner[k] \in {NoTxn, t}

\* Mutant: ON CONFLICT DO UPDATE SET server_seq.
InsertOrSkip_Updates(t, k) ==
    /\ drawn[t] # 0
    /\ Unlocked(t, k)
    /\ row' = [row EXCEPT ![k] = drawn[t]]
    /\ owner' = [owner EXCEPT ![k] = t]
    /\ drawn' = [drawn EXCEPT ![t] = 0]
    /\ UNCHANGED identity

\* ... ON CONFLICT (device_id, seq) DO NOTHING: the INSERT ends.
InsertOrSkip(t, k) ==
    /\ drawn[t] # 0
    /\ Unlocked(t, k)
    /\ IF row[k] = 0
         THEN /\ row' = [row EXCEPT ![k] = drawn[t]]
              /\ owner' = [owner EXCEPT ![k] = t]
         ELSE UNCHANGED <<row, owner>>
    /\ drawn' = [drawn EXCEPT ![t] = 0]
    /\ UNCHANGED identity

\* append: the number RETURNING gives, or that of the row which was there already.
AppendResult(t, k) == IF row[k] = 0 THEN drawn[t] ELSE row[k]

\* Mutant: the transaction is left open, and with it its locks.
CommitTable_LeavesOpen(t) ==
    /\ drawn[t] = 0
    /\ UNCHANGED tableVars

\* COMMIT: the rows of t become visible together.
CommitTable(t) ==
    /\ drawn[t] = 0
    /\ owner' = [k \in Keys |-> IF owner[k] = t THEN NoTxn ELSE owner[k]]
    /\ UNCHANGED <<row, identity, drawn>>

\* Mutant: the rows of a failed transaction stay.
RollbackTable_Keeps(t) ==
    /\ drawn' = [drawn EXCEPT ![t] = 0]
    /\ UNCHANGED <<row, owner, identity>>

\* ROLLBACK: the rows of t are gone, the numbers it drew are not given back.
RollbackTable(t) ==
    /\ row' = [k \in Keys |-> IF owner[k] = t THEN 0 ELSE row[k]]
    /\ owner' = [k \in Keys |-> IF owner[k] = t THEN NoTxn ELSE owner[k]]
    /\ drawn' = [drawn EXCEPT ![t] = 0]
    /\ UNCHANGED identity

TableTypeOK ==
    /\ row \in [Keys -> 0..MaxServerSeq]
    /\ owner \in [Keys -> Txns \cup {NoTxn}]
    /\ identity \in 0..MaxServerSeq
    /\ drawn \in [Txns -> 0..MaxServerSeq]

\* The committed log: what the table promises to its readers.
CommittedLog == {<<k, row[k]>> : k \in Committed}
=============================================================================
