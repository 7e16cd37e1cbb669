------------------------------ MODULE EventLog ------------------------------
(***************************************************************************)
(* What the event store promises (AD-01, DM-29, D-05): a log that is only  *)
(* appended to, in which an event is identified by (device_id, seq) and    *)
(* carries a server_seq of its own.  A batch is appended as a whole.       *)
(***************************************************************************)
CONSTANTS Identities, Numbers

VARIABLE log   \* pairs of an identity and its server_seq

Init == log = {}

\* New identities under new numbers; those in the log are left alone.
Append(batch) ==
    /\ batch \subseteq Identities \X Numbers
    /\ \A e, f \in batch : (e[1] = f[1]) <=> (e[2] = f[2])
    /\ \A e \in batch, f \in log : e[1] # f[1] /\ e[2] # f[2]
    /\ log' = log \cup batch

Next == Append(log' \ log)

Spec == Init /\ [][Next]_log
=============================================================================
