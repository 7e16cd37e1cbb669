---------------------------- MODULE MCFieldSync -----------------------------
(* Instances of FieldSync for TLC: one handset, the server, the network.   *)
EXTENDS FieldSync, TLC

\* Drains are interchangeable: they are only compared for equality.
DrainSymmetry == Permutations(Drains)
=============================================================================
