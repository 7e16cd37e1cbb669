------------------------------ MODULE MCOutbox ------------------------------
(* Instances of Outbox for TLC: the handset against any other end.         *)
EXTENDS Outbox, TLC

\* Drains are interchangeable: they are only compared for equality.
DrainSymmetry == Permutations(Drains)
=============================================================================
