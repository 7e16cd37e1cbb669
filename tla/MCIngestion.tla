---------------------------- MODULE MCIngestion -----------------------------
(* An instance of Ingestion for TLC: requests that overlap, repeat each    *)
(* other and insert the same keys in opposite orders.                      *)
EXTENDS Ingestion

K(s) == <<1, s>>
L(s) == <<2, s>>

\* Two devices and a gateway: a device's own upload, newest event first, and relays of
\* both devices in opposite orders, one with an event that does not parse.
RelayRequests ==
    {[caller |-> 1, events |-> <<K(2), K(1)>>],
     [caller |-> Gateway, events |-> <<K(1), L(1)>>],
     [caller |-> Gateway, events |-> <<L(2), L(1), K(1)>>]}

BadEvent == {L(2)}
=============================================================================
