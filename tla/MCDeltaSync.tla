---------------------------- MODULE MCDeltaSync -----------------------------
(* Instances of DeltaSync for TLC: two devices write, the second one pulls. *)
EXTENDS DeltaSync

\* One event at a time, of either device.
SingleRequests ==
    {[caller |-> 1, events |-> << <<1, 1>> >>],
     [caller |-> 1, events |-> << <<1, 2>> >>],
     [caller |-> 2, events |-> << <<2, 1>> >>]}

\* A batch of two, its second event alone, and the other device.
BatchRequests ==
    {[caller |-> 1, events |-> << <<1, 1>>, <<1, 2>> >>],
     [caller |-> 1, events |-> << <<1, 2>> >>],
     [caller |-> 2, events |-> << <<2, 1>> >>]}
=============================================================================
