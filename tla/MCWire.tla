------------------------------- MODULE MCWire -------------------------------
(* A batch of two that does not fit into the socket, then one that does. *)
EXTENDS Wire

TwoBatches ==
  << << [id |-> 1, state |-> 1, data |-> <<7, 0, 0, 0, 0, 0, 0, 1>>], [id |-> 258, state |-> 3, data |-> <<>>] >>,
     << [id |-> 2, state |-> 2, data |-> <<5>>] >> >>
=============================================================================
