--------------------------- MODULE MCCoordinator ---------------------------
(* Coordinator on small instances: at most a few batches of one or two     *)
(* requests, with a few events each.                                       *)
EXTENDS Coordinator
=============================================================================
