------------------------------ MODULE MCSieve ------------------------------
(* Instances of SieveList for TLC: a few keys, and one node more than the  *)
(* cache can hold.                                                         *)
EXTENDS SieveList
=============================================================================
