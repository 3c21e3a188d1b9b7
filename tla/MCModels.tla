------------------------------ MODULE MCModels ------------------------------
(***************************************************************************)
(* Instances of MultiModel for TLC.  The models that can be loaded differ  *)
(* by name only: a choice the worker makes among them depends on where     *)
(* they are in the batch or in the list.                                   *)
(***************************************************************************)
EXTENDS MultiModel, TLC

CONSTANTS m1, m2, m3, m4

AnyModel == Permutations({m1, m2, m3})
=============================================================================
