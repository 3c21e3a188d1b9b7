-------------------------- MODULE SieveParameters --------------------------
(* What SieveCache and SieveList are parameterised by (mosec/cache.py). *)
EXTENDS Integers, Sequences, FiniteSets

CONSTANTS
  Keys,          \* the keys a caller may use
  Values,        \* the values it may store
  MaxSize,       \* max_size
  None           \* the absent value

ASSUME CacheAssumption ==
  /\ MaxSize \in Nat \ {0}
  /\ None \notin Keys
  /\ None \notin Values
=============================================================================
