----------------------------- MODULE MCExchange -----------------------------
(* Worker classes with each of the mixins, and two whose stages disagree. *)
EXTENDS Exchange, TLC

Symmetry == Permutations(Tasks) \cup Permutations(First)

Class(deserialize, first, second, serialize) ==
  [deserialize |-> deserialize, first |-> first, second |-> second, serialize |-> serialize]

Classes ==
  { Class("json", "redis", "redis", "json"), Class("msgpack", "numbin", "numbin", "msgpack"),
    Class("typed", "plasma", "plasma", "typed"), Class("json", "pickle", "pickle", "msgpack"),
    Class("json", "pickle", "numbin", "json"), Class("msgpack", "redis", "pickle", "json") }
=============================================================================
