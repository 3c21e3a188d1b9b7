----------------------------- MODULE SieveCache -----------------------------
(***************************************************************************)
(* What SieveCache (mosec/cache.py) promises: a bounded cache whose keys   *)
(* are kept from the newest to the oldest, with a visited bit per key and  *)
(* a hand that resumes where the last eviction stopped.  An operation is   *)
(* one step; SieveList takes them apart.                                   *)
(***************************************************************************)
EXTENDS SieveParameters

VARIABLE
  cache          \* [order, visited, hand, value], see Cache

Cache ==
  [order   : Seq(Keys),                \* head (newest) to tail (oldest)
   visited : SUBSET Keys,
   hand    : Keys \cup {None},
   value   : [Keys -> Values \cup {None}]]

Empty == [order |-> << >>, visited |-> {}, hand |-> None,
          value |-> [k \in Keys |-> None]]

Cached(c) == {c.order[i] : i \in 1 .. Len(c.order)}

Full(c) == Len(c.order) >= MaxSize

Position(c, k) == CHOOSE i \in 1 .. Len(c.order) : c.order[i] = k

-----------------------------------------------------------------------------
(* get: nothing moves, the bit of a hit is set. *)
Hit(c, k) == [c EXCEPT !.visited = @ \cup {k}]

(* put of a key that is there. *)
Replace(c, k, v) == [Hit(c, k) EXCEPT !.value[k] = v]

(* Insertion at the head; the hand stays. *)
PushHead(c, k, v) == [c EXCEPT !.order = <<k>> \o @, !.value[k] = v]

Without(s, p) == [i \in 1 .. Len(s) - 1 |-> IF i < p THEN s[i] ELSE s[i + 1]]

(* Mutation of Unlink: the hand stays on the key. *)
UnlinkUnderHand(c, k) ==
  [order   |-> Without(c.order, Position(c, k)),
   visited |-> c.visited \ {k},
   hand    |-> c.hand,
   value   |-> [c.value EXCEPT ![k] = None]]

(* _remove: a hand on the key goes one node towards the head. *)
Unlink(c, k) ==
  LET p == Position(c, k)
  IN [order   |-> Without(c.order, p),
      visited |-> c.visited \ {k},
      hand    |-> IF c.hand # k THEN c.hand
                  ELSE IF p = 1 THEN None ELSE c.order[p - 1],
      value   |-> [c.value EXCEPT ![k] = None]]

(* Where an eviction starts. *)
Start(c) == IF c.hand = None THEN Len(c.order) ELSE Position(c, c.hand)

(* The number of nodes the hand passes before it comes to position i: it   *)
(* walks to the head and goes on from the tail.                            *)
Distance(c, i) ==
  IF i <= Start(c) THEN Start(c) - i ELSE Start(c) + Len(c.order) - i

(* The first key without the bit, or the first key when all have it. *)
Victim(c) ==
  LET clear == {i \in 1 .. Len(c.order) : c.order[i] \notin c.visited}
  IN IF clear = {} THEN c.order[Start(c)]
     ELSE c.order[CHOOSE i \in clear :
                    \A j \in clear : Distance(c, i) <= Distance(c, j)]

(* The keys that lose their bit on the way. *)
Spared(c) ==
  IF Cached(c) \subseteq c.visited THEN Cached(c)
  ELSE {k \in Cached(c) :
          Distance(c, Position(c, k)) < Distance(c, Position(c, Victim(c)))}

(* evict: the hand ends on the victim and leaves it towards the head. *)
Evict(c) ==
  Unlink([c EXCEPT !.visited = @ \ Spared(c), !.hand = Victim(c)], Victim(c))

Put(c, k, v) ==
  IF k \in Cached(c) THEN Replace(c, k, v)
  ELSE IF Full(c) THEN PushHead(Evict(c), k, v)
  ELSE PushHead(c, k, v)

-----------------------------------------------------------------------------
CacheInit == cache = Empty

CacheNext ==
  \/ \E k \in Cached(cache) : cache' = Hit(cache, k)
  \/ \E k \in Keys, v \in Values : cache' = Put(cache, k, v)
  \/ \E k \in Cached(cache) : cache' = Unlink(cache, k)
  \/ Cached(cache) # {} /\ cache' = Evict(cache)

CacheSpec == CacheInit /\ [][CacheNext]_cache

-----------------------------------------------------------------------------
CacheTypeOK == cache \in Cache

(* The cache never holds more than max_size entries, no key twice, and     *)
(* neither a visited bit, a value nor the hand outlives its entry.         *)
WellFormedCache(c) ==
  /\ Len(c.order) <= MaxSize
  /\ \A i, j \in 1 .. Len(c.order) : c.order[i] = c.order[j] => i = j
  /\ c.visited \subseteq Cached(c)
  /\ c.hand \in Cached(c) \cup {None}
  /\ \A k \in Keys : c.value[k] # None <=> k \in Cached(c)

(* put, remove and evict of cache.py keep the cache well formed. *)
WellFormed == WellFormedCache(cache)
=============================================================================
