---------------------------- MODULE SieveProofs ----------------------------
(***************************************************************************)
(* Proofs about the SIEVE cache and the multi-model worker.                *)
(***************************************************************************)
EXTENDS MultiModel, SieveCache, FiniteSetTheorems, WellFoundedInduction, TLAPS

GoodCache(c) == c \in Cache /\ WellFormedCache(c)

-----------------------------------------------------------------------------
(* A set of numbers that is not empty has a least element. *)
LEMMA LeastExists ==
  ASSUME NEW S \in SUBSET Nat, S # {}
  PROVE  \E m \in S : \A n \in S : m <= n
<1>1. PICK m \in S : \A n \in S : ~(<<n, m>> \in OpToRel(<, Nat))
  BY NatLessThanWellFounded, WFMin
<1>2. ASSUME NEW n \in S PROVE m <= n
  <2>1. n \in Nat /\ m \in Nat
    OBVIOUS
  <2>2. ~(n < m)
    BY <2>1, <1>1, Zenon DEF OpToRel
  <2> QED  BY <2>1, <2>2
<1> QED  BY <1>2

(* A key of the cache has one position. *)
LEMMA PositionOf ==
  ASSUME NEW c, GoodCache(c), NEW k \in Cached(c)
  PROVE  /\ Position(c, k) \in 1 .. Len(c.order)
         /\ c.order[Position(c, k)] = k
         /\ \A i \in 1 .. Len(c.order) : c.order[i] = k => i = Position(c, k)
BY DEF Position, Cached, GoodCache, WellFormedCache, Cache

(* get and put of a key that is there. *)
LEMMA HitGood ==
  ASSUME NEW c, GoodCache(c), NEW k \in Cached(c)
  PROVE  /\ GoodCache(Hit(c, k))
         /\ Cached(Hit(c, k)) = Cached(c)
<1> k \in Keys
  BY DEF Cached, GoodCache, Cache
<1>1. Hit(c, k) \in Cache
  BY DEF GoodCache, Cache, Hit
<1>2. Hit(c, k).order = c.order /\ Hit(c, k).hand = c.hand
      /\ Hit(c, k).value = c.value /\ Hit(c, k).visited = c.visited \cup {k}
  BY DEF GoodCache, Cache, Hit
<1>3. Cached(Hit(c, k)) = Cached(c)
  BY <1>2 DEF Cached
<1>4. WellFormedCache(Hit(c, k))
  BY <1>2, <1>3 DEF WellFormedCache, GoodCache
<1> QED  BY <1>1, <1>3, <1>4 DEF GoodCache

LEMMA ReplaceGood ==
  ASSUME NEW c, GoodCache(c), NEW k \in Cached(c), NEW v \in Values
  PROVE  /\ GoodCache(Replace(c, k, v))
         /\ Cached(Replace(c, k, v)) = Cached(c)
<1> DEFINE h == Hit(c, k)
<1>0. k \in Keys
  BY DEF Cached, GoodCache, Cache
<1>1. GoodCache(h) /\ Cached(h) = Cached(c)
  BY HitGood
<1>2. Replace(c, k, v) = [h EXCEPT !.value = [h.value EXCEPT ![k] = v]]
  BY DEF Replace
<1> HIDE DEF h
<1>3. Replace(c, k, v) \in Cache
  <2>1. h \in Cache
    BY <1>1 DEF GoodCache
  <2>2. h.value \in [Keys -> Values \cup {None}]
    BY <2>1 DEF Cache
  <2>3. [h.value EXCEPT ![k] = v] \in [Keys -> Values \cup {None}]
    BY <1>0, <2>2
  <2> QED  BY <2>1, <2>3, <1>2 DEF Cache
<1>4. LET n == Replace(c, k, v)
      IN n.order = h.order /\ n.hand = h.hand /\ n.visited = h.visited
         /\ n.value = [h.value EXCEPT ![k] = v]
  BY <1>1, <1>2 DEF GoodCache, Cache
<1>5. Cached(Replace(c, k, v)) = Cached(h)
  BY <1>4 DEF Cached
<1>6. \A m \in Keys : Replace(c, k, v).value[m] # None <=> m \in Cached(h)
  <2> SUFFICES ASSUME NEW m \in Keys
               PROVE  Replace(c, k, v).value[m] # None <=> m \in Cached(h)
    OBVIOUS
  <2>1. h.value \in [Keys -> Values \cup {None}] /\ (h.value[m] # None <=> m \in Cached(h))
    BY <1>1 DEF GoodCache, Cache, WellFormedCache
  <2> QED  BY <2>1, <1>4, <1>0, <1>1, CacheAssumption
<1>7. WellFormedCache(Replace(c, k, v))
  BY <1>1, <1>4, <1>5, <1>6 DEF WellFormedCache, GoodCache
<1> QED  BY <1>1, <1>3, <1>5, <1>7 DEF GoodCache

(* A new key goes to the head of a cache with room. *)
LEMMA PushGood ==
  ASSUME NEW c, GoodCache(c), NEW k \in Keys, k \notin Cached(c),
         NEW v \in Values, Len(c.order) < MaxSize
  PROVE  /\ GoodCache(PushHead(c, k, v))
         /\ Cached(PushHead(c, k, v)) = Cached(c) \cup {k}
<1> DEFINE n == PushHead(c, k, v)
           s == c.order
           t == <<k>> \o s
<1>0. s \in Seq(Keys) /\ c \in Cache
  BY DEF GoodCache, Cache
<1>a. c.value \in [Keys -> Values \cup {None}] /\ t \in Seq(Keys)
  BY <1>0 DEF Cache
<1>b. [c.value EXCEPT ![k] = v] \in [Keys -> Values \cup {None}]
  BY <1>a
<1>c. n = [c EXCEPT !.order = t, !.value = [c.value EXCEPT ![k] = v]]
  BY DEF PushHead
<1>1. n \in Cache /\ n.order = t /\ n.hand = c.hand /\ n.visited = c.visited
      /\ n.value = [c.value EXCEPT ![k] = v]
  <2> HIDE DEF t, n, s
  <2> QED  BY <1>0, <1>a, <1>b, <1>c DEF Cache
<1>2. t \in Seq(Keys) /\ Len(t) = Len(s) + 1
      /\ \A i \in 1 .. Len(t) : t[i] = IF i = 1 THEN k ELSE s[i - 1]
  BY <1>0
<1> HIDE DEF n, t
<1>3. Cached(n) = Cached(c) \cup {k}
  <2>1. ASSUME NEW x \in Cached(n) PROVE x \in Cached(c) \cup {k}
    BY <2>1, <1>0, <1>1, <1>2 DEF Cached
  <2>2. ASSUME NEW x \in Cached(c) PROVE x \in Cached(n)
    <3>1. PICK i \in 1 .. Len(s) : s[i] = x
      BY <2>2 DEF Cached
    <3>2. i + 1 \in 1 .. Len(t) /\ t[i + 1] = x
      BY <3>1, <1>0, <1>2
    <3> QED  BY <3>2, <1>1 DEF Cached
  <2>3. k \in Cached(n)
    <3>1. 1 \in 1 .. Len(t) /\ t[1] = k
      BY <1>0, <1>2
    <3> QED  BY <3>1, <1>1 DEF Cached
  <2> QED  BY <2>1, <2>2, <2>3
<1>4. \A i, j \in 1 .. Len(t) : t[i] = t[j] => i = j
  <2> SUFFICES ASSUME NEW i \in 1 .. Len(t), NEW j \in 1 .. Len(t), t[i] = t[j], i # j
               PROVE  FALSE
    OBVIOUS
  <2>1. \A a, b \in 1 .. Len(s) : s[a] = s[b] => a = b
    BY DEF GoodCache, WellFormedCache
  <2>2. \A a \in 1 .. Len(s) : s[a] # k
    BY DEF Cached
  <2>3. CASE i = 1
    BY <2>2, <2>3, <1>2, <1>0, SMTT(60)
  <2>4. CASE j = 1
    BY <2>2, <2>4, <1>2, <1>0
  <2>5. CASE i # 1 /\ j # 1
    <3>1. i - 1 \in 1 .. Len(s) /\ j - 1 \in 1 .. Len(s)
      BY <2>5, <1>2, <1>0
    <3>2. s[i - 1] = s[j - 1]
      BY <2>5, <1>2
    <3> QED  BY <3>1, <3>2, <2>1, <1>0
  <2> QED  BY <2>3, <2>4, <2>5
<1>5. \A m \in Keys : n.value[m] # None <=> m \in Cached(n)
  <2> SUFFICES ASSUME NEW m \in Keys
               PROVE  n.value[m] # None <=> m \in Cached(n)
    OBVIOUS
  <2>1. c.value \in [Keys -> Values \cup {None}] /\ (c.value[m] # None <=> m \in Cached(c))
    BY DEF GoodCache, Cache, WellFormedCache
  <2> QED  BY <2>1, <1>1, <1>3, CacheAssumption
<1>6. Len(n.order) <= MaxSize
  BY <1>0, <1>1, <1>2, CacheAssumption
<1>7. n.visited \subseteq Cached(n) /\ n.hand \in Cached(n) \cup {None}
  BY <1>1, <1>3 DEF GoodCache, WellFormedCache
<1>8. WellFormedCache(n)
  BY <1>1, <1>4, <1>5, <1>6, <1>7 DEF WellFormedCache
<1> QED  BY <1>1, <1>3, <1>8 DEF GoodCache, n

(* _remove takes one key out, and leaves no trace of it. *)
LEMMA UnlinkGood ==
  ASSUME NEW c, GoodCache(c), NEW k \in Cached(c)
  PROVE  /\ GoodCache(Unlink(c, k))
         /\ Cached(Unlink(c, k)) = Cached(c) \ {k}
         /\ Len(Unlink(c, k).order) = Len(c.order) - 1
<1> DEFINE n == Unlink(c, k)
           s == c.order
           p == Position(c, k)
           t == Without(s, p)
           hd == IF c.hand # k THEN c.hand ELSE IF p = 1 THEN None ELSE s[p - 1]
<1>0. s \in Seq(Keys) /\ c \in Cache /\ Len(s) \in Nat
  BY DEF GoodCache, Cache
<1>1. p \in 1 .. Len(s) /\ s[p] = k
      /\ \A i \in 1 .. Len(s) : s[i] = k => i = p
  BY PositionOf
<1>2. \A i, j \in 1 .. Len(s) : s[i] = s[j] => i = j
  BY DEF GoodCache, WellFormedCache
<1>3. k \in Keys
  BY <1>0, <1>1
<1>4. n.order = t /\ n.hand = hd /\ n.visited = c.visited \ {k}
      /\ n.value = [c.value EXCEPT ![k] = None]
      /\ n = [order |-> t, visited |-> c.visited \ {k}, hand |-> hd,
              value |-> [c.value EXCEPT ![k] = None]]
  BY DEF Unlink
<1> HIDE DEF n, p
<1>5. t \in Seq(Keys) /\ Len(t) = Len(s) - 1
      /\ \A i \in 1 .. Len(s) - 1 : t[i] = IF i < p THEN s[i] ELSE s[i + 1]
  <2>1. \A i \in 1 .. Len(s) - 1 : (IF i < p THEN s[i] ELSE s[i + 1]) \in Keys
    BY <1>0, <1>1
  <2> QED  BY <1>0, <1>1, <2>1 DEF Without
<1> HIDE DEF t
<1>6. Cached(n) = Cached(c) \ {k}
  <2>1. ASSUME NEW x \in Cached(n) PROVE x \in Cached(c) \ {k}
    <3>1. PICK i \in 1 .. Len(s) - 1 : t[i] = x
      BY <2>1, <1>4, <1>5 DEF Cached
    <3>2. CASE i < p
      <4>1. i \in 1 .. Len(s) /\ i # p /\ s[i] = x
        BY <3>1, <3>2, <1>0, <1>1, <1>5
      <4> QED  BY <4>1, <1>1 DEF Cached
    <3>3. CASE ~(i < p)
      <4>1. i + 1 \in 1 .. Len(s) /\ i + 1 # p /\ s[i + 1] = x
        BY <3>1, <3>3, <1>0, <1>1, <1>5
      <4> QED  BY <4>1, <1>1 DEF Cached
    <3> QED  BY <3>2, <3>3
  <2>2. ASSUME NEW x \in Cached(c), x # k PROVE x \in Cached(n)
    <3>1. PICK i \in 1 .. Len(s) : s[i] = x
      BY <2>2 DEF Cached
    <3>2. i # p
      BY <3>1, <2>2, <1>1
    <3>3. CASE i < p
      <4>1. i \in 1 .. Len(t) /\ t[i] = x
        BY <3>1, <3>3, <1>0, <1>1, <1>5
      <4> QED  BY <4>1, <1>4 DEF Cached
    <3>4. CASE i > p
      <4>1. i - 1 \in 1 .. Len(t) /\ t[i - 1] = x
        BY <3>1, <3>4, <1>0, <1>1, <1>5
      <4> QED  BY <4>1, <1>4 DEF Cached
    <3> QED  BY <3>2, <3>3, <3>4, <1>1
  <2> QED  BY <2>1, <2>2
<1>7. \A i, j \in 1 .. Len(t) : t[i] = t[j] => i = j
  <2> SUFFICES ASSUME NEW i \in 1 .. Len(t), NEW j \in 1 .. Len(t), t[i] = t[j]
               PROVE  i = j
    OBVIOUS
  <2> DEFINE a == IF i < p THEN i ELSE i + 1
             b == IF j < p THEN j ELSE j + 1
  <2>0. i \in 1 .. Len(s) - 1 /\ j \in 1 .. Len(s) - 1 /\ p \in Int
    BY <1>0, <1>1, <1>5
  <2>1. a \in 1 .. Len(s) /\ s[a] = t[i]
    BY <2>0, <1>0, <1>5
  <2>2. b \in 1 .. Len(s) /\ s[b] = t[j]
    BY <2>0, <1>0, <1>5
  <2>3. a = b
    <3> HIDE DEF a, b
    <3> QED  BY <2>1, <2>2, <1>2
  <2> QED  BY <2>0, <2>3
<1>8. hd \in (Cached(c) \ {k}) \cup {None}
  <2>1. CASE c.hand # k
    BY <2>1 DEF GoodCache, WellFormedCache
  <2>2. CASE c.hand = k /\ p # 1
    <3>1. p - 1 \in 1 .. Len(s) /\ p - 1 # p
      BY <2>2, <1>1, <1>0
    <3>2. s[p - 1] \in Cached(c) /\ s[p - 1] # k
      BY <3>1, <1>1 DEF Cached
    <3> QED  BY <2>2, <3>2
  <2> QED  BY <2>1, <2>2
<1> HIDE DEF hd
<1>9. Cached(c) \subseteq Keys
  BY <1>0 DEF Cached
<1>10. c.value \in [Keys -> Values \cup {None}] /\ c.visited \in SUBSET Keys
  BY <1>0 DEF Cache
<1>11. n \in Cache
  BY <1>4, <1>5, <1>8, <1>9, <1>10 DEF Cache
<1>12. \A m \in Keys : n.value[m] # None <=> m \in Cached(n)
  <2> SUFFICES ASSUME NEW m \in Keys
               PROVE  n.value[m] # None <=> m \in Cached(n)
    OBVIOUS
  <2>1. c.value[m] # None <=> m \in Cached(c)
    BY DEF GoodCache, WellFormedCache
  <2> QED  BY <2>1, <1>4, <1>6, <1>10
<1>13. n.visited \subseteq Cached(n)
  BY <1>4, <1>6 DEF GoodCache, WellFormedCache
<1>14. Len(n.order) <= MaxSize
  BY <1>0, <1>4, <1>5, CacheAssumption DEF GoodCache, WellFormedCache
<1>15. WellFormedCache(n)
  BY <1>4, <1>6, <1>7, <1>8, <1>12, <1>13, <1>14 DEF WellFormedCache
<1> QED  BY <1>4, <1>5, <1>6, <1>11, <1>15 DEF GoodCache, n

(* The hand of a cache that is not empty starts at one of its positions. *)
LEMMA StartOf ==
  ASSUME NEW c, GoodCache(c), Cached(c) # {}
  PROVE  Start(c) \in 1 .. Len(c.order)
<1>1. Len(c.order) \in Nat /\ Len(c.order) # 0
  BY DEF GoodCache, Cache, Cached
<1>2. CASE c.hand = None
  BY <1>1, <1>2 DEF Start
<1>3. CASE c.hand # None
  <2>1. c.hand \in Cached(c)
    BY <1>3 DEF GoodCache, WellFormedCache
  <2> QED  BY <1>3, <2>1, PositionOf DEF Start
<1> QED  BY <1>2, <1>3

(* _evict always finds a victim, which is a key of the cache. *)
LEMMA VictimCached ==
  ASSUME NEW c, GoodCache(c), Cached(c) # {}
  PROVE  Victim(c) \in Cached(c)
<1> DEFINE clear == {i \in 1 .. Len(c.order) : c.order[i] \notin c.visited}
           ds == {Distance(c, i) : i \in clear}
<1>1. Len(c.order) \in Nat /\ Start(c) \in 1 .. Len(c.order)
  BY StartOf DEF GoodCache, Cache
<1>2. CASE clear = {}
  BY <1>1, <1>2 DEF Victim, Cached
<1>3. CASE clear # {}
  <2>1. \A i \in 1 .. Len(c.order) : Distance(c, i) \in Nat
    BY <1>1 DEF Distance
  <2>2. ds \in SUBSET Nat /\ ds # {}
    BY <1>3, <2>1
  <2>3. PICK d \in ds : \A e \in ds : d <= e
    <3> HIDE DEF ds
    <3> QED  BY <2>2, LeastExists
  <2>4. \E i \in clear : \A j \in clear : Distance(c, i) <= Distance(c, j)
    BY <2>3
  <2> DEFINE v == CHOOSE i \in clear :
                    \A j \in clear : Distance(c, i) <= Distance(c, j)
  <2>5. v \in clear
    BY <2>4
  <2>6. Victim(c) = c.order[v]
    BY <1>3 DEF Victim
  <2> HIDE DEF v
  <2> QED  BY <2>5, <2>6 DEF Cached
<1> QED  BY <1>2, <1>3

(* evict takes out its victim and nothing else. *)
LEMMA EvictGood ==
  ASSUME NEW c, GoodCache(c), Cached(c) # {}
  PROVE  /\ GoodCache(Evict(c))
         /\ Cached(Evict(c)) = Cached(c) \ {Victim(c)}
         /\ Len(Evict(c).order) = Len(c.order) - 1
<1> DEFINE d == [c EXCEPT !.visited = @ \ Spared(c), !.hand = Victim(c)]
<1>0. Cached(c) \subseteq Keys
  BY DEF GoodCache, Cache, Cached
<1>1. Victim(c) \in Cached(c) /\ Cached(c) \subseteq Keys
  BY <1>0, VictimCached
<1>2. d \in Cache /\ d.order = c.order /\ d.value = c.value
      /\ d.hand = Victim(c) /\ d.visited = c.visited \ Spared(c)
  BY <1>1 DEF GoodCache, Cache
<1> HIDE DEF d
<1>3. Cached(d) = Cached(c)
  BY <1>2 DEF Cached
<1>4. GoodCache(d)
  BY <1>1, <1>2, <1>3 DEF GoodCache, WellFormedCache
<1>5. Evict(c) = Unlink(d, Victim(c))
  BY DEF Evict, d
<1> QED  BY <1>1, <1>2, <1>3, <1>4, <1>5, UnlinkGood

(* put keeps the cache well formed, at its limit too. *)
LEMMA PutGood ==
  ASSUME NEW c, GoodCache(c), NEW k \in Keys, NEW v \in Values
  PROVE  GoodCache(Put(c, k, v))
<1>1. CASE k \in Cached(c)
  BY <1>1, ReplaceGood DEF Put
<1>2. CASE k \notin Cached(c) /\ Full(c)
  <2>1. Len(c.order) \in Nat /\ Len(c.order) <= MaxSize /\ Len(c.order) > 0
    BY <1>2, CacheAssumption DEF Full, GoodCache, Cache, WellFormedCache
  <2>2. Cached(c) # {}
    <3>1. 1 \in 1 .. Len(c.order)
      BY <2>1
    <3> QED  BY <3>1 DEF Cached
  <2>3. GoodCache(Evict(c)) /\ k \notin Cached(Evict(c))
        /\ Len(Evict(c).order) = Len(c.order) - 1
    BY <1>2, <2>2, EvictGood
  <2>4. Len(Evict(c).order) < MaxSize
    BY <2>1, <2>3, CacheAssumption
  <2> QED  BY <1>2, <2>3, <2>4, PushGood DEF Put
<1>3. CASE k \notin Cached(c) /\ ~Full(c)
  <2>1. Len(c.order) < MaxSize
    BY <1>3, CacheAssumption DEF Full, GoodCache, Cache
  <2> QED  BY <1>3, <2>1, PushGood DEF Put
<1> QED  BY <1>1, <1>2, <1>3

LEMMA EmptyGood == GoodCache(Empty)
<1>1. Empty \in Cache
  BY DEF Empty, Cache
<1>2. Cached(Empty) = {} /\ Len(Empty.order) = 0
  BY DEF Empty, Cached
<1>3. WellFormedCache(Empty)
  <2>1. /\ Empty.visited = {} /\ Empty.hand = None
        /\ \A k \in Keys : Empty.value[k] = None
    BY DEF Empty
  <2>2. 0 <= MaxSize /\ \A i \in 1 .. 0 : FALSE
    BY CacheAssumption
  <2> QED  BY <1>2, <2>1, <2>2 DEF WellFormedCache
<1> QED  BY <1>1, <1>3 DEF GoodCache

(* Facts about a good cache that several steps use. *)
LEMMA CachedKeys ==
  ASSUME NEW c, GoodCache(c)
  PROVE  /\ Cached(c) \subseteq Keys
         /\ Full(c) => Cached(c) # {}
<1>1. Cached(c) \subseteq Keys
  BY DEF GoodCache, Cache, Cached
<1>2. ASSUME Full(c) PROVE Cached(c) # {}
  <2>1. Len(c.order) \in Nat /\ Len(c.order) > 0
    BY <1>2, CacheAssumption DEF Full, GoodCache, Cache
  <2>2. 1 \in 1 .. Len(c.order)
    BY <2>1
  <2> QED  BY <2>2 DEF Cached
<1> QED  BY <1>1, <1>2

-----------------------------------------------------------------------------
(* For any keys and any max_size, get, put, remove and evict of cache.py   *)
(* keep the cache within max_size and leave neither a bit, a value nor the *)
(* hand on a key that is gone.                                             *)
THEOREM CacheWellFormed == CacheSpec => []WellFormed
<1> DEFINE Good == GoodCache(cache)
<1>1. CacheInit => Good
  BY EmptyGood DEF CacheInit
<1>2. Good /\ [CacheNext]_cache => Good'
  <2> SUFFICES ASSUME GoodCache(cache), [CacheNext]_cache
               PROVE  GoodCache(cache')
    OBVIOUS
  <2>1. ASSUME NEW k \in Cached(cache), cache' = Hit(cache, k)
        PROVE  GoodCache(cache')
    BY <2>1, HitGood
  <2>2. ASSUME NEW k \in Keys, NEW v \in Values, cache' = Put(cache, k, v)
        PROVE  GoodCache(cache')
    BY <2>2, PutGood
  <2>3. ASSUME NEW k \in Cached(cache), cache' = Unlink(cache, k)
        PROVE  GoodCache(cache')
    BY <2>3, UnlinkGood
  <2>4. ASSUME Cached(cache) # {}, cache' = Evict(cache)
        PROVE  GoodCache(cache')
    BY <2>4, EvictGood
  <2>5. CASE UNCHANGED cache
    BY <2>5
  <2> QED  BY <2>1, <2>2, <2>3, <2>4, <2>5 DEF CacheNext
<1>3. Good => WellFormed
  BY DEF GoodCache, WellFormed
<1> HIDE DEF Good
<1> QED  BY <1>1, <1>2, <1>3, PTL DEF CacheSpec

-----------------------------------------------------------------------------
(* A model of the batch has a first position, and so a group of some       *)
(* models has a first one.                                                 *)
LEMMA EarliestIn ==
  ASSUME NEW b \in Batches, NEW ms \in SUBSET Models(b), ms # {}
  PROVE  Earliest(b, ms) \in ms
<1>1. PICK n \in 1 .. MaxBatch : b \in [1 .. n -> Keys]
  BY DEF Batches
<1>2. n \in Nat /\ DOMAIN b = 1 .. n
  BY <1>1, ModelsAssumption
<1>3. ASSUME NEW m \in ms PROVE First(b, m) \in Nat
  <2> DEFINE S == {i \in DOMAIN b : b[i] = m}
  <2>1. S \in SUBSET Nat /\ S # {}
    BY <1>2, <1>3 DEF Models
  <2>2. PICK i \in S : \A j \in S : i <= j
    <3> HIDE DEF S
    <3> QED  BY <2>1, LeastExists
  <2>3. \E x \in DOMAIN b : b[x] = m /\ \A j \in DOMAIN b : b[j] = m => x <= j
    BY <2>2
  <2>4. First(b, m) \in DOMAIN b
    BY <2>3 DEF First
  <2> QED  BY <2>4, <1>2
<1> DEFINE F == {First(b, m) : m \in ms}
<1>4. F \in SUBSET Nat /\ F # {}
  BY <1>3
<1>5. PICK f \in F : \A g \in F : f <= g
  <2> HIDE DEF F
  <2> QED  BY <1>4, LeastExists
<1>6. \E m \in ms : \A x \in ms : First(b, m) <= First(b, x)
  BY <1>5
<1> QED  BY <1>6 DEF Earliest

-----------------------------------------------------------------------------
(* The worker and the operation of the cache it is in.  Nothing is assumed *)
(* of the list, which the timer may have left half updated: only _map      *)
(* decides what forward does, and an operation writes it in one statement, *)
(* the last of evict or of put.                                            *)
EvictPlaces == {"start", "scan", "unlink", "unlinkNext", "unhand", "forget"}

PutPlaces == {"insert", "linkHead", "setHead", "setTail", "enter"}

CallPlaces ==
  /\ at \notin {"evict", "put"} => pc = "idle"
  /\ at = "evict" => pc \in EvictPlaces /\ op.name = "evict"
  /\ at = "put" => pc \in PutPlaces /\ op.key = cur
  /\ at = "put" /\ pc # "insert" => fresh \in Nodes

(* A model is loaded and stored only when there is room for it. *)
Room ==
  /\ map \in [Keys -> Nodes \cup {None}]
  /\ IsFiniteSet(InCache)
  /\ Size <= MaxSize
  /\ at \in {"unload", "load", "store", "put"} => Size < MaxSize

LEMMA SizeOf ==
  ASSUME IsFiniteSet(InCache)
  PROVE  Size \in Nat /\ Size = Cardinality(InCache)
BY FS_CardinalityType DEF Size, InCache

(* The steps inside of an operation leave the map alone. *)
LEMMA RunsCall ==
  ASSUME CallPlaces, CacheRuns
  PROVE  /\ CallPlaces'
         /\ at \in {"evict", "put"}
         /\ UNCHANGED <<map, at, locals, resources>>
<1>1. at \in {"evict", "put"} /\ UNCHANGED <<at, batch, cur>> /\ pc \notin {"idle", "forget", "enter"}
  BY DEF CallPlaces, CacheRuns, locals
<1>2. UNCHANGED map
  BY <1>1 DEF CacheRuns, Step, ScanBegin, ScanVisited, ScanWrap, ScanFound, UnlinkPrev, UnlinkNext,
              Unhand, Forget, Create, LinkHead, SetHead, SetTail, Enter, list
<1>3. ASSUME at = "evict" PROVE CallPlaces'
  <2>1. pc \in {"start", "scan", "unlink", "unlinkNext", "unhand"} /\ op.name = "evict"
    BY <1>1, <1>3 DEF CallPlaces, EvictPlaces
  <2>2. pc' \in EvictPlaces /\ op' = op
    BY <2>1 DEF CacheRuns, Step, ScanBegin, ScanVisited, ScanWrap, ScanFound, UnlinkPrev, UnlinkNext,
                Unhand, Forget, Create, LinkHead, SetHead, SetTail, Enter, EvictPlaces
  <2> QED  BY <1>1, <1>3, <2>1, <2>2 DEF CallPlaces
<1>4. ASSUME at = "put" PROVE CallPlaces'
  <2>1. pc \in {"insert", "linkHead", "setHead", "setTail"} /\ op.key = cur
        /\ (pc # "insert" => fresh \in Nodes)
    BY <1>1, <1>4 DEF CallPlaces, PutPlaces
  <2>2. pc' \in PutPlaces \ {"insert"} /\ op' = op /\ fresh' \in Nodes
    BY <2>1 DEF CacheRuns, Step, ScanBegin, ScanVisited, ScanWrap, ScanFound, UnlinkPrev, UnlinkNext,
                Unhand, Forget, Create, LinkHead, SetHead, SetTail, Enter, PutPlaces
  <2> QED  BY <1>1, <1>4, <2>1, <2>2 DEF CallPlaces
<1> QED  BY <1>1, <1>2, <1>3, <1>4 DEF CacheRuns

(* The last statement of evict takes one key out of the map, if it is in. *)
LEMMA ForgetCall ==
  ASSUME CallPlaces, map \in [Keys -> Nodes \cup {None}], at = "evict", Forget
  PROVE  /\ pc' = "idle"
         /\ map' \in [Keys -> Nodes \cup {None}]
         /\ InCache' = InCache \ {node[victim].key}
<1> DEFINE key == node[victim].key
<1>1. op.name = "evict"
  BY DEF CallPlaces
<1>2. map' = [map EXCEPT ![key] = None] /\ pc' = "idle"
  BY <1>1 DEF Forget, Return
<1> HIDE DEF key
<1>3. map' \in [Keys -> Nodes \cup {None}] /\ InCache' = InCache \ {key}
  BY <1>2 DEF InCache
<1> QED  BY <1>2, <1>3 DEF key

(* The last statement of put enters the model. *)
LEMMA EnterCall ==
  ASSUME CallPlaces, map \in [Keys -> Nodes \cup {None}], at = "put", Enter, cur \in Keys
  PROVE  /\ pc' = "idle"
         /\ map' \in [Keys -> Nodes \cup {None}]
         /\ InCache' = InCache \cup {cur}
<1>1. op.key = cur /\ fresh \in Nodes
  BY DEF CallPlaces, Enter
<1>2. map' = [map EXCEPT ![cur] = fresh] /\ pc' = "idle"
  BY <1>1 DEF Enter, Return
<1>3. fresh # None
  BY <1>1, ListAssumption
<1> QED  BY <1>1, <1>2, <1>3 DEF InCache

-----------------------------------------------------------------------------
(* The inductive invariant of forward: while groups found in the cache are *)
(* left, the one being served is one of them and all of them are still     *)
(* there; a model is loaded only when none of them is left.                *)
Places == {"idle", "loop", "ensure", "evict", "unload", "load", "store", "put", "run"}

Missing == {"evict", "unload", "load", "store", "put"}

ServingTypes ==
  /\ at \in Places
  /\ hits \subseteq Keys
  /\ todo \subseteq Keys
  /\ cur \in Keys \cup {None}
  /\ loads \in [Keys -> Nat]
  /\ at # "idle" => batch \in Batches /\ todo \subseteq Models(batch)

HitsFirst ==
  /\ at \notin {"idle", "loop"} => cur \in todo /\ (cur \notin hits => todo \cap hits = {})
  /\ todo \cap hits \subseteq InCache
  /\ at \in Missing => cur \notin hits

LoadedServed ==
  /\ at = "idle" => \A m \in Keys : loads[m] = 0
  /\ \A m \in Keys : loads[m] > 0 /\ m \in todo => at \in {"store", "put", "run"} /\ cur = m

ServingInv ==
  CallPlaces /\ Room /\ ServingTypes /\ HitsFirst /\ LoadedServed /\ LoadOnce

LEMMA InitServing == ModelsInit => ServingInv
<1> SUFFICES ASSUME ModelsInit PROVE ServingInv
  OBVIOUS
<1>1. hits = {} /\ todo = {} /\ at = "idle" /\ cur = None /\ pc = "idle"
      /\ loads \in [Keys -> Nat] /\ \A m \in Keys : loads[m] = 0
  BY DEF ModelsInit, Init
<1>2. map \in [Keys -> Nodes \cup {None}] /\ InCache = {}
  BY DEF ModelsInit, Init, InCache
<1>3. IsFiniteSet(InCache) /\ Size = 0
  BY <1>2, FS_EmptySet, SizeOf
<1>4. Room
  BY <1>1, <1>2, <1>3, ListAssumption DEF Room
<1> QED  BY <1>1, <1>2, <1>4
         DEF ServingInv, CallPlaces, ServingTypes, HitsFirst, LoadedServed, LoadOnce, Places, Missing

(* A step that leaves the map alone leaves the room as it is. *)
LEMMA SameRoom ==
  ASSUME Room, UNCHANGED map,
         at' \in {"unload", "load", "store", "put"} => Size < MaxSize
  PROVE  Room' /\ InCache' = InCache
BY DEF Room, InCache, Size

(* Leaving forward, by a return, an exception or the timer. *)
LEMMA LeaveServing ==
  ASSUME Room, Leave, UNCHANGED map, pc' = "idle"
  PROVE  ServingInv'
<1>1. hits' = {} /\ todo' = {} /\ at' = "idle" /\ cur' = None
      /\ loads' \in [Keys -> Nat] /\ \A m \in Keys : loads'[m] = 0
  BY DEF Leave, Goto
<1>2. Room'
  BY <1>1, SameRoom
<1> QED
  BY <1>1, <1>2
  DEF ServingInv, CallPlaces, ServingTypes, HitsFirst, LoadedServed, LoadOnce, Places, Missing

LEMMA NextServing == ServingInv /\ [ModelsNext]_mmVars => ServingInv'
<1> SUFFICES ASSUME ServingInv, [ModelsNext]_mmVars PROVE ServingInv'
  OBVIOUS
<1> USE DEF Places, Missing
<1>0. CallPlaces /\ Room /\ ServingTypes /\ HitsFirst /\ LoadedServed /\ LoadOnce
  BY DEF ServingInv
<1>m. map \in [Keys -> Nodes \cup {None}]
  BY <1>0 DEF Room
<1>1. ASSUME NEW b \in Batches, Forward(b) PROVE ServingInv'
  <2>1. Models(b) \subseteq Keys
    BY DEF Models, Batches
  <2>2. \A m \in Keys : loads[m] = 0
    BY <1>0, <1>1 DEF Forward, LoadedServed
  <2>3. at = "idle" /\ at' = "loop" /\ UNCHANGED <<map, pc>>
    BY <1>1 DEF Forward, Goto, vars
  <2>4. Room' /\ InCache' = InCache /\ CallPlaces'
    BY <1>0, <2>3, SameRoom DEF CallPlaces
  <2> QED  BY <1>0, <1>1, <2>1, <2>2, <2>3, <2>4
           DEF Forward, ServingInv, ServingTypes, HitsFirst, LoadedServed, LoadOnce
<1>2. CASE Loop
  <2>0. at = "loop" /\ pc = "idle" /\ UNCHANGED <<map, pc>>
    BY <1>0, <1>2 DEF Loop, vars, CallPlaces
  <2>1. CASE todo # {} /\ cur' = NextGroup /\ at' = "ensure"
             /\ UNCHANGED <<batch, hits, todo, gone, results, loads>>
    <3>1. batch \in Batches /\ todo \subseteq Models(batch)
      BY <1>0, <2>0 DEF ServingTypes
    <3>2. todo \cap hits # {} => NextGroup \in todo \cap hits
      BY <3>1, EarliestIn DEF NextGroup
    <3>3. todo \cap hits = {} => NextGroup \in todo
      BY <3>1, <2>1, EarliestIn DEF NextGroup
    <3>4. cur' \in todo /\ (cur' \notin hits => todo \cap hits = {})
      BY <2>1, <3>2, <3>3
    <3>5. Room' /\ InCache' = InCache /\ CallPlaces'
      BY <1>0, <2>0, <2>1, SameRoom DEF CallPlaces
    <3> QED  BY <1>0, <2>0, <2>1, <3>1, <3>4, <3>5
             DEF ServingInv, ServingTypes, HitsFirst, LoadedServed, LoadOnce
  <2>2. CASE Leave
    BY <2>0, <2>2, <1>0, LeaveServing
  <2> QED  BY <1>2, <2>1, <2>2 DEF Loop, Goto
<1>3. CASE EnsureHit
  <2>1. at = "ensure" /\ at' = "run" /\ UNCHANGED <<map, pc, locals>>
    BY <1>3 DEF EnsureHit, Get, Goto
  <2>2. Room' /\ InCache' = InCache /\ CallPlaces'
    BY <1>0, <2>1, SameRoom DEF CallPlaces
  <2> QED  BY <1>0, <2>1, <2>2
           DEF locals, ServingInv, ServingTypes, HitsFirst, LoadedServed, LoadOnce
<1>4. CASE EnsureMiss
  <2>0. at = "ensure" /\ pc = "idle" /\ cur \in todo /\ cur \notin hits /\ todo \cap hits = {}
    BY <1>0, <1>4 DEF EnsureMiss, HitsFirst, CallPlaces
  <2>1. CASE Leave /\ UNCHANGED vars
    BY <2>0, <2>1, <1>0, LeaveServing DEF vars
  <2>2. CASE EvictBegin /\ at' = "evict" /\ UNCHANGED locals
    <3>1. pc' = "start" /\ op'.name = "evict" /\ UNCHANGED map
      BY <2>2 DEF EvictBegin, Begin, list
    <3>2. Room' /\ InCache' = InCache /\ CallPlaces'
      BY <1>0, <2>2, <3>1, SameRoom DEF CallPlaces, EvictPlaces
    <3> QED  BY <1>0, <2>0, <2>2, <3>2
             DEF locals, ServingInv, ServingTypes, HitsFirst, LoadedServed, LoadOnce
  <2>3. CASE Size < MaxSize /\ at' = "load" /\ UNCHANGED <<vars, locals>>
    <3>1. UNCHANGED <<map, pc>>
      BY <2>3 DEF vars
    <3>2. Room' /\ InCache' = InCache /\ CallPlaces'
      BY <1>0, <2>0, <2>3, <3>1, SameRoom DEF CallPlaces
    <3> QED  BY <1>0, <2>0, <2>3, <3>2
             DEF locals, ServingInv, ServingTypes, HitsFirst, LoadedServed, LoadOnce
  <2> QED  BY <1>4, <2>1, <2>2, <2>3 DEF EnsureMiss, Goto
<1>5. CASE CacheRuns
  <2>1. CallPlaces' /\ at \in {"evict", "put"} /\ UNCHANGED <<map, at, locals, resources>>
    BY <1>0, <1>5, RunsCall
  <2>2. Room' /\ InCache' = InCache
    BY <1>0, <2>1, SameRoom DEF Room
  <2> QED  BY <1>0, <2>1, <2>2
           DEF locals, ServingInv, ServingTypes, HitsFirst, LoadedServed, LoadOnce
<1>6. CASE EvictEnds
  <2> DEFINE key == node[victim].key
  <2>0. at = "evict" /\ cur \in todo /\ cur \notin hits /\ todo \cap hits = {} /\ Forget
    BY <1>0, <1>6 DEF EvictEnds, HitsFirst
  <2>1. pc' = "idle" /\ map' \in [Keys -> Nodes \cup {None}] /\ InCache' = InCache \ {key}
    BY <1>0, <1>m, <2>0, ForgetCall
  <2>2. /\ IsFiniteSet(InCache') /\ Size \in Nat
        /\ Size' = IF key \in InCache THEN Size - 1 ELSE Size
    <3>1. IsFiniteSet(InCache) /\ Size \in Nat /\ Size = Cardinality(InCache)
      BY <1>0, SizeOf DEF Room
    <3>2. /\ IsFiniteSet(InCache \ {key})
          /\ Cardinality(InCache \ {key}) =
               IF key \in InCache THEN Cardinality(InCache) - 1 ELSE Cardinality(InCache)
      BY <3>1, FS_RemoveElement
    <3>3. Size' = Cardinality(InCache')
      BY DEF Size, InCache
    <3> QED  BY <2>1, <3>1, <3>2, <3>3
  <2> HIDE DEF key
  <2>3. CASE key \in InCache /\ at' = "unload" /\ UNCHANGED <<batch, hits, todo, cur, results, loads>>
    <3>1. Room'
      BY <1>0, <2>1, <2>2, <2>3, ListAssumption DEF Room
    <3>2. CallPlaces'
      BY <2>1, <2>3 DEF CallPlaces
    <3> QED  BY <1>0, <2>0, <2>3, <3>1, <3>2
             DEF ServingInv, ServingTypes, HitsFirst, LoadedServed, LoadOnce
  <2>4. CASE Leave
    <3>1. hits' = {} /\ todo' = {} /\ at' = "idle" /\ cur' = None
          /\ loads' \in [Keys -> Nat] /\ \A m \in Keys : loads'[m] = 0
      BY <2>4 DEF Leave, Goto
    <3>2. Room'
      BY <1>0, <2>1, <2>2, <3>1, ListAssumption DEF Room
    <3> QED  BY <2>1, <3>1, <3>2
             DEF ServingInv, CallPlaces, ServingTypes, HitsFirst, LoadedServed, LoadOnce
  <2> QED  BY <1>6, <2>3, <2>4 DEF EvictEnds, Goto, key
<1>7. CASE Unload
  <2>1. at = "unload" /\ at' = "load" /\ UNCHANGED <<map, pc, batch, hits, todo, cur, results, loads>>
    BY <1>7 DEF Unload, Goto, vars
  <2>2. Room' /\ InCache' = InCache /\ CallPlaces'
    BY <1>0, <2>1, SameRoom DEF CallPlaces, Room
  <2> QED  BY <1>0, <2>1, <2>2
           DEF ServingInv, ServingTypes, HitsFirst, LoadedServed, LoadOnce
<1>8. CASE Load
  <2>0. at = "load" /\ at' = "store" /\ UNCHANGED <<map, pc, batch, hits, todo, cur>>
        /\ loads' = [loads EXCEPT ![cur] = @ + 1]
    BY <1>8 DEF Load, Goto, vars
  <2>1. cur \in Keys /\ cur \in todo /\ cur \notin hits /\ loads[cur] = 0
    BY <1>0, <2>0 DEF HitsFirst, LoadedServed, ServingTypes
  <2>2. /\ loads' \in [Keys -> Nat] /\ loads'[cur] = 1
        /\ \A m \in Keys : m # cur => loads'[m] = loads[m]
    BY <2>0, <2>1, <1>0 DEF ServingTypes
  <2>3. LoadOnce'
    BY <1>0, <2>0, <2>1, <2>2 DEF LoadOnce
  <2>4. LoadedServed'
    BY <1>0, <2>0, <2>1, <2>2 DEF LoadedServed
  <2>5. Room' /\ InCache' = InCache /\ CallPlaces'
    BY <1>0, <2>0, SameRoom DEF CallPlaces, Room
  <2> QED  BY <1>0, <2>0, <2>1, <2>2, <2>3, <2>4, <2>5
           DEF ServingInv, ServingTypes, HitsFirst
<1>9. CASE Store
  <2>1. at = "store" /\ UNCHANGED locals /\ cur \in Keys /\ cur \in todo /\ cur \notin hits
    BY <1>0, <1>9 DEF Store, HitsFirst, ServingTypes
  <2>2. Size < MaxSize /\ UNCHANGED map
    BY <1>0, <1>9, <2>1 DEF Store, PutBegin, Room
  <2>3. CASE cur \in InCache
    <3>1. at' = "run" /\ pc' = "idle"
      BY <1>0, <1>9, <2>1, <2>3 DEF Store, PutBegin, Goto, InCache, CallPlaces
    <3>2. Room' /\ InCache' = InCache /\ CallPlaces'
      BY <1>0, <2>2, <3>1, SameRoom DEF CallPlaces
    <3> QED  BY <1>0, <2>1, <3>1, <3>2
             DEF locals, ServingInv, ServingTypes, HitsFirst, LoadedServed, LoadOnce
  <2>4. CASE cur \notin InCache
    <3>1. at' = "put" /\ map[cur] = None
      BY <1>9, <2>1, <2>4 DEF Store, Goto, InCache
    <3>2. Size \in Nat /\ MaxSize \in Nat
      BY <1>0, SizeOf, ListAssumption DEF Room
    <3>3. pc' = "insert" /\ op'.key = cur
      BY <1>9, <2>2, <3>1, <3>2 DEF Store, PutBegin, Begin
    <3>4. Room' /\ InCache' = InCache /\ CallPlaces'
      BY <1>0, <2>1, <2>2, <3>1, <3>3, SameRoom DEF CallPlaces, PutPlaces, locals
    <3> QED  BY <1>0, <2>1, <3>1, <3>4
             DEF locals, ServingInv, ServingTypes, HitsFirst, LoadedServed, LoadOnce
  <2> QED  BY <2>3, <2>4
<1>10. CASE PutEnds
  <2>1. at = "put" /\ at' = "run" /\ Enter /\ UNCHANGED locals /\ cur \in Keys
    BY <1>0, <1>10 DEF PutEnds, Goto, HitsFirst, ServingTypes
  <2>2. pc' = "idle" /\ map' \in [Keys -> Nodes \cup {None}] /\ InCache' = InCache \cup {cur}
    BY <1>0, <1>m, <2>1, EnterCall
  <2>3. IsFiniteSet(InCache') /\ Size' <= MaxSize
    <3>1. IsFiniteSet(InCache) /\ Size \in Nat /\ Size = Cardinality(InCache) /\ Size < MaxSize
      BY <1>0, <2>1, SizeOf DEF Room
    <3>2. /\ IsFiniteSet(InCache \cup {cur})
          /\ Cardinality(InCache \cup {cur}) =
               IF cur \in InCache THEN Cardinality(InCache) ELSE Cardinality(InCache) + 1
      BY <3>1, FS_AddElement
    <3>3. Size' = Cardinality(InCache')
      BY DEF Size, InCache
    <3> QED  BY <2>2, <3>1, <3>2, <3>3, ListAssumption
  <2>4. Room' /\ CallPlaces'
    BY <2>1, <2>2, <2>3 DEF Room, CallPlaces
  <2> QED  BY <1>0, <2>1, <2>2, <2>4
           DEF locals, ServingInv, ServingTypes, HitsFirst, LoadedServed, LoadOnce
<1>11. CASE Run
  <2>1. at = "run" /\ at' = "loop" /\ UNCHANGED <<map, pc, batch, hits, cur, loads>> /\ todo' = todo \ {cur}
    BY <1>11 DEF Run, Goto, vars
  <2>2. Room' /\ InCache' = InCache /\ CallPlaces'
    BY <1>0, <2>1, SameRoom DEF CallPlaces
  <2> QED  BY <1>0, <2>1, <2>2
           DEF ServingInv, ServingTypes, HitsFirst, LoadedServed, LoadOnce
<1>12. CASE UserError
  BY <1>12, <1>0, LeaveServing DEF UserError, vars, CallPlaces
<1>13. CASE Timeout
  <2>1. Leave /\ UNCHANGED map /\ pc' = "idle"
    BY <1>13 DEF Timeout, Alarm, Return, vars, list
  <2> QED  BY <1>0, <2>1, LeaveServing
<1>14. CASE UNCHANGED mmVars
  <2>1. UNCHANGED <<map, at, pc, op, fresh, locals>>
    BY <1>14 DEF mmVars, vars
  <2>2. Room' /\ InCache' = InCache /\ CallPlaces'
    BY <1>0, <2>1, SameRoom DEF CallPlaces, Room, locals
  <2> QED  BY <1>0, <2>1, <2>2
           DEF locals, ServingInv, ServingTypes, HitsFirst, LoadedServed, LoadOnce
<1> QED
  BY <1>1, <1>2, <1>3, <1>4, <1>5, <1>6, <1>7, <1>8, <1>9, <1>10, <1>11, <1>12, <1>13, <1>14
  DEF ModelsNext

(* Whatever the batch, the size of the cache and the moment the timer      *)
(* fires, forward of MultiModelWorker loads a model at most once, and none *)
(* that was in the cache when the batch came.                              *)
THEOREM LoadsOnce == ModelsSpec => []LoadOnce
<1>1. ServingInv => LoadOnce
  BY DEF ServingInv
<1> QED  BY <1>1, InitServing, NextServing, PTL DEF ModelsSpec

-----------------------------------------------------------------------------
(* What forward has in hand: the groups that are not left have their       *)
(* results, and a model is in hand between evict and unload_model or       *)
(* between load_model and the end of put.                                  *)
ResultsOK(b, done, ms) ==
  /\ done \in [DOMAIN b -> Keys \cup {None}]
  /\ \A i \in DOMAIN b : b[i] \notin ms => done[i] = b[i]

HandOK ==
  /\ at = "run" => cur \in InCache
  /\ at = "unload" => gone \notin InCache
  /\ at \in {"store", "put"} => cur \in open

ModelInv ==
  /\ at # "idle" => ResultsOK(batch, results, todo)
  /\ HandOK
  /\ InCache \subseteq open
  /\ NoStrayModel

LEMMA InitModel == ModelsInit => ModelInv
<1> SUFFICES ASSUME ModelsInit PROVE ModelInv
  OBVIOUS
<1>1. at = "idle" /\ open = {} /\ InCache = {}
  BY DEF ModelsInit, Init, InCache
<1> QED  BY <1>1 DEF ModelInv, HandOK, NoStrayModel

(* What is in hand, place by place. *)
LEMMA HandPlaces ==
  /\ at \notin {"unload", "store", "put"} => InHand = {}
  /\ at = "unload" => InHand = {gone}
  /\ at \in {"store", "put"} => InHand = {cur}
  /\ at' \notin {"unload", "store", "put"} => InHand' = {}
  /\ at' = "unload" => InHand' = {gone'}
  /\ at' \in {"store", "put"} => InHand' = {cur'}
BY DEF InHand

LEMMA SameMap ==
  ASSUME UNCHANGED map PROVE InCache' = InCache
BY DEF InCache

(* Leaving forward loses what is in hand, and nothing else. *)
LEMMA LeaveModel ==
  ASSUME ModelInv, Leave, UNCHANGED <<map, open>>, lost' = lost \cup InHand
  PROVE  ModelInv'
<1>1. at' = "idle" /\ InHand' = {}
  BY HandPlaces DEF Leave, Goto
<1> QED  BY <1>1, SameMap DEF ModelInv, HandOK, NoStrayModel

LEMMA NextModel == ServingInv /\ ModelInv /\ [ModelsNext]_mmVars => ModelInv'
<1> SUFFICES ASSUME ServingInv, ModelInv, [ModelsNext]_mmVars PROVE ModelInv'
  OBVIOUS
<1>0. /\ CallPlaces /\ Room /\ ServingTypes /\ HitsFirst
      /\ map \in [Keys -> Nodes \cup {None}]
  BY DEF ServingInv, Room
<1>1. ASSUME NEW b \in Batches, Forward(b) PROVE ModelInv'
  <2>1. at = "idle" /\ at' = "loop" /\ batch' = b /\ todo' = Models(b)
        /\ results' = [i \in DOMAIN b |-> None] /\ UNCHANGED <<map, open, lost>>
    BY <1>1 DEF Forward, Goto, resources, vars
  <2>2. ResultsOK(batch', results', todo')
    BY <2>1 DEF ResultsOK, Models
  <2> QED  BY <2>1, <2>2, HandPlaces, SameMap DEF ModelInv, HandOK, NoStrayModel
<1>2. CASE Loop
  <2>0. at = "loop" /\ UNCHANGED <<map, open, lost>>
    BY <1>2 DEF Loop, vars, resources
  <2>1. CASE Leave
    BY <2>0, <2>1, HandPlaces, LeaveModel
  <2>2. CASE ~Leave
    <3>1. at' = "ensure" /\ UNCHANGED <<batch, todo, results>>
      BY <1>2, <2>2 DEF Loop, Goto
    <3> QED  BY <2>0, <3>1, HandPlaces, SameMap DEF ModelInv, HandOK, NoStrayModel
  <2> QED  BY <2>1, <2>2
<1>3. CASE EnsureHit
  <2>1. at = "ensure" /\ at' = "run" /\ map[cur] # None
        /\ UNCHANGED <<map, cur, batch, todo, results, open, lost>>
    BY <1>3 DEF EnsureHit, Get, Goto, locals, resources
  <2>2. cur \in InCache
    BY <1>0, <2>1 DEF HitsFirst, ServingTypes, InCache
  <2> QED  BY <2>1, <2>2, HandPlaces, SameMap DEF ModelInv, HandOK, NoStrayModel
<1>4. CASE EnsureMiss
  <2>1. at = "ensure" /\ UNCHANGED <<map, open, lost>>
    BY <1>4 DEF EnsureMiss, resources, vars, EvictBegin, list
  <2>2. CASE Leave
    BY <2>1, <2>2, HandPlaces, LeaveModel
  <2>3. CASE at' \in {"evict", "load"} /\ UNCHANGED locals
    BY <2>1, <2>3, HandPlaces, SameMap DEF ModelInv, HandOK, NoStrayModel, locals
  <2> QED  BY <1>4, <2>2, <2>3 DEF EnsureMiss, Goto
<1>5. CASE CacheRuns
  <2>1. UNCHANGED <<map, at, locals, resources>>
    BY <1>0, <1>5, RunsCall
  <2> QED  BY <2>1, HandPlaces, SameMap DEF ModelInv, HandOK, NoStrayModel, locals, resources
<1>6. CASE EvictEnds
  <2> DEFINE key == node[victim].key
  <2>1. at = "evict" /\ Forget /\ UNCHANGED <<open, lost>>
    BY <1>6 DEF EvictEnds, resources
  <2>2. InCache' = InCache \ {key}
    BY <1>0, <2>1, ForgetCall
  <2> HIDE DEF key
  <2>3. CASE key \in InCache /\ gone' = key /\ at' = "unload"
             /\ UNCHANGED <<batch, hits, todo, cur, results, loads>>
    BY <2>1, <2>2, <2>3, HandPlaces DEF ModelInv, HandOK, NoStrayModel
  <2>4. CASE key \notin InCache /\ Leave
    <3>1. InCache' = InCache /\ at' = "idle"
      BY <2>2, <2>4 DEF Leave, Goto
    <3> QED  BY <2>1, <3>1, HandPlaces DEF ModelInv, HandOK, NoStrayModel
  <2> QED  BY <1>6, <2>3, <2>4 DEF EvictEnds, Goto, key
<1>7. CASE Unload
  <2>1. at = "unload" /\ at' = "load" /\ open' = open \ {gone}
        /\ UNCHANGED <<map, batch, todo, cur, results, lost>>
    BY <1>7 DEF Unload, Goto, vars
  <2> QED  BY <2>1, HandPlaces, SameMap DEF ModelInv, HandOK, NoStrayModel
<1>8. CASE Load
  <2>1. at = "load" /\ at' = "store" /\ open' = open \cup {cur} /\ lost' = lost \ {cur}
        /\ UNCHANGED <<map, batch, todo, cur, results>>
    BY <1>8 DEF Load, Goto, vars
  <2> QED  BY <2>1, HandPlaces, SameMap DEF ModelInv, HandOK, NoStrayModel
<1>9. CASE Store
  <2>1. at = "store" /\ at' = (IF cur \in InCache THEN "run" ELSE "put")
        /\ UNCHANGED <<map, batch, todo, cur, results, open, lost>>
    BY <1>9 DEF Store, PutBegin, Goto, locals, resources
  <2> QED  BY <2>1, HandPlaces, SameMap DEF ModelInv, HandOK, NoStrayModel
<1>10. CASE PutEnds
  <2>1. at = "put" /\ at' = "run" /\ Enter /\ cur \in open /\ cur \in Keys
        /\ UNCHANGED <<batch, todo, cur, results, open, lost>>
    BY <1>0, <1>10 DEF PutEnds, Goto, locals, resources, ModelInv, HandOK, HitsFirst, ServingTypes
  <2>2. InCache' = InCache \cup {cur}
    BY <1>0, <2>1, EnterCall
  <2> QED  BY <2>1, <2>2, HandPlaces DEF ModelInv, HandOK, NoStrayModel
<1>11. CASE Run
  <2>1. at = "run" /\ at' = "loop" /\ todo' = todo \ {cur}
        /\ results' = [i \in DOMAIN batch |-> IF batch[i] = cur THEN cur ELSE results[i]]
        /\ UNCHANGED <<map, batch, open, lost>>
    BY <1>11 DEF Run, Goto, resources, vars
  <2>2. cur \in Keys
    BY <1>0, <2>1 DEF HitsFirst, ServingTypes
  <2>3. ResultsOK(batch, results, todo)
    BY <2>1 DEF ModelInv
  <2>4. ResultsOK(batch, results', todo')
    BY <2>1, <2>2, <2>3 DEF ResultsOK
  <2> QED  BY <2>1, <2>4, HandPlaces, SameMap DEF ModelInv, HandOK, NoStrayModel
<1>12. CASE UserError \/ Timeout
  <2>1. Leave /\ lost' = lost \cup InHand /\ UNCHANGED <<map, open>>
    BY <1>12 DEF UserError, Timeout, Alarm, vars, list
  <2> QED  BY <2>1, LeaveModel
<1>13. CASE UNCHANGED mmVars
  BY <1>13, HandPlaces, SameMap
  DEF mmVars, vars, locals, resources, ModelInv, HandOK, NoStrayModel
<1> QED
  BY <1>1, <1>2, <1>3, <1>4, <1>5, <1>6, <1>7, <1>8, <1>9, <1>10, <1>11, <1>12, <1>13
  DEF ModelsNext

(* The full invariant of the models in hand. *)
LEMMA ModelInvariant == ModelsSpec => [](ServingInv /\ ModelInv)
<1>1. ModelsInit => ServingInv /\ ModelInv
  BY InitServing, InitModel
<1>2. ServingInv /\ ModelInv /\ [ModelsNext]_mmVars => (ServingInv /\ ModelInv)'
  BY NextServing, NextModel
<1> QED  BY <1>1, <1>2, PTL DEF ModelsSpec

(* Whatever fails, and wherever the timer cuts forward, evict or put off,  *)
(* forward of MultiModelWorker runs a group on a model that is in the      *)
(* cache and loaded, and when it returns every item has the result of the  *)
(* model it asked for.                                                     *)
THEOREM ServedWhileLoadedHolds == ModelsSpec => []ServedWhileLoaded
<1>1. ServingInv /\ ModelInv => ServedWhileLoaded
  <2> SUFFICES ASSUME ServingInv, ModelInv PROVE ServedWhileLoaded
    OBVIOUS
  <2>1. ASSUME at = "loop", todo = {} PROVE results = batch
    <3>1. batch \in Batches /\ ResultsOK(batch, results, {})
      BY <2>1 DEF ServingInv, ServingTypes, ModelInv
    <3>2. PICK n \in 1 .. MaxBatch : batch \in [1 .. n -> Keys]
      BY <3>1 DEF Batches
    <3>3. results \in [1 .. n -> Keys \cup {None}] /\ \A i \in 1 .. n : results[i] = batch[i]
      BY <3>1, <3>2 DEF ResultsOK
    <3> QED  BY <3>2, <3>3
  <2> QED  BY <2>1 DEF ModelInv, HandOK, ServedWhileLoaded
<1> QED  BY <1>1, ModelInvariant, PTL

(* A model that load_model returned is in the cache, or unloaded again, or *)
(* was lost to an exception or the timer between two of those statements:  *)
(* eviction and insertion leave none behind.                               *)
THEOREM NoStrayModelHolds == ModelsSpec => []NoStrayModel
<1>1. ModelInv => NoStrayModel
  BY DEF ModelInv
<1> QED  BY <1>1, ModelInvariant, PTL
=============================================================================
