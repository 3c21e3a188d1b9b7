----------------------------- MODULE ListProofs -----------------------------
(***************************************************************************)
(* Proofs about the linked list of SieveCache (mosec/cache.py): between    *)
(* operations the map, the list and the hand agree, the loop of _evict     *)
(* ends, and every operation has the effect of one step of SieveCache.     *)
(*                                                                         *)
(* The nodes of the list, from the head, are a sequence s; the operators   *)
(* below say of s and of the parts of a state, which are parameters so     *)
(* that one lemma speaks of a state and of the next.                       *)
(***************************************************************************)
EXTENDS SieveList, FiniteSetTheorems, NaturalsInduction, WellFoundedInduction,
        TLAPS

(* Nodes in a row, none twice. *)
Chains == {s \in Seq(Nodes) : \A i, j \in 1 .. Len(s) : s[i] = s[j] => i = j}

Elements(s) == {s[i] : i \in 1 .. Len(s)}

At(s, i) == IF i \in 1 .. Len(s) THEN s[i] ELSE None

(* The links of the nodes of s. *)
Nexts(s, nd) == \A i \in 1 .. Len(s) : nd[s[i]].next = At(s, i + 1)

Prevs(s, nd) == \A i \in 1 .. Len(s) : nd[s[i]].prev = At(s, i - 1)

(* The map m has the nodes of s, each under its key. *)
Entries(s, nd, m) ==
  /\ \A i \in 1 .. Len(s) :
       /\ nd[s[i]].key \in Keys
       /\ nd[s[i]].value \in Values
       /\ m[nd[s[i]].key] = s[i]
  /\ \A k \in Keys : m[k] # None =>
       \E i \in 1 .. Len(s) : s[i] = m[k] /\ nd[s[i]].key = k

(* What keys() and items() return. *)
Order(s, nd) == [i \in 1 .. Len(s) |-> nd[s[i]].key]

Stored(nd, m) ==
  [k \in Keys |-> IF m[k] = None THEN None ELSE nd[m[k]].value]

Bits(s, nd) == {nd[n].key : n \in {m \in Elements(s) : nd[m].visited}}

KeyOf(nd, h) == IF h = None THEN None ELSE nd[h].key

View(s, nd, h, m) ==
  [order |-> Order(s, nd), visited |-> Bits(s, nd), hand |-> KeyOf(nd, h),
   value |-> Stored(nd, m)]

Cut(s, p) == Abstract!Without(s, p)

Drop(m, k) == [m EXCEPT ![k] = None]

-----------------------------------------------------------------------------
(* Induction over the natural numbers, for a set. *)
LEMMA SetInduction ==
  ASSUME NEW S, 0 \in S, \A n \in Nat : n \in S => n + 1 \in S
  PROVE  Nat \subseteq S
<1> DEFINE out == {n \in Nat : n \notin S}
<1>1. SUFFICES ASSUME out # {} PROVE FALSE
  OBVIOUS
<1>2. PICK m \in out : \A n \in out : ~(<<n, m>> \in OpToRel(<, Nat))
  <2>1. out \in SUBSET Nat
    OBVIOUS
  <2> HIDE DEF out
  <2> QED  BY <1>1, <2>1, NatLessThanWellFounded, WFMin
<1>3. m \in Nat /\ m # 0 /\ m \notin S
  OBVIOUS
<1>4. m - 1 \in Nat /\ (m - 1) + 1 = m
  BY <1>3
<1>5. m - 1 \notin out
  <2>1. m - 1 < m
    BY <1>3
  <2> QED  BY <1>2, <1>3, <1>4, <2>1, Zenon DEF OpToRel
<1>6. m - 1 \in S
  BY <1>4, <1>5
<1> QED  BY <1>3, <1>4, <1>6

(* A chain is no longer than there are nodes. *)
LEMMA ChainLength ==
  ASSUME NEW s \in Chains
  PROVE  /\ Cardinality(Nodes) \in Nat
         /\ Len(s) \in Nat
         /\ Len(s) <= Cardinality(Nodes)
<1>1. s \in Injection(1 .. Len(s), Nodes) /\ Len(s) \in Nat
  <2>1. s \in [1 .. Len(s) -> Nodes] /\ Len(s) \in Nat
    BY DEF Chains
  <2>2. IsInjective(s)
    BY <2>1 DEF Chains, IsInjective
  <2> QED  BY <2>1, <2>2 DEF Injection
<1>2. ExistsInjection(1 .. Len(s), Nodes)
  BY <1>1 DEF ExistsInjection
<1>3. IsFiniteSet(1 .. Len(s)) /\ Cardinality(1 .. Len(s)) = Len(s)
  BY <1>1, FS_Interval
<1>4. IsFiniteSet(Nodes) /\ Cardinality(Nodes) \in Nat
  BY ListAssumption, FS_CardinalityType
<1> QED  BY <1>1, <1>2, <1>3, <1>4, FS_Injection

-----------------------------------------------------------------------------
(* Walk from the head h. *)
WalkOf(h, nd) ==
  LET w[i \in 0 .. Cardinality(Nodes)] ==
        IF i = 0 THEN h
        ELSE IF w[i - 1] = None THEN None ELSE nd[w[i - 1]].next
  IN w

(* The walk from the head meets the nodes of the chain in its order. *)
LEMMA WalkIs ==
  ASSUME NEW s \in Chains, NEW nd, Nexts(s, nd)
  PROVE  WalkOf(At(s, 1), nd) = [i \in 0 .. Cardinality(Nodes) |-> At(s, i + 1)]
<1> DEFINE N == Cardinality(Nodes)
           h == At(s, 1)
           Go(w, i) == IF i = 0 THEN h
                       ELSE IF w[i - 1] = None THEN None ELSE nd[w[i - 1]].next
           w0 == [i \in 0 .. N |-> At(s, i + 1)]
           w1 == CHOOSE w : w = [i \in 0 .. N |-> Go(w, i)]
<1>0. N \in Nat /\ Len(s) \in Nat /\ \A i \in 1 .. Len(s) : s[i] # None
  BY ChainLength, ListAssumption DEF Chains
<1>1. \A i \in 0 .. N : w0[i] = Go(w0, i)
  <2> SUFFICES ASSUME NEW i \in 0 .. N PROVE w0[i] = Go(w0, i)
    OBVIOUS
  <2>1. CASE i = 0
    BY <1>0, <2>1
  <2>2. CASE i # 0
    <3>1. i - 1 \in 0 .. N /\ (i - 1) + 1 = i /\ w0[i - 1] = At(s, i)
      BY <1>0, <2>2
    <3>2. CASE i \in 1 .. Len(s)
      <4>1. At(s, i) = s[i] /\ s[i] # None /\ nd[s[i]].next = At(s, i + 1)
        BY <1>0, <3>2 DEF Nexts, At
      <4> QED  BY <4>1, <3>1, <2>2
    <3>3. CASE i \notin 1 .. Len(s)
      <4>1. At(s, i) = None /\ At(s, i + 1) = None
        BY <1>0, <3>3, <2>2 DEF At
      <4> QED  BY <4>1, <3>1, <2>2
    <3> QED  BY <3>2, <3>3
  <2> QED  BY <2>1, <2>2
<1>2. w1 = [i \in 0 .. N |-> Go(w1, i)]
  <2>1. w0 = [i \in 0 .. N |-> Go(w0, i)]
    BY <1>1
  <2> HIDE DEF w0, Go
  <2> QED  BY <2>1
<1>3. WalkOf(h, nd) = w1
  BY DEF WalkOf
<1> DEFINE S == {i \in Nat : i <= N => w1[i] = w0[i]}
<1> HIDE DEF w1, h
<1>4. 0 \in S
  <2>1. 0 \in 0 .. N
    BY <1>0
  <2>2. w1[0] = h /\ w0[0] = h
    BY <2>1, <1>2 DEF h
  <2> QED  BY <2>2
<1>5. ASSUME NEW i \in Nat, i \in S PROVE i + 1 \in S
  <2>1. SUFFICES ASSUME i + 1 <= N PROVE w1[i + 1] = w0[i + 1]
    OBVIOUS
  <2>2. i + 1 \in 0 .. N /\ (i + 1) - 1 = i /\ i + 1 # 0 /\ w1[i] = w0[i]
    BY <2>1, <1>0, <1>5
  <2>3. w1[i + 1] = Go(w1, i + 1)
    BY <2>2, <1>2
  <2>4. w0[i + 1] = Go(w0, i + 1)
    BY <2>2, <1>1
  <2> HIDE DEF w0
  <2> QED  BY <2>2, <2>3, <2>4
<1>6. Nat \subseteq S
  <2> HIDE DEF S
  <2> QED  BY <1>4, <1>5, SetInduction
<1>7. \A i \in 0 .. N : w1[i] = w0[i]
  <2> HIDE DEF w0
  <2> QED  BY <1>0, <1>6
<1>8. w1 = w0
  <2> HIDE DEF Go
  <2>1. w1 = [i \in 0 .. N |-> w1[i]]
    BY <1>2
  <2> QED  BY <2>1, <1>7
<1> QED  BY <1>3, <1>8 DEF h

(* How long the walk is, and what it meets. *)
LEMMA WalkFacts ==
  ASSUME NEW s \in Chains, NEW nd, Nexts(s, nd)
  PROVE  LET w == WalkOf(At(s, 1), nd)
         IN /\ Cardinality({i \in 0 .. Cardinality(Nodes) : w[i] # None}) = Len(s)
            /\ {w[i] : i \in 0 .. Cardinality(Nodes)} \ {None} = Elements(s)
            /\ \A i \in 1 .. Len(s) : w[i - 1] = s[i]
<1> DEFINE N == Cardinality(Nodes)
           w == WalkOf(At(s, 1), nd)
<1>1. w = [i \in 0 .. N |-> At(s, i + 1)]
  BY WalkIs
<1>2. N \in Nat /\ Len(s) \in Nat /\ Len(s) <= N
      /\ \A i \in 1 .. Len(s) : s[i] # None
  BY ChainLength, ListAssumption DEF Chains
<1> HIDE DEF w
<1>3. ASSUME NEW i \in 1 .. Len(s) PROVE i - 1 \in 0 .. N /\ w[i - 1] = s[i]
  <2>1. i - 1 \in 0 .. N /\ (i - 1) + 1 = i
    BY <1>2
  <2> QED  BY <2>1, <1>1 DEF At
<1>4. {i \in 0 .. N : w[i] # None} = 0 .. (Len(s) - 1)
  <2>1. ASSUME NEW i \in 0 .. N PROVE w[i] # None <=> i <= Len(s) - 1
    <3>1. w[i] = At(s, i + 1)
      BY <1>1
    <3>2. i + 1 \in 1 .. Len(s) <=> i <= Len(s) - 1
      BY <1>2
    <3> QED  BY <3>1, <3>2, <1>2 DEF At
  <2>2. \A i \in 0 .. N : i \in 0 .. (Len(s) - 1) <=> i <= Len(s) - 1
    BY <1>2
  <2>3. 0 .. (Len(s) - 1) \subseteq 0 .. N
    BY <1>2
  <2> QED  BY <2>1, <2>2, <2>3
<1>5. Cardinality(0 .. (Len(s) - 1)) = Len(s)
  <2>1. CASE Len(s) = 0
    <3>1. 0 .. (Len(s) - 1) = {}
      BY <2>1
    <3> QED  BY <3>1, <2>1, FS_EmptySet
  <2>2. CASE Len(s) > 0
    <3>1. 0 \in Int /\ Len(s) - 1 \in Int /\ 0 <= Len(s) - 1
      BY <2>2, <1>2
    <3>2. Cardinality(0 .. (Len(s) - 1)) = (Len(s) - 1) - 0 + 1
      BY <3>1, FS_Interval
    <3> QED  BY <3>2, <1>2
  <2> QED  BY <2>1, <2>2, <1>2
<1>6. {w[i] : i \in 0 .. N} \ {None} = Elements(s)
  <2>1. ASSUME NEW x \in Elements(s) PROVE x \in {w[i] : i \in 0 .. N} \ {None}
    <3>1. PICK i \in 1 .. Len(s) : x = s[i]
      BY <2>1 DEF Elements
    <3>2. i - 1 \in 0 .. N /\ w[i - 1] = x /\ x # None
      BY <3>1, <1>3, <1>2
    <3> QED  BY <3>2
  <2>2. ASSUME NEW i \in 0 .. N, w[i] # None PROVE w[i] \in Elements(s)
    <3>1. w[i] = At(s, i + 1)
      BY <1>1
    <3>2. i + 1 \in 1 .. Len(s) /\ w[i] = s[i + 1]
      BY <3>1, <2>2 DEF At
    <3> QED  BY <3>2 DEF Elements
  <2> QED  BY <2>1, <2>2
<1> QED  BY <1>3, <1>4, <1>5, <1>6 DEF w

(* What keys() and items() see of a whole list, now and after a step. *)
LEMMA ContentsNow ==
  ASSUME NEW s \in Chains, head = At(s, 1), Nexts(s, node)
  PROVE  /\ Contents = View(s, node, hand, map)
         /\ Length = Len(s) /\ Linked = Elements(s)
<1>1. Walk = WalkOf(At(s, 1), node)
  BY DEF Walk, WalkOf
<1> DEFINE w == WalkOf(At(s, 1), node)
<1>a. /\ Cardinality({i \in 0 .. Cardinality(Nodes) : w[i] # None}) = Len(s)
      /\ {w[i] : i \in 0 .. Cardinality(Nodes)} \ {None} = Elements(s)
      /\ \A i \in 1 .. Len(s) : w[i - 1] = s[i]
  BY WalkFacts
<1> HIDE DEF w
<1>2. Length = Len(s) /\ Linked = Elements(s)
      /\ \A i \in 1 .. Len(s) : Walk[i - 1] = s[i]
  <2>1. Walk = w
    BY <1>1 DEF w
  <2> QED  BY <1>a, <2>1 DEF Length, Linked
<1>3. [i \in 1 .. Length |-> node[Walk[i - 1]].key] = Order(s, node)
  BY <1>2 DEF Order
<1> QED  BY <1>2, <1>3 DEF Contents, View, Bits, KeyOf, Stored

LEMMA ContentsNext ==
  ASSUME NEW s \in Chains, head' = At(s, 1), Nexts(s, node')
  PROVE  /\ Contents' = View(s, node', hand', map')
         /\ Length' = Len(s) /\ Linked' = Elements(s)
<1>1. Walk' = WalkOf(At(s, 1), node')
  BY DEF Walk, WalkOf
<1> DEFINE w == WalkOf(At(s, 1), node')
<1>a. /\ Cardinality({i \in 0 .. Cardinality(Nodes) : w[i] # None}) = Len(s)
      /\ {w[i] : i \in 0 .. Cardinality(Nodes)} \ {None} = Elements(s)
      /\ \A i \in 1 .. Len(s) : w[i - 1] = s[i]
  BY WalkFacts
<1> HIDE DEF w
<1>2. Length' = Len(s) /\ Linked' = Elements(s)
      /\ \A i \in 1 .. Len(s) : Walk'[i - 1] = s[i]
  <2>1. Walk' = w
    BY <1>1 DEF w
  <2> QED  BY <1>a, <2>1 DEF Length, Linked
<1>3. [i \in 1 .. Length' |-> node'[Walk'[i - 1]].key] = Order(s, node')
  BY <1>2 DEF Order
<1> QED  BY <1>2, <1>3 DEF Contents, View, Bits, KeyOf, Stored

(* The map is as large as the list. *)
LEMMA SizeIs ==
  ASSUME NEW s \in Chains, Entries(s, node, map)
  PROVE  Size = Len(s)
<1> DEFINE K == {k \in Keys : map[k] # None}
           f == [i \in 1 .. Len(s) |-> node[s[i]].key]
<1>1. Len(s) \in Nat /\ \A i \in 1 .. Len(s) : s[i] # None
  BY ChainLength, ListAssumption DEF Chains
<1>2. \A i \in 1 .. Len(s) : f[i] \in K /\ map[f[i]] = s[i]
  BY <1>1 DEF Entries
<1>3. \A k \in K : \E i \in 1 .. Len(s) : f[i] = k
  BY DEF Entries
<1>4. \A i, j \in 1 .. Len(s) : f[i] = f[j] => i = j
  BY <1>2 DEF Chains
<1>5. f \in Bijection(1 .. Len(s), K)
  <2> DEFINE D == 1 .. Len(s)
  <2>1. f \in [D -> K] /\ DOMAIN f = D
    BY <1>2
  <2>2. IsInjective(f)
    BY <2>1, <1>4 DEF IsInjective
  <2>3. f \in Surjection(D, K)
    BY <2>1, <1>3 DEF Surjection
  <2> HIDE DEF f, K
  <2> QED  BY <2>1, <2>2, <2>3 DEF Bijection, Injection
<1>6. IsFiniteSet(1 .. Len(s)) /\ Cardinality(1 .. Len(s)) = Len(s)
  BY <1>1, FS_Interval
<1> HIDE DEF f, K
<1>7. Cardinality(K) = Cardinality(1 .. Len(s))
  BY <1>5, <1>6, FS_Bijection DEF ExistsBijection
<1> QED  BY <1>6, <1>7 DEF Size, K

-----------------------------------------------------------------------------
(***************************************************************************)
(* The effect of an operation on the list is that of SieveCache.           *)
(***************************************************************************)

(* The keys of c are each at one position. *)
LEMMA PositionIs ==
  ASSUME NEW c, \A i, j \in 1 .. Len(c.order) : c.order[i] = c.order[j] => i = j,
         NEW p \in 1 .. Len(c.order)
  PROVE  Abstract!Position(c, c.order[p]) = p
BY DEF Abstract!Position

(* The nodes of a list have different keys. *)
LEMMA OrderIs ==
  ASSUME NEW s \in Chains, NEW nd, NEW m, Entries(s, nd, m)
  PROVE  /\ Len(s) \in Nat /\ Order(s, nd) \in Seq(Keys)
         /\ Len(Order(s, nd)) = Len(s)
         /\ \A i \in 1 .. Len(s) : Order(s, nd)[i] = nd[s[i]].key
         /\ \A i, j \in 1 .. Len(s) : nd[s[i]].key = nd[s[j]].key => i = j
<1>1. Len(s) \in Nat /\ \A i \in 1 .. Len(s) : nd[s[i]].key \in Keys
  BY DEF Chains, Entries
<1>2. Order(s, nd) \in Seq(Keys) /\ Len(Order(s, nd)) = Len(s)
      /\ \A i \in 1 .. Len(s) : Order(s, nd)[i] = nd[s[i]].key
  BY <1>1 DEF Order
<1>3. \A i, j \in 1 .. Len(s) : nd[s[i]].key = nd[s[j]].key => i = j
  BY DEF Entries, Chains
<1> QED  BY <1>1, <1>2, <1>3

(* The keys of the list are those of the map. *)
LEMMA CachedIs ==
  ASSUME NEW s \in Chains, NEW nd, NEW m, Entries(s, nd, m), NEW c,
         c.order = Order(s, nd)
  PROVE  /\ Abstract!Cached(c) = {nd[s[i]].key : i \in 1 .. Len(s)}
         /\ \A k \in Keys : k \in Abstract!Cached(c) <=> m[k] # None
         /\ Abstract!Cached(c) \subseteq Keys
<1>1. Abstract!Cached(c) = {nd[s[i]].key : i \in 1 .. Len(s)}
  BY OrderIs DEF Abstract!Cached
<1>2. \A i \in 1 .. Len(s) : s[i] # None
  BY ListAssumption DEF Chains
<1>3. \A k \in Keys : k \in Abstract!Cached(c) <=> m[k] # None
  BY <1>1, <1>2 DEF Entries
<1>4. Abstract!Cached(c) \subseteq Keys
  BY <1>1 DEF Entries
<1> QED  BY <1>1, <1>3, <1>4

(* The list without its node at position p. *)
LEMMA CutIs ==
  ASSUME NEW s \in Chains, NEW p \in 1 .. Len(s)
  PROVE  /\ Cut(s, p) \in Chains /\ Len(Cut(s, p)) = Len(s) - 1
         /\ \A i \in 1 .. Len(s) - 1 :
              Cut(s, p)[i] = IF i < p THEN s[i] ELSE s[i + 1]
         /\ Elements(Cut(s, p)) = Elements(s) \ {s[p]}
<1> DEFINE u == Cut(s, p)
<1>1. s \in Seq(Nodes) /\ Len(s) \in Nat /\ p \in Nat
      /\ \A i, j \in 1 .. Len(s) : s[i] = s[j] => i = j
  BY DEF Chains
<1>2. \A i \in 1 .. Len(s) - 1 : (IF i < p THEN s[i] ELSE s[i + 1]) \in Nodes
  BY <1>1
<1>3. u \in Seq(Nodes) /\ Len(u) = Len(s) - 1
      /\ \A i \in 1 .. Len(s) - 1 : u[i] = IF i < p THEN s[i] ELSE s[i + 1]
  BY <1>1, <1>2 DEF Cut, Abstract!Without
<1> HIDE DEF u
<1> DEFINE at(i) == IF i < p THEN i ELSE i + 1
<1>4. \A i \in 1 .. Len(s) - 1 :
        u[i] = s[at(i)] /\ at(i) \in 1 .. Len(s) /\ at(i) # p
  BY <1>1, <1>3
<1>5. \A i, j \in 1 .. Len(s) - 1 : at(i) = at(j) => i = j
  BY <1>1
<1>6. \A j \in 1 .. Len(s) : j # p => \E i \in 1 .. Len(s) - 1 : at(i) = j
  <2> SUFFICES ASSUME NEW j \in 1 .. Len(s), j # p
               PROVE  \E i \in 1 .. Len(s) - 1 : at(i) = j
    OBVIOUS
  <2>1. CASE j < p
    <3>1. j \in 1 .. Len(s) - 1 /\ at(j) = j
      BY <2>1, <1>1
    <3> QED  BY <3>1
  <2>2. CASE ~(j < p)
    <3>1. j - 1 \in 1 .. Len(s) - 1 /\ at(j - 1) = j
      BY <2>2, <1>1
    <3> QED  BY <3>1
  <2> QED  BY <2>1, <2>2
<1> HIDE DEF at
<1>7. u \in Chains
  <2>1. \A i, j \in 1 .. Len(u) : u[i] = u[j] => i = j
    BY <1>1, <1>3, <1>4, <1>5
  <2> QED  BY <1>3, <2>1 DEF Chains
<1>8. Elements(u) = Elements(s) \ {s[p]}
  <2>1. Elements(u) = {u[i] : i \in 1 .. Len(s) - 1}
    BY <1>3 DEF Elements
  <2>2. ASSUME NEW i \in 1 .. Len(s) - 1 PROVE u[i] \in Elements(s) \ {s[p]}
    BY <1>1, <1>4 DEF Elements
  <2>3. ASSUME NEW j \in 1 .. Len(s), s[j] # s[p] PROVE s[j] \in {u[i] : i \in 1 .. Len(s) - 1}
    BY <2>3, <1>4, <1>6
  <2> QED  BY <2>1, <2>2, <2>3 DEF Elements
<1> QED  BY <1>3, <1>7, <1>8 DEF u

(* The keys tell the nodes of a list apart. *)
LEMMA ElementsIs ==
  ASSUME NEW s \in Chains, NEW nd, NEW m, Entries(s, nd, m)
  PROVE  /\ Elements(s) \subseteq Nodes /\ None \notin Elements(s)
         /\ \A n \in Elements(s) :
              /\ nd[n].key \in Keys /\ nd[n].value \in Values
              /\ m[nd[n].key] = n
         /\ \A k \in Keys : m[k] # None => m[k] \in Elements(s) /\ nd[m[k]].key = k
<1>1. \A i \in 1 .. Len(s) : s[i] \in Nodes /\ s[i] # None
  BY ListAssumption DEF Chains
<1> QED  BY <1>1 DEF Entries, Elements

(* Unlink takes the node out of the list and of the map. *)
LEMMA CutView ==
  ASSUME NEW s \in Chains, NEW p \in 1 .. Len(s), NEW nd,
         NEW m \in [Keys -> Nodes \cup {None}], Entries(s, nd, m),
         NEW h \in Elements(s) \cup {None}
  PROVE  LET k == nd[s[p]].key
             rest == Drop(m, k)
         IN /\ Entries(Cut(s, p), nd, rest)
            /\ Abstract!Unlink(View(s, nd, h, m), k)
                 = View(Cut(s, p), nd, IF h = s[p] THEN At(s, p - 1) ELSE h, rest)
<1> DEFINE k == nd[s[p]].key
           rest == Drop(m, k)
           u == Cut(s, p)
           c == View(s, nd, h, m)
           g == IF h = s[p] THEN At(s, p - 1) ELSE h
<1>1. /\ Len(s) \in Nat /\ Len(Order(s, nd)) = Len(s)
      /\ \A i \in 1 .. Len(s) : Order(s, nd)[i] = nd[s[i]].key
      /\ \A i, j \in 1 .. Len(s) : nd[s[i]].key = nd[s[j]].key => i = j
  BY OrderIs
<1>2. /\ u \in Chains /\ Len(u) = Len(s) - 1
      /\ \A i \in 1 .. Len(s) - 1 : u[i] = IF i < p THEN s[i] ELSE s[i + 1]
      /\ Elements(u) = Elements(s) \ {s[p]}
  BY CutIs
<1>3. /\ Elements(s) \subseteq Nodes /\ None \notin Elements(s)
      /\ \A n \in Elements(s) :
           /\ nd[n].key \in Keys /\ nd[n].value \in Values
           /\ m[nd[n].key] = n
      /\ \A j \in Keys : m[j] # None => m[j] \in Elements(s) /\ nd[m[j]].key = j
  BY ElementsIs
<1>4. s[p] \in Elements(s) /\ k \in Keys /\ m[k] = s[p]
  BY <1>3 DEF Elements
<1>5. c.order = Order(s, nd) /\ c.visited = Bits(s, nd) /\ c.hand = KeyOf(nd, h)
      /\ c.value = Stored(nd, m)
  BY DEF View
<1> HIDE DEF u, c
<1>6. Abstract!Position(c, k) = p
  <2>1. c.order[p] = k /\ \A i, j \in 1 .. Len(c.order) : c.order[i] = c.order[j] => i = j
    BY <1>1, <1>5
  <2> QED  BY <2>1, <1>1, <1>5, PositionIs
<1>7. Abstract!Without(c.order, p) = Order(u, nd)
  <2>1. Abstract!Without(c.order, p)
          = [i \in 1 .. Len(s) - 1 |-> IF i < p THEN nd[s[i]].key ELSE nd[s[i + 1]].key]
    <3>1. \A i \in 1 .. Len(s) - 1 : i \in 1 .. Len(s) /\ i + 1 \in 1 .. Len(s)
      BY <1>1
    <3> QED  BY <3>1, <1>1, <1>5 DEF Abstract!Without
  <2>2. Order(u, nd) = [i \in 1 .. Len(s) - 1 |-> nd[u[i]].key]
    BY <1>2 DEF Order
  <2> QED  BY <2>1, <2>2, <1>2
<1>8. Bits(s, nd) \ {k} = Bits(u, nd)
  <2>1. \A n \in Elements(s) : nd[n].key = k <=> n = s[p]
    BY <1>3, <1>4
  <2> QED  BY <2>1, <1>2 DEF Bits
<1>9. (IF c.hand # k THEN c.hand ELSE IF p = 1 THEN None ELSE c.order[p - 1])
        = KeyOf(nd, g)
  <2>1. CASE h = None
    <3>1. h # s[p] /\ c.hand = None /\ None # k
      BY <2>1, <1>3, <1>4, <1>5, ListAssumption DEF KeyOf
    <3> QED  BY <2>1, <3>1 DEF KeyOf
  <2>2. CASE h # None /\ h # s[p]
    <3>1. c.hand = nd[h].key /\ nd[h].key # k
      BY <2>2, <1>3, <1>4, <1>5 DEF KeyOf
    <3> QED  BY <2>2, <3>1 DEF KeyOf
  <2>3. CASE h = s[p]
    <3>1. c.hand = k
      BY <2>3, <1>3, <1>4, <1>5 DEF KeyOf
    <3>2. CASE p = 1
      <4>1. g = None
        BY <2>3, <3>2, <1>1 DEF At
      <4> QED  BY <3>1, <3>2, <4>1 DEF KeyOf
    <3>3. CASE p # 1
      <4>1. p - 1 \in 1 .. Len(s)
        BY <3>3, <1>1
      <4>2. g = s[p - 1] /\ g # None
        BY <4>1, <2>3, <1>3 DEF At, Elements
      <4>3. c.order[p - 1] = nd[g].key
        BY <4>1, <4>2, <1>1, <1>5
      <4> QED  BY <3>1, <3>3, <4>2, <4>3 DEF KeyOf
    <3> QED  BY <3>2, <3>3
  <2> QED  BY <2>1, <2>2, <2>3
<1>10. [c.value EXCEPT ![k] = None] = Stored(nd, rest)
  BY <1>4, <1>5 DEF Stored, Drop
<1>11. Abstract!Unlink(c, k) = View(u, nd, g, rest)
  <2> HIDE DEF g, rest, k
  <2> QED  BY <1>5, <1>6, <1>7, <1>8, <1>9, <1>10 DEF Abstract!Unlink, View
<1>12. Entries(u, nd, rest)
  <2>1. ASSUME NEW n \in Elements(u)
        PROVE  nd[n].key \in Keys /\ nd[n].value \in Values /\ rest[nd[n].key] = n
    BY <1>2, <1>3, <1>4 DEF Drop
  <2>2. ASSUME NEW j \in Keys, rest[j] # None
        PROVE  rest[j] \in Elements(u) /\ nd[rest[j]].key = j
    BY <2>2, <1>2, <1>3, <1>4 DEF Drop
  <2> HIDE DEF rest
  <2>3. \A i \in 1 .. Len(u) : u[i] \in Elements(u)
    BY DEF Elements
  <2>4. ASSUME NEW j \in Keys, rest[j] # None
        PROVE  \E i \in 1 .. Len(u) : u[i] = rest[j] /\ nd[u[i]].key = j
    BY <2>2, <2>4 DEF Elements
  <2> QED  BY <2>1, <2>3, <2>4 DEF Entries
<1> QED  BY <1>11, <1>12 DEF u, c

(* A step that changes links alone changes nothing a caller sees. *)
SameData(nd, new) ==
  \A n \in Nodes : /\ new[n].key = nd[n].key
                   /\ new[n].value = nd[n].value
                   /\ new[n].visited = nd[n].visited

LEMMA SameView ==
  ASSUME NEW s \in Chains, NEW nd, NEW new, SameData(nd, new),
         NEW m \in [Keys -> Nodes \cup {None}], NEW h \in Nodes \cup {None}
  PROVE  /\ View(s, new, h, m) = View(s, nd, h, m)
         /\ Entries(s, nd, m) => Entries(s, new, m)
<1>1. (\A i \in 1 .. Len(s) : s[i] \in Nodes) /\ Elements(s) \subseteq Nodes
  BY DEF Chains, Elements
<1>2. Order(s, new) = Order(s, nd)
  BY <1>1 DEF Order, SameData
<1>3. Bits(s, new) = Bits(s, nd)
  BY <1>1 DEF Bits, SameData
<1>4. KeyOf(new, h) = KeyOf(nd, h)
  BY DEF KeyOf, SameData
<1>5. Stored(new, m) = Stored(nd, m)
  BY DEF Stored, SameData
<1>6. Entries(s, nd, m) => Entries(s, new, m)
  BY <1>1 DEF Entries, SameData
<1> QED  BY <1>2, <1>3, <1>4, <1>5, <1>6 DEF View

(* Views that differ in one or two parts. *)
LEMMA ViewVisited ==
  ASSUME NEW o, NEW b, NEW x, NEW v, NEW c, NEW y,
         c = [order |-> o, visited |-> b, hand |-> x, value |-> v]
  PROVE  [c EXCEPT !.visited = y]
           = [order |-> o, visited |-> y, hand |-> x, value |-> v]
<1>1. c \in [order : {o}, visited : {b, y}, hand : {x}, value : {v}]
      /\ c.order = o /\ c.visited = b /\ c.hand = x /\ c.value = v
  OBVIOUS
<1> QED  BY ONLY <1>1

LEMMA ViewValue ==
  ASSUME NEW o, NEW b, NEW x, NEW v, NEW c, NEW k, NEW y,
         c = [order |-> o, visited |-> b, hand |-> x, value |-> v]
  PROVE  [c EXCEPT !.value[k] = y]
           = [order |-> o, visited |-> b, hand |-> x, value |-> [v EXCEPT ![k] = y]]
<1> DEFINE w == [v EXCEPT ![k] = y]
<1>1. c \in [order : {o}, visited : {b}, hand : {x}, value : {v, w}]
      /\ c.order = o /\ c.visited = b /\ c.hand = x /\ c.value = v
  OBVIOUS
<1>2. [c EXCEPT !.value[k] = y] = [c EXCEPT !.value = w]
  BY <1>1
<1> HIDE DEF w
<1>3. [c EXCEPT !.value = w] = [order |-> o, visited |-> b, hand |-> x, value |-> w]
  BY ONLY <1>1
<1> QED  BY <1>2, <1>3 DEF w

LEMMA PushHeadIs ==
  ASSUME NEW c, NEW k, NEW a,
         c = [order |-> c.order, visited |-> c.visited, hand |-> c.hand,
              value |-> c.value]
  PROVE  Abstract!PushHead(c, k, a)
           = [order |-> <<k>> \o c.order, visited |-> c.visited, hand |-> c.hand,
              value |-> [c.value EXCEPT ![k] = a]]
<1> DEFINE y == <<k>> \o c.order
           z == [c.value EXCEPT ![k] = a]
           d == [c EXCEPT !.order = y, !.value = z]
           R == [order : {c.order, y}, visited : {c.visited}, hand : {c.hand},
                 value : {c.value, z}]
<1>0. Abstract!PushHead(c, k, a) = d
  BY DEF Abstract!PushHead
<1> HIDE DEF y, z
<1>1. c \in R
  OBVIOUS
<1>2. d \in R /\ d.order = y /\ d.visited = c.visited /\ d.hand = c.hand /\ d.value = z
  BY ONLY <1>1
<1> HIDE DEF d
<1>3. d = [order |-> y, visited |-> c.visited, hand |-> c.hand, value |-> z]
  BY ONLY <1>2
<1> QED  BY <1>0, <1>3 DEF y, z

LEMMA EvictRecord ==
  ASSUME NEW c,
         c = [order |-> c.order, visited |-> c.visited, hand |-> c.hand,
              value |-> c.value]
  PROVE  Abstract!Evict(c)
           = Abstract!Unlink([order |-> c.order,
                              visited |-> c.visited \ Abstract!Spared(c),
                              hand |-> Abstract!Victim(c), value |-> c.value],
                             Abstract!Victim(c))
<1> DEFINE z == Abstract!Victim(c)
           y == c.visited \ Abstract!Spared(c)
           d == [c EXCEPT !.visited = y, !.hand = z]
           R == [order : {c.order}, visited : {c.visited, y}, hand : {c.hand, z},
                 value : {c.value}]
<1>0. Abstract!Evict(c) = Abstract!Unlink(d, z)
  BY DEF Abstract!Evict
<1> HIDE DEF y, z
<1>1. c \in R
  OBVIOUS
<1>2. d \in R /\ d.order = c.order /\ d.visited = y /\ d.hand = z /\ d.value = c.value
  BY ONLY <1>1
<1> HIDE DEF d
<1>3. d = [order |-> c.order, visited |-> y, hand |-> z, value |-> c.value]
  BY ONLY <1>2
<1> QED  BY <1>0, <1>3 DEF y, z

(* get, and put of a key that is there: its bit, and its value. *)
TouchedAt(nd, new, x) ==
  /\ \A n \in Nodes : new[n].key = nd[n].key
  /\ \A n \in Nodes \ {x} :
       new[n].value = nd[n].value /\ new[n].visited = nd[n].visited
  /\ new[x].visited /\ new[x].value \in Values

LEMMA HitView ==
  ASSUME NEW s \in Chains, NEW nd, NEW new,
         NEW m \in [Keys -> Nodes \cup {None}], Entries(s, nd, m),
         NEW h \in Elements(s) \cup {None}, NEW k \in Keys, m[k] # None,
         TouchedAt(nd, new, m[k])
  PROVE  /\ View(s, new, h, m)
              = Abstract!Replace(View(s, nd, h, m), k, new[m[k]].value)
         /\ new[m[k]].value = nd[m[k]].value =>
              View(s, new, h, m) = Abstract!Hit(View(s, nd, h, m), k)
         /\ Entries(s, new, m)
         /\ k \in Abstract!Cached(View(s, nd, h, m))
<1> DEFINE c == View(s, nd, h, m)
<1>0. /\ \A n \in Nodes : new[n].key = nd[n].key
      /\ \A n \in Nodes \ {m[k]} :
           new[n].value = nd[n].value /\ new[n].visited = nd[n].visited
      /\ new[m[k]].visited /\ new[m[k]].value \in Values
  BY DEF TouchedAt
<1>1. /\ Elements(s) \subseteq Nodes /\ None \notin Elements(s)
      /\ \A n \in Elements(s) :
           /\ nd[n].key \in Keys /\ nd[n].value \in Values
           /\ m[nd[n].key] = n
      /\ \A j \in Keys : m[j] # None => m[j] \in Elements(s) /\ nd[m[j]].key = j
  BY ElementsIs
<1>2. m[k] \in Elements(s) /\ nd[m[k]].key = k
  BY <1>1
<1>3. c = [order |-> Order(s, nd), visited |-> Bits(s, nd), hand |-> KeyOf(nd, h),
           value |-> Stored(nd, m)]
  BY DEF View
<1>4. \A i \in 1 .. Len(s) : s[i] \in Elements(s)
  BY DEF Elements
<1>5. Order(s, new) = Order(s, nd)
  BY <1>0, <1>1, <1>4 DEF Order
<1>6. Bits(s, new) = Bits(s, nd) \cup {k}
  <2>1. \A n \in Elements(s) : new[n].visited <=> nd[n].visited \/ n = m[k]
    BY <1>0, <1>1
  <2>2. \A n \in Elements(s) : new[n].key = nd[n].key
    BY <1>0, <1>1
  <2> QED  BY <2>1, <2>2, <1>2 DEF Bits
<1>7. KeyOf(new, h) = KeyOf(nd, h)
  BY <1>0, <1>1 DEF KeyOf
<1>8. Stored(new, m) = [Stored(nd, m) EXCEPT ![k] = new[m[k]].value]
  <2>1. \A j \in Keys : m[j] # None /\ j # k => m[j] # m[k]
    BY <1>1
  <2>2. \A j \in Keys : j # k => Stored(new, m)[j] = Stored(nd, m)[j]
    BY <1>0, <2>1, <1>1 DEF Stored
  <2>3. Stored(new, m)[k] = new[m[k]].value
    BY DEF Stored
  <2>4. \A f, g, x : f = [j \in Keys |-> f[j]] /\ g = [j \in Keys |-> g[j]]
                     /\ (\A j \in Keys : j # k => f[j] = g[j]) /\ f[k] = x
                       => f = [g EXCEPT ![k] = x]
    OBVIOUS
  <2>5. Stored(new, m) = [j \in Keys |-> Stored(new, m)[j]]
        /\ Stored(nd, m) = [j \in Keys |-> Stored(nd, m)[j]]
    BY DEF Stored
  <2> QED  BY <2>2, <2>3, <2>4, <2>5
<1> HIDE DEF c
<1>12. new[m[k]].value = nd[m[k]].value =>
         View(s, new, h, m) = Abstract!Hit(View(s, nd, h, m), k)
  <2> SUFFICES ASSUME new[m[k]].value = nd[m[k]].value
               PROVE  View(s, new, h, m) = Abstract!Hit(View(s, nd, h, m), k)
    OBVIOUS
  <2> DEFINE o == Order(s, nd)
             b == Bits(s, nd)
             x == KeyOf(nd, h)
             v == Stored(nd, m)
  <2>1. Stored(new, m) = v
    BY <1>0, <1>1 DEF Stored
  <2>2. View(s, new, h, m) = [order |-> o, visited |-> b \cup {k}, hand |-> x,
                              value |-> v]
    BY <1>5, <1>6, <1>7, <2>1 DEF View
  <2>3. c = [order |-> o, visited |-> b, hand |-> x, value |-> v]
    BY <1>3
  <2>4. Abstract!Hit(c, k) = [c EXCEPT !.visited = b \cup {k}]
    BY <1>3 DEF Abstract!Hit
  <2> HIDE DEF o, b, x, v, c
  <2>5. Abstract!Hit(c, k) = [order |-> o, visited |-> b \cup {k}, hand |-> x, value |-> v]
    BY <2>3, <2>4, ViewVisited
  <2> QED  BY <2>2, <2>5 DEF c
<1>9. View(s, new, h, m) = Abstract!Replace(c, k, new[m[k]].value)
  <2> DEFINE o == Order(s, nd)
             b == Bits(s, nd)
             x == KeyOf(nd, h)
             v == Stored(nd, m)
             y == new[m[k]].value
             d == Abstract!Hit(c, k)
  <2>1. d = [c EXCEPT !.visited = b \cup {k}]
    BY <1>3 DEF Abstract!Hit
  <2>2. View(s, new, h, m) = [order |-> o, visited |-> b \cup {k}, hand |-> x,
                              value |-> [v EXCEPT ![k] = y]]
    BY <1>5, <1>6, <1>7, <1>8 DEF View
  <2>3. c = [order |-> o, visited |-> b, hand |-> x, value |-> v]
    BY <1>3
  <2> HIDE DEF o, b, x, v, y, d
  <2>4. d = [order |-> o, visited |-> b \cup {k}, hand |-> x, value |-> v]
    BY <2>1, <2>3, ViewVisited
  <2>5. [d EXCEPT !.value[k] = y] = [order |-> o, visited |-> b \cup {k}, hand |-> x,
                                     value |-> [v EXCEPT ![k] = y]]
    <3> DEFINE e == b \cup {k}
    <3>1. d = [order |-> o, visited |-> e, hand |-> x, value |-> v]
      BY <2>4
    <3> HIDE DEF e
    <3>2. [d EXCEPT !.value[k] = y]
            = [order |-> o, visited |-> e, hand |-> x, value |-> [v EXCEPT ![k] = y]]
      BY ONLY <3>1, ViewValue
    <3> QED  BY <3>2 DEF e
  <2> QED  BY <2>2, <2>5 DEF y, d, Abstract!Replace
<1>10. Entries(s, new, m)
  <2>1. \A n \in Elements(s) : new[n].key = nd[n].key /\ new[n].value \in Values
    BY <1>0, <1>1
  <2> QED  BY <2>1, <1>1, <1>4 DEF Entries
<1>11. k \in Abstract!Cached(c)
  <2>1. c.order = Order(s, nd)
    BY <1>3
  <2> QED  BY <2>1, CachedIs
<1> QED  BY <1>9, <1>10, <1>11, <1>12 DEF c

(* Push puts a fresh node at the head and under its key. *)
LEMMA PushIs ==
  ASSUME NEW s \in Chains, NEW n \in Nodes \ Elements(s)
  PROVE  /\ <<n>> \o s \in Chains /\ Len(<<n>> \o s) = Len(s) + 1
         /\ \A i \in 1 .. Len(s) + 1 :
              (<<n>> \o s)[i] = IF i = 1 THEN n ELSE s[i - 1]
         /\ Elements(<<n>> \o s) = Elements(s) \cup {n}
<1> DEFINE t == <<n>> \o s
<1>1. s \in Seq(Nodes) /\ Len(s) \in Nat /\ \A i, j \in 1 .. Len(s) : s[i] = s[j] => i = j
  BY DEF Chains
<1>2. t \in Seq(Nodes) /\ Len(t) = Len(s) + 1
      /\ \A i \in 1 .. Len(s) + 1 : t[i] = IF i = 1 THEN n ELSE s[i - 1]
  BY <1>1
<1>3. \A i \in 1 .. Len(s) : s[i] # n
  BY DEF Elements
<1> HIDE DEF t
<1>4. \A i, j \in 1 .. Len(t) : t[i] = t[j] => i = j
  <2> SUFFICES ASSUME NEW i \in 1 .. Len(t), NEW j \in 1 .. Len(t), t[i] = t[j]
               PROVE  i = j
    OBVIOUS
  <2>1. \A a \in 1 .. Len(t) : a # 1 => a - 1 \in 1 .. Len(s) /\ t[a] = s[a - 1]
    BY <1>1, <1>2
  <2>2. t[1] = n
    BY <1>1, <1>2
  <2>3. CASE i = 1 \/ j = 1
    BY <2>1, <2>2, <2>3, <1>3
  <2>4. CASE i # 1 /\ j # 1
    <3>1. i - 1 \in 1 .. Len(s) /\ j - 1 \in 1 .. Len(s) /\ s[i - 1] = s[j - 1]
      BY <2>1, <2>4
    <3>2. i - 1 = j - 1
      BY <3>1, <1>1
    <3> QED  BY <3>2
  <2> QED  BY <2>3, <2>4
<1>5. Elements(t) = Elements(s) \cup {n}
  <2>1. ASSUME NEW i \in 1 .. Len(t) PROVE t[i] \in Elements(s) \cup {n}
    <3>1. i # 1 => i - 1 \in 1 .. Len(s)
      BY <1>1, <1>2
    <3> QED  BY <3>1, <1>2 DEF Elements
  <2>2. ASSUME NEW i \in 1 .. Len(s) PROVE s[i] \in Elements(t)
    <3>1. i + 1 \in 1 .. Len(t) /\ t[i + 1] = s[i]
      BY <1>1, <1>2
    <3> QED  BY <3>1 DEF Elements
  <2>3. n \in Elements(t)
    <3>1. 1 \in 1 .. Len(t) /\ t[1] = n
      BY <1>1, <1>2
    <3> QED  BY <3>1 DEF Elements
  <2> QED  BY <2>1, <2>2, <2>3 DEF Elements
<1> QED  BY <1>2, <1>4, <1>5 DEF Chains, t

(* The node n has gone under the key k. *)
Entered(m, more, k, n) == more = [m EXCEPT ![k] = n]

Pushed(c, new, k, v) == new = Abstract!PushHead(c, k, v)

LEMMA PushView ==
  ASSUME NEW s \in Chains, NEW n \in Nodes \ Elements(s), NEW nd,
         NEW m \in [Keys -> Nodes \cup {None}], Entries(s, nd, m),
         NEW h \in Elements(s) \cup {None}, NEW k \in Keys, m[k] = None,
         nd[n].key = k, nd[n].value \in Values, ~nd[n].visited,
         NEW t, t = <<n>> \o s, NEW more, Entered(m, more, k, n)
  PROVE  /\ Entries(t, nd, more)
         /\ Pushed(View(s, nd, h, m), View(t, nd, h, more), k, nd[n].value)
<1> DEFINE v == nd[n].value
           c == View(s, nd, h, m)
<1>a. more[k] = n /\ (\A j \in Keys \ {k} : more[j] = m[j])
      /\ more = [m EXCEPT ![k] = n]
  BY DEF Entered
<1>1. /\ t \in Chains /\ Len(t) = Len(s) + 1
      /\ \A i \in 1 .. Len(s) + 1 : t[i] = IF i = 1 THEN n ELSE s[i - 1]
      /\ Elements(t) = Elements(s) \cup {n}
  BY PushIs
<1>2. /\ Elements(s) \subseteq Nodes /\ None \notin Elements(s)
      /\ \A x \in Elements(s) :
           /\ nd[x].key \in Keys /\ nd[x].value \in Values
           /\ m[nd[x].key] = x
      /\ \A j \in Keys : m[j] # None => m[j] \in Elements(s) /\ nd[m[j]].key = j
  BY ElementsIs
<1>3. n # None /\ \A x \in Elements(s) : nd[x].key # k
  BY <1>2, ListAssumption
<1>4. Len(s) \in Nat /\ Order(s, nd) \in Seq(Keys) /\ Len(Order(s, nd)) = Len(s)
      /\ \A i \in 1 .. Len(s) : Order(s, nd)[i] = nd[s[i]].key
  BY OrderIs
<1>5. Order(t, nd) = <<k>> \o Order(s, nd)
  <2> DEFINE q == <<k>> \o Order(s, nd)
             r == Order(t, nd)
  <2>1. q \in Seq(Keys) /\ Len(q) = Len(s) + 1
        /\ \A i \in 1 .. Len(s) + 1 : q[i] = IF i = 1 THEN k ELSE Order(s, nd)[i - 1]
    BY <1>4
  <2>2. r = [i \in 1 .. Len(s) + 1 |-> nd[t[i]].key]
    BY <1>1 DEF Order
  <2>3. \A i \in 1 .. Len(s) + 1 : r[i] = q[i]
    <3> SUFFICES ASSUME NEW i \in 1 .. Len(s) + 1 PROVE r[i] = q[i]
      OBVIOUS
    <3>1. r[i] = nd[t[i]].key
      BY <2>2
    <3>2. CASE i = 1
      BY <3>1, <3>2, <1>1, <2>1
    <3>3. CASE i # 1
      <4>1. i - 1 \in 1 .. Len(s)
        BY <3>3, <1>4
      <4>2. t[i] = s[i - 1] /\ q[i] = Order(s, nd)[i - 1]
        BY <3>3, <1>1, <2>1
      <4> QED  BY <3>1, <4>1, <4>2, <1>4
    <3> QED  BY <3>2, <3>3
  <2> HIDE DEF q
  <2>4. q = [i \in 1 .. Len(s) + 1 |-> q[i]]
    BY <2>1
  <2> HIDE DEF r
  <2>5. r = q
    BY <2>2, <2>3, <2>4
  <2> QED  BY <2>5 DEF q, r
<1>6. Bits(t, nd) = Bits(s, nd)
  BY <1>1 DEF Bits
<1>7. Stored(nd, more) = [Stored(nd, m) EXCEPT ![k] = v]
  BY <1>3, <1>a DEF Stored
<1>8. View(t, nd, h, more) = Abstract!PushHead(c, k, v)
  <2> DEFINE o == Order(s, nd)
             b == Bits(s, nd)
             x == KeyOf(nd, h)
             w == Stored(nd, m)
  <2>1. c = [order |-> o, visited |-> b, hand |-> x, value |-> w]
    BY DEF View
  <2>2. View(t, nd, h, more) = [order |-> <<k>> \o o, visited |-> b, hand |-> x,
                                value |-> [w EXCEPT ![k] = v]]
    BY <1>5, <1>6, <1>7 DEF View
  <2> HIDE DEF o, b, x, w, v, c
  <2>3. Abstract!PushHead(c, k, v)
          = [order |-> <<k>> \o o, visited |-> b, hand |-> x,
             value |-> [w EXCEPT ![k] = v]]
    <3>1. c.order = o /\ c.visited = b /\ c.hand = x /\ c.value = w
      BY ONLY <2>1
    <3>2. c = [order |-> c.order, visited |-> c.visited, hand |-> c.hand,
               value |-> c.value]
      BY ONLY <2>1, <3>1
    <3> QED  BY ONLY <3>1, <3>2, PushHeadIs
  <2> QED  BY <2>2, <2>3
<1>9. Entries(t, nd, more)
  <2>1. ASSUME NEW x \in Elements(t)
        PROVE  nd[x].key \in Keys /\ nd[x].value \in Values /\ more[nd[x].key] = x
    BY <1>1, <1>2, <1>3, <1>a
  <2>2. ASSUME NEW j \in Keys, more[j] # None
        PROVE  more[j] \in Elements(t) /\ nd[more[j]].key = j
    <3>1. CASE j = k
      BY <3>1, <1>1, <1>a
    <3>2. CASE j # k
      BY <2>2, <3>2, <1>1, <1>2, <1>a
    <3> QED  BY <3>1, <3>2
  <2>3. \A i \in 1 .. Len(t) : t[i] \in Elements(t)
    BY DEF Elements
  <2>4. ASSUME NEW j \in Keys, more[j] # None
        PROVE  \E i \in 1 .. Len(t) : t[i] = more[j] /\ nd[t[i]].key = j
    <3>1. more[j] \in Elements(t) /\ nd[more[j]].key = j
      BY <2>2, <2>4
    <3> QED  BY ONLY <3>1 DEF Elements
  <2> QED  BY ONLY <2>1, <2>3, <2>4 DEF Entries
<1> QED  BY <1>8, <1>9 DEF c, Pushed

(* _evict has come from position st to q: going to the head, or after it   *)
(* went on from the tail.                                                  *)
Legs(L, st, q) ==
  (IF q <= st THEN {(q + 1) .. st} ELSE {})
    \cup (IF q >= st THEN {(1 .. st) \cup ((q + 1) .. L)} ELSE {})

(* _evict stops at the victim of SieveCache: coming from the start at p, it *)
(* has passed the positions of P, where every key was visited, and the key  *)
(* at p was not, or it has passed all of them.                              *)
LEMMA VictimIs ==
  ASSUME NEW c, Len(c.order) \in Nat,
         \A i, j \in 1 .. Len(c.order) : c.order[i] = c.order[j] => i = j,
         Abstract!Start(c) \in 1 .. Len(c.order), NEW p \in 1 .. Len(c.order),
         NEW P \in Legs(Len(c.order), Abstract!Start(c), p),
         \A i \in P : c.order[i] \in c.visited,
         c.order[p] \notin c.visited \/ p \in P
  PROVE  /\ Abstract!Victim(c) = c.order[p]
         /\ Abstract!Spared(c) = {c.order[i] : i \in P}
<1> DEFINE L == Len(c.order)
           st == Abstract!Start(c)
           clear == {i \in 1 .. L : c.order[i] \notin c.visited}
           d(i) == Abstract!Distance(c, i)
<1>0. L \in Nat /\ st \in 1 .. L /\ p \in 1 .. L
  OBVIOUS
<1>1. \/ p <= st /\ P = (p + 1) .. st
      \/ p >= st /\ P = (1 .. st) \cup ((p + 1) .. L)
  BY DEF Legs
<1>2. P \subseteq 1 .. L
  BY <1>1
<1>3. \A i \in 1 .. L : d(i) = IF i <= st THEN st - i ELSE st + L - i
  BY DEF Abstract!Distance
<1>4. \A i \in 1 .. L : Abstract!Position(c, c.order[i]) = i
  BY PositionIs
<1>5. Abstract!Cached(c) = {c.order[i] : i \in 1 .. L}
  BY DEF Abstract!Cached
<1>6. CASE p \notin P
  <2>1. \A i \in 1 .. L : i \in P <=> d(i) < d(p)
    <3>0. \A i \in 1 .. L : d(i) = IF i <= st THEN st - i ELSE st + L - i
      BY <1>3
    <3> HIDE DEF d, L, st
    <3>1. CASE p <= st /\ P = (p + 1) .. st
      BY <1>0, <3>0, <3>1
    <3>2. CASE p >= st /\ P = (1 .. st) \cup ((p + 1) .. L)
      <4>1. p > st
        BY <1>0, <1>6, <3>2
      <4> QED  BY <1>0, <3>0, <3>2, <4>1
    <3> QED  BY <1>1, <3>1, <3>2
  <2>2. \A i, j \in 1 .. L : d(i) = d(j) => i = j
    BY <1>3
  <2>3. \A i \in 1 .. L : d(i) \in Nat
    BY <1>3
  <2> HIDE DEF d
  <2>4. p \in clear /\ \A j \in clear : d(p) <= d(j)
    BY <1>6, <2>1, <2>3
  <2> DEFINE least == CHOOSE i \in clear : \A j \in clear : d(i) <= d(j)
  <2>5. least \in clear /\ \A j \in clear : d(least) <= d(j)
    <3> HIDE DEF clear
    <3> QED  BY <2>4
  <2>6. least = p
    <3> HIDE DEF least
    <3>1. d(least) <= d(p) /\ d(p) <= d(least) /\ least \in 1 .. L
      BY <2>4, <2>5
    <3>2. d(least) = d(p)
      BY <3>1, <2>3
    <3> QED  BY <3>1, <3>2, <2>2
  <2>7. Abstract!Victim(c) = c.order[least]
    BY <2>4 DEF Abstract!Victim, d
  <2> HIDE DEF least
  <2>8. Abstract!Victim(c) = c.order[p] /\ ~(Abstract!Cached(c) \subseteq c.visited)
    BY <2>4, <2>6, <2>7, <1>5
  <2>9. Abstract!Spared(c) = {k \in Abstract!Cached(c) :
                                d(Abstract!Position(c, k)) < d(p)}
    BY <2>8, <1>4 DEF Abstract!Spared, d
  <2>10. {k \in Abstract!Cached(c) : d(Abstract!Position(c, k)) < d(p)}
           = {c.order[i] : i \in P}
    BY <1>2, <1>4, <1>5, <2>1
  <2> QED  BY <2>8, <2>9, <2>10
<1>7. CASE p \in P
  <2>1. p = st /\ P = 1 .. L
    <3> HIDE DEF L, st
    <3>1. ~(p \in (p + 1) .. st) /\ ~(p \in (p + 1) .. L)
      BY <1>0
    <3>2. P = (1 .. st) \cup ((p + 1) .. L) /\ p \in 1 .. st /\ p >= st
      BY <1>1, <1>7, <3>1
    <3>3. p = st
      BY <1>0, <3>2
    <3> QED  BY <1>0, <3>2, <3>3
  <2>2. clear = {} /\ Abstract!Cached(c) \subseteq c.visited
    BY <2>1, <1>5
  <2>3. Abstract!Victim(c) = c.order[st] /\ Abstract!Spared(c) = Abstract!Cached(c)
    BY <2>2 DEF Abstract!Victim, Abstract!Spared
  <2> QED  BY <2>1, <2>3, <1>5
<1> QED  BY <1>6, <1>7

(* The nodes that the hand has passed, at the positions P, had their bit   *)
(* among bits, and have it no more.                                        *)
Swept(s, nd, bits, P) ==
  \A i \in 1 .. Len(s) :
    /\ i \in P => nd[s[i]].key \in bits
    /\ nd[s[i]].visited <=> nd[s[i]].key \in bits /\ i \notin P

(* The contents c, of which the hand and the bits are left open. *)
SameBut(c, order, value) ==
  c = [order |-> order, visited |-> c.visited, hand |-> c.hand, value |-> value]

(* The list when _evict has found its victim, at p, is what evict of       *)
(* SieveCache leaves, once the victim is gone.                             *)
LEMMA EvictView ==
  ASSUME NEW s \in Chains, NEW nd, NEW m \in [Keys -> Nodes \cup {None}],
         Entries(s, nd, m), NEW c,
         SameBut(c, Order(s, nd), Stored(nd, m)),
         c.visited \subseteq Abstract!Cached(c),
         Abstract!Start(c) \in 1 .. Len(s), NEW p \in 1 .. Len(s),
         NEW P \in Legs(Len(s), Abstract!Start(c), p),
         Swept(s, nd, c.visited, P), ~nd[s[p]].visited
  PROVE  Abstract!Evict(c) = View(Cut(s, p), nd, At(s, p - 1),
                                  Drop(m, nd[s[p]].key))
<1>0. \A i \in 1 .. Len(s) :
        /\ i \in P => nd[s[i]].key \in c.visited
        /\ nd[s[i]].visited <=> nd[s[i]].key \in c.visited /\ i \notin P
  BY DEF Swept
<1>1. /\ Len(s) \in Nat /\ Len(Order(s, nd)) = Len(s)
      /\ \A i \in 1 .. Len(s) : Order(s, nd)[i] = nd[s[i]].key
      /\ \A i, j \in 1 .. Len(s) : nd[s[i]].key = nd[s[j]].key => i = j
  BY OrderIs
<1>2. /\ c.order = Order(s, nd) /\ c.value = Stored(nd, m)
      /\ c = [order |-> c.order, visited |-> c.visited, hand |-> c.hand,
              value |-> c.value]
  BY DEF SameBut
<1>3. Abstract!Cached(c) = {nd[s[i]].key : i \in 1 .. Len(s)}
  BY <1>2, CachedIs
<1>4. P \subseteq 1 .. Len(s)
  BY <1>1 DEF Legs
<1>5. /\ Len(c.order) = Len(s)
      /\ \A i, j \in 1 .. Len(c.order) : c.order[i] = c.order[j] => i = j
      /\ \A i \in P : c.order[i] \in c.visited
      /\ c.order[p] \notin c.visited \/ p \in P
  BY <1>0, <1>1, <1>2, <1>4
<1>6. /\ Abstract!Victim(c) = c.order[p]
      /\ Abstract!Spared(c) = {c.order[i] : i \in P}
  BY <1>1, <1>5, VictimIs
<1>7. Abstract!Victim(c) = nd[s[p]].key
      /\ Abstract!Spared(c) = {nd[s[i]].key : i \in P}
  BY <1>1, <1>2, <1>4, <1>6
<1>8. c.visited \ Abstract!Spared(c) = Bits(s, nd)
  <2>1. Bits(s, nd) = {nd[s[i]].key : i \in {j \in 1 .. Len(s) : nd[s[j]].visited}}
    BY DEF Bits, Elements
  <2>2. ASSUME NEW x \in c.visited, x \notin Abstract!Spared(c)
        PROVE  x \in {nd[s[i]].key : i \in {j \in 1 .. Len(s) : nd[s[j]].visited}}
    <3>1. PICK i \in 1 .. Len(s) : x = nd[s[i]].key
      BY <1>3
    <3>2. i \notin P
      BY <2>2, <3>1, <1>7
    <3> QED  BY <3>1, <3>2, <1>0
  <2>3. ASSUME NEW i \in 1 .. Len(s), nd[s[i]].visited
        PROVE  nd[s[i]].key \in c.visited \ Abstract!Spared(c)
    <3>1. nd[s[i]].key \in c.visited /\ i \notin P
      BY <2>3, <1>0
    <3>2. \A j \in P : nd[s[j]].key # nd[s[i]].key
      BY <3>1, <1>1, <1>4
    <3> QED  BY <3>1, <3>2, <1>7
  <2> QED  BY <2>1, <2>2, <2>3
<1>9. s[p] \in Elements(s) /\ s[p] # None
  BY ElementsIs DEF Elements
<1>10. View(s, nd, s[p], m)
         = [order |-> c.order, visited |-> c.visited \ Abstract!Spared(c),
            hand |-> Abstract!Victim(c), value |-> c.value]
  BY <1>2, <1>7, <1>8, <1>9 DEF View, KeyOf
<1>11. Abstract!Evict(c) = Abstract!Unlink(View(s, nd, s[p], m), nd[s[p]].key)
  <2>1. c = [order |-> c.order, visited |-> c.visited, hand |-> c.hand,
             value |-> c.value]
    BY <1>2
  <2>2. Abstract!Evict(c)
          = Abstract!Unlink([order |-> c.order,
                             visited |-> c.visited \ Abstract!Spared(c),
                             hand |-> Abstract!Victim(c), value |-> c.value],
                            Abstract!Victim(c))
    BY ONLY <2>1, EvictRecord
  <2> QED  BY <2>2, <1>7, <1>10
<1> QED  BY <1>9, <1>11, CutView

-----------------------------------------------------------------------------
(***************************************************************************)
(* The invariant.  Between the statements of an operation the list is a    *)
(* chain s; while a node is unlinked, s still holds it, at position p.     *)
(***************************************************************************)
Types ==
  /\ map \in [Keys -> Nodes \cup {None}]
  /\ node \in [Nodes -> NodeType]
  /\ op \in Op

Linking(s) ==
  /\ head = At(s, 1) /\ Nexts(s, node)
  /\ tail = At(s, Len(s)) /\ Prevs(s, node)

(* The map holds the nodes of s. *)
Holding(s) ==
  /\ Entries(s, node, map)
  /\ hand \in Elements(s) \cup {None}
  /\ Len(s) <= MaxSize

Whole(s) == Linking(s) /\ Holding(s)

(* The operation in progress is one the abstract cache has a step for. *)
Putting ==
  /\ op.name = "put" /\ op.key \in Keys /\ op.value \in Values
  /\ op.key \notin Abstract!Cached(before) /\ map[op.key] = None

Evicting ==
  \/ op.name = "evict" /\ Abstract!Cached(before) # {}
  \/ Putting /\ Abstract!Full(before)

Removing ==
  op.name = "remove" /\ op.key \in Abstract!Cached(before)

Starting(s) ==
  /\ Whole(s) /\ Evicting
  /\ s # << >> /\ before = View(s, node, hand, map)

Passed(s, P) == Swept(s, node, before.visited, P)

Scanning(s) ==
  /\ Whole(s) /\ Evicting
  /\ before = [order |-> Order(s, node), visited |-> before.visited,
               hand |-> before.hand, value |-> Stored(node, map)]
  /\ before.visited \subseteq Abstract!Cached(before)
  /\ Abstract!Start(before) \in 1 .. Len(s)
  /\ \E q \in 0 .. Len(s) :
       /\ victim = At(s, q)
       /\ \E P \in Legs(Len(s), Abstract!Start(before), q) : Passed(s, P)

(* What the operation in progress has to leave behind. *)
Goal ==
  IF op.name = "remove" THEN Abstract!Unlink(before, op.key)
  ELSE Abstract!Evict(before)

Rest == Drop(map, node[victim].key)

(* The victim is at position p of s; without it, the list is the goal. *)
Leaving(s, p) ==
  /\ victim = s[p] /\ node[victim].key \in Keys
  /\ Goal = View(Cut(s, p), node, IF hand = victim THEN At(s, p - 1) ELSE hand,
                 Rest)
  /\ hand \in Elements(s) \cup {None}
  /\ Len(s) <= MaxSize
  /\ Entries(Cut(s, p), node, Rest)
  /\ \/ Evicting /\ map[node[victim].key] = victim
     \/ Removing /\ map[node[victim].key] = None

Unlinking(s, p) == Leaving(s, p) /\ Linking(s)

(* The neighbour towards the head has forgotten the victim. *)
HalfUnlinked(s, p) ==
  /\ Leaving(s, p)
  /\ head = At(Cut(s, p), 1) /\ Nexts(Cut(s, p), node)
  /\ tail = At(s, Len(s)) /\ Prevs(s, node)
  /\ node[victim].next = At(s, p + 1)

Unlinked(s, p) ==
  Leaving(s, p) /\ Linking(Cut(s, p)) /\ node[victim].prev = At(s, p - 1)

Forgetting(s, p) ==
  Leaving(s, p) /\ Linking(Cut(s, p)) /\ Evicting /\ hand # victim

(* put has made room: the cache is as the put found it, or as the eviction *)
(* left it.                                                                *)
Inserting(s) ==
  /\ Putting /\ Holding(s) /\ Len(s) < MaxSize
  /\ View(s, node, hand, map) =
       IF Abstract!Full(before) THEN Abstract!Evict(before) ELSE before

(* The new node is not in the list yet. *)
Created(s) ==
  /\ Inserting(s)
  /\ fresh \in Nodes \ Elements(s)
  /\ node[fresh].key = op.key /\ node[fresh].value = op.value
  /\ ~node[fresh].visited

Heading(s) ==
  /\ Created(s) /\ Linking(s)
  /\ node[fresh].next = At(s, 1) /\ node[fresh].prev = None

(* The links of the new list are there, its ends are not. *)
Joined(s) ==
  Created(s) /\ Nexts(<<fresh>> \o s, node) /\ Prevs(<<fresh>> \o s, node)

Phase(s) ==
  \/ pc = "idle" /\ Whole(s)
  \/ pc = "start" /\ Starting(s)
  \/ pc = "scan" /\ Scanning(s)
  \/ pc = "unlink" /\ \E p \in 1 .. Len(s) : Unlinking(s, p)
  \/ pc = "unlinkNext" /\ \E p \in 1 .. Len(s) : HalfUnlinked(s, p)
  \/ pc = "unhand" /\ \E p \in 1 .. Len(s) : Unlinked(s, p)
  \/ pc = "forget" /\ \E p \in 1 .. Len(s) : Forgetting(s, p)
  \/ pc = "insert" /\ Inserting(s) /\ Linking(s)
  \/ pc = "linkHead" /\ Heading(s)
  \/ pc = "setHead" /\ Joined(s) /\ head = At(s, 1) /\ tail = At(s, Len(s))
  \/ pc = "setTail" /\ Joined(s) /\ head = fresh /\ tail = At(s, Len(s))
  \/ pc = "enter" /\ Created(s) /\ Linking(<<fresh>> \o s)

ListInv == Types /\ \E s \in Chains : Phase(s)

(* The cache as SieveCache has it, and its steps. *)
Shown == IF pc = "idle" THEN Contents ELSE before

Shows ==
  \/ Shown' = Shown
  \/ \E k \in Abstract!Cached(Shown) : Shown' = Abstract!Hit(Shown, k)
  \/ \E k \in Keys, v \in Values : Shown' = Abstract!Put(Shown, k, v)
  \/ \E k \in Abstract!Cached(Shown) : Shown' = Abstract!Unlink(Shown, k)
  \/ Abstract!Cached(Shown) # {} /\ Shown' = Abstract!Evict(Shown)

-----------------------------------------------------------------------------
(***************************************************************************)
(* The steps.  Each keeps the invariant, and shows a step of SieveCache or *)
(* none.                                                                   *)
(***************************************************************************)

(* A step that leaves the links of s alone. *)
LEMMA SameNexts ==
  ASSUME NEW s \in Chains, NEW nd, NEW new, Nexts(s, nd),
         \A n \in Elements(s) : new[n].next = nd[n].next
  PROVE  Nexts(s, new)
BY DEF Nexts, Elements

LEMMA SamePrevs ==
  ASSUME NEW s \in Chains, NEW nd, NEW new, Prevs(s, nd),
         \A n \in Elements(s) : new[n].prev = nd[n].prev
  PROVE  Prevs(s, new)
BY DEF Prevs, Elements

(* The contents of an idle cache. *)
LEMMA IdleShown ==
  ASSUME NEW s \in Chains, pc = "idle", Whole(s)
  PROVE  /\ Shown = View(s, node, hand, map) /\ Contents = View(s, node, hand, map)
         /\ Size = Len(s)
         /\ Len(Shown.order) = Len(s)
         /\ Shown.order = Order(s, node)
         /\ \A k \in Keys : k \in Abstract!Cached(Shown) <=> map[k] # None
<1>1. Contents = View(s, node, hand, map)
  BY ContentsNow DEF Whole, Linking
<1>2. Shown.order = Order(s, node) /\ Shown = View(s, node, hand, map)
  BY <1>1 DEF Shown, View
<1>3. Entries(s, node, map)
  BY DEF Whole, Holding
<1> QED  BY <1>1, <1>2, <1>3, OrderIs, CachedIs, SizeIs

LEMMA NextShown ==
  ASSUME NEW s \in Chains, pc' = "idle", Whole(s)'
  PROVE  Shown' = View(s, node', hand', map')
BY ContentsNext DEF Shown, Whole, Linking

LEMMA GetStep ==
  ASSUME Types, NEW s \in Chains, Phase(s), NEW k \in Keys, Get(k)
  PROVE  Types' /\ Phase(s)' /\ Shows
<1>1. pc = "idle" /\ Whole(s)
  BY DEF Phase, Get
<1>2. /\ map \in [Keys -> Nodes \cup {None}] /\ node \in [Nodes -> NodeType]
      /\ map[k] \in Nodes /\ map[k] # None
      /\ node' = [node EXCEPT ![map[k]].visited = TRUE]
      /\ UNCHANGED <<map, head, tail, hand, pc, op>>
  BY DEF Types, Get
<1>3. node[map[k]] \in NodeType
  BY <1>2
<1>4. node' \in [Nodes -> NodeType]
      /\ node'[map[k]] = [node[map[k]] EXCEPT !.visited = TRUE]
      /\ \A n \in Nodes \ {map[k]} : node'[n] = node[n]
  BY <1>2, <1>3 DEF NodeType
<1>5. node'[map[k]].visited /\ node'[map[k]].key = node[map[k]].key
      /\ node'[map[k]].value = node[map[k]].value
      /\ node'[map[k]].prev = node[map[k]].prev
      /\ node'[map[k]].next = node[map[k]].next
  BY <1>3, <1>4 DEF NodeType
<1>6. /\ Entries(s, node, map) /\ hand \in Elements(s) \cup {None}
      /\ Elements(s) \subseteq Nodes
  BY <1>1, ElementsIs DEF Whole, Holding
<1>7. node[map[k]].value \in Values
  BY <1>2, <1>6, ElementsIs
<1>8. /\ View(s, node', hand, map) = Abstract!Hit(View(s, node, hand, map), k)
      /\ Entries(s, node', map)
      /\ k \in Abstract!Cached(View(s, node, hand, map))
  <2>1. TouchedAt(node, node', map[k])
    BY <1>4, <1>5, <1>7 DEF TouchedAt
  <2>2. map \in [Keys -> Nodes \cup {None}] /\ map[k] # None
    BY <1>2
  <2>3. Entries(s, node', map)
    BY <1>5, <1>6, <2>1, <2>2, HitView
  <2>4. k \in Abstract!Cached(View(s, node, hand, map))
    BY <1>5, <1>6, <2>1, <2>2, HitView
  <2>5. View(s, node', hand, map) = Abstract!Hit(View(s, node, hand, map), k)
    BY <1>5, <1>6, <2>1, <2>2, HitView
  <2> QED  BY <2>3, <2>4, <2>5
<1>9. \A n \in Elements(s) : node'[n].next = node[n].next /\ node'[n].prev = node[n].prev
  BY <1>4, <1>5, <1>6
<1>10. (Nexts(s, node) => Nexts(s, node')) /\ (Prevs(s, node) => Prevs(s, node'))
  BY <1>9, SameNexts, SamePrevs
<1>11. Whole(s)' /\ pc' = "idle"
  BY <1>1, <1>2, <1>8, <1>9, <1>10 DEF Whole, Linking, Holding
<1>12. Shown' = Abstract!Hit(Shown, k) /\ k \in Abstract!Cached(Shown)
  BY <1>1, <1>2, <1>8, <1>11, IdleShown, NextShown
<1> QED  BY <1>2, <1>4, <1>11, <1>12 DEF Types, Phase, Shows

LEMMA PutHitStep ==
  ASSUME Types, NEW s \in Chains, Phase(s), NEW k \in Keys, NEW v \in Values,
         PutBegin(k, v), map[k] # None
  PROVE  Types' /\ Phase(s)' /\ Shows
<1>1. pc = "idle" /\ Whole(s)
  BY DEF Phase, PutBegin
<1> DEFINE x == map[k]
<1>2. /\ map \in [Keys -> Nodes \cup {None}] /\ node \in [Nodes -> NodeType]
      /\ x \in Nodes /\ map[k] # None
      /\ node' = [node EXCEPT ![x].value = v, ![x].visited = TRUE]
      /\ UNCHANGED <<map, head, tail, hand, pc, op>>
  BY DEF Types, PutBegin
<1> HIDE DEF x
<1>3. node[x] \in NodeType
  BY <1>2
<1>4. node' = [node EXCEPT ![x] = [node[x] EXCEPT !.value = v, !.visited = TRUE]]
  BY <1>2
<1>5. [node[x] EXCEPT !.value = v, !.visited = TRUE] \in NodeType
  BY <1>3 DEF NodeType
<1>6. node' \in [Nodes -> NodeType]
      /\ node'[x] = [node[x] EXCEPT !.value = v, !.visited = TRUE]
      /\ \A n \in Nodes \ {x} : node'[n] = node[n]
  BY <1>2, <1>4, <1>5
<1>7. node'[x].visited /\ node'[x].key = node[x].key /\ node'[x].value = v
      /\ node'[x].prev = node[x].prev /\ node'[x].next = node[x].next
  BY <1>3, <1>6 DEF NodeType
<1>8. /\ Entries(s, node, map) /\ hand \in Elements(s) \cup {None}
      /\ Elements(s) \subseteq Nodes
  BY <1>1, ElementsIs DEF Whole, Holding
<1>9. TouchedAt(node, node', map[k])
  BY <1>6, <1>7 DEF TouchedAt, x
<1>10. Entries(s, node', map)
  BY <1>2, <1>8, <1>9, HitView
<1>11. k \in Abstract!Cached(View(s, node, hand, map))
  BY <1>2, <1>8, <1>9, HitView
<1>12. View(s, node', hand, map) = Abstract!Replace(View(s, node, hand, map), k, v)
  <2>0. map \in [Keys -> Nodes \cup {None}]
    BY <1>2
  <2>1. View(s, node', hand, map)
          = Abstract!Replace(View(s, node, hand, map), k, node'[map[k]].value)
    BY <2>0, <1>8, <1>9, HitView, Z3
  <2> QED  BY <2>1, <1>7 DEF x
<1>13. \A n \in Elements(s) : node'[n].next = node[n].next /\ node'[n].prev = node[n].prev
  BY <1>6, <1>7, <1>8
<1>14. (Nexts(s, node) => Nexts(s, node')) /\ (Prevs(s, node) => Prevs(s, node'))
  BY <1>13, SameNexts, SamePrevs
<1>15. Whole(s)' /\ pc' = "idle"
  BY <1>1, <1>2, <1>10, <1>13, <1>14 DEF Whole, Linking, Holding
<1>16. Shown' = Abstract!Put(Shown, k, v)
  <2>1. Shown' = View(s, node', hand, map)
    BY <1>2, <1>15, NextShown
  <2>2. Shown = View(s, node, hand, map)
    BY <1>1, IdleShown
  <2> QED  BY <2>1, <2>2, <1>11, <1>12 DEF Abstract!Put
<1> QED  BY <1>2, <1>6, <1>15, <1>16 DEF Types, Phase, Shows

(* put of a key that is not there begins. *)
LEMMA PutMissStep ==
  ASSUME Types, NEW s \in Chains, Phase(s), NEW k \in Keys, NEW v \in Values,
         PutBegin(k, v), map[k] = None
  PROVE  Types' /\ Phase(s)' /\ Shows
<1>1. pc = "idle" /\ Whole(s)
  BY DEF Phase, PutBegin
<1>2. /\ op' = [name |-> "put", key |-> k, value |-> v]
      /\ before' = Contents
      /\ pc' = IF Size >= MaxSize THEN "start" ELSE "insert"
      /\ UNCHANGED <<map, node, head, tail, hand>>
  BY DEF PutBegin, Begin
<1>3. before' = View(s, node, hand, map) /\ Size = Len(s) /\ Len(before'.order) = Len(s)
      /\ k \notin Abstract!Cached(before') /\ Shown = before'
  BY <1>1, <1>2, IdleShown
<1>4. Shown' = before'
  BY <1>2 DEF Shown
<1>5. Putting'
  BY <1>2, <1>3 DEF Putting
<1>6. Whole(s)'
  BY <1>1, <1>2 DEF Whole, Linking, Holding
<1>7. MaxSize \in Nat /\ MaxSize > 0 /\ Len(s) \in Nat
  BY ListAssumption, ChainLength
<1>8. Types'
  BY <1>2 DEF Types, Op
<1>9. Phase(s)'
  <2>1. CASE Size >= MaxSize
    <3>1. s # << >> /\ Abstract!Full(before')
      BY <1>3, <1>7, <2>1 DEF Abstract!Full
    <3>2. Starting(s)'
      BY <1>2, <1>3, <1>5, <1>6, <3>1 DEF Starting, Evicting
    <3> QED  BY <1>2, <2>1, <3>2 DEF Phase
  <2>2. CASE ~(Size >= MaxSize)
    <3>1. Len(s) < MaxSize /\ ~Abstract!Full(before')
      BY <1>3, <1>7, <2>2 DEF Abstract!Full
    <3>2. Inserting(s)' /\ Linking(s)'
      BY <1>2, <1>3, <1>5, <1>6, <3>1 DEF Inserting, Whole
    <3> QED  BY <1>2, <2>2, <3>2 DEF Phase
  <2> QED  BY <2>1, <2>2
<1> QED  BY <1>3, <1>4, <1>8, <1>9 DEF Shows

(* evict of a cache that is not empty begins. *)
LEMMA EvictBeginStep ==
  ASSUME Types, NEW s \in Chains, Phase(s), EvictBegin
  PROVE  Types' /\ Phase(s)' /\ Shows
<1>1. pc = "idle" /\ Whole(s)
  BY DEF Phase, EvictBegin
<1>2. /\ op' = [name |-> "evict", key |-> None, value |-> None]
      /\ before' = Contents /\ pc' = "start" /\ Size > 0
      /\ UNCHANGED <<map, node, head, tail, hand>>
  BY DEF EvictBegin, Begin, list
<1>3. before' = View(s, node, hand, map) /\ Len(s) > 0 /\ Shown = before'
      /\ before'.order = Order(s, node)
  BY <1>1, <1>2, IdleShown
<1>4. Shown' = before'
  BY <1>2 DEF Shown
<1>5. Whole(s)'
  BY <1>1, <1>2 DEF Whole, Linking, Holding
<1>6. Abstract!Cached(before') # {}
  <2>1. 1 \in 1 .. Len(s)
    BY <1>3, ChainLength
  <2>2. Entries(s, node, map)
    BY <1>1 DEF Whole, Holding
  <2>3. Abstract!Cached(before') = {node[s[i]].key : i \in 1 .. Len(s)}
    BY <1>3, <2>2, CachedIs
  <2> QED  BY <2>1, <2>3
<1>7. Starting(s)'
  BY <1>2, <1>3, <1>5, <1>6 DEF Starting, Evicting
<1>8. Types' /\ Phase(s)'
  BY <1>2, <1>7 DEF Types, Op, Phase
<1> QED  BY <1>3, <1>4, <1>8 DEF Shows

(* remove takes the key out of the map first. *)
LEMMA RemoveBeginStep ==
  ASSUME Types, NEW s \in Chains, Phase(s), NEW k \in Keys, RemoveBegin(k)
  PROVE  Types' /\ Phase(s)' /\ Shows
<1>1. pc = "idle" /\ Whole(s)
  BY DEF Phase, RemoveBegin
<1>2. /\ map[k] # None
      /\ op' = [name |-> "remove", key |-> k, value |-> None]
      /\ before' = Contents /\ pc' = "unlink"
      /\ map' = [map EXCEPT ![k] = None] /\ victim' = map[k]
      /\ UNCHANGED <<node, head, tail, hand>>
  BY DEF RemoveBegin, Begin
<1>3. before' = View(s, node, hand, map) /\ Shown = before'
      /\ k \in Abstract!Cached(before')
  BY <1>1, <1>2, IdleShown
<1>4. Shown' = before'
  BY <1>2 DEF Shown
<1>5. /\ Entries(s, node, map) /\ hand \in Elements(s) \cup {None}
      /\ Len(s) <= MaxSize /\ map \in [Keys -> Nodes \cup {None}]
  BY <1>1 DEF Whole, Holding, Types
<1>6. PICK p \in 1 .. Len(s) : s[p] = map[k] /\ node[s[p]].key = k
  BY <1>2, <1>5 DEF Entries
<1>7. map' \in [Keys -> Nodes \cup {None}] /\ map'[k] = None
      /\ Rest' = map' /\ map' = Drop(map, node[s[p]].key)
  BY <1>2, <1>5, <1>6 DEF Rest, Drop
<1>8. Entries(Cut(s, p), node, map')
  BY <1>5, <1>7, CutView
<1>9. Abstract!Unlink(View(s, node, hand, map), k)
        = View(Cut(s, p), node, IF hand = s[p] THEN At(s, p - 1) ELSE hand, map')
  <2>1. Abstract!Unlink(View(s, node, hand, map), node[s[p]].key)
          = View(Cut(s, p), node, IF hand = s[p] THEN At(s, p - 1) ELSE hand,
                 Drop(map, node[s[p]].key))
    BY <1>5, CutView
  <2> QED  BY <1>6, <1>7, <2>1
<1>10. Goal' = Abstract!Unlink(before', k)
  BY <1>2 DEF Goal
<1>11. Removing'
  BY <1>2, <1>3 DEF Removing
<1>12. Linking(s)'
  BY <1>1, <1>2 DEF Whole, Linking
<1>13. Leaving(s, p)'
  BY <1>2, <1>3, <1>5, <1>6, <1>7, <1>8, <1>9, <1>10, <1>11 DEF Leaving
<1>14. Types'
  BY <1>2, <1>7 DEF Types, Op
<1>15. Phase(s)'
  BY <1>2, <1>12, <1>13 DEF Phase, Unlinking
<1> QED  BY <1>3, <1>4, <1>14, <1>15 DEF Shows

-----------------------------------------------------------------------------
(* Inside an operation SieveCache does not move. *)
LEMMA InsideShown ==
  ASSUME pc # "idle", pc' # "idle", UNCHANGED before
  PROVE  Shows
BY DEF Shown, Shows

(* _evict begins where SieveCache says. *)
LEMMA ScanBeginStep ==
  ASSUME Types, NEW s \in Chains, Phase(s), ScanBegin
  PROVE  Types' /\ Phase(s)' /\ Shows
<1>1. pc = "start" /\ Starting(s)
  BY DEF Phase, ScanBegin
<1>2. /\ hand' = IF hand = None THEN tail ELSE hand
      /\ victim' = hand' /\ pc' = "scan"
      /\ UNCHANGED <<map, node, head, tail, op, before>>
  BY DEF ScanBegin
<1>3. /\ Entries(s, node, map) /\ hand \in Elements(s) \cup {None}
      /\ s # << >> /\ before = View(s, node, hand, map)
      /\ tail = At(s, Len(s))
  BY <1>1 DEF Starting, Whole, Holding, Linking
<1>4. Len(s) \in Nat /\ Len(s) # 0
  BY <1>3 DEF Chains
<1>5. /\ before.order = Order(s, node) /\ before.visited = Bits(s, node)
      /\ before.hand = KeyOf(node, hand) /\ before.value = Stored(node, map)
      /\ before = [order |-> Order(s, node), visited |-> before.visited,
                   hand |-> before.hand, value |-> Stored(node, map)]
  BY <1>3 DEF View
<1>6. /\ Len(Order(s, node)) = Len(s)
      /\ \A i \in 1 .. Len(s) : Order(s, node)[i] = node[s[i]].key
      /\ \A i, j \in 1 .. Len(s) : node[s[i]].key = node[s[j]].key => i = j
  BY <1>3, OrderIs
<1> DEFINE st == Abstract!Start(before)
<1>7. st \in 1 .. Len(s) /\ hand' = s[st]
  <2>1. CASE hand = None
    <3>1. before.hand = None
      BY <1>5, <2>1 DEF KeyOf
    <3>2. st = Len(s)
      BY <3>1, <1>5, <1>6 DEF Abstract!Start
    <3> QED  BY <3>2, <2>1, <1>2, <1>3, <1>4 DEF At
  <2>2. CASE hand # None
    <3>1. PICK i \in 1 .. Len(s) : hand = s[i]
      BY <2>2, <1>3 DEF Elements
    <3>2. before.hand = node[s[i]].key /\ before.hand # None
      BY <3>1, <2>2, <1>3, <1>5, ListAssumption DEF KeyOf, Entries
    <3>3. before.order[i] = before.hand /\ i \in 1 .. Len(before.order)
      BY <3>2, <1>5, <1>6
    <3>4. \A a, b \in 1 .. Len(before.order) : before.order[a] = before.order[b] => a = b
      BY <1>5, <1>6
    <3>5. Abstract!Position(before, before.order[i]) = i
      BY <3>3, <3>4, PositionIs
    <3>6. st = i
      BY <3>2, <3>3, <3>5 DEF Abstract!Start
    <3> QED  BY <3>1, <3>6, <2>2, <1>2
  <2> QED  BY <2>1, <2>2
<1> HIDE DEF st
<1>8. before.visited \subseteq Abstract!Cached(before)
  <2>1. Abstract!Cached(before) = {node[s[i]].key : i \in 1 .. Len(s)}
    BY <1>3, <1>5, CachedIs
  <2> QED  BY <2>1, <1>5 DEF Bits, Elements
<1>9. Passed(s, {})
  <2>1. ASSUME NEW i \in 1 .. Len(s)
        PROVE  node[s[i]].visited <=> node[s[i]].key \in before.visited
    <3>1. \A n \in Elements(s) : node[n].key = node[s[i]].key => n = s[i]
      BY <1>6 DEF Elements
    <3> QED  BY <3>1, <1>5 DEF Bits, Elements
  <2> QED  BY <2>1 DEF Passed, Swept
<1>10. {} \in Legs(Len(s), st, st)
  <2>1. (st + 1) .. st = {}
    BY <1>7
  <2> QED  BY <1>7, <2>1 DEF Legs
<1>11. victim' = At(s, st) /\ st \in 0 .. Len(s) /\ hand' \in Elements(s)
  BY <1>2, <1>7 DEF At, Elements
<1>12. Evicting'
  BY <1>1, <1>2 DEF Starting, Evicting, Putting
<1>13. Whole(s)'
  BY <1>1, <1>2, <1>11 DEF Starting, Whole, Holding, Linking
<1>14. Scanning(s)'
  <2>1. Passed(s, {})'
    BY <1>2, <1>9 DEF Passed, Swept
  <2>2. \E q \in 0 .. Len(s) :
          /\ victim' = At(s, q)
          /\ \E P \in Legs(Len(s), st, q) : Passed(s, P)'
    BY <2>1, <1>10, <1>11
  <2>3. st' = st
    BY <1>2 DEF st
  <2> QED  BY <2>2, <2>3, <1>2, <1>5, <1>7, <1>8, <1>12, <1>13 DEF Scanning, st
<1> QED  BY <1>1, <1>2, <1>14, InsideShown DEF Types, Phase

(* A step that leaves keys and values alone. *)
LEMMA SameEntries ==
  ASSUME NEW s \in Chains, NEW nd, NEW new,
         \A n \in Nodes : new[n].key = nd[n].key /\ new[n].value = nd[n].value,
         NEW m \in [Keys -> Nodes \cup {None}]
  PROVE  /\ Order(s, new) = Order(s, nd) /\ Stored(new, m) = Stored(nd, m)
         /\ Entries(s, nd, m) => Entries(s, new, m)
<1>1. \A i \in 1 .. Len(s) : s[i] \in Nodes
  BY DEF Chains
<1>2. Order(s, new) = Order(s, nd)
  BY <1>1 DEF Order
<1>3. Stored(new, m) = Stored(nd, m)
  BY DEF Stored
<1>4. Entries(s, nd, m) => Entries(s, new, m)
  BY <1>1 DEF Entries
<1> QED  BY <1>2, <1>3, <1>4

(* A node that the hand passes loses its bit. *)
LEMMA ScanVisitedStep ==
  ASSUME Types, NEW s \in Chains, Phase(s), ScanVisited
  PROVE  Types' /\ Phase(s)' /\ Shows
<1>1. pc = "scan" /\ Scanning(s)
  BY DEF Phase, ScanVisited
<1>2. /\ victim # None /\ node[victim].visited
      /\ node' = [node EXCEPT ![victim].visited = FALSE]
      /\ victim' = node[victim].prev
      /\ UNCHANGED <<map, head, tail, hand, pc, op, before>>
  BY DEF ScanVisited
<1> DEFINE st == Abstract!Start(before)
           L == Len(s)
<1>3. /\ Whole(s) /\ Evicting
      /\ before = [order |-> Order(s, node), visited |-> before.visited,
                   hand |-> before.hand, value |-> Stored(node, map)]
      /\ before.visited \subseteq Abstract!Cached(before)
      /\ st \in 1 .. L
  BY <1>1 DEF Scanning
<1>a. PICK q \in 0 .. L : /\ victim = At(s, q)
                          /\ \E P \in Legs(L, st, q) : Passed(s, P)
  BY <1>1 DEF Scanning
<1>4. PICK P \in Legs(L, st, q) : victim = At(s, q) /\ Passed(s, P)
  BY <1>a
<1> HIDE DEF st
<1>5. L \in Nat /\ q \in 1 .. L /\ victim = s[q] /\ victim \in Nodes
      /\ \A i \in 1 .. L : s[i] \in Nodes /\ (s[i] = s[q] => i = q)
  BY <1>2, <1>4 DEF At, Chains
<1>6. /\ node[victim] \in NodeType /\ node \in [Nodes -> NodeType]
      /\ map \in [Keys -> Nodes \cup {None}]
  BY <1>5 DEF Types
<1>7. node' \in [Nodes -> NodeType]
      /\ node'[victim] = [node[victim] EXCEPT !.visited = FALSE]
      /\ \A n \in Nodes \ {victim} : node'[n] = node[n]
  BY <1>2, <1>5, <1>6 DEF NodeType
<1>8. ~node'[victim].visited /\ node'[victim].key = node[victim].key
      /\ node'[victim].value = node[victim].value
      /\ node'[victim].prev = node[victim].prev
      /\ node'[victim].next = node[victim].next
  BY <1>6, <1>7 DEF NodeType
<1>9. \A n \in Nodes : /\ node'[n].key = node[n].key /\ node'[n].value = node[n].value
                       /\ node'[n].prev = node[n].prev /\ node'[n].next = node[n].next
  BY <1>7, <1>8
<1>10. /\ Order(s, node') = Order(s, node) /\ Stored(node', map) = Stored(node, map)
       /\ Entries(s, node, map) => Entries(s, node', map)
  BY <1>6, <1>9, SameEntries
<1>11. Elements(s) \subseteq Nodes
  BY <1>5 DEF Elements
<1>12. (Nexts(s, node) => Nexts(s, node')) /\ (Prevs(s, node) => Prevs(s, node'))
  <2>1. \A n \in Elements(s) : node'[n].next = node[n].next /\ node'[n].prev = node[n].prev
    BY <1>9, <1>11
  <2> QED  BY <2>1, SameNexts, SamePrevs
<1>13. Whole(s)'
  BY <1>2, <1>3, <1>10, <1>12 DEF Whole, Holding, Linking
<1>14. victim' = At(s, q - 1) /\ q - 1 \in 0 .. L
  BY <1>2, <1>3, <1>5 DEF Whole, Linking, Prevs
<1>15. q \notin P /\ node[s[q]].key \in before.visited
  BY <1>2, <1>4, <1>5 DEF Passed, Swept
<1>16. P \cup {q} \in Legs(L, st, q - 1)
  <2> HIDE DEF L
  <2>1. CASE q <= st /\ P = (q + 1) .. st
    <3>1. P \cup {q} = ((q - 1) + 1) .. st /\ q - 1 <= st
      BY <2>1, <1>3, <1>5
    <3> QED  BY <3>1 DEF Legs
  <2>2. CASE q >= st /\ P = (1 .. st) \cup ((q + 1) .. L)
    <3>1. q > st
      BY <2>2, <1>3, <1>5, <1>15
    <3>2. P \cup {q} = (1 .. st) \cup (((q - 1) + 1) .. L) /\ q - 1 >= st
      BY <2>2, <3>1, <1>3, <1>5
    <3> QED  BY <3>2 DEF Legs
  <2>3. \/ q <= st /\ P = (q + 1) .. st
        \/ q >= st /\ P = (1 .. st) \cup ((q + 1) .. L)
    BY <1>4 DEF Legs
  <2> QED  BY <2>1, <2>2, <2>3
<1>17. Passed(s, P \cup {q})'
  <2> SUFFICES ASSUME NEW i \in 1 .. L
               PROVE  /\ i \in P \cup {q} => node'[s[i]].key \in before.visited
                      /\ node'[s[i]].visited <=> node'[s[i]].key \in before.visited
                                                  /\ i \notin P \cup {q}
    BY <1>2 DEF Passed, Swept
  <2>1. /\ i \in P => node[s[i]].key \in before.visited
        /\ node[s[i]].visited <=> node[s[i]].key \in before.visited /\ i \notin P
        /\ node'[s[i]].key = node[s[i]].key
    BY <1>4, <1>5, <1>9 DEF Passed, Swept
  <2>2. CASE i = q
    BY <2>1, <2>2, <1>5, <1>8, <1>15
  <2>3. CASE i # q
    <3>1. node'[s[i]] = node[s[i]]
      BY <2>3, <1>5, <1>7
    <3> QED  BY <2>1, <2>3, <3>1
  <2> QED  BY <2>2, <2>3
<1>18. Evicting'
  BY <1>2, <1>3 DEF Evicting, Putting
<1>19. Scanning(s)'
  <2>1. \E r \in 0 .. L :
          /\ victim' = At(s, r)
          /\ \E R \in Legs(L, st, r) : Passed(s, R)'
    BY <1>14, <1>16, <1>17
  <2>2. st' = st
    BY <1>2 DEF st
  <2> QED  BY <2>1, <2>2, <1>2, <1>3, <1>10, <1>13, <1>18 DEF Scanning, st
<1>20. Types'
  BY <1>2, <1>7 DEF Types
<1> QED  BY <1>1, <1>2, <1>19, <1>20, InsideShown DEF Phase

(* A hand past the head has passed every node from its start to the head.  *)
LEMMA PastHead ==
  ASSUME NEW s \in Chains, Scanning(s), victim = None
  PROVE  /\ Len(s) \in Nat /\ Passed(s, 1 .. Abstract!Start(before))
         /\ Abstract!Start(before) \in 1 .. Len(s)
<1> DEFINE st == Abstract!Start(before)
           L == Len(s)
<1>1. PICK q \in 0 .. L : /\ victim = At(s, q)
                          /\ \E P \in Legs(L, st, q) : Passed(s, P)
  BY DEF Scanning
<1>2. st \in 1 .. L /\ L \in Nat
  BY DEF Scanning, Chains
<1> HIDE DEF st
<1>3. q = 0
  <2>1. \A i \in 1 .. L : s[i] # None
    BY ListAssumption DEF Chains
  <2> QED  BY <1>1, <1>2, <2>1 DEF At
<1>4. Legs(L, st, q) = {1 .. st}
  BY <1>2, <1>3 DEF Legs
<1>5. Passed(s, 1 .. st)
  BY <1>1, <1>4
<1> QED  BY <1>2, <1>5 DEF st

(* Past the head the hand goes on from the tail. *)
LEMMA ScanWrapStep ==
  ASSUME Types, NEW s \in Chains, Phase(s), ScanWrap
  PROVE  Types' /\ Phase(s)' /\ Shows
<1>1. pc = "scan" /\ Scanning(s)
  BY DEF Phase, ScanWrap
<1>2. /\ victim = None /\ hand' = tail /\ victim' = tail
      /\ UNCHANGED <<map, node, head, tail, pc, op, before>>
  BY DEF ScanWrap
<1> DEFINE st == Abstract!Start(before)
           L == Len(s)
<1>3. /\ Whole(s) /\ Evicting
      /\ before = [order |-> Order(s, node), visited |-> before.visited,
                   hand |-> before.hand, value |-> Stored(node, map)]
      /\ before.visited \subseteq Abstract!Cached(before)
  BY <1>1 DEF Scanning
<1>4. Passed(s, 1 .. st) /\ st \in 1 .. L /\ L \in Nat
  BY <1>1, <1>2, PastHead
<1> HIDE DEF st
<1>5. tail = At(s, L) /\ L \in 1 .. L /\ tail = s[L] /\ L \in 0 .. L
  BY <1>3, <1>4 DEF Whole, Linking, At
<1>6. hand' \in Elements(s)
  BY <1>2, <1>5 DEF Elements
<1>7. Whole(s)'
  BY <1>2, <1>3, <1>6 DEF Whole, Holding, Linking
<1>8. 1 .. st \in Legs(L, st, L)
  <2>1. (1 .. st) \cup ((L + 1) .. L) = 1 .. st
    BY <1>4
  <2> QED  BY <1>4, <2>1 DEF Legs
<1>9. Evicting'
  BY <1>2, <1>3 DEF Evicting, Putting
<1>10. Scanning(s)'
  <2>1. ASSUME NEW P, P = 1 .. st PROVE Passed(s, P)'
    BY <2>1, <1>2, <1>4 DEF Passed, Swept
  <2>2. \E q \in 0 .. L :
          /\ victim' = At(s, q)
          /\ \E P \in Legs(L, st, q) : Passed(s, P)'
    <3>1. victim' = At(s, L)
      BY <1>2, <1>5
    <3>2. \E P \in Legs(L, st, L) : Passed(s, P)'
      BY <2>1, <1>8
    <3> QED  BY <3>1, <3>2, <1>5, Zenon
  <2>3. st' = st
    BY <1>2 DEF st
  <2> QED  BY <2>2, <2>3, <1>2, <1>3, <1>4, <1>7, <1>9 DEF Scanning, st
<1> QED  BY <1>1, <1>2, <1>10, InsideShown DEF Types, Phase

(* The victim is found. *)
LEMMA ScanFoundStep ==
  ASSUME Types, NEW s \in Chains, Phase(s), ScanFound
  PROVE  Types' /\ Phase(s)' /\ Shows
<1>1. pc = "scan" /\ Scanning(s)
  BY DEF Phase, ScanFound
<1>2. /\ victim # None /\ ~node[victim].visited
      /\ hand' = node[victim].prev /\ pc' = "unlink"
      /\ UNCHANGED <<map, node, head, tail, op, victim, before>>
  BY DEF ScanFound
<1> DEFINE st == Abstract!Start(before)
           L == Len(s)
<1>3. /\ Whole(s) /\ Evicting
      /\ before = [order |-> Order(s, node), visited |-> before.visited,
                   hand |-> before.hand, value |-> Stored(node, map)]
      /\ before.visited \subseteq Abstract!Cached(before)
      /\ st \in 1 .. L
  BY <1>1 DEF Scanning
<1>a. PICK q \in 0 .. L : /\ victim = At(s, q)
                          /\ \E P \in Legs(L, st, q) : Passed(s, P)
  BY <1>1 DEF Scanning
<1>4. PICK P \in Legs(L, st, q) : victim = At(s, q) /\ Passed(s, P)
  BY <1>a
<1>5. L \in Nat /\ q \in 1 .. L /\ victim = s[q] /\ ~node[s[q]].visited
  BY <1>2, <1>4 DEF At, Chains
<1>6. /\ map \in [Keys -> Nodes \cup {None}] /\ Entries(s, node, map)
      /\ hand \in Elements(s) \cup {None} /\ L <= MaxSize
  BY <1>3 DEF Types, Whole, Holding
<1> DEFINE k == node[s[q]].key
           rest == Drop(map, k)
<1>7. Abstract!Evict(before) = View(Cut(s, q), node, At(s, q - 1), rest)
  <2>1. Swept(s, node, before.visited, P)
    BY <1>4 DEF Passed
  <2>2. SameBut(before, Order(s, node), Stored(node, map))
    BY <1>3 DEF SameBut
  <2> QED  BY <2>1, <2>2, <1>3, <1>5, <1>6, EvictView
<1>8. Entries(Cut(s, q), node, rest)
  BY <1>5, <1>6, CutView
<1>9. hand' = At(s, q - 1)
  BY <1>2, <1>3, <1>5 DEF Whole, Linking, Prevs
<1>10. hand' \in Elements(s) \cup {None}
  BY <1>9 DEF At, Elements
<1>11. k \in Keys /\ map[k] = victim
  BY <1>5, <1>6 DEF Entries
<1>12. Evicting' /\ op.name # "remove"
  BY <1>2, <1>3 DEF Evicting, Putting
<1>13. Goal' = Abstract!Evict(before) /\ Rest' = rest
  BY <1>2, <1>5, <1>12 DEF Goal, Rest
<1>14. Linking(s)'
  BY <1>2, <1>3 DEF Whole, Linking
<1>15. Leaving(s, q)'
  <2>1. victim' = s[q] /\ node'[victim'].key = k /\ map'[k] = victim' /\ node' = node
    BY <1>2, <1>5, <1>11
  <2>2. Goal' = View(Cut(s, q), node',
                     IF hand' = victim' THEN At(s, q - 1) ELSE hand', Rest')
    BY <1>7, <1>9, <1>13, <2>1
  <2>3. Entries(Cut(s, q), node', Rest')
    BY <1>8, <1>13, <2>1
  <2> QED  BY <2>1, <2>2, <2>3, <1>6, <1>10, <1>11, <1>12 DEF Leaving
<1>16. Phase(s)'
  BY <1>2, <1>5, <1>14, <1>15 DEF Phase, Unlinking
<1> QED  BY <1>1, <1>2, <1>16, InsideShown DEF Types

-----------------------------------------------------------------------------
(* The ends of a list without its node at p. *)
LEMMA CutEnds ==
  ASSUME NEW s \in Chains, NEW p \in 1 .. Len(s)
  PROVE  /\ At(Cut(s, p), 1) = IF p = 1 THEN At(s, 2) ELSE At(s, 1)
         /\ At(Cut(s, p), Len(Cut(s, p)))
              = IF p = Len(s) THEN At(s, p - 1) ELSE At(s, Len(s))
<1> DEFINE u == Cut(s, p)
           L == Len(s)
<1>1. /\ u \in Chains /\ Len(u) = L - 1 /\ L \in Nat /\ p \in 1 .. L
      /\ \A i \in 1 .. L - 1 : u[i] = IF i < p THEN s[i] ELSE s[i + 1]
  BY CutIs DEF Chains
<1> HIDE DEF u, L
<1>2. At(u, 1) = IF p = 1 THEN At(s, 2) ELSE At(s, 1)
  <2>1. CASE L = 1
    BY <2>1, <1>1 DEF At, L
  <2>2. CASE L > 1
    <3>1. 1 \in 1 .. L - 1 /\ 2 \in 1 .. L /\ 1 \in 1 .. L
      BY <2>2, <1>1
    <3> QED  BY <3>1, <1>1 DEF At, L
  <2> QED  BY <2>1, <2>2, <1>1
<1>3. At(u, L - 1) = IF p = L THEN At(s, p - 1) ELSE At(s, L)
  <2>1. CASE L = 1
    BY <2>1, <1>1 DEF At, L
  <2>2. CASE L > 1
    <3>1. L - 1 \in 1 .. L - 1 /\ L - 1 \in 1 .. L /\ L \in 1 .. L /\ (L - 1) + 1 = L
      BY <2>2, <1>1
    <3>2. At(u, L - 1) = IF L - 1 < p THEN s[L - 1] ELSE s[L]
      BY <3>1, <1>1 DEF At
    <3>3. CASE p = L
      BY <3>1, <3>2, <3>3, <1>1 DEF At, L
    <3>4. CASE p # L
      <4>1. ~(L - 1 < p)
        BY <3>4, <1>1
      <4> QED  BY <3>1, <3>2, <3>4, <4>1 DEF At, L
    <3> QED  BY <3>3, <3>4
  <2> QED  BY <2>1, <2>2, <1>1
<1> QED  BY <1>1, <1>2, <1>3 DEF u, L

(* The neighbour towards the head gets the next link of the victim, *)
LEMMA CutNexts ==
  ASSUME NEW s \in Chains, NEW p \in 1 .. Len(s), NEW nd, NEW new, Nexts(s, nd),
         \A i \in 1 .. Len(s) : i # p =>
           new[s[i]].next = IF i = p - 1 THEN At(s, p + 1) ELSE nd[s[i]].next
  PROVE  Nexts(Cut(s, p), new)
<1> DEFINE u == Cut(s, p)
           L == Len(s)
<1>1. /\ Len(u) = L - 1 /\ L \in Nat /\ p \in 1 .. L
      /\ \A i \in 1 .. L - 1 : u[i] = IF i < p THEN s[i] ELSE s[i + 1]
  BY CutIs DEF Chains
<1>2. \A i \in 1 .. L : i # p =>
        new[s[i]].next = IF i = p - 1 THEN At(s, p + 1) ELSE At(s, i + 1)
  BY DEF Nexts
<1> HIDE DEF u
<1> SUFFICES ASSUME NEW j \in 1 .. L - 1 PROVE new[u[j]].next = At(u, j + 1)
  BY <1>1 DEF Nexts, u
<1>3. CASE j < p - 1
  <2>1. j \in 1 .. L /\ j # p /\ j + 1 \in 1 .. L - 1 /\ j + 1 \in 1 .. L /\ j + 1 < p
    BY <1>3, <1>1
  <2> QED  BY <2>1, <1>1, <1>2, <1>3 DEF At
<1>4. CASE j = p - 1
  <2>1. j \in 1 .. L /\ j # p /\ j < p /\ j + 1 = p
    BY <1>4, <1>1
  <2>2. new[u[j]].next = At(s, p + 1)
    BY <2>1, <1>1, <1>2, <1>4
  <2>3. At(u, p) = At(s, p + 1)
    <3>1. CASE p = L
      BY <3>1, <1>1 DEF At
    <3>2. CASE p # L
      <4>0. L \in Nat /\ p \in 1 .. L
        BY <1>1
      <4>1. p \in 1 .. L - 1 /\ p + 1 \in 1 .. L /\ ~(p < p)
        BY ONLY <3>2, <4>0
      <4> QED  BY <4>1, <1>1 DEF At
    <3> QED  BY <3>1, <3>2
  <2> QED  BY <2>1, <2>2, <2>3
<1>5. CASE j >= p
  <2>1. j + 1 \in 1 .. L /\ j + 1 # p /\ j + 1 # p - 1 /\ ~(j < p)
    BY <1>5, <1>1
  <2>2. new[u[j]].next = At(s, (j + 1) + 1)
    BY <2>1, <1>1, <1>2
  <2>3. At(u, j + 1) = At(s, (j + 1) + 1)
    <3>1. CASE j = L - 1
      BY <3>1, <1>1 DEF At
    <3>2. CASE j # L - 1
      <4>1. j + 1 \in 1 .. L - 1 /\ (j + 1) + 1 \in 1 .. L /\ ~(j + 1 < p)
        BY <3>2, <1>1, <1>5
      <4> QED  BY <4>1, <1>1 DEF At
    <3> QED  BY <3>1, <3>2
  <2> QED  BY <2>2, <2>3
<1> QED  BY <1>1, <1>3, <1>4, <1>5

(* and the one towards the tail its prev link. *)
LEMMA CutPrevs ==
  ASSUME NEW s \in Chains, NEW p \in 1 .. Len(s), NEW nd, NEW new, Prevs(s, nd),
         \A i \in 1 .. Len(s) : i # p =>
           new[s[i]].prev = IF i = p + 1 THEN At(s, p - 1) ELSE nd[s[i]].prev
  PROVE  Prevs(Cut(s, p), new)
<1> DEFINE u == Cut(s, p)
           L == Len(s)
<1>1. /\ Len(u) = L - 1 /\ L \in Nat /\ p \in 1 .. L
      /\ \A i \in 1 .. L - 1 : u[i] = IF i < p THEN s[i] ELSE s[i + 1]
  BY CutIs DEF Chains
<1>2. \A i \in 1 .. L : i # p =>
        new[s[i]].prev = IF i = p + 1 THEN At(s, p - 1) ELSE At(s, i - 1)
  BY DEF Prevs
<1> HIDE DEF u
<1> SUFFICES ASSUME NEW j \in 1 .. L - 1 PROVE new[u[j]].prev = At(u, j - 1)
  BY <1>1 DEF Prevs, u
<1>a. \A i \in 0 .. L - 1 : i < p => At(u, i) = At(s, i)
  <2> SUFFICES ASSUME NEW i \in 0 .. L - 1, i < p PROVE At(u, i) = At(s, i)
    OBVIOUS
  <2>1. CASE i = 0
    BY <2>1, <1>1 DEF At
  <2>2. CASE i # 0
    <3>1. i \in 1 .. L - 1 /\ i \in 1 .. L
      BY <2>2, <1>1
    <3> QED  BY <3>1, <1>1 DEF At
  <2> QED  BY <2>1, <2>2
<1>3. CASE j < p
  <2>1. j \in 1 .. L /\ j # p /\ j # p + 1 /\ j - 1 \in 0 .. L - 1 /\ j - 1 < p
    BY <1>3, <1>1
  <2> QED  BY <2>1, <1>a, <1>1, <1>2, <1>3
<1>4. CASE j = p
  <2>1. j + 1 \in 1 .. L /\ j + 1 # p /\ ~(j < p) /\ j - 1 \in 0 .. L - 1 /\ j - 1 < p
    BY <1>4, <1>1
  <2>2. new[u[j]].prev = At(s, p - 1)
    BY <2>1, <1>1, <1>2, <1>4
  <2> QED  BY <2>1, <2>2, <1>a, <1>4
<1>5. CASE j > p
  <2>1. j + 1 \in 1 .. L /\ j + 1 # p /\ j + 1 # p + 1 /\ ~(j < p) /\ (j + 1) - 1 = j
    BY <1>5, <1>1
  <2>2. new[u[j]].prev = At(s, j)
    BY <2>1, <1>1, <1>2
  <2>3. j - 1 \in 1 .. L - 1 /\ ~(j - 1 < p) /\ (j - 1) + 1 = j /\ j \in 1 .. L
    BY <1>5, <1>1
  <2> QED  BY <2>2, <2>3, <1>1 DEF At
<1> QED  BY <1>1, <1>3, <1>4, <1>5

(* Links do not matter to what a victim leaves. *)
LEMMA LeavingKept ==
  ASSUME Types, NEW s \in Chains, NEW p \in 1 .. Len(s), Leaving(s, p),
         SameData(node, node'), UNCHANGED <<map, hand, op, victim, before>>
  PROVE  Leaving(s, p)'
<1> DEFINE u == Cut(s, p)
           g == IF hand = victim THEN At(s, p - 1) ELSE hand
           rest == Drop(map, node[victim].key)
<1>1. /\ victim = s[p] /\ node[victim].key \in Keys
      /\ Goal = View(u, node, g, rest)
      /\ hand \in Elements(s) \cup {None} /\ Len(s) <= MaxSize
      /\ Entries(u, node, rest)
      /\ \/ Evicting /\ map[node[victim].key] = victim
         \/ Removing /\ map[node[victim].key] = None
  BY DEF Leaving, Rest
<1>2. u \in Chains /\ \A i \in 1 .. Len(s) : s[i] \in Nodes
  BY CutIs DEF Chains
<1>3. g \in Nodes \cup {None}
  BY <1>1, <1>2 DEF At, Elements
<1>4. rest \in [Keys -> Nodes \cup {None}]
  BY <1>1 DEF Drop, Types
<1>5. victim \in Nodes /\ node'[victim].key = node[victim].key
  BY <1>1, <1>2 DEF SameData
<1> HIDE DEF u, g
<1>6. View(u, node', g, rest) = View(u, node, g, rest)
  BY <1>2, <1>3, <1>4, SameView
<1>7. Entries(u, node', rest)
  BY <1>1, <1>2, <1>3, <1>4, SameView
<1>8. Rest' = rest /\ Goal' = Goal
  BY <1>5 DEF Rest, Goal
<1>9. (Evicting => Evicting') /\ (Removing => Removing')
  BY DEF Evicting, Removing, Putting
<1> HIDE DEF rest
<1>10. Goal' = View(u, node', g, Rest') /\ Entries(u, node', Rest')
  BY <1>1, <1>6, <1>7, <1>8
<1>11. \/ Evicting' /\ map'[node'[victim'].key] = victim'
       \/ Removing' /\ map'[node'[victim'].key] = None
  BY <1>1, <1>5, <1>9
<1> QED  BY <1>1, <1>5, <1>10, <1>11 DEF Leaving, u, g

(* A link of one node is set. *)
LEMMA SetNext ==
  ASSUME NEW nd \in [Nodes -> NodeType], NEW n \in Nodes, NEW x \in Nodes \cup {None},
         NEW new, new = [nd EXCEPT ![n].next = x]
  PROVE  /\ new \in [Nodes -> NodeType] /\ SameData(nd, new)
         /\ \A m \in Nodes : new[m].prev = nd[m].prev
         /\ \A m \in Nodes : new[m].next = IF m = n THEN x ELSE nd[m].next
<1>1. nd[n] \in NodeType
  OBVIOUS
<1>2. [nd[n] EXCEPT !.next = x] \in NodeType
  BY <1>1 DEF NodeType
<1>3. new \in [Nodes -> NodeType] /\ new[n] = [nd[n] EXCEPT !.next = x]
      /\ \A m \in Nodes \ {n} : new[m] = nd[m]
  BY <1>2
<1>4. /\ new[n].key = nd[n].key /\ new[n].value = nd[n].value
      /\ new[n].visited = nd[n].visited /\ new[n].prev = nd[n].prev
      /\ new[n].next = x
  BY <1>1, <1>3 DEF NodeType
<1> QED  BY <1>3, <1>4 DEF SameData

LEMMA SetPrev ==
  ASSUME NEW nd \in [Nodes -> NodeType], NEW n \in Nodes, NEW x \in Nodes \cup {None},
         NEW new, new = [nd EXCEPT ![n].prev = x]
  PROVE  /\ new \in [Nodes -> NodeType] /\ SameData(nd, new)
         /\ \A m \in Nodes : new[m].next = nd[m].next
         /\ \A m \in Nodes : new[m].prev = IF m = n THEN x ELSE nd[m].prev
<1>1. nd[n] \in NodeType
  OBVIOUS
<1>2. [nd[n] EXCEPT !.prev = x] \in NodeType
  BY <1>1 DEF NodeType
<1>3. new \in [Nodes -> NodeType] /\ new[n] = [nd[n] EXCEPT !.prev = x]
      /\ \A m \in Nodes \ {n} : new[m] = nd[m]
  BY <1>2
<1>4. /\ new[n].key = nd[n].key /\ new[n].value = nd[n].value
      /\ new[n].visited = nd[n].visited /\ new[n].next = nd[n].next
      /\ new[n].prev = x
  BY <1>1, <1>3 DEF NodeType
<1> QED  BY <1>3, <1>4 DEF SameData

(* _remove, the neighbour towards the head. *)
LEMMA UnlinkPrevStep ==
  ASSUME Types, NEW s \in Chains, Phase(s), UnlinkPrev
  PROVE  Types' /\ Phase(s)' /\ Shows
<1>1. pc = "unlink" /\ \E p \in 1 .. Len(s) : Unlinking(s, p)
  BY DEF Phase, UnlinkPrev
<1>2. PICK p \in 1 .. Len(s) : Leaving(s, p) /\ Linking(s)
  BY <1>1 DEF Unlinking
<1>3. /\ pc' = "unlinkNext"
      /\ UNCHANGED <<map, tail, hand, op, victim, before>>
      /\ \/ /\ node[victim].prev # None
            /\ node' = [node EXCEPT ![node[victim].prev].next = node[victim].next]
            /\ head' = head
         \/ /\ node[victim].prev = None
            /\ head' = node[victim].next
            /\ node' = node
  BY DEF UnlinkPrev
<1>4. /\ victim = s[p] /\ Len(s) \in Nat /\ p \in 1 .. Len(s)
      /\ \A i \in 1 .. Len(s) : s[i] \in Nodes /\ s[i] # None
      /\ \A i, j \in 1 .. Len(s) : s[i] = s[j] => i = j
  BY <1>2, ListAssumption DEF Leaving, Chains
<1>5. /\ head = At(s, 1) /\ Nexts(s, node) /\ tail = At(s, Len(s)) /\ Prevs(s, node)
      /\ node[victim].prev = At(s, p - 1) /\ node[victim].next = At(s, p + 1)
  BY <1>2, <1>4 DEF Linking, Nexts, Prevs
<1>6. node \in [Nodes -> NodeType]
  BY DEF Types
<1>7. /\ node' \in [Nodes -> NodeType] /\ SameData(node, node')
      /\ \A m \in Nodes : node'[m].prev = node[m].prev
      /\ \A i \in 1 .. Len(s) : node'[s[i]].next
           = IF i = p - 1 THEN At(s, p + 1) ELSE node[s[i]].next
      /\ head' = At(Cut(s, p), 1)
  <2>0. At(Cut(s, p), 1) = IF p = 1 THEN At(s, 2) ELSE At(s, 1)
    BY CutEnds
  <2>1. CASE node[victim].prev # None
    <3>1. p - 1 \in 1 .. Len(s) /\ node[victim].prev = s[p - 1]
      BY <2>1, <1>5 DEF At
    <3>2. At(s, p + 1) \in Nodes \cup {None} /\ s[p - 1] \in Nodes
      BY <3>1, <1>4 DEF At
    <3>3. node' = [node EXCEPT ![s[p - 1]].next = At(s, p + 1)] /\ head' = head
      BY <2>1, <3>1, <1>3, <1>5
    <3>4. /\ node' \in [Nodes -> NodeType] /\ SameData(node, node')
          /\ \A m \in Nodes : node'[m].prev = node[m].prev
          /\ \A m \in Nodes : node'[m].next
               = IF m = s[p - 1] THEN At(s, p + 1) ELSE node[m].next
      <4>1. node' \in [Nodes -> NodeType]
        BY ONLY <3>2, <3>3, <1>6, SetNext
      <4>2. SameData(node, node')
        BY ONLY <3>2, <3>3, <1>6, SetNext DEF SameData
      <4>3. \A m \in Nodes : node'[m].prev = node[m].prev
        BY ONLY <3>2, <3>3, <1>6, SetNext
      <4>4. \A m \in Nodes : node'[m].next
              = IF m = s[p - 1] THEN At(s, p + 1) ELSE node[m].next
        BY ONLY <3>2, <3>3, <1>6, SetNext
      <4> QED  BY <4>1, <4>2, <4>3, <4>4
    <3>5. p # 1
      BY <3>1, <1>4
    <3> QED  BY <2>0, <3>1, <3>3, <3>4, <3>5, <1>4, <1>5
  <2>2. CASE node[victim].prev = None
    <3>1. p - 1 \notin 1 .. Len(s)
      BY <2>2, <1>4, <1>5 DEF At
    <3>2. p = 1
      BY <3>1, <1>4
    <3>3. node' = node /\ head' = At(s, 2)
      BY <2>2, <3>2, <1>3, <1>5
    <3>4. SameData(node, node')
      BY <3>3 DEF SameData
    <3> QED  BY <2>0, <3>1, <3>2, <3>3, <3>4, <1>6
  <2> QED  BY <2>1, <2>2
<1>8. Leaving(s, p)'
  BY <1>2, <1>3, <1>7, LeavingKept
<1>9. Nexts(Cut(s, p), node')
  BY <1>5, <1>7, CutNexts
<1>10. Prevs(s, node')
  <2>1. \A n \in Elements(s) : node'[n].prev = node[n].prev
    BY <1>4, <1>7 DEF Elements
  <2> QED  BY <2>1, <1>5, SamePrevs
<1>11. node'[victim].next = At(s, p + 1)
  BY <1>4, <1>5, <1>7
<1>12. HalfUnlinked(s, p)'
  BY <1>3, <1>5, <1>7, <1>8, <1>9, <1>10, <1>11 DEF HalfUnlinked
<1>13. Types' /\ Phase(s)'
  BY <1>3, <1>7, <1>12 DEF Types, Phase
<1> QED  BY <1>1, <1>3, <1>13, InsideShown

(* _remove, the neighbour towards the tail. *)
LEMMA UnlinkNextStep ==
  ASSUME Types, NEW s \in Chains, Phase(s), UnlinkNext
  PROVE  Types' /\ Phase(s)' /\ Shows
<1>1. pc = "unlinkNext" /\ \E p \in 1 .. Len(s) : HalfUnlinked(s, p)
  BY DEF Phase, UnlinkNext
<1>2. PICK p \in 1 .. Len(s) : HalfUnlinked(s, p)
  BY <1>1
<1> DEFINE u == Cut(s, p)
<1>3. /\ pc' = "unhand"
      /\ UNCHANGED <<map, head, hand, op, victim, before>>
      /\ \/ /\ node[victim].next # None
            /\ node' = [node EXCEPT ![node[victim].next].prev = node[victim].prev]
            /\ tail' = tail
         \/ /\ node[victim].next = None
            /\ tail' = node[victim].prev
            /\ node' = node
  BY DEF UnlinkNext
<1>4. /\ victim = s[p] /\ Len(s) \in Nat /\ p \in 1 .. Len(s)
      /\ \A i \in 1 .. Len(s) : s[i] \in Nodes /\ s[i] # None
      /\ \A i, j \in 1 .. Len(s) : s[i] = s[j] => i = j
  BY <1>2, ListAssumption DEF HalfUnlinked, Leaving, Chains
<1>5. /\ head = At(u, 1) /\ Nexts(u, node) /\ tail = At(s, Len(s)) /\ Prevs(s, node)
      /\ node[victim].prev = At(s, p - 1) /\ node[victim].next = At(s, p + 1)
  BY <1>2, <1>4 DEF HalfUnlinked, Prevs
<1>6. node \in [Nodes -> NodeType] /\ u \in Chains /\ Elements(u) \subseteq Nodes
  <2>1. u \in Chains
    BY CutIs
  <2> QED  BY <2>1 DEF Types, Elements, Chains
<1> HIDE DEF u
<1>7. /\ node' \in [Nodes -> NodeType] /\ SameData(node, node')
      /\ \A m \in Nodes : node'[m].next = node[m].next
      /\ \A i \in 1 .. Len(s) : node'[s[i]].prev
           = IF i = p + 1 THEN At(s, p - 1) ELSE node[s[i]].prev
      /\ tail' = At(u, Len(u))
  <2>0. At(u, Len(u)) = IF p = Len(s) THEN At(s, p - 1) ELSE At(s, Len(s))
    BY CutEnds DEF u
  <2>1. CASE node[victim].next # None
    <3>1. p + 1 \in 1 .. Len(s) /\ node[victim].next = s[p + 1]
      BY <2>1, <1>5 DEF At
    <3>2. At(s, p - 1) \in Nodes \cup {None} /\ s[p + 1] \in Nodes
      BY <3>1, <1>4 DEF At
    <3>3. node' = [node EXCEPT ![s[p + 1]].prev = At(s, p - 1)] /\ tail' = tail
      BY <2>1, <3>1, <1>3, <1>5
    <3>4. /\ node' \in [Nodes -> NodeType] /\ SameData(node, node')
          /\ \A m \in Nodes : node'[m].next = node[m].next
          /\ \A m \in Nodes : node'[m].prev
               = IF m = s[p + 1] THEN At(s, p - 1) ELSE node[m].prev
      <4>1. node' \in [Nodes -> NodeType]
        BY ONLY <3>2, <3>3, <1>6, SetPrev
      <4>2. SameData(node, node')
        BY ONLY <3>2, <3>3, <1>6, SetPrev DEF SameData
      <4>3. \A m \in Nodes : node'[m].next = node[m].next
        BY ONLY <3>2, <3>3, <1>6, SetPrev
      <4>4. \A m \in Nodes : node'[m].prev
              = IF m = s[p + 1] THEN At(s, p - 1) ELSE node[m].prev
        BY ONLY <3>2, <3>3, <1>6, SetPrev
      <4> QED  BY <4>1, <4>2, <4>3, <4>4
    <3>5. p # Len(s)
      BY <3>1, <1>4
    <3> QED  BY <2>0, <3>1, <3>3, <3>4, <3>5, <1>4, <1>5
  <2>2. CASE node[victim].next = None
    <3>1. p + 1 \notin 1 .. Len(s)
      BY <2>2, <1>4, <1>5 DEF At
    <3>2. p = Len(s)
      BY <3>1, <1>4
    <3>3. node' = node /\ tail' = At(s, p - 1)
      BY <2>2, <3>2, <1>3, <1>5
    <3>4. SameData(node, node')
      BY <3>3 DEF SameData
    <3> QED  BY <2>0, <3>1, <3>2, <3>3, <3>4, <1>6
  <2> QED  BY <2>1, <2>2
<1>8. Leaving(s, p)'
  BY <1>2, <1>3, <1>7, LeavingKept DEF HalfUnlinked
<1>9. Prevs(u, node')
  BY <1>5, <1>7, CutPrevs DEF u
<1>10. Nexts(u, node')
  <2>1. \A n \in Elements(u) : node'[n].next = node[n].next
    BY <1>6, <1>7
  <2> QED  BY <2>1, <1>5, <1>6, SameNexts
<1>11. node'[victim].prev = At(s, p - 1)
  BY <1>4, <1>5, <1>7
<1>12. Unlinked(s, p)'
  BY <1>3, <1>5, <1>7, <1>8, <1>9, <1>10, <1>11 DEF Unlinked, Linking, u
<1>13. Types' /\ Phase(s)'
  BY <1>3, <1>7, <1>12 DEF Types, Phase
<1> QED  BY <1>1, <1>3, <1>13, InsideShown

(* The links of an unlinked node are cleared. *)
LEMMA ClearLinks ==
  ASSUME NEW nd \in [Nodes -> NodeType], NEW n \in Nodes,
         NEW new, new = [nd EXCEPT ![n].prev = None, ![n].next = None]
  PROVE  /\ new \in [Nodes -> NodeType] /\ SameData(nd, new)
         /\ \A m \in Nodes \ {n} : new[m] = nd[m]
<1> DEFINE r == [[nd[n] EXCEPT !.prev = None] EXCEPT !.next = None]
<1>1. nd[n] \in NodeType
  OBVIOUS
<1>2. r \in NodeType /\ r.key = nd[n].key /\ r.value = nd[n].value
      /\ r.visited = nd[n].visited
  BY <1>1 DEF NodeType
<1>3. new[n] = r /\ \A m \in Nodes \ {n} : new[m] = nd[m]
  OBVIOUS
<1>4. new \in [Nodes -> NodeType]
  <2>1. new = [m \in Nodes |-> new[m]]
    OBVIOUS
  <2> HIDE DEF r
  <2> QED  BY ONLY <2>1, <1>2, <1>3, nd \in [Nodes -> NodeType], n \in Nodes
<1> HIDE DEF r
<1> QED  BY <1>2, <1>3, <1>4 DEF SameData

(* _remove, the hand and the links of the victim: remove is done. *)
LEMMA UnhandStep ==
  ASSUME Types, NEW s \in Chains, Phase(s), Unhand
  PROVE  Types' /\ (\E t \in Chains : Phase(t)') /\ Shows
<1>1. pc = "unhand" /\ \E p \in 1 .. Len(s) : Unlinked(s, p)
  BY DEF Phase, Unhand
<1>2. PICK p \in 1 .. Len(s) : Leaving(s, p) /\ Linking(Cut(s, p))
  BY <1>1 DEF Unlinked
<1>a. node[victim].prev = At(s, p - 1)
  <2>1. PICK q \in 1 .. Len(s) : Unlinked(s, q)
    BY <1>1
  <2>2. q = p
    BY <2>1, <1>2 DEF Unlinked, Leaving, Chains
  <2> QED  BY <2>1, <2>2 DEF Unlinked
<1> DEFINE u == Cut(s, p)
           k == node[victim].key
<1>3. /\ hand' = IF hand = victim THEN At(s, p - 1) ELSE hand
      /\ node' = [node EXCEPT ![victim].prev = None, ![victim].next = None]
      /\ UNCHANGED <<map, head, tail>>
  BY <1>a DEF Unhand
<1>4. /\ victim = s[p] /\ Len(s) \in Nat
      /\ \A i \in 1 .. Len(s) : s[i] \in Nodes
      /\ \A i, j \in 1 .. Len(s) : s[i] = s[j] => i = j
  BY <1>2 DEF Leaving, Chains
<1>5. /\ u \in Chains /\ Elements(u) = Elements(s) \ {victim}
      /\ Len(u) = Len(s) - 1 /\ Elements(u) \subseteq Nodes
  <2>1. /\ Cut(s, p) \in Chains /\ Len(Cut(s, p)) = Len(s) - 1
        /\ Elements(Cut(s, p)) = Elements(s) \ {s[p]}
    BY CutIs
  <2>2. Elements(s) \subseteq Nodes
    BY <1>4 DEF Elements
  <2> QED  BY <2>1, <2>2, <1>4
<1>6. /\ k \in Keys /\ Goal = View(u, node, hand', Rest)
      /\ hand \in Elements(s) \cup {None} /\ Len(s) <= MaxSize
      /\ Entries(u, node, Rest)
      /\ \/ Evicting /\ map[k] = victim
         \/ Removing /\ map[k] = None
  BY <1>2, <1>3 DEF Leaving
<1>7. Linking(u)
  BY <1>2
<1> HIDE DEF u
<1>8. hand' \in Elements(u) \cup {None} /\ hand' # victim
  <2>1. At(s, p - 1) \in Elements(s) \cup {None} /\ At(s, p - 1) # victim
    <3>1. victim # None
      BY <1>4, ListAssumption
    <3>2. p - 1 \in 1 .. Len(s) => s[p - 1] # victim
      BY <1>4
    <3> QED  BY <3>1, <3>2 DEF At, Elements
  <2> QED  BY <2>1, <1>3, <1>4, <1>5, <1>6, ListAssumption
<1>9. /\ node \in [Nodes -> NodeType] /\ map \in [Keys -> Nodes \cup {None}]
      /\ victim \in Nodes
  BY <1>4 DEF Types
<1>10. node' \in [Nodes -> NodeType] /\ SameData(node, node')
       /\ \A m \in Nodes \ {victim} : node'[m] = node[m]
  <2>1. node' \in [Nodes -> NodeType]
    BY ONLY <1>3, <1>9, ClearLinks
  <2>2. SameData(node, node')
    BY ONLY <1>3, <1>9, ClearLinks DEF SameData
  <2>3. \A m \in Nodes \ {victim} : node'[m] = node[m]
    BY ONLY <1>3, <1>9, ClearLinks
  <2> QED  BY <2>1, <2>2, <2>3
<1>11. Rest \in [Keys -> Nodes \cup {None}]
  BY <1>6, <1>9 DEF Rest, Drop
<1>12. View(u, node', hand', Rest) = Goal /\ Entries(u, node', Rest)
  <2>1. hand' \in Nodes \cup {None}
    BY <1>5, <1>8
  <2>2. View(u, node', hand', Rest) = View(u, node, hand', Rest)
    BY <2>1, <1>5, <1>10, <1>11, SameView
  <2>3. Entries(u, node', Rest)
    BY <2>1, <1>5, <1>6, <1>10, <1>11, SameView
  <2> QED  BY <2>2, <2>3, <1>6
<1>13. Linking(u)'
  <2>1. \A n \in Elements(u) : node'[n] = node[n]
    BY <1>5, <1>10
  <2>2. Nexts(u, node')
    BY <2>1, <1>5, <1>7, SameNexts DEF Linking
  <2>3. Prevs(u, node')
    BY <2>1, <1>5, <1>7, SamePrevs DEF Linking
  <2> QED  BY <2>2, <2>3, <1>3, <1>7 DEF Linking
<1>14. CASE op.name = "remove"
  <2>1. pc' = "idle" /\ op' = NoOp
    BY <1>14 DEF Unhand, Return
  <2>2. Removing /\ map[k] = None
    BY <1>6, <1>14 DEF Evicting, Putting
  <2>3. Rest = map
    BY <2>2, <1>6, <1>9 DEF Rest, Drop
  <2>4. Whole(u)'
    <3>1. Entries(u, node', map)
      BY <2>3, <1>12
    <3>2. Len(u) <= MaxSize
      BY <1>4, <1>5, <1>6, ListAssumption
    <3>3. UNCHANGED map
      BY <1>3
    <3>4. Holding(u)'
      BY <3>1, <3>2, <3>3, <1>8 DEF Holding
    <3> QED  BY <3>4, <1>13 DEF Whole
  <2>5. Shown' = View(u, node', hand', map')
    BY <2>1, <2>4, <1>5, NextShown
  <2>6. Shown = before
    BY <1>1 DEF Shown
  <2>7. Shown' = Abstract!Unlink(Shown, op.key)
    BY <2>3, <2>5, <2>6, <1>3, <1>12, <1>14 DEF Goal
  <2>8. Shows
    BY <2>2, <2>6, <2>7 DEF Removing, Shows
  <2>9. Types'
    BY <2>1, <1>3, <1>9, <1>10 DEF Types, NoOp, Op
  <2> QED  BY <2>1, <2>4, <2>8, <2>9, <1>5 DEF Phase
<1>15. CASE op.name # "remove"
  <2>1. pc' = "forget" /\ UNCHANGED <<op, victim, before>>
    BY <1>15 DEF Unhand
  <2>2. Evicting /\ map[k] = victim
    BY <1>6, <1>15 DEF Removing
  <2>3. Evicting'
    BY <2>1, <2>2, <1>3 DEF Evicting, Putting
  <2>4. node'[victim'].key = k
    BY <2>1, <1>9, <1>10 DEF SameData
  <2>5. Rest' = Rest /\ Goal' = Goal
    BY <2>1, <2>4, <1>3 DEF Rest, Goal
  <2>6. hand' \in Elements(s) \cup {None}
    BY <1>5, <1>8
  <2>7. Leaving(s, p)'
    BY <2>1, <2>2, <2>3, <2>4, <2>5, <2>6, <1>3, <1>4, <1>6, <1>8, <1>12
    DEF Leaving, u
  <2>8. Forgetting(s, p)'
    BY <2>1, <2>3, <2>7, <1>8, <1>13 DEF Forgetting, u
  <2>9. Types' /\ Phase(s)'
    BY <2>1, <2>8, <1>3, <1>9, <1>10 DEF Types, Phase
  <2> QED  BY <2>1, <2>9, <1>1, InsideShown
<1> QED  BY <1>14, <1>15

(* The end of _evict: evict is done, and put goes on with room for a node. *)
LEMMA ForgetStep ==
  ASSUME Types, NEW s \in Chains, Phase(s), Forget
  PROVE  Types' /\ (\E t \in Chains : Phase(t)') /\ Shows
<1>1. pc = "forget" /\ \E p \in 1 .. Len(s) : Forgetting(s, p)
  BY DEF Phase, Forget
<1>2. PICK p \in 1 .. Len(s) : Forgetting(s, p)
  BY <1>1
<1> DEFINE u == Cut(s, p)
           k == node[victim].key
<1>3. /\ map' = Rest
      /\ UNCHANGED <<node, head, tail, hand>>
  BY DEF Forget, Rest, Drop
<1>4. /\ victim = s[p] /\ Len(s) \in Nat /\ victim # None
      /\ map \in [Keys -> Nodes \cup {None}]
  BY <1>2, ListAssumption DEF Forgetting, Leaving, Chains, Types
<1>5. /\ u \in Chains /\ Elements(u) = Elements(s) \ {victim}
      /\ Len(u) = Len(s) - 1
  <2>1. /\ Cut(s, p) \in Chains /\ Len(Cut(s, p)) = Len(s) - 1
        /\ Elements(Cut(s, p)) = Elements(s) \ {s[p]}
    BY CutIs
  <2> QED  BY <2>1, <1>4
<1>6. /\ k \in Keys /\ Goal = View(u, node, hand, Rest)
      /\ hand \in Elements(s) \cup {None} /\ hand # victim /\ Len(s) <= MaxSize
      /\ Entries(u, node, Rest) /\ Linking(u) /\ Evicting
  BY <1>2 DEF Forgetting, Leaving
<1>7. op.name # "remove" /\ map[k] = victim
  <2>1. op.name # "remove"
    BY <1>6 DEF Evicting, Putting
  <2> QED  BY <2>1, <1>2 DEF Forgetting, Leaving, Removing
<1>8. Goal = Abstract!Evict(before)
  BY <1>7 DEF Goal
<1> HIDE DEF u
<1>9. Len(u) \in Nat /\ Len(u) < MaxSize
  BY <1>4, <1>5, <1>6, ListAssumption DEF Chains
<1>10. Rest \in [Keys -> Nodes \cup {None}] /\ \A j \in Keys : map[j] = None => Rest[j] = None
  BY <1>4, <1>6 DEF Rest, Drop
<1>11. Linking(u)'
  BY <1>3, <1>6 DEF Linking
<1>12. Holding(u)'
  <2>1. hand \in Elements(u) \cup {None} /\ Len(u) <= MaxSize
    BY <1>5, <1>6, <1>9, ListAssumption
  <2>2. Entries(u, node', map')
    BY <1>3, <1>6
  <2> QED  BY <2>1, <2>2, <1>3 DEF Holding
<1>13. Types => map' \in [Keys -> Nodes \cup {None}] /\ node' \in [Nodes -> NodeType]
  BY <1>3, <1>10 DEF Types
<1>14. CASE op.name = "put"
  <2>1. pc' = "insert" /\ UNCHANGED <<op, before>>
    BY <1>4, <1>7, <1>14 DEF Forget
  <2>2. Putting /\ Abstract!Full(before)
    BY <1>6, <1>14 DEF Evicting
  <2>3. map'[op.key] = None
    BY <2>2, <1>3, <1>10 DEF Putting
  <2>4. Putting'
    BY <2>1, <2>2, <2>3 DEF Putting
  <2>5. View(u, node', hand', map') = Abstract!Evict(before)
    BY <1>3, <1>6, <1>8
  <2>6. Inserting(u)'
    BY <2>1, <2>2, <2>4, <2>5, <1>9, <1>12 DEF Inserting
  <2>7. Types' /\ Phase(u)'
    BY <2>1, <2>6, <1>11, <1>13 DEF Types, Phase
  <2> QED  BY <2>1, <2>7, <1>1, <1>5, InsideShown
<1>15. CASE op.name # "put"
  <2>1. pc' = "idle" /\ op' = NoOp
    BY <1>15 DEF Forget, Return
  <2>2. Abstract!Cached(before) # {}
    BY <1>6, <1>15 DEF Evicting, Putting
  <2>3. Whole(u)'
    BY <1>11, <1>12 DEF Whole
  <2>4. Shown' = View(u, node', hand', map')
    BY <2>1, <2>3, <1>5, NextShown
  <2>5. Shown = before
    BY <1>1 DEF Shown
  <2>6. Shown' = Abstract!Evict(Shown)
    BY <2>4, <2>5, <1>3, <1>6, <1>8
  <2>7. Shows
    BY <2>2, <2>5, <2>6 DEF Shows
  <2>8. Types'
    BY <2>1, <1>13 DEF Types, NoOp, Op
  <2> QED  BY <2>1, <2>3, <2>7, <2>8, <1>5 DEF Phase
<1> QED  BY <1>14, <1>15

-----------------------------------------------------------------------------
(* What a caller sees does not depend on the nodes outside the list. *)
LEMMA ElsewhereView ==
  ASSUME NEW s \in Chains, NEW nd, NEW new, \A n \in Elements(s) : new[n] = nd[n],
         NEW m \in [Keys -> Nodes \cup {None}], Entries(s, nd, m),
         NEW h \in Elements(s) \cup {None}
  PROVE  View(s, new, h, m) = View(s, nd, h, m) /\ Entries(s, new, m)
<1>1. \A i \in 1 .. Len(s) : new[s[i]] = nd[s[i]]
  BY DEF Elements
<1>2. Order(s, new) = Order(s, nd)
  BY <1>1 DEF Order
<1>3. Bits(s, new) = Bits(s, nd)
  BY DEF Bits
<1>4. KeyOf(new, h) = KeyOf(nd, h)
  BY DEF KeyOf
<1>5. \A k \in Keys : m[k] # None => new[m[k]] = nd[m[k]]
  BY ElementsIs
<1>6. Stored(new, m) = Stored(nd, m)
  BY <1>5 DEF Stored
<1>7. Entries(s, new, m)
  BY <1>1 DEF Entries
<1> QED  BY <1>2, <1>3, <1>4, <1>6, <1>7 DEF View

(* The neighbours in a list with one more node at the head. *)
LEMMA PushAt ==
  ASSUME NEW s \in Chains, NEW n \in Nodes \ Elements(s), NEW i \in Int
  PROVE  At(<<n>> \o s, i) = IF i = 1 THEN n ELSE At(s, i - 1)
<1> DEFINE t == <<n>> \o s
<1>1. /\ Len(s) \in Nat /\ Len(t) = Len(s) + 1
      /\ \A j \in 1 .. Len(s) + 1 : t[j] = IF j = 1 THEN n ELSE s[j - 1]
  BY PushIs DEF Chains
<1> HIDE DEF t
<1>2. i \in 1 .. Len(t) <=> i = 1 \/ i - 1 \in 1 .. Len(s)
  BY <1>1
<1>3. At(t, i) = IF i = 1 THEN n ELSE At(s, i - 1)
  BY <1>1, <1>2 DEF At
<1> QED  BY <1>3 DEF t

LEMMA PushNexts ==
  ASSUME NEW s \in Chains, NEW n \in Nodes \ Elements(s), NEW nd,
         Nexts(s, nd), nd[n].next = At(s, 1)
  PROVE  Nexts(<<n>> \o s, nd)
<1> DEFINE t == <<n>> \o s
<1>1. /\ Len(s) \in Nat /\ Len(t) = Len(s) + 1
      /\ \A j \in 1 .. Len(s) + 1 : t[j] = IF j = 1 THEN n ELSE s[j - 1]
  BY PushIs DEF Chains
<1>2. \A i \in Int : At(t, i) = IF i = 1 THEN n ELSE At(s, i - 1)
  BY PushAt
<1> HIDE DEF t
<1> SUFFICES ASSUME NEW i \in 1 .. Len(s) + 1 PROVE nd[t[i]].next = At(t, i + 1)
  BY <1>1 DEF Nexts, t
<1>3. At(t, i + 1) = At(s, i)
  <2>1. i + 1 \in Int /\ i + 1 # 1 /\ (i + 1) - 1 = i
    BY <1>1
  <2> QED  BY <2>1, <1>2
<1>4. CASE i = 1
  BY <1>1, <1>3, <1>4
<1>5. CASE i # 1
  <2>1. i - 1 \in 1 .. Len(s) /\ t[i] = s[i - 1] /\ (i - 1) + 1 = i
    BY <1>1, <1>5
  <2>2. nd[s[i - 1]].next = At(s, (i - 1) + 1)
    BY <2>1 DEF Nexts
  <2> QED  BY <2>1, <2>2, <1>3
<1> QED  BY <1>4, <1>5

LEMMA PushPrevs ==
  ASSUME NEW s \in Chains, NEW n \in Nodes \ Elements(s), NEW nd, NEW new,
         Prevs(s, nd), new[n].prev = None,
         \A i \in 1 .. Len(s) :
           new[s[i]].prev = IF i = 1 THEN n ELSE nd[s[i]].prev
  PROVE  Prevs(<<n>> \o s, new)
<1> DEFINE t == <<n>> \o s
<1>1. /\ Len(s) \in Nat /\ Len(t) = Len(s) + 1
      /\ \A j \in 1 .. Len(s) + 1 : t[j] = IF j = 1 THEN n ELSE s[j - 1]
  BY PushIs DEF Chains
<1>2. \A i \in Int : At(t, i) = IF i = 1 THEN n ELSE At(s, i - 1)
  BY PushAt
<1> HIDE DEF t
<1> SUFFICES ASSUME NEW i \in 1 .. Len(s) + 1 PROVE new[t[i]].prev = At(t, i - 1)
  BY <1>1 DEF Prevs, t
<1>3. At(t, i - 1) = IF i = 2 THEN n ELSE At(s, (i - 1) - 1)
  <2>1. i - 1 \in Int /\ (i - 1 = 1 <=> i = 2)
    BY <1>1
  <2> QED  BY <2>1, <1>2
<1>4. CASE i = 1
  <2>1. (i - 1) - 1 \notin 1 .. Len(s) /\ i # 2
    BY <1>1, <1>4
  <2> QED  BY <2>1, <1>1, <1>3, <1>4 DEF At
<1>5. CASE i # 1
  <2>1. i - 1 \in 1 .. Len(s) /\ t[i] = s[i - 1] /\ (i - 1 = 1 <=> i = 2)
    BY <1>1, <1>5
  <2>2. nd[s[i - 1]].prev = At(s, (i - 1) - 1)
    BY <2>1 DEF Prevs
  <2> QED  BY <2>1, <2>2, <1>3
<1> QED  BY <1>4, <1>5

(* put goes on as long as the contents of the list are what they were. *)
LEMMA InsertingKept ==
  ASSUME NEW s \in Chains, Inserting(s), UNCHANGED <<map, hand, op, before>>,
         View(s, node', hand, map) = View(s, node, hand, map),
         Entries(s, node', map)
  PROVE  Inserting(s)'
<1>1. Putting'
  BY DEF Inserting, Putting
<1>2. Holding(s)'
  BY DEF Inserting, Holding
<1>3. View(s, node', hand', map') = View(s, node, hand, map)
  OBVIOUS
<1>4. Len(s) < MaxSize
      /\ View(s, node, hand, map) =
           IF Abstract!Full(before) THEN Abstract!Evict(before) ELSE before
  BY DEF Inserting
<1> QED  BY <1>1, <1>2, <1>3, <1>4 DEF Inserting

LEMMA CreatedKept ==
  ASSUME Types, NEW s \in Chains, Created(s), SameData(node, node'),
         UNCHANGED <<map, hand, op, fresh, before>>
  PROVE  Created(s)'
<1>1. /\ Inserting(s) /\ fresh \in Nodes \ Elements(s)
      /\ node[fresh].key = op.key /\ node[fresh].value = op.value
      /\ ~node[fresh].visited
  BY DEF Created
<1>2. /\ hand \in Nodes \cup {None} /\ map \in [Keys -> Nodes \cup {None}]
      /\ Entries(s, node, map)
  <2>1. hand \in Elements(s) \cup {None} /\ Entries(s, node, map)
    BY <1>1 DEF Inserting, Holding
  <2> QED  BY <2>1, ElementsIs DEF Types
<1>3. View(s, node', hand, map) = View(s, node, hand, map)
  BY <1>2, SameView
<1>4. Entries(s, node', map)
  BY <1>2, SameView
<1>5. Inserting(s)'
  BY <1>1, <1>3, <1>4, InsertingKept
<1> QED  BY <1>1, <1>5 DEF Created, SameData

(* A node that nothing refers to becomes the new one. *)
LEMMA CreateStep ==
  ASSUME Types, NEW s \in Chains, Phase(s), Create
  PROVE  Types' /\ Phase(s)' /\ Shows
<1>1. pc = "insert" /\ Inserting(s) /\ Linking(s)
  BY DEF Phase, Create
<1>2. PICK n \in Nodes :
        /\ Unused(n)
        /\ fresh' = n
        /\ node' = [node EXCEPT ![n] = [key |-> op.key, value |-> op.value,
                                        visited |-> FALSE, prev |-> None,
                                        next |-> head]]
  BY DEF Create
<1>3. pc' = "linkHead" /\ UNCHANGED <<map, head, tail, hand, op, before>>
  BY DEF Create
<1>4. /\ op.key \in Keys /\ op.value \in Values
      /\ Entries(s, node, map) /\ hand \in Elements(s) \cup {None}
  BY <1>1 DEF Inserting, Putting, Holding
<1>5. head = At(s, 1) /\ head \in Nodes \cup {None}
  BY <1>1 DEF Linking, At, Chains
<1>6. n \notin Elements(s)
  <2>1. \A k \in Keys : map[k] # n
    BY <1>2 DEF Unused
  <2> QED  BY <2>1, <1>4, ElementsIs
<1>7. /\ map \in [Keys -> Nodes \cup {None}] /\ node \in [Nodes -> NodeType]
      /\ Elements(s) \subseteq Nodes
  BY <1>4, ElementsIs DEF Types
<1> DEFINE r == [key |-> op.key, value |-> op.value, visited |-> FALSE,
                 prev |-> None, next |-> head]
<1>8. r \in NodeType
  BY <1>4, <1>5 DEF NodeType
<1>9. /\ node' \in [Nodes -> NodeType] /\ node'[n] = r
      /\ \A x \in Elements(s) : node'[x] = node[x]
  BY <1>2, <1>6, <1>7, <1>8
<1>10. /\ node'[n].key = op.key /\ node'[n].value = op.value
       /\ ~node'[n].visited /\ node'[n].prev = None /\ node'[n].next = head
  BY <1>9
<1>11. View(s, node', hand, map) = View(s, node, hand, map)
       /\ Entries(s, node', map)
  BY <1>4, <1>7, <1>9, ElsewhereView
<1>12. Inserting(s)'
  BY <1>1, <1>3, <1>11, InsertingKept
<1>13. Created(s)'
  BY <1>2, <1>3, <1>6, <1>10, <1>12 DEF Created
<1>14. Nexts(s, node') /\ Prevs(s, node')
  BY <1>1, <1>9, SameNexts, SamePrevs DEF Linking
<1>15. Linking(s)'
  BY <1>1, <1>3, <1>14 DEF Linking
<1>16. Heading(s)'
  BY <1>2, <1>5, <1>10, <1>13, <1>15 DEF Heading
<1>17. Types' /\ Phase(s)'
  BY <1>3, <1>9, <1>16 DEF Types, Phase
<1> QED  BY <1>1, <1>3, <1>17, InsideShown

(* _push_head, the old head. *)
LEMMA LinkHeadStep ==
  ASSUME Types, NEW s \in Chains, Phase(s), LinkHead
  PROVE  Types' /\ Phase(s)' /\ Shows
<1>1. pc = "linkHead" /\ Heading(s)
  BY DEF Phase, LinkHead
<1>2. /\ node' = IF head = None THEN node ELSE [node EXCEPT ![head].prev = fresh]
      /\ pc' = "setHead"
      /\ UNCHANGED <<map, head, tail, hand, op, fresh, before>>
  BY DEF LinkHead
<1>3. /\ Created(s) /\ fresh \in Nodes \ Elements(s)
      /\ head = At(s, 1) /\ tail = At(s, Len(s)) /\ Nexts(s, node) /\ Prevs(s, node)
      /\ node[fresh].next = At(s, 1) /\ node[fresh].prev = None
  BY <1>1 DEF Heading, Created, Linking
<1>4. /\ Len(s) \in Nat /\ \A i \in 1 .. Len(s) : s[i] \in Nodes /\ s[i] # None
      /\ \A i, j \in 1 .. Len(s) : s[i] = s[j] => i = j
  BY ListAssumption DEF Chains
<1>5. node \in [Nodes -> NodeType]
  BY DEF Types
<1>6. /\ node' \in [Nodes -> NodeType] /\ SameData(node, node')
      /\ \A m \in Nodes : node'[m].next = node[m].next
      /\ \A m \in Nodes : node'[m].prev = IF m = head THEN fresh ELSE node[m].prev
  <2>1. CASE head = None
    <3>1. node' = node
      BY <2>1, <1>2
    <3>2. \A m \in Nodes : m # head
      BY <2>1, ListAssumption
    <3> QED  BY <3>1, <3>2, <1>5 DEF SameData
  <2>2. CASE head # None
    <3>1. head \in Nodes /\ fresh \in Nodes \cup {None}
      BY <2>2, <1>3, <1>4 DEF At
    <3>2. node' = [node EXCEPT ![head].prev = fresh]
      BY <2>2, <1>2
    <3>3. node' \in [Nodes -> NodeType]
      BY ONLY <3>1, <3>2, <1>5, SetPrev, Zenon
    <3>4. SameData(node, node')
      BY ONLY <3>1, <3>2, <1>5, SetPrev DEF SameData
    <3>5. \A m \in Nodes : node'[m].next = node[m].next
      BY ONLY <3>1, <3>2, <1>5, SetPrev
    <3>6. \A m \in Nodes : node'[m].prev = IF m = head THEN fresh ELSE node[m].prev
      BY ONLY <3>1, <3>2, <1>5, SetPrev
    <3> QED  BY <3>3, <3>4, <3>5, <3>6
  <2> QED  BY <2>1, <2>2
<1>7. Created(s)'
  BY <1>2, <1>3, <1>6, CreatedKept
<1>8. \A n \in Elements(s) : n \in Nodes /\ node'[n].next = node[n].next
  BY <1>4, <1>6 DEF Elements
<1>9. Nexts(<<fresh>> \o s, node')
  <2>1. Nexts(s, node')
    BY <1>3, <1>8, SameNexts
  <2>2. node'[fresh].next = At(s, 1)
    BY <1>3, <1>6
  <2> QED  BY <2>1, <2>2, <1>3, PushNexts
<1>10. Prevs(<<fresh>> \o s, node')
  <2>1. ASSUME NEW i \in 1 .. Len(s)
        PROVE  node'[s[i]].prev = IF i = 1 THEN fresh ELSE node[s[i]].prev
    <3>1. 1 \in 1 .. Len(s) /\ head = s[1]
      BY <1>3, <1>4 DEF At
    <3>2. s[i] = head <=> i = 1
      BY <3>1, <1>4
    <3> QED  BY <3>2, <1>4, <1>6
  <2>2. node'[fresh].prev = None
    <3>1. fresh # head
      BY <1>3, ListAssumption DEF At, Elements
    <3> QED  BY <3>1, <1>3, <1>6
  <2> QED  BY <2>1, <2>2, <1>3, PushPrevs
<1>11. Joined(s)'
  BY <1>2, <1>7, <1>9, <1>10 DEF Joined
<1>12. Types' /\ Phase(s)'
  BY <1>2, <1>3, <1>6, <1>11 DEF Types, Phase
<1> QED  BY <1>1, <1>2, <1>12, InsideShown

(* _push_head, the head, *)
LEMMA SetHeadStep ==
  ASSUME Types, NEW s \in Chains, Phase(s), SetHead
  PROVE  Types' /\ Phase(s)' /\ Shows
<1>1. /\ pc = "setHead" /\ Joined(s) /\ tail = At(s, Len(s))
      /\ Created(s) /\ Nexts(<<fresh>> \o s, node) /\ Prevs(<<fresh>> \o s, node)
  BY DEF Phase, SetHead, Joined
<1>2. /\ head' = fresh /\ pc' = "setTail"
      /\ UNCHANGED <<map, node, tail, hand, op, fresh, before>>
  BY DEF SetHead
<1>3. Created(s)'
  BY <1>1, <1>2, CreatedKept DEF SameData
<1>4. Joined(s)'
  BY <1>1, <1>2, <1>3 DEF Joined
<1>5. Types' /\ Phase(s)'
  BY <1>1, <1>2, <1>4 DEF Types, Phase
<1> QED  BY <1>1, <1>2, <1>5, InsideShown

(* and the tail of a list that was empty: the node is in the list. *)
LEMMA SetTailStep ==
  ASSUME Types, NEW s \in Chains, Phase(s), SetTail
  PROVE  Types' /\ Phase(s)' /\ Shows
<1>1. /\ pc = "setTail" /\ head = fresh /\ tail = At(s, Len(s))
      /\ Created(s) /\ Nexts(<<fresh>> \o s, node) /\ Prevs(<<fresh>> \o s, node)
  BY DEF Phase, SetTail, Joined
<1>2. /\ tail' = (IF tail = None THEN fresh ELSE tail) /\ pc' = "enter"
      /\ UNCHANGED <<map, node, head, hand, op, fresh, before>>
  BY DEF SetTail
<1>3. Created(s)'
  BY <1>1, <1>2, CreatedKept DEF SameData
<1>4. fresh \in Nodes \ Elements(s)
  BY <1>1 DEF Created
<1> DEFINE t == <<fresh>> \o s
<1>5. /\ Len(s) \in Nat /\ Len(t) = Len(s) + 1
      /\ \A i \in 1 .. Len(s) : s[i] # None
  BY <1>4, PushIs, ListAssumption DEF Chains
<1>6. head' = At(t, 1)
  BY <1>1, <1>2, <1>4, PushAt
<1>7. tail' = At(t, Len(t))
  <2>1. At(t, Len(t)) = IF Len(t) = 1 THEN fresh ELSE At(s, Len(t) - 1)
    BY <1>4, <1>5, PushAt
  <2>2. CASE Len(s) = 0
    BY <2>1, <2>2, <1>1, <1>2, <1>5 DEF At
  <2>3. CASE Len(s) # 0
    <3>1. Len(s) \in 1 .. Len(s) /\ Len(t) # 1 /\ Len(t) - 1 = Len(s)
      BY <2>3, <1>5
    <3>2. tail # None
      BY <3>1, <1>1, <1>5 DEF At
    <3> QED  BY <2>1, <3>1, <3>2, <1>1, <1>2
  <2> QED  BY <2>2, <2>3
<1>8. Linking(t)'
  BY <1>1, <1>2, <1>6, <1>7 DEF Linking
<1>9. Types' /\ Phase(s)'
  BY <1>2, <1>3, <1>8 DEF Types, Phase
<1> QED  BY <1>1, <1>2, <1>9, InsideShown

(* The end of put: the node goes under its key. *)
LEMMA EnterStep ==
  ASSUME Types, NEW s \in Chains, Phase(s), Enter
  PROVE  Types' /\ (\E t \in Chains : Phase(t)') /\ Shows
<1>1. pc = "enter" /\ Created(s) /\ Linking(<<fresh>> \o s)
  BY DEF Phase, Enter
<1>2. /\ map' = [map EXCEPT ![op.key] = fresh]
      /\ pc' = "idle" /\ op' = NoOp
      /\ UNCHANGED <<node, head, tail, hand>>
  BY DEF Enter, Return
<1>3. /\ fresh \in Nodes \ Elements(s)
      /\ node[fresh].key = op.key /\ node[fresh].value = op.value
      /\ ~node[fresh].visited
      /\ op.key \in Keys /\ op.value \in Values /\ map[op.key] = None
      /\ op.key \notin Abstract!Cached(before)
      /\ Entries(s, node, map) /\ hand \in Elements(s) \cup {None}
      /\ Len(s) < MaxSize
  BY <1>1 DEF Created, Inserting, Putting, Holding
<1>4. View(s, node, hand, map) =
        IF Abstract!Full(before) THEN Abstract!Evict(before) ELSE before
  BY <1>1 DEF Created, Inserting
<1>5. map \in [Keys -> Nodes \cup {None}]
  BY DEF Types
<1>6. map' \in [Keys -> Nodes \cup {None}]
  BY <1>2, <1>3, <1>5
<1>7. PICK t \in Chains : /\ t = <<fresh>> \o s /\ Len(t) = Len(s) + 1
                          /\ Elements(t) = Elements(s) \cup {fresh}
  BY <1>3, PushIs
<1>a. Entered(map, map', op.key, fresh)
  BY <1>2 DEF Entered
<1>8. Entries(t, node, map')
  BY ONLY <1>a, <1>3, <1>5, <1>7, s \in Chains, PushView
<1>9. View(t, node, hand, map')
        = Abstract!PushHead(View(s, node, hand, map), op.key, op.value)
  <2>1. Pushed(View(s, node, hand, map), View(t, node, hand, map'), op.key,
               node[fresh].value)
    BY ONLY <1>a, <1>3, <1>5, <1>7, s \in Chains, PushView
  <2> QED  BY <2>1, <1>3 DEF Pushed
<1>10. Holding(t)'
  <2>1. Len(t) <= MaxSize
    BY <1>3, <1>7, ListAssumption DEF Chains
  <2>2. hand \in Elements(t) \cup {None}
    BY <1>3, <1>7
  <2> QED  BY <2>1, <2>2, <1>2, <1>8 DEF Holding
<1>11. Linking(t)'
  BY <1>1, <1>2, <1>7 DEF Linking
<1>12. Whole(t)'
  BY <1>10, <1>11 DEF Whole
<1>13. Shown' = View(t, node', hand', map')
  BY <1>2, <1>7, <1>12, NextShown
<1>14. Shown = before
  BY <1>1 DEF Shown
<1>15. Shown' = Abstract!Put(Shown, op.key, op.value)
  <2>1. Shown' = Abstract!PushHead(IF Abstract!Full(before) THEN Abstract!Evict(before)
                                   ELSE before, op.key, op.value)
    BY <1>2, <1>4, <1>9, <1>13
  <2> QED  BY <2>1, <1>3, <1>14 DEF Abstract!Put
<1>16. Shows
  BY <1>3, <1>15 DEF Shows
<1>17. Types'
  BY <1>2, <1>6 DEF Types, NoOp, Op
<1>18. Phase(t)'
  BY <1>2, <1>12 DEF Phase
<1> QED  BY <1>7, <1>16, <1>17, <1>18

-----------------------------------------------------------------------------
(* The empty cache. *)
LEMMA InitList ==
  ASSUME Init
  PROVE  ListInv /\ Shown = Abstract!Empty
<1>1. /\ map = [k \in Keys |-> None] /\ node = [n \in Nodes |-> Blank]
      /\ head = None /\ tail = None /\ hand = None /\ pc = "idle" /\ op = NoOp
  BY DEF Init
<1> DEFINE s == << >>
<1>2. s \in Chains /\ Len(s) = 0 /\ Elements(s) = {}
  BY DEF Chains, Elements
<1>3. \A i \in Int : At(s, i) = None
  BY <1>2 DEF At
<1>4. Types
  <2>1. Blank \in NodeType /\ NoOp \in Op
    BY DEF Blank, NodeType, NoOp, Op
  <2> QED  BY <2>1, <1>1 DEF Types
<1>5. Nexts(s, node) /\ Prevs(s, node)
  BY <1>2 DEF Nexts, Prevs
<1>6. head = At(s, 1) /\ tail = At(s, Len(s))
  BY <1>1, <1>2, <1>3
<1>7. Holding(s)
  <2>1. Entries(s, node, map)
    BY <1>1, <1>2 DEF Entries
  <2>2. Len(s) <= MaxSize
    BY <1>2, ListAssumption
  <2> QED  BY <2>1, <2>2, <1>1, <1>2 DEF Holding
<1>8. Whole(s)
  BY <1>5, <1>6, <1>7 DEF Whole, Linking
<1>9. Shown = View(s, node, hand, map)
  BY <1>1, <1>2, <1>8, IdleShown
<1>10. View(s, node, hand, map) = Abstract!Empty
  <2>1. Order(s, node) = << >>
    BY <1>2 DEF Order
  <2>2. Bits(s, node) = {}
    BY <1>2 DEF Bits
  <2>3. KeyOf(node, hand) = None
    BY <1>1 DEF KeyOf
  <2>4. Stored(node, map) = [k \in Keys |-> None]
    BY <1>1 DEF Stored
  <2> QED  BY <2>1, <2>2, <2>3, <2>4 DEF View, Abstract!Empty
<1> QED  BY <1>1, <1>2, <1>4, <1>8, <1>9, <1>10 DEF ListInv, Phase

(* A step that changes nothing. *)
LEMMA StutterStep ==
  ASSUME Types, NEW s \in Chains, Phase(s), UNCHANGED vars
  PROVE  Types' /\ Phase(s)' /\ Shows
<1>1. UNCHANGED <<map, node, head, tail, hand, pc, op, victim, fresh, before>>
  BY DEF vars
<1>2. Types'
  BY <1>1 DEF Types
<1>3. (Putting <=> Putting') /\ (Evicting <=> Evicting') /\ (Removing <=> Removing')
  BY <1>1 DEF Putting, Evicting, Removing
<1>4. /\ Linking(s) => Linking(s)'
      /\ Holding(s) => Holding(s)'
      /\ Whole(s) => Whole(s)'
  BY <1>1 DEF Linking, Holding, Whole
<1>5. Starting(s) => Starting(s)'
  BY <1>1, <1>3, <1>4 DEF Starting
<1>6. Scanning(s) => Scanning(s)'
  BY <1>1, <1>3, <1>4 DEF Scanning, Passed
<1>7. ASSUME NEW p \in 1 .. Len(s)
      PROVE  /\ Unlinking(s, p) => Unlinking(s, p)'
             /\ HalfUnlinked(s, p) => HalfUnlinked(s, p)'
             /\ Unlinked(s, p) => Unlinked(s, p)'
             /\ Forgetting(s, p) => Forgetting(s, p)'
  <2>1. Leaving(s, p) => Leaving(s, p)'
    BY <1>1, <1>3 DEF Leaving, Goal, Rest
  <2>2. Linking(Cut(s, p)) => Linking(Cut(s, p))'
    BY <1>1 DEF Linking
  <2> QED  BY <1>1, <1>3, <1>4, <2>1, <2>2
           DEF Unlinking, HalfUnlinked, Unlinked, Forgetting
<1>8. Inserting(s) => Inserting(s)'
  BY <1>1, <1>3, <1>4 DEF Inserting
<1>9. Created(s) => Created(s)'
  BY <1>1, <1>8 DEF Created
<1>10. (Heading(s) => Heading(s)') /\ (Joined(s) => Joined(s)')
  BY <1>1, <1>4, <1>9 DEF Heading, Joined
<1>11. Linking(<<fresh>> \o s) => Linking(<<fresh>> \o s)'
  BY <1>1 DEF Linking
<1>12. Phase(s)'
  BY <1>1, <1>4, <1>5, <1>6, <1>7, <1>8, <1>9, <1>10, <1>11 DEF Phase
<1>13. Shown' = Shown
  <2>1. CASE pc = "idle"
    <3>1. Whole(s) /\ Whole(s)'
      BY <2>1, <1>4 DEF Phase
    <3> QED  BY <2>1, <3>1, <1>1, IdleShown, NextShown
  <2>2. CASE pc # "idle"
    BY <2>2, <1>1 DEF Shown
  <2> QED  BY <2>1, <2>2
<1> QED  BY <1>2, <1>12, <1>13 DEF Shows

(* Every statement of an operation keeps the list what it should be. *)
LEMMA NextList ==
  ASSUME ListInv, [Next]_vars
  PROVE  ListInv' /\ Shows
<1>1. PICK s \in Chains : Types /\ Phase(s)
  BY DEF ListInv
<1>2. ASSUME NEW k \in Keys, Get(k) PROVE ListInv' /\ Shows
  BY <1>1, <1>2, GetStep DEF ListInv
<1>3. ASSUME NEW k \in Keys, RemoveBegin(k) PROVE ListInv' /\ Shows
  BY <1>1, <1>3, RemoveBeginStep DEF ListInv
<1>4. ASSUME NEW k \in Keys, NEW v \in Values, PutBegin(k, v)
      PROVE  ListInv' /\ Shows
  BY <1>1, <1>4, PutHitStep, PutMissStep DEF ListInv
<1>5. CASE EvictBegin
  BY <1>1, <1>5, EvictBeginStep DEF ListInv
<1>6. CASE ScanBegin
  BY <1>1, <1>6, ScanBeginStep DEF ListInv
<1>7. CASE ScanVisited
  BY <1>1, <1>7, ScanVisitedStep DEF ListInv
<1>8. CASE ScanWrap
  BY <1>1, <1>8, ScanWrapStep DEF ListInv
<1>9. CASE ScanFound
  BY <1>1, <1>9, ScanFoundStep DEF ListInv
<1>10. CASE UnlinkPrev
  BY <1>1, <1>10, UnlinkPrevStep DEF ListInv
<1>11. CASE UnlinkNext
  BY <1>1, <1>11, UnlinkNextStep DEF ListInv
<1>12. CASE Unhand
  BY <1>1, <1>12, UnhandStep DEF ListInv
<1>13. CASE Forget
  BY <1>1, <1>13, ForgetStep DEF ListInv
<1>14. CASE Create
  BY <1>1, <1>14, CreateStep DEF ListInv
<1>15. CASE LinkHead
  BY <1>1, <1>15, LinkHeadStep DEF ListInv
<1>16. CASE SetHead
  BY <1>1, <1>16, SetHeadStep DEF ListInv
<1>17. CASE SetTail
  BY <1>1, <1>17, SetTailStep DEF ListInv
<1>18. CASE Enter
  BY <1>1, <1>18, EnterStep DEF ListInv
<1>19. CASE UNCHANGED vars
  BY <1>1, <1>19, StutterStep DEF ListInv
<1> QED  BY <1>2, <1>3, <1>4, <1>5, <1>6, <1>7, <1>8, <1>9, <1>10, <1>11,
            <1>12, <1>13, <1>14, <1>15, <1>16, <1>17, <1>18, <1>19
         DEF Next, Call, Step

(* Whatever calls come in whatever order, the statements of SieveCache     *)
(* (mosec/cache.py) keep its nodes in one chain, with at most one of them  *)
(* on its way out or in.                                                   *)
THEOREM ListInvariant == Spec => []ListInv
<1>1. Init => ListInv
  BY InitList
<1>2. ListInv /\ [Next]_vars => ListInv'
  BY NextList
<1> QED  BY <1>1, <1>2, PTL DEF Spec

(* Between two calls the map, the list, its ends and the hand of           *)
(* SieveCache agree, and it holds no more than max_size entries, for every *)
(* cache size and any keys.                                                *)
THEOREM ConsistentHolds == Spec => []Consistent
<1>1. ListInv => Consistent
  <2> SUFFICES ASSUME ListInv, pc = "idle"
               PROVE  /\ Linked = {map[k] : k \in Keys} \ {None}
                      /\ Length = Cardinality(Linked)
                      /\ \A n \in Linked :
                           /\ (node[n].prev = None) <=> (n = head)
                           /\ node[n].prev # None => node[node[n].prev].next = n
                           /\ (node[n].next = None) <=> (n = tail)
                      /\ hand \in Linked \cup {None}
                      /\ Length <= MaxSize
                      /\ (head = None) <=> (tail = None)
    BY DEF Consistent
  <2>1. PICK s \in Chains : Types /\ Whole(s)
    BY DEF ListInv, Phase
  <2>2. /\ head = At(s, 1) /\ tail = At(s, Len(s))
        /\ Nexts(s, node) /\ Prevs(s, node) /\ Entries(s, node, map)
        /\ hand \in Elements(s) \cup {None} /\ Len(s) <= MaxSize
    BY <2>1 DEF Whole, Linking, Holding
  <2>3. Length = Len(s) /\ Linked = Elements(s)
    BY <2>2, ContentsNow
  <2>4. /\ Len(s) \in Nat /\ \A i \in 1 .. Len(s) : s[i] \in Nodes /\ s[i] # None
        /\ \A i, j \in 1 .. Len(s) : s[i] = s[j] => i = j
    BY ListAssumption DEF Chains
  <2>5. Elements(s) = {map[k] : k \in Keys} \ {None}
    <3>1. ASSUME NEW n \in Elements(s) PROVE n \in {map[k] : k \in Keys} \ {None}
      BY <2>2, ElementsIs
    <3>2. ASSUME NEW k \in Keys, map[k] # None PROVE map[k] \in Elements(s)
      BY <2>2, <3>2, ElementsIs
    <3> QED  BY <3>1, <3>2
  <2>6. Len(s) = Cardinality(Elements(s))
    <3> DEFINE D == 1 .. Len(s)
    <3>1. s \in Bijection(D, Elements(s))
      <4>1. s \in [D -> Elements(s)] /\ DOMAIN s = D
        <5>1. s \in [D -> Nodes]
          BY DEF Chains
        <5>2. \A i \in D : s[i] \in Elements(s)
          BY DEF Elements
        <5> HIDE DEF D
        <5> QED  BY <5>1, <5>2
      <4>2. IsInjective(s)
        BY <4>1, <2>4 DEF IsInjective
      <4>3. s \in Surjection(D, Elements(s))
        BY <4>1 DEF Surjection, Elements
      <4> QED  BY <4>1, <4>2, <4>3 DEF Bijection, Injection
    <3>2. IsFiniteSet(D) /\ Cardinality(D) = Len(s)
      <4>1. 1 \in Int /\ Len(s) \in Int /\ Len(s) >= 0
        BY <2>4
      <4>2. IsFiniteSet(1 .. Len(s))
        BY ONLY <4>1, FS_Interval
      <4>3. Cardinality(1 .. Len(s)) = IF 1 > Len(s) THEN 0 ELSE Len(s) - 1 + 1
        BY ONLY <4>1, FS_Interval
      <4> QED  BY <4>1, <4>2, <4>3
    <3> HIDE DEF D
    <3> QED  BY <3>1, <3>2, FS_Bijection DEF ExistsBijection
  <2>7. ASSUME NEW n \in Elements(s)
        PROVE  /\ (node[n].prev = None) <=> (n = head)
               /\ node[n].prev # None => node[node[n].prev].next = n
               /\ (node[n].next = None) <=> (n = tail)
    <3>1. PICK i \in 1 .. Len(s) : n = s[i]
      BY DEF Elements
    <3>2. node[n].prev = At(s, i - 1) /\ node[n].next = At(s, i + 1)
      BY <3>1, <2>2 DEF Nexts, Prevs
    <3>3. 1 \in 1 .. Len(s) /\ Len(s) \in 1 .. Len(s)
      BY <2>4
    <3>4. head = s[1] /\ tail = s[Len(s)]
      BY <3>3, <2>2 DEF At
    <3>5. (node[n].prev = None) <=> i = 1
      <4>1. i - 1 \in 1 .. Len(s) <=> i # 1
        BY <2>4
      <4> QED  BY <4>1, <3>2, <2>4 DEF At
    <3>6. (node[n].next = None) <=> i = Len(s)
      <4>1. i + 1 \in 1 .. Len(s) <=> i # Len(s)
        BY <2>4
      <4> QED  BY <4>1, <3>2, <2>4 DEF At
    <3>7. i # 1 => node[At(s, i - 1)].next = n
      <4>1. i # 1 => i - 1 \in 1 .. Len(s) /\ (i - 1) + 1 = i
        BY <2>4
      <4>2. i # 1 => node[s[i - 1]].next = At(s, i)
        BY <4>1, <2>2 DEF Nexts
      <4> QED  BY <4>1, <4>2, <3>1 DEF At
    <3>8. (n = head <=> i = 1) /\ (n = tail <=> i = Len(s))
      BY <3>1, <3>3, <3>4, <2>4
    <3> QED  BY <3>2, <3>5, <3>6, <3>7, <3>8
  <2>8. (head = None) <=> (tail = None)
    <3>1. CASE Len(s) = 0
      BY <3>1, <2>2 DEF At
    <3>2. CASE Len(s) # 0
      <4>1. 1 \in 1 .. Len(s) /\ Len(s) \in 1 .. Len(s)
        BY <3>2, <2>4
      <4> QED  BY <4>1, <2>2, <2>4 DEF At
    <3> QED  BY <3>1, <3>2
  <2> QED  BY <2>2, <2>3, <2>5, <2>6, <2>7, <2>8
<1> QED  BY <1>1, ListInvariant, PTL

(* When the loop of _evict goes on from the tail, the node it started from *)
(* has lost its bit, so the loop ends.                                     *)
THEOREM WrapFindsVictimHolds == Spec => []WrapFindsVictim
<1>1. ListInv => WrapFindsVictim
  <2> SUFFICES ASSUME ListInv, pc = "scan", victim = None
               PROVE  \E n \in Linked : ~node[n].visited
    BY DEF WrapFindsVictim
  <2>1. PICK s \in Chains : Scanning(s)
    BY DEF ListInv, Phase
  <2> DEFINE st == Abstract!Start(before)
  <2>2. Len(s) \in Nat /\ Passed(s, 1 .. st) /\ st \in 1 .. Len(s)
    BY <2>1, PastHead
  <2>3. Linked = Elements(s)
    BY <2>1, ContentsNow DEF Scanning, Whole, Linking
  <2> HIDE DEF st
  <2>4. 1 \in 1 .. Len(s) /\ 1 \in 1 .. st
    BY <2>2
  <2>5. ~node[s[1]].visited
    BY <2>2, <2>4 DEF Passed, Swept
  <2> QED  BY <2>3, <2>4, <2>5 DEF Elements
<1> QED  BY <1>1, ListInvariant, PTL

(* The linked list implements SieveCache: get, put, remove and evict of    *)
(* mosec/cache.py have, when they end, the effect of one step of the       *)
(* abstract cache: they evict the key that SIEVE names and leave the hand  *)
(* where it says.                                                          *)
THEOREM RefinesHolds == Spec => Refines
<1>1. Init => Abstract!CacheInit
  BY InitList DEF Shown, Abstract!CacheInit
<1>2. ListInv /\ [Next]_vars =>
        [Abstract!CacheNext]_(IF pc = "idle" THEN Contents ELSE before)
  <2> SUFFICES ASSUME ListInv, [Next]_vars
               PROVE  \/ Abstract!CacheNext
                      \/ UNCHANGED (IF pc = "idle" THEN Contents ELSE before)
    OBVIOUS
  <2>1. Shows
    BY NextList
  <2> QED  BY <2>1 DEF Shows, Shown, Abstract!CacheNext
<1> QED  BY <1>1, <1>2, ListInvariant, PTL DEF Spec, Refines, Abstract!CacheSpec
=============================================================================
