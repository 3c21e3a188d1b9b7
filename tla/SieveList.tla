------------------------------ MODULE SieveList ------------------------------
(***************************************************************************)
(* SieveCache (mosec/cache.py) as it is written: a map, a doubly linked    *)
(* list of nodes and a hand.  A step is a statement that changes them, so  *)
(* the loop of _evict, _remove and _push_head are taken apart.             *)
(*                                                                         *)
(* An operation runs inside forward, under the timer of set_mosec_timeout  *)
(* (mosec/coordinator.py): its handler raises MosecTimeoutError between    *)
(* any two statements, and the operation is left where it stands (Alarm).  *)
(***************************************************************************)
EXTENDS SieveParameters

CONSTANTS
  Nodes          \* node objects; one that nothing refers to may be reused

VARIABLES
  map,           \* _map: key -> node
  node,          \* the attributes of the nodes
  head, tail, hand,
  pc,            \* the statement to run next, "idle" between operations
  op,            \* the operation in progress: [name, key, value]
  victim,        \* the local of _evict, or the node remove unlinks
  fresh,         \* the local new_node
  before         \* history: the contents when the operation began, else None

vars == <<map, node, head, tail, hand, pc, op, victim, fresh, before>>

list == <<map, node, head, tail, hand>>

NodeType == [key : Keys \cup {None}, value : Values \cup {None},
             visited : BOOLEAN,
             prev : Nodes \cup {None}, next : Nodes \cup {None}]

Op == [name : {"none", "put", "evict", "remove"}, key : Keys \cup {None},
       value : Values \cup {None}]

NoOp == [name |-> "none", key |-> None, value |-> None]

PCs == {"idle", "start", "scan", "unlink", "unlinkNext", "unhand", "forget",
        "insert", "linkHead", "setHead", "setTail", "enter"}

Blank == [key |-> None, value |-> None, visited |-> FALSE, prev |-> None,
          next |-> None]

ASSUME ListAssumption ==
  /\ MaxSize \in Nat \ {0}
  /\ None \notin Keys \cup Values \cup Nodes
  /\ IsFiniteSet(Nodes)
  /\ Cardinality(Nodes) > MaxSize

-----------------------------------------------------------------------------
(***************************************************************************)
(* The list as keys() and items() see it.                                  *)
(***************************************************************************)

(* The node after i steps from the head. *)
Walk ==
  LET w[i \in 0 .. Cardinality(Nodes)] ==
        IF i = 0 THEN head
        ELSE IF w[i - 1] = None THEN None ELSE node[w[i - 1]].next
  IN w

Length == Cardinality({i \in 0 .. Cardinality(Nodes) : Walk[i] # None})

Linked == {Walk[i] : i \in 0 .. Cardinality(Nodes)} \ {None}

Size == Cardinality({k \in Keys : map[k] # None})

Contents ==
  [order   |-> [i \in 1 .. Length |-> node[Walk[i - 1]].key],
   visited |-> {node[n].key : n \in {m \in Linked : node[m].visited}},
   hand    |-> IF hand = None THEN None ELSE node[hand].key,
   value   |-> [k \in Keys |-> IF map[k] = None THEN None
                                ELSE node[map[k]].value]]

Begin(name, k, v) ==
  /\ op' = [name |-> name, key |-> k, value |-> v]
  /\ before' = Contents

(* The end of an operation. *)
Return ==
  /\ pc' = "idle"
  /\ op' = NoOp
  /\ victim' = None
  /\ fresh' = None
  /\ before' = None

-----------------------------------------------------------------------------
(* get of a key that is there; a miss changes nothing. *)
Get(k) ==
  /\ pc = "idle"
  /\ map[k] # None
  /\ node' = [node EXCEPT ![map[k]].visited = TRUE]
  /\ UNCHANGED <<map, head, tail, hand, pc, op, victim, fresh, before>>

(* put, up to its call of _evict or the creation of the node. *)
PutBegin(k, v) ==
  /\ pc = "idle"
  /\ \/ /\ map[k] # None
        /\ node' = [node EXCEPT ![map[k]].value = v, ![map[k]].visited = TRUE]
        /\ UNCHANGED <<pc, op, before>>
     \/ /\ map[k] = None
        /\ Begin("put", k, v)
        /\ pc' = IF Size >= MaxSize THEN "start" ELSE "insert"
        /\ UNCHANGED node
  /\ UNCHANGED <<map, head, tail, hand, victim, fresh>>

(* evict; an empty cache is left alone. *)
EvictBegin ==
  /\ pc = "idle"
  /\ Size > 0
  /\ Begin("evict", None, None)
  /\ pc' = "start"
  /\ UNCHANGED <<list, victim, fresh>>

(* remove pops the map first. *)
RemoveBegin(k) ==
  /\ pc = "idle"
  /\ map[k] # None
  /\ Begin("remove", k, None)
  /\ map' = [map EXCEPT ![k] = None]
  /\ victim' = map[k]
  /\ pc' = "unlink"
  /\ UNCHANGED <<node, head, tail, hand, fresh>>

-----------------------------------------------------------------------------
(* _evict: the hand starts at the tail when it points nowhere. *)
ScanBegin ==
  /\ pc = "start"
  /\ hand' = IF hand = None THEN tail ELSE hand
  /\ victim' = hand'
  /\ pc' = "scan"
  /\ UNCHANGED <<map, node, head, tail, op, fresh, before>>

(* Mutation of ScanVisited: the bit is not cleared. *)
ScanVisitedKept ==
  /\ pc = "scan"
  /\ victim # None
  /\ node[victim].visited
  /\ victim' = node[victim].prev
  /\ UNCHANGED <<list, pc, op, fresh, before>>

(* A visited node gets its second chance. *)
ScanVisited ==
  /\ pc = "scan"
  /\ victim # None
  /\ node[victim].visited
  /\ node' = [node EXCEPT ![victim].visited = FALSE]
  /\ victim' = node[victim].prev
  /\ UNCHANGED <<map, head, tail, hand, pc, op, fresh, before>>

(* Past the head: again from the tail. *)
ScanWrap ==
  /\ pc = "scan"
  /\ victim = None
  /\ hand' = tail
  /\ victim' = tail
  /\ UNCHANGED <<map, node, head, tail, pc, op, fresh, before>>

(* Mutation of ScanFound: the hand is left on the node that goes away. *)
ScanFoundLate ==
  /\ pc = "scan"
  /\ victim # None
  /\ ~node[victim].visited
  /\ pc' = "unlink"
  /\ UNCHANGED <<list, op, victim, fresh, before>>

(* The first node without the bit; the hand goes past it. *)
ScanFound ==
  /\ pc = "scan"
  /\ victim # None
  /\ ~node[victim].visited
  /\ hand' = node[victim].prev
  /\ pc' = "unlink"
  /\ UNCHANGED <<map, node, head, tail, op, victim, fresh, before>>

-----------------------------------------------------------------------------
(* _remove: the neighbour towards the head, *)
UnlinkPrev ==
  LET p == node[victim].prev
  IN /\ pc = "unlink"
     /\ \/ /\ p # None
           /\ node' = [node EXCEPT ![p].next = node[victim].next]
           /\ UNCHANGED head
        \/ /\ p = None
           /\ head' = node[victim].next
           /\ UNCHANGED node
     /\ pc' = "unlinkNext"
     /\ UNCHANGED <<map, tail, hand, op, victim, fresh, before>>

(* the neighbour towards the tail, *)
UnlinkNext ==
  LET n == node[victim].next
  IN /\ pc = "unlinkNext"
     /\ \/ /\ n # None
           /\ node' = [node EXCEPT ![n].prev = node[victim].prev]
           /\ UNCHANGED tail
        \/ /\ n = None
           /\ tail' = node[victim].prev
           /\ UNCHANGED node
     /\ pc' = "unhand"
     /\ UNCHANGED <<map, head, hand, op, victim, fresh, before>>

(* Mutation of Unhand: the hand may stay on an unlinked node. *)
UnhandSkipped ==
  /\ pc = "unhand"
  /\ node' = [node EXCEPT ![victim].prev = None, ![victim].next = None]
  /\ IF op.name = "remove" THEN Return
     ELSE pc' = "forget" /\ UNCHANGED <<op, victim, fresh, before>>
  /\ UNCHANGED <<map, head, tail, hand>>

(* the hand, and the links of the node; remove is then done. *)
Unhand ==
  /\ pc = "unhand"
  /\ hand' = IF hand = victim THEN node[victim].prev ELSE hand
  /\ node' = [node EXCEPT ![victim].prev = None, ![victim].next = None]
  /\ IF op.name = "remove" THEN Return
     ELSE pc' = "forget" /\ UNCHANGED <<op, victim, fresh, before>>
  /\ UNCHANGED <<map, head, tail>>

(* The end of _evict: the key leaves the map.  A key that is not there     *)
(* raises KeyError, which ends the operation.                              *)
Forget ==
  /\ pc = "forget"
  /\ map' = [map EXCEPT ![node[victim].key] = None]
  /\ IF op.name = "put" /\ map[node[victim].key] # None
     THEN /\ pc' = "insert"
          /\ victim' = None
          /\ UNCHANGED <<op, fresh, before>>
     ELSE Return
  /\ UNCHANGED <<node, head, tail, hand>>

-----------------------------------------------------------------------------
(* A node nothing refers to. *)
Unused(n) ==
  /\ n \notin {head, tail, hand}
  /\ \A k \in Keys : map[k] # n
  /\ \A m \in Nodes : node[m].prev # n /\ node[m].next # n

(* _Node(key, value) and the links of the new node. *)
Create ==
  /\ pc = "insert"
  /\ \E n \in Nodes :
       /\ Unused(n)
       /\ n = CHOOSE m \in Nodes : Unused(m)
       /\ fresh' = n
       /\ node' = [node EXCEPT ![n] = [key |-> op.key, value |-> op.value,
                                       visited |-> FALSE, prev |-> None,
                                       next |-> head]]
  /\ pc' = "linkHead"
  /\ UNCHANGED <<map, head, tail, hand, op, victim, before>>

(* _push_head: the old head, *)
LinkHead ==
  /\ pc = "linkHead"
  /\ node' = IF head = None THEN node
             ELSE [node EXCEPT ![head].prev = fresh]
  /\ pc' = "setHead"
  /\ UNCHANGED <<map, head, tail, hand, op, victim, fresh, before>>

(* the head, *)
SetHead ==
  /\ pc = "setHead"
  /\ head' = fresh
  /\ pc' = "setTail"
  /\ UNCHANGED <<map, node, tail, hand, op, victim, fresh, before>>

(* the tail of a list that was empty. *)
SetTail ==
  /\ pc = "setTail"
  /\ tail' = IF tail = None THEN fresh ELSE tail
  /\ pc' = "enter"
  /\ UNCHANGED <<map, node, head, hand, op, victim, fresh, before>>

(* The end of put. *)
Enter ==
  /\ pc = "enter"
  /\ map' = [map EXCEPT ![op.key] = fresh]
  /\ Return
  /\ UNCHANGED <<node, head, tail, hand>>

-----------------------------------------------------------------------------
(* SIGALRM: the exception leaves the operation where it stands. *)
Alarm ==
  /\ pc # "idle"
  /\ Return
  /\ UNCHANGED list

Init ==
  /\ map = [k \in Keys |-> None]
  /\ node = [n \in Nodes |-> Blank]
  /\ head = None /\ tail = None /\ hand = None
  /\ pc = "idle" /\ op = NoOp /\ victim = None /\ fresh = None
  /\ before = None

(* The caller starts an operation. *)
Call ==
  \/ \E k \in Keys : Get(k) \/ RemoveBegin(k)
  \/ \E k \in Keys, v \in Values : PutBegin(k, v)
  \/ EvictBegin

(* The operation goes on. *)
Step ==
  \/ ScanBegin \/ ScanVisited \/ ScanWrap \/ ScanFound
  \/ UnlinkPrev \/ UnlinkNext \/ Unhand \/ Forget
  \/ Create \/ LinkHead \/ SetHead \/ SetTail \/ Enter

Next == Call \/ Step

Spec == Init /\ [][Next]_vars

(* An operation that began is run on: it is a loop of one thread. *)
FairSpec == Spec /\ WF_vars(Step)

(* With the timer firing inside operations. *)
AlarmSpec == Init /\ [][Next \/ Alarm]_vars

-----------------------------------------------------------------------------
(* Between operations the map, the list and the hand agree: the list read  *)
(* from the head holds exactly the nodes of the map, each once, its prev   *)
(* links mirror its next links, and hand and tail are in it.               *)
Consistent ==
  pc = "idle" =>
    /\ Linked = {map[k] : k \in Keys} \ {None}
    /\ Length = Cardinality(Linked)
    /\ \A n \in Linked :
         /\ (node[n].prev = None) <=> (n = head)
         /\ node[n].prev # None => node[node[n].prev].next = n
         /\ (node[n].next = None) <=> (n = tail)
    /\ hand \in Linked \cup {None}
    /\ Length <= MaxSize
    /\ (head = None) <=> (tail = None)

(* When _evict wraps to the tail, the scan that follows finds a node whose *)
(* bit is clear, as the comment in its loop says; otherwise the loop goes  *)
(* on for ever.                                                            *)
WrapFindsVictim ==
  (pc = "scan" /\ victim = None) => \E n \in Linked : ~node[n].visited

(* Every operation ends: the loop of _evict, written as while True, always *)
(* finds a node to evict.                                                  *)
Terminates == pc # "idle" ~> pc = "idle"

(***************************************************************************)
(* Every operation has the effect of one step of SieveCache, taken when it *)
(* ends.                                                                   *)
(***************************************************************************)
Abstract == INSTANCE SieveCache WITH
  cache <- IF pc = "idle" THEN Contents ELSE before

(* The linked list implements SieveCache: put, get, remove and evict of    *)
(* cache.py evict the key SIEVE names and leave the hand where it says.    *)
Refines == Abstract!CacheSpec
=============================================================================
