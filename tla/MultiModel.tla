----------------------------- MODULE MultiModel -----------------------------
(***************************************************************************)
(* MultiModelWorker (mosec/worker.py): forward groups a batch by model,    *)
(* serves the models that are in the cache first, then loads the others,   *)
(* evicting when the cache is full.  The cache is SieveList, statement by  *)
(* statement.  The calls of load_model, unload_model and forward_model     *)
(* are steps of their own, because they may raise, and because the timer   *)
(* of set_mosec_timeout may raise between any two statements: of forward,  *)
(* and of the operation of the cache it is in.                             *)
(***************************************************************************)
EXTENDS SieveList

CONSTANTS
  Available,     \* the models has_model accepts
  MaxBatch,      \* bound: items of a batch
  MaxStrikes     \* bound: times the timer strikes inside of the cache

VARIABLES
  at,            \* the statement of forward or _ensure_model to run next
  batch,         \* the models the items ask for
  hits,          \* the models of the batch found in the cache
  todo,          \* the groups not served yet
  cur,           \* the group being served
  gone,          \* the model just evicted
  results,       \* position -> the model that served it
  loads,         \* model -> calls of load_model during this forward
  open,          \* models loaded since unload_model was last called for them
  lost,          \* models an exception or the timer took between evict and
                 \* the end of unload_model, or between load_model and the
                 \* end of put, and that were not loaded again
  strikes        \* times the timer struck inside of the cache

locals == <<batch, hits, todo, cur, gone, results, loads>>

resources == <<open, lost, strikes>>

mmVars == <<vars, at, locals, resources>>

ASSUME ModelsAssumption ==
  /\ Available \subseteq Keys
  /\ MaxBatch \in Nat \ {0} /\ MaxStrikes \in Nat
  /\ Values # {}

(* The keys of _map: what `in` and len look at. *)
InCache == {k \in Keys : map[k] # None}

Batches == UNION {[1 .. n -> Keys] : n \in 1 .. MaxBatch}

Models(b) == {b[i] : i \in DOMAIN b}

(* A group is known by its model; dict keeps them by first appearance. *)
First(b, m) ==
  CHOOSE i \in DOMAIN b : b[i] = m /\ \A j \in DOMAIN b : b[j] = m => i <= j

Earliest(b, ms) == CHOOSE m \in ms : \A n \in ms : First(b, m) <= First(b, n)

(* Mutation of NextGroup: the groups in the order of the batch. *)
NextGroupUnsorted == Earliest(batch, todo)

(* hit_groups + miss_groups. *)
NextGroup ==
  IF todo \cap hits # {} THEN Earliest(batch, todo \cap hits)
  ELSE Earliest(batch, todo)

Goto(label) == at' = label

(* forward returns or raises: its locals are gone. *)
Leave ==
  /\ Goto("idle")
  /\ batch' = << >> /\ hits' = {} /\ todo' = {} /\ cur' = None /\ gone' = None
  /\ results' = << >> /\ loads' = [m \in Keys |-> 0]

-----------------------------------------------------------------------------
(* The batch is grouped and the groups are told apart by the cache.  An    *)
(* item without a model id raises before this, and changes nothing.        *)
Forward(b) ==
  /\ at = "idle"
  /\ batch' = b
  /\ hits' = Models(b) \cap InCache
  /\ todo' = Models(b)
  /\ results' = [i \in DOMAIN b |-> None]
  /\ Goto("loop")
  /\ UNCHANGED <<vars, cur, gone, loads, resources>>

(* The next group, or the end of forward. *)
Loop ==
  /\ at = "loop"
  /\ \/ /\ todo # {}
        /\ cur' = NextGroup
        /\ Goto("ensure")
        /\ UNCHANGED <<batch, hits, todo, gone, results, loads>>
     \/ /\ todo = {}
        /\ Leave
  /\ UNCHANGED <<vars, resources>>

(* _ensure_model finds the model. *)
EnsureHit ==
  /\ at = "ensure"
  /\ Get(cur)
  /\ Goto("run")
  /\ UNCHANGED <<locals, resources>>

(* It does not: a model that cannot be loaded raises ClientError before    *)
(* anything is evicted.                                                    *)
EnsureMiss ==
  /\ at = "ensure"
  /\ cur \notin InCache
  /\ \/ /\ cur \notin Available
        /\ Leave
        /\ UNCHANGED vars
     \/ /\ cur \in Available
        /\ Size >= MaxSize
        /\ EvictBegin
        /\ Goto("evict")
        /\ UNCHANGED locals
     \/ /\ cur \in Available
        /\ Size < MaxSize
        /\ Goto("load")
        /\ UNCHANGED <<vars, locals>>
  /\ UNCHANGED resources

(* evict or put goes on, up to its last statement. *)
CacheRuns ==
  /\ pc \notin {"idle", "forget", "enter"}
  /\ Step
  /\ UNCHANGED <<at, locals, resources>>

(* evict returns its victim; a victim that is not in the map, as the timer *)
(* may have left one, is a KeyError that ends forward.                     *)
EvictEnds ==
  /\ at = "evict"
  /\ Forget
  /\ LET key == node[victim].key
     IN \/ /\ key \in InCache
           /\ gone' = key
           /\ Goto("unload")
           /\ UNCHANGED <<batch, hits, todo, cur, results, loads>>
        \/ /\ key \notin InCache
           /\ Leave
  /\ UNCHANGED resources

(* Mutation of Unload: the model that was evicted is not unloaded. *)
UnloadSkipped ==
  /\ at = "unload"
  /\ gone' = None
  /\ Goto("load")
  /\ UNCHANGED <<vars, batch, hits, todo, cur, results, loads, resources>>

(* unload_model of the model that was evicted. *)
Unload ==
  /\ at = "unload"
  /\ open' = open \ {gone}
  /\ gone' = None
  /\ Goto("load")
  /\ UNCHANGED <<vars, batch, hits, todo, cur, results, loads, lost, strikes>>

(* load_model. *)
Load ==
  /\ at = "load"
  /\ open' = open \cup {cur}
  /\ loads' = [loads EXCEPT ![cur] = @ + 1]
  /\ lost' = lost \ {cur}
  /\ Goto("store")
  /\ UNCHANGED <<vars, batch, hits, todo, cur, gone, results, strikes>>

(* Mutation of Store: the model is used and not stored. *)
StoreSkipped ==
  /\ at = "store"
  /\ Goto("run")
  /\ UNCHANGED <<vars, locals, resources>>

(* put of the model begins. *)
Store ==
  /\ at = "store"
  /\ PutBegin(cur, CHOOSE v \in Values : TRUE)
  /\ Goto(IF cur \in InCache THEN "run" ELSE "put")
  /\ UNCHANGED <<locals, resources>>

(* The model is in the map. *)
PutEnds ==
  /\ at = "put"
  /\ Enter
  /\ Goto("run")
  /\ UNCHANGED <<locals, resources>>

(* forward_model, and its results to the positions of the group. *)
Run ==
  /\ at = "run"
  /\ results' = [i \in DOMAIN batch |-> IF batch[i] = cur THEN cur ELSE results[i]]
  /\ todo' = todo \ {cur}
  /\ Goto("loop")
  /\ UNCHANGED <<vars, batch, hits, cur, gone, loads, resources>>

(* The model in hand that is neither in the cache nor unloaded. *)
InHand ==
  CASE at = "unload" -> {gone} [] at \in {"store", "put"} -> {cur} [] OTHER -> {}

(* unload_model, load_model or forward_model raises. *)
UserError ==
  /\ at \in {"unload", "load", "run"}
  /\ Leave
  /\ lost' = lost \cup InHand
  /\ UNCHANGED <<vars, open, strikes>>

(* The timer raises MosecTimeoutError, between two calls or inside of evict *)
(* or put, which is left where it stands.                                   *)
Timeout ==
  /\ at # "idle"
  /\ \/ /\ pc = "idle"
        /\ UNCHANGED <<vars, strikes>>
     \/ /\ strikes < MaxStrikes
        /\ Alarm
        /\ strikes' = strikes + 1
  /\ Leave
  /\ lost' = lost \cup InHand
  /\ UNCHANGED open

-----------------------------------------------------------------------------
ModelsInit ==
  /\ Init
  /\ at = "idle" /\ batch = << >> /\ hits = {} /\ todo = {} /\ cur = None
  /\ gone = None /\ results = << >> /\ loads = [m \in Keys |-> 0]
  /\ open = {} /\ lost = {} /\ strikes = 0

ModelsNext ==
  \/ \E b \in Batches : Forward(b)
  \/ Loop \/ EnsureHit \/ EnsureMiss \/ CacheRuns \/ EvictEnds
  \/ Unload \/ Load \/ Store \/ PutEnds \/ Run
  \/ UserError \/ Timeout

ModelsSpec == ModelsInit /\ [][ModelsNext]_mmVars

-----------------------------------------------------------------------------
(* A forward loads a model at most once, and never one that was in the     *)
(* cache when the batch came: serving the hits first keeps a model from    *)
(* being evicted before its group is served.                               *)
LoadOnce ==
  \A m \in Keys : loads[m] <= (IF m \in hits THEN 0 ELSE 1)

(* A group is served by a model that is in the cache, no model of the      *)
(* cache is one that was unloaded, wherever load_model failed or the timer *)
(* cut forward, evict or put off, and when forward returns every item was  *)
(* served by the model it asked for.                                       *)
ServedWhileLoaded ==
  /\ (at = "loop" /\ todo = {}) => results = batch
  /\ at = "run" => cur \in InCache
  /\ InCache \subseteq open

(* No model stays loaded outside of the cache: one that was evicted is     *)
(* unloaded and one that was loaded is stored, unless an exception or the  *)
(* timer strikes right there.  A model is known by its id: the copies that *)
(* the timer makes of a model are not told apart.                          *)
NoStrayModel ==
  open \subseteq InCache \cup InHand \cup lost
=============================================================================
