--------------------------- MODULE ExchangeProofs ---------------------------
(***************************************************************************)
(* Proofs about the data that two stages pass on, through messages or      *)
(* through a shared store, for any number of tasks and processes, whatever *)
(* fails or dies.                                                          *)
(***************************************************************************)
EXTENDS Exchange, FiniteSetTheorems, TLAPS

(* The items of a batch that are decoded. *)
Done(k) == {d[1] : d \in k.data}

Places == {"queued", "held", "between", "answered", "lost"}

Loop == [pc : {"receive", "decode", "forward", "encode"}, batch : SUBSET Tasks,
         data : SUBSET (Tasks \X Tasks), encoded : SUBSET Tasks]

ExchangeTypes ==
  /\ worker \in Workers
  /\ place \in [Tasks -> Places]
  /\ payload \in [Tasks -> Payload \cup {None}]
  /\ status \in [Tasks -> {None, 200, 400, 408, 422, 500}]
  /\ proc \in [Processes -> Loop]
  /\ next_id \in [First -> ObjectIds \cup {None}]
  /\ counter \in Nat
  /\ store \in [ObjectIds -> Tasks \cup {None}]
  /\ deaths \in 0 .. MaxDeaths

(* A coordinate loop: its batch is held by it alone, an item is decoded    *)
(* as its own object, and encoded after all of them are decoded.           *)
LoopOK(k) ==
  /\ k.pc = "receive" => k.batch = {}
  /\ \A d \in k.data : d[1] = d[2]
  /\ Done(k) \subseteq k.batch
  /\ k.pc \in {"forward", "encode"} => Done(k) = k.batch
  /\ k.encoded \subseteq k.batch
  /\ k.pc # "encode" => k.encoded = {}

BatchInv ==
  /\ \A p \in Processes : LoopOK(proc[p])
  /\ \A p \in Processes : \A t \in proc[p].batch : place[t] = "held"
  /\ \A p, q \in Processes : \A t \in proc[p].batch : t \in proc[q].batch => p = q

(* What a task has on its way: nothing before the first stage encodes it,  *)
(* then a payload of the first stage's kind.                               *)
PayloadInv ==
  /\ \A t \in Tasks : place[t] \in {"queued", "held", "between"} => status[t] = None
  /\ \A t \in Tasks : place[t] = "queued" => payload[t] = None
  /\ \A t \in Tasks : place[t] = "between" => payload[t] # None
  /\ \A p \in First : \A t \in proc[p].batch : payload[t] # None <=> t \in proc[p].encoded
  /\ \A p \in Second : \A t \in proc[p].batch : payload[t] # None
  /\ \A t \in Tasks : payload[t] # None =>
       /\ payload[t].kind = IF UsesStore(worker.first) THEN "id" ELSE worker.first
       /\ payload[t].kind # "id" => payload[t].of = t

(* An id is given out once. *)
IdInv ==
  /\ \A t \in Tasks : payload[t] # None /\ payload[t].kind = "id" => payload[t].of <= counter
  /\ \A p \in First : next_id[p] # None => next_id[p] <= counter
  /\ \A t, u \in Tasks :
       payload[t] # None /\ payload[u] # None /\ payload[t].kind = "id"
         /\ payload[t] = payload[u] => t = u
  /\ \A p, q \in First : next_id[p] # None /\ next_id[p] = next_id[q] => p = q
  /\ \A t \in Tasks, p \in First :
       payload[t] # None /\ payload[t].kind = "id" => payload[t].of # next_id[p]

(* The object of a task waits in the store until it is decoded. *)
Pending(t) ==
  \/ place[t] = "between"
  \/ \E p \in First : t \in proc[p].batch
  \/ \E p \in Second : t \in proc[p].batch /\ t \notin Done(proc[p])

StoreInv ==
  /\ \A i \in ObjectIds : store[i] # None => payload[store[i]] = [kind |-> "id", of |-> i]
  /\ \A t \in Tasks : payload[t] # None /\ payload[t].kind = "id" /\ Pending(t)
       => store[payload[t].of] = t
  /\ \A p \in Second : \A t \in Done(proc[p]) : \A i \in ObjectIds : store[i] # t

CountInv ==
  counter <= Cardinality({t \in Tasks : payload[t] # None})
             + Cardinality({p \in First : next_id[p] # None}) + deaths

ExchangeInv ==
  ExchangeTypes /\ BatchInv /\ PayloadInv /\ IdInv /\ StoreInv /\ CountInv
    /\ NothingLeft /\ Blame

-----------------------------------------------------------------------------
LEMMA Absent ==
  /\ \A t \in Tasks : t # None
  /\ \A i \in ObjectIds : i # None
  /\ \A x \in Payload : x # None
  /\ None # 200 /\ None # 400 /\ None # 422
BY AbsentAssumption

LEMMA InitExchange == EInit => ExchangeInv
<1> SUFFICES ASSUME EInit PROVE ExchangeInv
  OBVIOUS
<1>1. /\ worker \in Workers /\ place = [t \in Tasks |-> "queued"]
      /\ payload = [t \in Tasks |-> None] /\ status = [t \in Tasks |-> None]
      /\ proc = [p \in Processes |-> Idle]
      /\ next_id = [p \in First |-> None] /\ counter = 0
      /\ store = [i \in ObjectIds |-> None] /\ deaths = 0
  BY DEF EInit
<1>2. Idle \in Loop /\ LoopOK(Idle) /\ Idle.batch = {} /\ Done(Idle) = {}
  BY DEF Idle, Loop, LoopOK, Done
<1> HIDE DEF Idle
<1>3. ExchangeTypes
  BY <1>1, <1>2, ExchangeAssumption DEF ExchangeTypes, Places
<1>4. BatchInv
  BY <1>1, <1>2 DEF BatchInv
<1>5. PayloadInv /\ IdInv
  BY <1>1, <1>2 DEF PayloadInv, IdInv, Processes
<1>6. StoreInv
  BY <1>1, <1>2 DEF StoreInv, Processes
<1>7. CountInv
  <2>1. {t \in Tasks : payload[t] # None} = {} /\ {p \in First : next_id[p] # None} = {}
    BY <1>1
  <2> QED  BY <1>1, <2>1, FS_EmptySet DEF CountInv
<1>8. NothingLeft /\ Blame
  BY <1>1, Absent DEF NothingLeft, Blame
<1> QED  BY <1>3, <1>4, <1>5, <1>6, <1>7, <1>8 DEF ExchangeInv

(* A batch is held by one process, of one stage. *)
LEMMA OneHolder ==
  ASSUME ExchangeInv, NEW p \in Processes, NEW t \in proc[p].batch
  PROVE  /\ t \in Tasks /\ place[t] = "held" /\ status[t] = None
         /\ \A q \in Processes : t \in proc[q].batch => q = p
         /\ p \in First <=> p \notin Second
<1>1. t \in Tasks /\ place[t] = "held"
  BY DEF ExchangeInv, ExchangeTypes, BatchInv, Loop
<1>2. status[t] = None
  BY <1>1 DEF ExchangeInv, PayloadInv
<1>3. \A q \in Processes : t \in proc[q].batch => q = p
  BY DEF ExchangeInv, BatchInv
<1>4. p \in First <=> p \notin Second
  BY ExchangeAssumption DEF Processes
<1> QED  BY <1>1, <1>2, <1>3, <1>4

LEMMA SameBodies ==
  ASSUME worker' = worker, body' = body
  PROVE  \A u \in Tasks : (Deserialize(body[u]) # "ok")' <=> Deserialize(body[u]) # "ok"
BY DEF Deserialize

(* A payload that is an id is one of the ids. *)
LEMMA IdType ==
  ASSUME ExchangeTypes, NEW t \in Tasks, payload[t] # None, payload[t].kind = "id"
  PROVE  /\ payload[t].of \in ObjectIds
         /\ payload[t] = [kind |-> "id", of |-> payload[t].of]
BY DEF ExchangeTypes, Payload, Kinds

(* The process goes on with its batch, and may decode an item. *)
LEMMA Advance ==
  ASSUME ExchangeInv, NEW p \in Processes, NEW new \in Loop, LoopOK(new),
         proc' = [proc EXCEPT ![p] = new], new.batch = proc[p].batch,
         p \in First => new.encoded = proc[p].encoded,
         Done(proc[p]) \subseteq Done(new),
         UNCHANGED <<worker, raised, body, place, status, payload, next_id, counter, deaths>>,
         store' \in [ObjectIds -> Tasks \cup {None}],
         \A i \in ObjectIds : store'[i] \in {store[i], None},
         p \in First => store' = store,
         \A i \in ObjectIds : store'[i] # store[i] =>
           \E t \in Done(new) : payload[t] = [kind |-> "id", of |-> i],
         p \in Second => \A t \in Done(new) : \A i \in ObjectIds : store'[i] # t
  PROVE  ExchangeInv'
<1>0. /\ ExchangeTypes /\ BatchInv /\ PayloadInv /\ IdInv /\ StoreInv /\ CountInv
      /\ NothingLeft /\ Blame
  BY DEF ExchangeInv
<1>1. proc'[p] = new /\ \A q \in Processes : q # p => proc'[q] = proc[q]
  BY <1>0 DEF ExchangeTypes
<1>2. ExchangeTypes'
  BY <1>0 DEF ExchangeTypes
<1>3. BatchInv'
  BY <1>0, <1>1 DEF BatchInv
<1>4. PayloadInv'
  BY <1>0, <1>1 DEF PayloadInv, Processes
<1>5. IdInv' /\ CountInv'
  BY <1>0 DEF IdInv, CountInv
<1>6. StoreInv'
  <2>1. \A i \in ObjectIds : store'[i] # None => payload[store'[i]] = [kind |-> "id", of |-> i]
    BY <1>0 DEF StoreInv
  <2>2. ASSUME NEW t \in Tasks, payload[t] # None, payload[t].kind = "id", Pending(t)'
        PROVE  store'[payload[t].of] = t
    <3>1. Pending(t)
      BY <1>1, <2>2 DEF Pending, Processes
    <3>2. store[payload[t].of] = t /\ payload[t] \in Payload
      BY <1>0, <2>2, <3>1 DEF StoreInv, ExchangeTypes
    <3>3. payload[t].of \in ObjectIds
      BY <2>2, <3>2 DEF Payload, Kinds
    <3>4. SUFFICES ASSUME store'[payload[t].of] # store[payload[t].of] PROVE FALSE
      BY <3>2
    <3>5. PICK u \in Done(new) : payload[u] = [kind |-> "id", of |-> payload[t].of]
      BY <3>3, <3>4
    <3>6. payload[t] = [kind |-> "id", of |-> payload[t].of]
      BY <2>2, <3>2 DEF Payload, Kinds
    <3>7. u \in proc[p].batch
      BY DEF LoopOK
    <3>8. u \in Tasks /\ place[u] = "held" /\ \A q \in Processes : u \in proc[q].batch => q = p
      BY <3>7, OneHolder
    <3>9. u = t
      BY <1>0, <2>2, <3>5, <3>6, <3>8 DEF IdInv
    <3>10. p \notin First
      BY <3>4
    <3> QED  BY <1>1, <2>2, <3>8, <3>9, <3>10 DEF Pending, Processes
  <2>3. ASSUME NEW q \in Second, NEW t \in Done(proc'[q]), NEW i \in ObjectIds
        PROVE  store'[i] # t
    <3>1. CASE q = p
      BY <1>1, <2>3, <3>1
    <3>2. CASE q # p
      <4>1. t \in Done(proc[q]) /\ t \in proc[q].batch
        BY <1>0, <1>1, <2>3, <3>2 DEF Processes, BatchInv, LoopOK
      <4>2. store[i] # t /\ t # None
        BY <1>0, <4>1, Absent, OneHolder DEF StoreInv, Processes
      <4> QED  BY <4>2
    <3> QED  BY <3>1, <3>2
  <2> QED  BY <2>1, <2>2, <2>3 DEF StoreInv
<1>7. NothingLeft' /\ Blame'
  <2>1. NothingLeft'
    BY <1>0 DEF NothingLeft
  <2>2. Blame'
    BY <1>0, SameBodies DEF Blame
  <2> QED  BY <2>1, <2>2
<1> QED  BY <1>2, <1>3, <1>4, <1>5, <1>6, <1>7 DEF ExchangeInv

(* The batch leaves its process, for the other stage or for good. *)
LEMMA End ==
  ASSUME ExchangeInv, NEW p \in Processes,
         NEW where \in {"between", "answered", "lost"},
         NEW flag \in {None, 200, 400, 408, 422, 500},
         Answer(p, where, flag), UNCHANGED <<worker, body, payload, counter>>,
         \A t \in Tasks \ proc[p].batch : raised'[t] = raised[t],
         where = "between" => /\ p \in First /\ proc[p].pc = "encode"
                              /\ ToEncode(p) = {} /\ flag = None /\ store' = store,
         next_id' \in [First -> ObjectIds \cup {None}],
         \A q \in First : next_id'[q] \in {next_id[q], None},
         deaths' \in 0 .. MaxDeaths, CountInv',
         store' \in [ObjectIds -> Tasks \cup {None}],
         \A i \in ObjectIds : store'[i] \in {store[i], None},
         \A i \in ObjectIds : store'[i] # store[i] =>
           \E t \in proc[p].batch : payload[t] = [kind |-> "id", of |-> i],
         flag = 200 => \A t \in proc[p].batch : \A i \in ObjectIds : store[i] # t,
         flag \in {400, 422} /\ worker.first = worker.second =>
           \/ \A t \in proc[p].batch : raised'[t] = flag
           \/ /\ p \in First /\ proc[p].pc = "decode"
              /\ \E u \in proc[p].batch : Deserialize(body[u]) # "ok"
  PROVE  ExchangeInv'
<1>0. /\ ExchangeTypes /\ BatchInv /\ PayloadInv /\ IdInv /\ StoreInv /\ CountInv
      /\ NothingLeft /\ Blame
  BY DEF ExchangeInv
<1>i. Idle \in Loop /\ LoopOK(Idle) /\ Idle.batch = {} /\ Done(Idle) = {} /\ Idle.pc = "receive"
  BY DEF Idle, Loop, LoopOK, Done
<1> HIDE DEF Idle
<1>1. proc'[p] = Idle /\ \A q \in Processes : q # p => proc'[q] = proc[q]
  BY <1>0 DEF ExchangeTypes, Answer
<1>2. /\ \A t \in proc[p].batch : t \in Tasks /\ place'[t] = where /\ status'[t] = flag
      /\ \A t \in Tasks \ proc[p].batch : place'[t] = place[t] /\ status'[t] = status[t]
  BY OneHolder DEF Answer
<1>3. ExchangeTypes'
  <2>1. place' \in [Tasks -> Places] /\ status' \in [Tasks -> {None, 200, 400, 408, 422, 500}]
    BY <1>0 DEF ExchangeTypes, Answer, Places
  <2>2. proc' \in [Processes -> Loop]
    BY <1>0, <1>i DEF ExchangeTypes, Answer
  <2> QED  BY <1>0, <2>1, <2>2 DEF ExchangeTypes
<1>4. BatchInv'
  <2>1. \A q \in Processes : LoopOK(proc'[q])
    BY <1>0, <1>1, <1>i DEF BatchInv
  <2>2. ASSUME NEW q \in Processes, NEW t \in proc'[q].batch
        PROVE  q # p /\ t \in proc[q].batch /\ place'[t] = "held"
    <3>1. q # p /\ t \in proc[q].batch
      BY <1>1, <1>i, <2>2
    <3>2. t \in Tasks \ proc[p].batch /\ place[t] = "held"
      BY <3>1, OneHolder
    <3> QED  BY <1>2, <3>1, <3>2
  <2>3. \A q, r \in Processes : \A t \in proc'[q].batch : t \in proc'[r].batch => q = r
    BY <1>0, <2>2 DEF BatchInv
  <2> QED  BY <2>1, <2>2, <2>3 DEF BatchInv
<1>5. PayloadInv'
  <2>1. \A t \in Tasks : place'[t] \in {"queued", "held", "between"} => status'[t] = None
    BY <1>0, <1>2 DEF PayloadInv
  <2>2. \A t \in Tasks : place'[t] = "queued" => payload[t] = None
    BY <1>0, <1>2 DEF PayloadInv
  <2>3. \A t \in Tasks : place'[t] = "between" => payload[t] # None
    <3>1. where = "between" => \A t \in proc[p].batch : payload[t] # None
      BY <1>0 DEF PayloadInv, ToEncode
    <3> QED  BY <1>0, <1>2, <3>1 DEF PayloadInv
  <2>4. /\ \A q \in First : \A t \in proc'[q].batch : payload[t] # None <=> t \in proc'[q].encoded
        /\ \A q \in Second : \A t \in proc'[q].batch : payload[t] # None
    BY <1>0, <1>1, <1>i DEF PayloadInv, Processes
  <2> QED  BY <1>0, <2>1, <2>2, <2>3, <2>4 DEF PayloadInv
<1>6. IdInv'
  <2>1. \A q \in First : next_id'[q] = next_id[q] \/ next_id'[q] = None
    OBVIOUS
  <2>2. ASSUME NEW t \in Tasks, payload[t] # None, payload[t].kind = "id"
        PROVE  payload[t].of # None
    <3>1. payload[t].of \in ObjectIds
      BY <1>0, <2>2, IdType
    <3> QED  BY <3>1, Absent
  <2>3. \A t \in Tasks, q \in First :
          payload[t] # None /\ payload[t].kind = "id" => payload[t].of # next_id'[q]
    BY <1>0, <2>1, <2>2 DEF IdInv
  <2>4. \A q, r \in First : next_id'[q] # None /\ next_id'[q] = next_id'[r] => q = r
    BY <1>0, <2>1 DEF IdInv
  <2>5. \A q \in First : next_id'[q] # None => next_id'[q] <= counter
    BY <1>0, <2>1 DEF IdInv
  <2> QED  BY <1>0, <2>3, <2>4, <2>5 DEF IdInv
<1>7. StoreInv'
  <2>0. \A i \in ObjectIds : store'[i] = store[i] \/ store'[i] = None
    OBVIOUS
  <2>1. ASSUME NEW i \in ObjectIds, store'[i] # None
        PROVE  payload[store'[i]] = [kind |-> "id", of |-> i]
    <3>1. store'[i] = store[i]
      BY <2>0, <2>1
    <3>2. store[i] # None => payload[store[i]] = [kind |-> "id", of |-> i]
      BY <1>0 DEF StoreInv
    <3> QED  BY <2>1, <3>1, <3>2
  <2>2. ASSUME NEW t \in Tasks, payload[t] # None, payload[t].kind = "id", Pending(t)'
        PROVE  store'[payload[t].of] = t
    <3>1. \/ t \notin proc[p].batch
          \/ t \in proc[p].batch /\ where = "between"
      BY <1>1, <1>2, <1>i, <2>2, OneHolder DEF Pending, Processes
    <3>2. Pending(t)
      BY <1>1, <1>2, <1>i, <2>2, <3>1 DEF Pending, Processes
    <3>3. store[payload[t].of] = t /\ payload[t] \in Payload
      BY <1>0, <2>2, <3>2 DEF StoreInv, ExchangeTypes
    <3>4. payload[t].of \in ObjectIds
      BY <2>2, <3>3 DEF Payload, Kinds
    <3>5. SUFFICES ASSUME store'[payload[t].of] # store[payload[t].of] PROVE FALSE
      BY <3>3
    <3>6. PICK u \in proc[p].batch : payload[u] = [kind |-> "id", of |-> payload[t].of]
      BY <3>4, <3>5
    <3>7. payload[t] = [kind |-> "id", of |-> payload[t].of]
      BY <2>2, <3>3 DEF Payload, Kinds
    <3>8. u \in Tasks
      BY <1>2
    <3>9. u = t
      BY <1>0, <2>2, <3>6, <3>7, <3>8 DEF IdInv
    <3> QED  BY <3>1, <3>5, <3>9
  <2>3. ASSUME NEW q \in Second, NEW t \in Done(proc'[q]), NEW i \in ObjectIds
        PROVE  store'[i] # t
    <3>1. q # p /\ t \in Done(proc[q])
      BY <1>1, <1>i, <2>3 DEF Processes
    <3>2. t \in proc[q].batch
      BY <1>0, <3>1 DEF Processes, BatchInv, LoopOK
    <3>3. store[i] # t
      BY <1>0, <3>1 DEF StoreInv
    <3>4. t # None
      BY <3>2, Absent, OneHolder DEF Processes
    <3> QED  BY <2>0, <3>3, <3>4
  <2> QED  BY <2>1, <2>2, <2>3 DEF StoreInv
<1>8. NothingLeft'
  <2>1. SUFFICES ASSUME NEW i \in ObjectIds, store'[i] # None PROVE status'[store'[i]] # 200
    BY DEF NothingLeft
  <2>2. store'[i] = store[i] /\ store[i] \in Tasks /\ status[store[i]] # 200
    BY <1>0, <2>1 DEF ExchangeTypes, NothingLeft
  <2> QED  BY <1>2, <2>2
<1>9. Blame'
  <2>1. SUFFICES ASSUME NEW t \in Tasks, status'[t] \in {400, 422}, status'[t] # raised'[t],
                        worker.first = worker.second
                 PROVE  /\ payload[t] = None
                        /\ \E u \in Tasks : status'[u] = status'[t] /\ Deserialize(body[u]) # "ok"
    BY SameBodies DEF Blame
  <2>2. CASE t \in proc[p].batch
    <3>1. /\ flag \in {400, 422} /\ p \in First /\ proc[p].pc = "decode"
          /\ \E u \in proc[p].batch : Deserialize(body[u]) # "ok"
      BY <1>2, <2>1, <2>2
    <3>2. proc[p].encoded = {}
      BY <1>0, <3>1 DEF BatchInv, LoopOK
    <3>3. payload[t] = None
      BY <1>0, <2>2, <3>1, <3>2 DEF PayloadInv
    <3> QED  BY <1>2, <2>2, <3>1, <3>3
  <2>3. CASE t \notin proc[p].batch
    <3>1. status[t] = status'[t] /\ raised[t] = raised'[t]
      BY <1>2, <2>3
    <3>2. payload[t] = None /\ \E u \in Tasks : status[u] = status[t] /\ Deserialize(body[u]) # "ok"
      BY <1>0, <2>1, <3>1 DEF Blame
    <3>3. PICK u \in Tasks : status[u] = status[t] /\ Deserialize(body[u]) # "ok"
      BY <3>2
    <3>4. u \notin proc[p].batch
      BY <2>1, <3>1, <3>3, OneHolder, Absent
    <3> QED  BY <1>2, <3>1, <3>2, <3>3, <3>4
  <2> QED  BY <2>2, <2>3
<1> QED  BY <1>3, <1>4, <1>5, <1>6, <1>7, <1>8, <1>9 DEF ExchangeInv

(* What a process takes out of the store. *)
LEMMA TakenShrinks ==
  ASSUME ExchangeTypes, NEW t \in Tasks, payload[t] # None, store' = Taken(payload[t])
  PROVE  /\ store' \in [ObjectIds -> Tasks \cup {None}]
         /\ \A i \in ObjectIds : store'[i] \in {store[i], None}
         /\ \A i \in ObjectIds : store'[i] # store[i] => payload[t] = [kind |-> "id", of |-> i]
         /\ UsesStore(worker.second) /\ payload[t].kind = "id" => store'[payload[t].of] = None
<1>1. CASE UsesStore(worker.second) /\ payload[t].kind = "id"
  <2>1. payload[t].of \in ObjectIds /\ payload[t] = [kind |-> "id", of |-> payload[t].of]
    BY <1>1, IdType
  <2>2. store' = [store EXCEPT ![payload[t].of] = None] /\ store \in [ObjectIds -> Tasks \cup {None}]
    BY <1>1 DEF Taken, ExchangeTypes
  <2> QED  BY <1>1, <2>1, <2>2
<1>2. CASE ~(UsesStore(worker.second) /\ payload[t].kind = "id")
  <2>1. store' = store
    BY <1>2 DEF Taken
  <2> QED  BY <1>2, <2>1 DEF ExchangeTypes
<1> QED  BY <1>1, <1>2

(* The flags of the exceptions that the actions name. *)
LEMMA Flags ==
  /\ ErrorCode["MosecError"] = 500 /\ ErrorCode["ClientError"] = 400
  /\ ErrorCode["ServerError"] = 500 /\ ErrorCode["EncodingError"] = 500
  /\ ErrorCode["DecodingError"] = 400 /\ ErrorCode["ValidationError"] = 422
  /\ ErrorCode["MosecTimeoutError"] = 408 /\ ErrorCode["Exception"] = 500
  /\ DOMAIN ErrorCode = {"MosecError", "ClientError", "ServerError", "EncodingError",
                         "DecodingError", "ValidationError", "MosecTimeoutError", "Exception"}
BY DEF ErrorCode

(* A batch that fails, and leaves the ids alone. *)
LEMMA Failed ==
  ASSUME ExchangeInv, NEW p \in Processes, NEW err \in {"MosecError", "ClientError", "ServerError",
           "EncodingError", "DecodingError", "ValidationError", "MosecTimeoutError", "Exception"},
         \A t \in Tasks \ proc[p].batch : raised'[t] = raised[t],
         Fail(p, err), UNCHANGED <<worker, body, payload, next_id, counter, deaths>>,
         store' \in [ObjectIds -> Tasks \cup {None}],
         \A i \in ObjectIds : store'[i] \in {store[i], None},
         \A i \in ObjectIds : store'[i] # store[i] =>
           \E t \in proc[p].batch : payload[t] = [kind |-> "id", of |-> i],
         err \in {"ClientError", "DecodingError", "ValidationError"} /\ worker.first = worker.second =>
           \/ \A t \in proc[p].batch : raised'[t] = ErrorCode[err]
           \/ /\ p \in First /\ proc[p].pc = "decode"
              /\ \E u \in proc[p].batch : Deserialize(body[u]) # "ok"
  PROVE  ExchangeInv'
<1>1. Answer(p, "answered", ErrorCode[err])
  BY DEF Fail
<1>2. /\ ErrorCode[err] \in {None, 200, 400, 408, 422, 500} /\ ErrorCode[err] # 200
      /\ ErrorCode[err] \in {400, 422} => err \in {"ClientError", "DecodingError", "ValidationError"}
  BY Flags
<1>3. next_id' \in [First -> ObjectIds \cup {None}] /\ deaths' \in 0 .. MaxDeaths
  BY DEF ExchangeInv, ExchangeTypes
<1>4. CountInv'
  BY DEF ExchangeInv, CountInv
<1>5. \A q \in First : next_id'[q] \in {next_id[q], None}
  OBVIOUS
<1> DEFINE flag == ErrorCode[err]
<1>6. flag \in {400, 422} /\ worker.first = worker.second =>
         \/ \A t \in proc[p].batch : raised'[t] = flag
         \/ /\ p \in First /\ proc[p].pc = "decode"
            /\ \E u \in proc[p].batch : Deserialize(body[u]) # "ok"
  BY <1>2
<1>7. Answer(p, "answered", flag) /\ flag \in {None, 200, 400, 408, 422, 500} /\ flag # 200
  BY <1>1, <1>2
<1> HIDE DEF flag
<1> QED  BY <1>3, <1>4, <1>5, <1>6, <1>7, End

(* One more item is decoded, as its own object. *)
LEMMA DecodedItem ==
  ASSUME ExchangeInv, NEW p \in Processes, proc[p].pc = "decode",
         NEW t \in ToDecode(p), Decoded(p, t, t)
  PROVE  \E new \in Loop :
           /\ LoopOK(new) /\ proc' = [proc EXCEPT ![p] = new]
           /\ new.batch = proc[p].batch /\ new.encoded = proc[p].encoded
           /\ Done(new) = Done(proc[p]) \cup {t}
<1> DEFINE data == proc[p].data \cup {<<t, t>>}
           pc == IF {d[1] : d \in data} = proc[p].batch THEN "forward" ELSE "decode"
           new == [proc[p] EXCEPT !.data = data, !.pc = pc]
<1>1. proc \in [Processes -> Loop] /\ LoopOK(proc[p])
  BY DEF ExchangeInv, ExchangeTypes, BatchInv
<1>2. t \in proc[p].batch /\ t \in Tasks
  BY OneHolder DEF ToDecode
<1>3. data \in SUBSET (Tasks \X Tasks)
  BY <1>1, <1>2 DEF Loop
<1>4. /\ new \in Loop /\ new.pc = pc /\ new.data = data
      /\ new.batch = proc[p].batch /\ new.encoded = proc[p].encoded
  <2>1. proc[p] \in Loop /\ pc \in {"receive", "decode", "forward", "encode"}
    BY <1>1
  <2> HIDE DEF data, pc
  <2> QED  BY <1>3, <2>1 DEF Loop
<1>5. proc' = [proc EXCEPT ![p] = new]
  BY <1>1 DEF Decoded
<1> HIDE DEF new
<1>6. Done(new) = Done(proc[p]) \cup {t}
  <2>1. Done(new) = {d[1] : d \in data}
    BY <1>4 DEF Done
  <2>2. {d[1] : d \in data} = {d[1] : d \in proc[p].data} \cup {t}
    BY <<t, t>>[1] = t
  <2> QED  BY <2>1, <2>2 DEF Done
<1>7. LoopOK(new)
  <2>1. \A d \in data : d[1] = d[2]
    BY <1>1 DEF LoopOK
  <2>2. Done(new) = {d[1] : d \in data}
    BY <1>4 DEF Done
  <2>3. new.encoded = {} /\ proc[p].encoded = {}
    BY <1>1, <1>4 DEF LoopOK
  <2> QED  BY <1>1, <1>2, <1>4, <1>6, <2>1, <2>2, <2>3 DEF LoopOK
<1> HIDE DEF data, pc
<1> QED  BY <1>4, <1>5, <1>6, <1>7

LEMMA DecodeBodyStep ==
  ASSUME ExchangeInv, NEW p \in Processes, DecodeBody(p)
  PROVE  ExchangeInv'
<1>1. PICK t \in ToDecode(p) :
        \/ Deserialize(body[t]) = "ok" /\ Decoded(p, t, t) /\ UNCHANGED <<place, status>>
        \/ Deserialize(body[t]) # "ok" /\ Fail(p, Deserialize(body[t]))
  BY DEF DecodeBody
<1>2. /\ p \in First /\ p \notin Second /\ proc[p].pc = "decode" /\ t \in proc[p].batch
      /\ UNCHANGED <<worker, raised, body, payload, next_id, counter, store, deaths>>
  BY <1>1, ExchangeAssumption DEF DecodeBody, shared, ToDecode
<1>3. ExchangeTypes /\ store' \in [ObjectIds -> Tasks \cup {None}]
  BY <1>2 DEF ExchangeInv, ExchangeTypes
<1>4. CASE Decoded(p, t, t) /\ UNCHANGED <<place, status>>
  <2>1. PICK new \in Loop :
          /\ LoopOK(new) /\ proc' = [proc EXCEPT ![p] = new]
          /\ new.batch = proc[p].batch /\ new.encoded = proc[p].encoded
          /\ Done(new) = Done(proc[p]) \cup {t}
    BY <1>1, <1>2, <1>4, DecodedItem
  <2> QED  BY <1>2, <1>3, <1>4, <2>1, Advance
<1>5. CASE Deserialize(body[t]) # "ok" /\ Fail(p, Deserialize(body[t]))
  <2> DEFINE err == Deserialize(body[t])
  <2>1. worker.deserialize \in {"json", "msgpack", "typed"}
    BY <1>3, ExchangeAssumption DEF ExchangeTypes, WorkerClass
  <2>2. err \in {"DecodingError", "ValidationError", "Exception"}
    BY <1>5, <2>1
       DEF Deserialize, DeserializeJson, DeserializeMsgpack, DeserializeTyped
  <2>3. Fail(p, err)
    BY <1>5
  <2>4. \E u \in proc[p].batch : Deserialize(body[u]) # "ok"
    BY <1>2, <1>5
  <2> HIDE DEF err
  <2> QED  BY <1>2, <1>3, <2>2, <2>3, <2>4, Failed
<1> QED  BY <1>1, <1>4, <1>5

LEMMA DecodeIpcStep ==
  ASSUME ExchangeInv, NEW p \in Processes, DecodeIpc(p)
  PROVE  ExchangeInv'
<1>0. /\ ExchangeTypes /\ BatchInv /\ PayloadInv /\ IdInv /\ StoreInv
  BY DEF ExchangeInv
<1>1. PICK t \in ToDecode(p) :
        /\ \/ /\ Load(payload[t]).err = "ok" /\ Decoded(p, t, Load(payload[t]).object)
              /\ UNCHANGED <<place, status>>
           \/ Load(payload[t]).err # "ok" /\ Fail(p, Load(payload[t]).err)
        /\ store' = Taken(payload[t])
  BY DEF DecodeIpc
<1>2. /\ p \notin First /\ p \in Second /\ proc[p].pc = "decode"
      /\ t \in proc[p].batch /\ t \notin Done(proc[p])
      /\ UNCHANGED <<worker, raised, body, payload, next_id, counter, deaths>>
  BY <1>1, ExchangeAssumption DEF DecodeIpc, ToDecode, Done
<1>3. t \in Tasks /\ payload[t] # None /\ payload[t] \in Payload
  BY <1>0, <1>2, OneHolder DEF PayloadInv, ExchangeTypes
<1>4. /\ store' \in [ObjectIds -> Tasks \cup {None}]
      /\ \A i \in ObjectIds : store'[i] \in {store[i], None}
      /\ \A i \in ObjectIds : store'[i] # store[i] => payload[t] = [kind |-> "id", of |-> i]
      /\ UsesStore(worker.second) /\ payload[t].kind = "id" => store'[payload[t].of] = None
  BY <1>0, <1>1, <1>3, TakenShrinks
<1>5. worker \in WorkerClass
  BY <1>0, ExchangeAssumption DEF ExchangeTypes
<1>6. /\ payload[t].kind = IF UsesStore(worker.first) THEN "id" ELSE worker.first
      /\ payload[t].kind # "id" => payload[t].of = t
  BY <1>0, <1>3 DEF PayloadInv
<1>7. payload[t].kind = "id" => payload[t].of \in ObjectIds /\ store[payload[t].of] = t
  BY <1>0, <1>2, <1>3, IdType DEF StoreInv, Pending
<1>8. /\ Load(payload[t]).object \in {t, None}
      /\ Load(payload[t]).err \in {"ok", "DecodingError", "Exception"}
      /\ Load(payload[t]).err = "ok" <=> Load(payload[t]).object # None
  <2>1. LoadStored(payload[t]) \in {t, None} /\ LoadSent(payload[t]) \in {t, None}
    BY <1>5, <1>6, <1>7 DEF LoadStored, LoadSent, WorkerClass, Kinds
  <2> QED  BY <2>1 DEF Load, LoadError
<1>9. CASE Load(payload[t]).err = "ok" /\ Decoded(p, t, Load(payload[t]).object)
           /\ UNCHANGED <<place, status>>
  <2>1. Decoded(p, t, t)
    BY <1>8, <1>9
  <2>2. PICK new \in Loop :
          /\ LoopOK(new) /\ proc' = [proc EXCEPT ![p] = new]
          /\ new.batch = proc[p].batch /\ new.encoded = proc[p].encoded
          /\ Done(new) = Done(proc[p]) \cup {t}
    BY <1>1, <1>2, <2>1, DecodedItem
  <2>3. \A i \in ObjectIds : store'[i] # t
    <3>1. SUFFICES ASSUME NEW i \in ObjectIds, store'[i] = t PROVE FALSE
      OBVIOUS
    <3>2. store[i] = t
      BY <1>3, <1>4, <3>1, Absent
    <3>3. payload[t] = [kind |-> "id", of |-> i]
      BY <1>0, <1>3, <3>2, Absent DEF StoreInv
    <3>4. payload[t].kind = "id" /\ payload[t].of = i
      BY <3>3
    <3>5. UsesStore(worker.second)
      BY <1>5, <1>8, <1>9, <3>4 DEF Load, LoadSent, WorkerClass, Kinds
    <3> QED  BY <1>3, <1>4, <3>1, <3>4, <3>5, Absent
  <2>4. \A u \in Done(new) : \A i \in ObjectIds : store'[i] # u
    <3>1. SUFFICES ASSUME NEW u \in Done(proc[p]), NEW i \in ObjectIds PROVE store'[i] # u
      BY <2>2, <2>3
    <3>2. store[i] # u /\ u \in proc[p].batch
      BY <1>0, <1>2 DEF StoreInv, BatchInv, LoopOK
    <3>3. u # None
      BY <3>2, OneHolder, Absent
    <3>4. store'[i] = store[i] \/ store'[i] = None
      BY <1>4
    <3> QED  BY <3>2, <3>3, <3>4
  <2>5. \A i \in ObjectIds : store'[i] # store[i] =>
          \E u \in Done(new) : payload[u] = [kind |-> "id", of |-> i]
    BY <1>4, <2>2
  <2> QED  BY <1>2, <1>4, <1>9, <2>2, <2>4, <2>5, Advance
<1>10. CASE Load(payload[t]).err # "ok" /\ Fail(p, Load(payload[t]).err)
  <2> DEFINE err == Load(payload[t]).err
  <2>1. err \in {"DecodingError", "Exception"} /\ Fail(p, err)
    BY <1>8, <1>10
  <2>2. err = "DecodingError" => worker.second = "numbin" /\ LoadSent(payload[t]) = None
    BY <1>10 DEF Load, LoadError, UsesStore
  <2>3. worker.first = worker.second => err # "DecodingError"
    <3>1. SUFFICES ASSUME worker.first = "numbin", LoadSent(payload[t]) = None,
                          worker.second = "numbin"
                   PROVE  FALSE
      BY <2>2
    <3>2. payload[t].kind = "numbin" /\ payload[t].of = t
      BY <1>6, <3>1 DEF UsesStore
    <3> QED  BY <1>3, <3>1, <3>2, Absent DEF LoadSent
  <2>4. \A i \in ObjectIds : store'[i] # store[i] =>
          \E u \in proc[p].batch : payload[u] = [kind |-> "id", of |-> i]
    BY <1>2, <1>4
  <2> HIDE DEF err
  <2> QED  BY <1>2, <1>4, <2>1, <2>3, <2>4, Failed
<1> QED  BY <1>1, <1>9, <1>10

(* One more item of the batch is encoded. *)
LEMMA EncodedItem ==
  ASSUME ExchangeInv, NEW p \in Processes, proc[p].pc = "encode",
         NEW t \in ToEncode(p), Encoded(p, t)
  PROVE  \E new \in Loop :
           /\ LoopOK(new) /\ proc' = [proc EXCEPT ![p] = new]
           /\ new.batch = proc[p].batch /\ Done(new) = Done(proc[p])
           /\ new.encoded = proc[p].encoded \cup {t}
<1> DEFINE new == [proc[p] EXCEPT !.encoded = @ \cup {t}]
<1>1. proc \in [Processes -> Loop] /\ LoopOK(proc[p]) /\ proc[p] \in Loop
  BY DEF ExchangeInv, ExchangeTypes, BatchInv
<1>2. t \in proc[p].batch /\ t \in Tasks
  BY OneHolder DEF ToEncode
<1>3. /\ new \in Loop /\ new.pc = proc[p].pc /\ new.data = proc[p].data
      /\ new.batch = proc[p].batch /\ new.encoded = proc[p].encoded \cup {t}
  BY <1>1, <1>2 DEF Loop
<1>4. proc' = [proc EXCEPT ![p] = new]
  BY <1>1 DEF Encoded
<1> HIDE DEF new
<1>5. Done(new) = Done(proc[p])
  BY <1>3 DEF Done
<1>6. LoopOK(new)
  BY <1>1, <1>2, <1>3, <1>5 DEF LoopOK
<1> QED  BY <1>3, <1>4, <1>5, <1>6

(* No task has been given the id. *)
NotSent(id) == \A u \in Tasks : payload[u] # None /\ payload[u].kind = "id" => payload[u].of # id

(* An item of the first stage is encoded: as it is, or as the id of the    *)
(* object that is stored under an id which is nobody else's.               *)
LEMMA Put ==
  ASSUME ExchangeInv, NEW p \in First, proc[p].pc = "encode",
         NEW t \in ToEncode(p), Encoded(p, t),
         NEW x \in Payload, payload' = [payload EXCEPT ![t] = x],
         x.kind = IF UsesStore(worker.first) THEN "id" ELSE worker.first,
         x.kind # "id" => x.of = t /\ store' = store,
         x.kind = "id" =>
           /\ x.of \in ObjectIds /\ x = [kind |-> "id", of |-> x.of]
           /\ store' = [store EXCEPT ![x.of] = t] /\ NotSent(x.of),
         UNCHANGED <<worker, raised, body, place, status, deaths>>,
         next_id' \in [First -> ObjectIds \cup {None}], counter' \in Nat, IdInv', CountInv'
  PROVE  ExchangeInv'
<1>0. /\ ExchangeTypes /\ BatchInv /\ PayloadInv /\ IdInv /\ StoreInv /\ CountInv
      /\ NothingLeft /\ Blame /\ p \in Processes
  BY DEF ExchangeInv, Processes
<1>1. PICK new \in Loop :
        /\ LoopOK(new) /\ proc' = [proc EXCEPT ![p] = new]
        /\ new.batch = proc[p].batch /\ Done(new) = Done(proc[p])
        /\ new.encoded = proc[p].encoded \cup {t}
  BY <1>0, EncodedItem
<1>2. proc'[p] = new /\ \A q \in Processes : q # p => proc'[q] = proc[q]
  BY <1>0, <1>1 DEF ExchangeTypes
<1>3. /\ t \in Tasks /\ t \in proc[p].batch /\ t \notin proc[p].encoded
      /\ place[t] = "held" /\ status[t] = None /\ p \notin Second
      /\ \A q \in Processes : t \in proc[q].batch => q = p
  BY <1>0, OneHolder DEF ToEncode
<1>4. payload[t] = None /\ x # None /\ t # None
  BY <1>0, <1>3, Absent DEF PayloadInv
<1>5. payload'[t] = x /\ \A u \in Tasks : u # t => payload'[u] = payload[u]
  BY <1>0, <1>3 DEF ExchangeTypes
<1>6. /\ store' \in [ObjectIds -> Tasks \cup {None}]
      /\ \A i \in ObjectIds : store'[i] = store[i] \/ (x.kind = "id" /\ i = x.of /\ store'[i] = t)
  BY <1>0, <1>3 DEF ExchangeTypes
<1>7. ExchangeTypes'
  <2>1. payload' \in [Tasks -> Payload \cup {None}] /\ proc' \in [Processes -> Loop]
    BY <1>0, <1>1 DEF ExchangeTypes
  <2> QED  BY <1>0, <1>6, <2>1 DEF ExchangeTypes
<1>8. BatchInv'
  BY <1>0, <1>1, <1>2 DEF BatchInv
<1>9. PayloadInv'
  <2>1. \A q \in First : \A u \in proc'[q].batch : payload'[u] # None <=> u \in proc'[q].encoded
    <3>1. SUFFICES ASSUME NEW q \in First, NEW u \in proc'[q].batch
                   PROVE  payload'[u] # None <=> u \in proc'[q].encoded
      OBVIOUS
    <3>2. u \in proc[q].batch /\ u \in Tasks /\ q \in Processes
      BY <1>1, <1>2, OneHolder DEF Processes
    <3>3. payload[u] # None <=> u \in proc[q].encoded
      BY <1>0, <3>2 DEF PayloadInv
    <3>4. CASE q = p
      BY <1>1, <1>2, <1>4, <1>5, <3>2, <3>3, <3>4
    <3>5. CASE q # p
      BY <1>2, <1>3, <1>5, <3>2, <3>3, <3>5
    <3> QED  BY <3>4, <3>5
  <2>2. \A q \in Second : \A u \in proc'[q].batch : payload'[u] # None
    <3>1. SUFFICES ASSUME NEW q \in Second, NEW u \in proc'[q].batch PROVE payload'[u] # None
      OBVIOUS
    <3>2. q \in Processes /\ q # p /\ u \in proc[q].batch
      BY <1>2, <1>3 DEF Processes
    <3>3. u \in Tasks /\ u # t /\ payload[u] # None
      BY <1>0, <1>3, <3>2, OneHolder DEF PayloadInv
    <3> QED  BY <1>5, <3>3
  <2>3. \A u \in Tasks : /\ place[u] = "queued" => payload'[u] = None
                         /\ place[u] = "between" => payload'[u] # None
    BY <1>0, <1>3, <1>5 DEF PayloadInv
  <2>4. \A u \in Tasks : payload'[u] # None =>
          /\ payload'[u].kind = IF UsesStore(worker.first) THEN "id" ELSE worker.first
          /\ payload'[u].kind # "id" => payload'[u].of = u
    BY <1>0, <1>3, <1>5 DEF PayloadInv
  <2>5. \A u \in Tasks : place[u] \in {"queued", "held", "between"} => status[u] = None
    BY <1>0 DEF PayloadInv
  <2> QED  BY <2>1, <2>2, <2>3, <2>4, <2>5 DEF PayloadInv
<1>10. StoreInv'
  <2>1. ASSUME NEW i \in ObjectIds, store'[i] # None
        PROVE  payload'[store'[i]] = [kind |-> "id", of |-> i]
    <3>1. CASE x.kind = "id" /\ i = x.of /\ store'[i] = t
      BY <1>5, <3>1
    <3>2. CASE store'[i] = store[i]
      <4>1. store[i] \in Tasks /\ payload[store[i]] = [kind |-> "id", of |-> i]
        BY <1>0, <2>1, <3>2 DEF StoreInv, ExchangeTypes
      <4>2. [kind |-> "id", of |-> i] \in Payload
        BY DEF Payload
      <4>3. store[i] # t
        BY <1>4, <4>1, <4>2, Absent
      <4> QED  BY <1>5, <3>2, <4>1, <4>3
    <3> QED  BY <1>6, <3>1, <3>2
  <2>2. ASSUME NEW u \in Tasks, payload'[u] # None, payload'[u].kind = "id", Pending(u)'
        PROVE  store'[payload'[u].of] = u
    <3>1. CASE u = t
      BY <1>0, <1>5, <2>2, <3>1 DEF ExchangeTypes
    <3>2. CASE u # t
      <4>1. payload'[u] = payload[u]
        BY <1>5, <3>2
      <4>2. Pending(u)
        BY <1>1, <1>2, <2>2 DEF Pending, Processes
      <4>3. store[payload[u].of] = u /\ payload[u].of \in ObjectIds
        BY <1>0, <2>2, <4>1, <4>2, IdType DEF StoreInv
      <4>4. x.kind = "id" => payload[u].of # x.of
        BY <2>2, <4>1 DEF NotSent
      <4> QED  BY <1>6, <4>1, <4>3, <4>4
    <3> QED  BY <3>1, <3>2
  <2>3. ASSUME NEW q \in Second, NEW u \in Done(proc'[q]), NEW i \in ObjectIds
        PROVE  store'[i] # u
    <3>1. q \in Processes /\ q # p /\ u \in Done(proc[q])
      BY <1>2, <1>3, <2>3 DEF Processes
    <3>2. u \in proc[q].batch /\ u # t
      BY <1>0, <1>3, <3>1 DEF BatchInv, LoopOK
    <3>3. store[i] # u
      BY <1>0, <3>1 DEF StoreInv
    <3> QED  BY <1>6, <3>2, <3>3
  <2> QED  BY <2>1, <2>2, <2>3 DEF StoreInv
<1>11. NothingLeft'
  <2>1. SUFFICES ASSUME NEW i \in ObjectIds, store'[i] # None PROVE status[store'[i]] # 200
    BY DEF NothingLeft
  <2>2. store[i] # None => status[store[i]] # 200
    BY <1>0 DEF NothingLeft
  <2> QED  BY <1>3, <1>6, <2>1, <2>2, Absent
<1>12. Blame'
  <2>1. SUFFICES ASSUME NEW u \in Tasks, status[u] \in {400, 422}, status[u] # raised[u],
                        worker.first = worker.second
                 PROVE  /\ payload'[u] = None
                        /\ \E v \in Tasks : status[v] = status[u] /\ Deserialize(body[v]) # "ok"
    BY SameBodies DEF Blame
  <2>2. u # t
    BY <1>3, <2>1, Absent
  <2>3. payload[u] = None /\ \E v \in Tasks : status[v] = status[u] /\ Deserialize(body[v]) # "ok"
    BY <1>0, <2>1 DEF Blame
  <2> QED  BY <1>5, <2>2, <2>3
<1> QED  BY <1>7, <1>8, <1>9, <1>10, <1>11, <1>12 DEF ExchangeInv

-----------------------------------------------------------------------------
(* A count of encoded tasks, of ids that processes have kept and of deaths *)
(* stays within the ids.                                                   *)
LEMMA CounterBound ==
  ASSUME NEW S \in SUBSET Tasks, NEW F \in SUBSET First, NEW c \in Nat,
         NEW d \in 0 .. MaxDeaths, c <= Cardinality(S) + Cardinality(F) + d
  PROVE  c # 0 => c \in ObjectIds
<1>1. /\ Cardinality(S) <= Cardinality(Tasks) /\ Cardinality(S) \in Nat
      /\ Cardinality(Tasks) \in Nat
  BY ExchangeAssumption, FS_Subset, FS_CardinalityType
<1>2. /\ Cardinality(F) <= Cardinality(First) /\ Cardinality(F) \in Nat
      /\ Cardinality(First) \in Nat
  BY ExchangeAssumption, FS_Subset, FS_CardinalityType
<1>3. MaxDeaths \in Nat
  BY ExchangeAssumption
<1> QED  BY <1>1, <1>2, <1>3 DEF ObjectIds

(* While a task is not encoded there is an id that nobody has taken. *)
LEMMA FreshId ==
  ASSUME ExchangeInv, NEW p \in First, NEW t \in ToEncode(p)
  PROVE  /\ t \in Tasks /\ payload[t] = None /\ counter \in Nat
         /\ counter + 1 \in ObjectIds /\ counter + 1 # None
         /\ counter + 1 <= Cardinality({u \in Tasks : payload[u] # None} \cup {t})
                           + Cardinality({q \in First : next_id[q] # None}) + deaths
<1>0. /\ ExchangeTypes /\ PayloadInv /\ CountInv /\ p \in Processes
  BY DEF ExchangeInv, Processes
<1>1. t \in Tasks /\ t \in proc[p].batch /\ payload[t] = None
  BY <1>0, OneHolder DEF ToEncode, PayloadInv
<1> DEFINE S == {u \in Tasks : payload[u] # None}
           F == {q \in First : next_id[q] # None}
<1>2. t \notin S /\ S \cup {t} \in SUBSET Tasks /\ F \in SUBSET First
  BY <1>1
<1>3. counter <= Cardinality(S) + Cardinality(F) + deaths
  BY <1>0 DEF CountInv
<1>4. counter \in Nat /\ deaths \in 0 .. MaxDeaths /\ MaxDeaths \in Nat
  BY <1>0, ExchangeAssumption DEF ExchangeTypes
<1> HIDE DEF S, F
<1>5. IsFiniteSet(S) /\ IsFiniteSet(F)
  BY <1>2, ExchangeAssumption, FS_Subset
<1>6. Cardinality(S \cup {t}) = Cardinality(S) + 1
  BY <1>2, <1>5, FS_AddElement
<1>7. Cardinality(S) \in Nat /\ Cardinality(F) \in Nat
  BY <1>5, FS_CardinalityType
<1>8. counter + 1 <= Cardinality(S \cup {t}) + Cardinality(F) + deaths
  BY <1>3, <1>4, <1>6, <1>7
<1>9. counter + 1 \in ObjectIds
  BY <1>2, <1>4, <1>8, CounterBound
<1> QED  BY <1>1, <1>4, <1>8, <1>9, Absent DEF S, F

(* The count grows with a task that is encoded. *)
LEMMA PutCount ==
  ASSUME ExchangeInv, NEW p \in First, NEW t \in ToEncode(p),
         NEW x \in Payload, payload' = [payload EXCEPT ![t] = x],
         {q \in First : next_id'[q] # None} = {q \in First : next_id[q] # None},
         counter' \in {counter, counter + 1}, deaths' = deaths
  PROVE  CountInv'
<1>1. t \in Tasks /\ payload \in [Tasks -> Payload \cup {None}] /\ counter \in Nat
  BY FreshId DEF ExchangeInv, ExchangeTypes
<1>2. {u \in Tasks : payload'[u] # None} = {u \in Tasks : payload[u] # None} \cup {t}
  <2>1. payload'[t] = x /\ \A u \in Tasks : u # t => payload'[u] = payload[u]
    BY <1>1
  <2> QED  BY <1>1, <2>1, Absent
<1> DEFINE n == Cardinality({u \in Tasks : payload[u] # None} \cup {t})
                + Cardinality({q \in First : next_id[q] # None}) + deaths
<1>3. counter + 1 <= n
  BY FreshId
<1>4. n \in Int
  <2>1. /\ IsFiniteSet({u \in Tasks : payload[u] # None} \cup {t})
        /\ IsFiniteSet({q \in First : next_id[q] # None})
    BY <1>1, ExchangeAssumption, FS_Subset
  <2>2. deaths \in Nat
    BY ExchangeAssumption DEF ExchangeInv, ExchangeTypes
  <2> QED  BY <2>1, <2>2, FS_CardinalityType
<1>5. counter' <= n
  <2> HIDE DEF n
  <2> QED  BY <1>1, <1>3, <1>4
<1> QED  BY <1>2, <1>5 DEF CountInv

(* A task gets a payload, and a process perhaps the next id: no id has two *)
(* owners.                                                                 *)
LEMMA IdsApart ==
  ASSUME ExchangeInv, NEW p \in First, NEW t \in Tasks,
         NEW x \in Payload, payload' = [payload EXCEPT ![t] = x],
         \/ next_id' = next_id /\ counter' \in {counter, counter + 1}
         \/ next_id' = [next_id EXCEPT ![p] = counter + 1] /\ counter' = counter + 1,
         x.kind = "id" =>
           /\ x.of \in ObjectIds /\ x.of <= counter'
           /\ NotSent(x.of) /\ \A q \in First : next_id'[q] # x.of
  PROVE  IdInv'
<1>0. ExchangeTypes /\ IdInv
  BY DEF ExchangeInv
<1>1. payload'[t] = x /\ \A u \in Tasks : u # t => payload'[u] = payload[u]
  BY <1>0 DEF ExchangeTypes
<1>2. counter \in Nat /\ counter' \in Nat /\ counter <= counter'
  <2>1. counter \in Nat
    BY <1>0 DEF ExchangeTypes
  <2>2. counter' = counter \/ counter' = counter + 1
    OBVIOUS
  <2> QED  BY <2>1, <2>2
<1>3. \A q \in First : \/ next_id'[q] = next_id[q]
                       \/ q = p /\ next_id'[q] = counter + 1 /\ counter' = counter + 1
  BY <1>0 DEF ExchangeTypes
<1>4. \A q \in First : next_id[q] # None => next_id[q] \in Int /\ next_id[q] <= counter
  BY <1>0 DEF ExchangeTypes, IdInv, ObjectIds
<1>5. ASSUME NEW u \in Tasks, payload[u] # None, payload[u].kind = "id"
      PROVE  payload[u].of \in Int /\ payload[u].of <= counter
  <2>1. payload[u].of \in ObjectIds /\ payload[u].of <= counter
    BY <1>0, <1>5, IdType DEF IdInv
  <2> QED  BY <2>1 DEF ObjectIds
<1>6. \A u \in Tasks : payload'[u] # None /\ payload'[u].kind = "id" => payload'[u].of <= counter'
  <2>1. ASSUME NEW u \in Tasks, payload'[u] # None, payload'[u].kind = "id"
        PROVE  payload'[u].of <= counter'
    <3>1. CASE u = t
      BY <1>1, <2>1, <3>1
    <3>2. CASE u # t
      <4>1. payload'[u].of \in Int /\ payload'[u].of <= counter
        BY <1>1, <1>5, <2>1, <3>2
      <4> QED  BY <1>2, <4>1
    <3> QED  BY <3>1, <3>2
  <2> QED  BY <2>1
<1>7. ASSUME NEW q \in First, next_id'[q] # None PROVE next_id'[q] <= counter'
  <2>1. CASE next_id'[q] = next_id[q]
    BY <1>2, <1>4, <1>7, <2>1
  <2>2. CASE next_id'[q] = counter'
    BY <1>2, <2>2
  <2> QED  BY <1>3, <2>1, <2>2
<1>8. ASSUME NEW u \in Tasks, NEW v \in Tasks, payload'[u] # None, payload'[v] # None,
             payload'[u].kind = "id", payload'[u] = payload'[v]
      PROVE  u = v
  <2>1. CASE u = t
    BY <1>1, <1>8, <2>1 DEF NotSent
  <2>2. CASE u # t /\ v = t
    BY <1>1, <1>8, <2>2 DEF NotSent
  <2>3. CASE u # t /\ v # t
    BY <1>0, <1>1, <1>8, <2>3 DEF IdInv
  <2> QED  BY <2>1, <2>2, <2>3
<1>9. ASSUME NEW q \in First, NEW r \in First, next_id'[q] # None, next_id'[q] = next_id'[r]
      PROVE  q = r
  <2>1. CASE next_id'[q] = next_id[q] /\ next_id'[r] = next_id[r]
    BY <1>0, <1>9, <2>1 DEF IdInv
  <2>2. CASE next_id'[q] = counter + 1 /\ next_id'[r] = next_id[r] /\ q = p
    <3>1. next_id[r] = counter + 1 /\ next_id[r] # None
      BY <1>9, <2>2
    <3>2. counter + 1 <= counter
      BY <1>4, <3>1
    <3> QED  BY <1>2, <3>2
  <2>3. CASE next_id'[r] = counter + 1 /\ next_id'[q] = next_id[q] /\ r = p
    <3>1. next_id[q] = counter + 1 /\ next_id[q] # None
      BY <1>9, <2>3
    <3>2. counter + 1 <= counter
      BY <1>4, <3>1
    <3> QED  BY <1>2, <3>2
  <2> QED  BY <1>3, <2>1, <2>2, <2>3
<1>10. ASSUME NEW u \in Tasks, NEW q \in First, payload'[u] # None, payload'[u].kind = "id"
       PROVE  payload'[u].of # next_id'[q]
  <2>1. CASE u = t
    BY <1>1, <1>10, <2>1
  <2>2. CASE u # t /\ next_id'[q] = next_id[q]
    BY <1>0, <1>1, <1>10, <2>2 DEF IdInv
  <2>3. CASE u # t /\ next_id'[q] = counter + 1
    BY <1>1, <1>2, <1>5, <1>10, <2>3
  <2> QED  BY <1>3, <2>1, <2>2, <2>3
<1> QED  BY <1>6, <1>7, <1>8, <1>9, <1>10 DEF IdInv

(* RedisShmIPCMixin stores under the id it has kept, and takes another. *)
LEMMA StoreRedisStep ==
  ASSUME ExchangeInv, NEW p \in First, StoreRedis(p)
  PROVE  ExchangeInv'
<1>0. ExchangeTypes /\ IdInv
  BY DEF ExchangeInv
<1>1. PICK t \in ToEncode(p) :
        /\ store' = [store EXCEPT ![next_id[p]] = t]
        /\ payload' = [payload EXCEPT ![t] = [kind |-> "id", of |-> next_id[p]]]
        /\ Encoded(p, t)
  BY DEF StoreRedis, PutObject
<1>2. /\ proc[p].pc = "encode" /\ worker.first = "redis" /\ next_id[p] # None
      /\ counter' = counter + 1 /\ next_id' = [next_id EXCEPT ![p] = counter + 1]
      /\ UNCHANGED <<worker, raised, body, place, status, deaths>>
  BY DEF StoreRedis
<1> DEFINE x == [kind |-> "id", of |-> next_id[p]]
<1>3. next_id[p] \in ObjectIds /\ next_id[p] <= counter /\ counter \in Nat
  BY <1>0, <1>2 DEF ExchangeTypes, IdInv
<1>4. x \in Payload /\ x.kind = "id" /\ x.of = next_id[p] /\ x = [kind |-> "id", of |-> x.of]
  BY <1>3 DEF Payload
<1>5. payload' = [payload EXCEPT ![t] = x]
  BY <1>1
<1> HIDE DEF x
<1>6. t \in Tasks /\ payload[t] = None /\ counter + 1 \in ObjectIds /\ counter + 1 # None
  BY FreshId
<1>7. /\ next_id'[p] = counter + 1 /\ \A q \in First : q # p => next_id'[q] = next_id[q]
      /\ next_id' \in [First -> ObjectIds \cup {None}]
  BY <1>0, <1>2, <1>6 DEF ExchangeTypes
<1>8. {q \in First : next_id'[q] # None} = {q \in First : next_id[q] # None}
  BY <1>2, <1>6, <1>7
<1>9. CountInv'
  BY <1>2, <1>4, <1>5, <1>8, PutCount
<1>10. NotSent(x.of)
  BY <1>0, <1>4 DEF IdInv, NotSent
<1>11. IdInv'
  <2>1. \A q \in First : next_id'[q] # x.of
    BY <1>0, <1>2, <1>3, <1>4, <1>7 DEF IdInv, ObjectIds
  <2>2. x.of \in ObjectIds /\ x.of <= counter'
    BY <1>2, <1>3, <1>4 DEF ObjectIds
  <2> QED  BY <1>2, <1>4, <1>5, <1>6, <1>10, <2>1, <2>2, IdsApart
<1>12. x.kind = IF UsesStore(worker.first) THEN "id" ELSE worker.first
  BY <1>2, <1>4 DEF UsesStore
<1>13. x.of \in ObjectIds /\ store' = [store EXCEPT ![x.of] = t] /\ counter' \in Nat
  BY <1>1, <1>2, <1>3, <1>4
<1> QED
  BY <1>1, <1>2, <1>4, <1>5, <1>7, <1>9, <1>10, <1>11, <1>12, <1>13, Put

LEMMA StorePlasmaStep ==
  ASSUME ExchangeInv, NEW p \in First, StorePlasma(p)
  PROVE  ExchangeInv'
<1>0. ExchangeTypes /\ IdInv
  BY DEF ExchangeInv
<1>1. PICK t \in ToEncode(p) :
        /\ store' = [store EXCEPT ![counter + 1] = t]
        /\ payload' = [payload EXCEPT ![t] = [kind |-> "id", of |-> counter + 1]]
        /\ Encoded(p, t)
  BY DEF StorePlasma, PutObject
<1>2. /\ proc[p].pc = "encode" /\ worker.first = "plasma" /\ counter' = counter + 1
      /\ UNCHANGED <<worker, raised, body, place, status, next_id, deaths>>
  BY DEF StorePlasma
<1> DEFINE x == [kind |-> "id", of |-> counter + 1]
<1>3. t \in Tasks /\ counter \in Nat /\ counter + 1 \in ObjectIds /\ counter + 1 # None
  BY FreshId
<1>4. x \in Payload /\ x.kind = "id" /\ x.of = counter + 1 /\ x = [kind |-> "id", of |-> x.of]
  BY <1>3 DEF Payload
<1>5. payload' = [payload EXCEPT ![t] = x]
  BY <1>1
<1> HIDE DEF x
<1>6. CountInv'
  BY <1>2, <1>4, <1>5, PutCount
<1>7. NotSent(x.of)
  <2>1. SUFFICES ASSUME NEW u \in Tasks, payload[u] # None, payload[u].kind = "id"
                 PROVE  payload[u].of # counter + 1
    BY <1>4 DEF NotSent
  <2>2. payload[u].of \in ObjectIds /\ payload[u].of <= counter
    BY <1>0, <2>1, IdType DEF IdInv
  <2> QED  BY <1>3, <2>2 DEF ObjectIds
<1>8. \A q \in First : next_id'[q] # x.of
  <2>1. SUFFICES ASSUME NEW q \in First, next_id[q] = counter + 1 PROVE FALSE
    BY <1>2, <1>4
  <2>2. counter + 1 <= counter
    BY <1>0, <1>3, <2>1 DEF IdInv
  <2> QED  BY <1>3, <2>2
<1>9. x.of \in ObjectIds /\ x.of <= counter' /\ store' = [store EXCEPT ![x.of] = t]
  BY <1>1, <1>2, <1>3, <1>4
<1>10. IdInv'
  BY <1>2, <1>3, <1>4, <1>5, <1>7, <1>8, <1>9, IdsApart
<1>11. next_id' \in [First -> ObjectIds \cup {None}] /\ counter' \in Nat
  BY <1>0, <1>2, <1>3 DEF ExchangeTypes
<1>12. x.kind = IF UsesStore(worker.first) THEN "id" ELSE worker.first
  BY <1>2, <1>4 DEF UsesStore
<1> QED  BY <1>1, <1>2, <1>4, <1>5, <1>6, <1>7, <1>9, <1>10, <1>11, <1>12, Put

(* serialize_ipc without a store. *)
LEMMA EncodeIpcStep ==
  ASSUME ExchangeInv, NEW p \in First, EncodeIpc(p)
  PROVE  ExchangeInv'
<1>0. ExchangeTypes /\ IdInv /\ p \in Processes
  BY DEF ExchangeInv, Processes
<1>1. PICK t \in ToEncode(p) : \E result \in {"plain", "odd"} :
        \/ /\ SerializeIpc(result) = "ok" /\ Encoded(p, t)
           /\ payload' = [payload EXCEPT ![t] = [kind |-> worker.first, of |-> t]]
           /\ UNCHANGED <<place, status>>
        \/ SerializeIpc(result) # "ok" /\ Fail(p, SerializeIpc(result)) /\ payload' = payload
  BY DEF EncodeIpc
<1>2. /\ proc[p].pc = "encode" /\ ~UsesStore(worker.first)
      /\ UNCHANGED <<worker, raised, body, next_id, counter, store, deaths>>
  BY DEF EncodeIpc, shared
<1>3. t \in Tasks /\ counter \in Nat
  BY FreshId
<1>4. worker.first \in Kinds
  BY <1>0, ExchangeAssumption DEF ExchangeTypes, WorkerClass
<1>5. CASE /\ Encoded(p, t) /\ UNCHANGED <<place, status>>
           /\ payload' = [payload EXCEPT ![t] = [kind |-> worker.first, of |-> t]]
  <2> DEFINE x == [kind |-> worker.first, of |-> t]
  <2>1. x \in Payload /\ x.kind = worker.first /\ x.of = t /\ x.kind # "id"
    BY <1>3, <1>4 DEF Payload, Kinds
  <2>2. payload' = [payload EXCEPT ![t] = x]
    BY <1>5
  <2> HIDE DEF x
  <2>3. CountInv'
    BY <1>2, <2>1, <2>2, PutCount
  <2>4. IdInv'
    BY <1>2, <1>3, <2>1, <2>2, IdsApart
  <2>5. next_id' \in [First -> ObjectIds \cup {None}] /\ counter' \in Nat
    BY <1>0, <1>2 DEF ExchangeTypes
  <2> QED  BY <1>2, <1>5, <2>1, <2>2, <2>3, <2>4, <2>5, Put
<1>6. ASSUME NEW result \in {"plain", "odd"}, SerializeIpc(result) # "ok",
             Fail(p, SerializeIpc(result)), payload' = payload
      PROVE  ExchangeInv'
  <2>1. SerializeIpc(result) = "EncodingError"
    BY <1>6 DEF SerializeIpc, SerializeNumBin
  <2>2. Fail(p, "EncodingError") /\ store' \in [ObjectIds -> Tasks \cup {None}]
    BY <1>0, <1>2, <1>6, <2>1 DEF ExchangeTypes
  <2> QED  BY <1>0, <1>2, <1>6, <2>2, Failed
<1> QED  BY <1>1, <1>5, <1>6

(* RedisShmIPCMixin._prepare_next_id: a process takes its first id. *)
LEMMA PrepareNextIdStep ==
  ASSUME ExchangeInv, NEW p \in First, PrepareNextId(p)
  PROVE  ExchangeInv'
<1>0. /\ ExchangeTypes /\ BatchInv /\ PayloadInv /\ IdInv /\ StoreInv /\ CountInv
      /\ NothingLeft /\ Blame
  BY DEF ExchangeInv
<1>1. /\ next_id[p] = None /\ ToEncode(p) # {} /\ counter' = counter + 1
      /\ next_id' = [next_id EXCEPT ![p] = counter + 1]
      /\ UNCHANGED <<worker, raised, body, place, payload, status, proc, store, deaths>>
  BY DEF PrepareNextId, tasks
<1>2. PICK t \in ToEncode(p) : TRUE
  BY <1>1
<1>3. counter \in Nat /\ counter + 1 \in ObjectIds /\ counter + 1 # None
  BY FreshId
<1>4. /\ next_id'[p] = counter + 1 /\ \A q \in First : q # p => next_id'[q] = next_id[q]
      /\ next_id' \in [First -> ObjectIds \cup {None}]
  BY <1>0, <1>1, <1>3 DEF ExchangeTypes
<1>5. ExchangeTypes'
  BY <1>0, <1>1, <1>3, <1>4 DEF ExchangeTypes
<1>6. BatchInv' /\ PayloadInv'
  BY <1>0, <1>1 DEF BatchInv, PayloadInv
<1>7. StoreInv'
  BY <1>0, <1>1 DEF StoreInv, Pending
<1>8. NothingLeft' /\ Blame'
  BY <1>0, <1>1, SameBodies DEF NothingLeft, Blame
<1>9. CountInv'
  <2> DEFINE F == {q \in First : next_id[q] # None}
             n == Cardinality({u \in Tasks : payload[u] # None})
  <2>1. {q \in First : next_id'[q] # None} = F \cup {p}
    BY <1>1, <1>3, <1>4
  <2>2. p \notin F /\ IsFiniteSet(F) /\ IsFiniteSet({u \in Tasks : payload[u] # None})
    BY <1>1, ExchangeAssumption, FS_Subset
  <2>3. n \in Nat
    BY <2>2, FS_CardinalityType
  <2>4. counter <= n + Cardinality(F) + deaths /\ deaths \in Int
    BY <1>0 DEF CountInv, ExchangeTypes
  <2>5. CountInv' <=> counter' <= n + Cardinality(F \cup {p}) + deaths
    BY <1>1, <2>1 DEF CountInv
  <2> HIDE DEF F, n
  <2>6. Cardinality(F \cup {p}) = Cardinality(F) + 1 /\ Cardinality(F) \in Nat
    BY <2>2, FS_AddElement, FS_CardinalityType
  <2> QED  BY <1>1, <1>3, <2>3, <2>4, <2>5, <2>6
<1>10. IdInv'
  <2>1. ASSUME NEW u \in Tasks, payload[u] # None, payload[u].kind = "id"
        PROVE  payload[u].of \in Int /\ payload[u].of <= counter
    <3>1. payload[u].of \in ObjectIds /\ payload[u].of <= counter
      BY <1>0, <2>1, IdType DEF IdInv
    <3> QED  BY <3>1 DEF ObjectIds
  <2>2. \A q \in First : next_id[q] # None => next_id[q] \in Int /\ next_id[q] <= counter
    BY <1>0 DEF ExchangeTypes, IdInv, ObjectIds
  <2>3. \A u \in Tasks : payload[u] # None /\ payload[u].kind = "id" => payload[u].of <= counter'
    BY <1>1, <1>3, <2>1
  <2>4. \A q \in First : next_id'[q] # None => next_id'[q] <= counter'
    BY <1>1, <1>3, <1>4, <2>2
  <2>5. \A q, r \in First : next_id'[q] # None /\ next_id'[q] = next_id'[r] => q = r
    <3>1. \A q \in First : next_id[q] # counter + 1
      <4>1. SUFFICES ASSUME NEW q \in First, next_id[q] = counter + 1 PROVE FALSE
        OBVIOUS
      <4>2. counter + 1 <= counter
        BY <1>3, <2>2, <4>1
      <4> QED  BY <1>3, <4>2
    <3> QED  BY <1>0, <1>4, <3>1 DEF IdInv
  <2>6. ASSUME NEW u \in Tasks, NEW q \in First, payload[u] # None, payload[u].kind = "id"
        PROVE  payload[u].of # next_id'[q]
    <3>1. CASE q = p
      BY <1>3, <1>4, <2>1, <2>6, <3>1
    <3>2. CASE q # p
      BY <1>0, <1>4, <2>6, <3>2 DEF IdInv
    <3> QED  BY <3>1, <3>2
  <2>7. \A u, v \in Tasks :
          payload[u] # None /\ payload[v] # None /\ payload[u].kind = "id"
            /\ payload[u] = payload[v] => u = v
    BY <1>0 DEF IdInv
  <2> QED  BY <1>1, <2>3, <2>4, <2>5, <2>6, <2>7 DEF IdInv
<1> QED  BY <1>5, <1>6, <1>7, <1>8, <1>9, <1>10 DEF ExchangeInv

(* A process takes tasks that wait for its stage. *)
LEMMA ReceiveStep ==
  ASSUME ExchangeInv, NEW p \in Processes, Receive(p)
  PROVE  ExchangeInv'
<1>0. /\ ExchangeTypes /\ BatchInv /\ PayloadInv /\ IdInv /\ StoreInv /\ CountInv
      /\ NothingLeft /\ Blame
  BY DEF ExchangeInv
<1>1. PICK B \in SUBSET {t \in Tasks : place[t] = Source(p)} :
        /\ proc' = [proc EXCEPT ![p] = [Idle EXCEPT !.pc = "decode", !.batch = B]]
        /\ place' = [t \in Tasks |-> IF t \in B THEN "held" ELSE place[t]]
  BY DEF Receive
<1> DEFINE new == [Idle EXCEPT !.pc = "decode", !.batch = B]
<1>2. /\ new.pc = "decode" /\ new.batch = B /\ new.data = {} /\ new.encoded = {} /\ new \in Loop
      /\ B \in SUBSET Tasks
  BY DEF Idle, Loop
<1>3. proc' = [proc EXCEPT ![p] = new]
  BY <1>1
<1> HIDE DEF new
<1>4. Done(new) = {} /\ LoopOK(new)
  BY <1>2 DEF Done, LoopOK
<1>5. proc'[p] = new /\ \A q \in Processes : q # p => proc'[q] = proc[q]
  BY <1>0, <1>3 DEF ExchangeTypes
<1>6. /\ UNCHANGED <<worker, raised, body, payload, status, next_id, counter, store, deaths>>
      /\ proc[p].batch = {}
  BY <1>0 DEF Receive, shared, BatchInv, LoopOK
<1>7. /\ \A t \in B : t \in Tasks /\ place[t] = Source(p) /\ place[t] # "held"
      /\ \A t \in B : place'[t] = "held"
      /\ \A t \in Tasks \ B : place'[t] = place[t]
  BY <1>1 DEF Source
<1>8. \A q \in Processes : \A t \in proc[q].batch : t \in Tasks /\ t \notin B
  BY <1>7, OneHolder
<1>9. ExchangeTypes'
  <2>1. place' \in [Tasks -> Places] /\ proc' \in [Processes -> Loop]
    BY <1>0, <1>1, <1>2, <1>3 DEF ExchangeTypes, Places
  <2> QED  BY <1>0, <1>6, <2>1 DEF ExchangeTypes
<1>10. BatchInv'
  <2>1. \A q \in Processes : LoopOK(proc'[q])
    BY <1>0, <1>4, <1>5 DEF BatchInv
  <2>2. \A q \in Processes : \A t \in proc'[q].batch : place'[t] = "held"
    BY <1>0, <1>2, <1>5, <1>7, <1>8 DEF BatchInv
  <2>3. \A q, r \in Processes : \A t \in proc'[q].batch : t \in proc'[r].batch => q = r
    BY <1>0, <1>2, <1>5, <1>8 DEF BatchInv
  <2> QED  BY <2>1, <2>2, <2>3 DEF BatchInv
<1>11. PayloadInv'
  <2>1. \A t \in Tasks : place'[t] \in {"queued", "held", "between"} => status[t] = None
    BY <1>0, <1>7 DEF PayloadInv, Source
  <2>2. \A t \in Tasks : /\ place'[t] = "queued" => payload[t] = None
                         /\ place'[t] = "between" => payload[t] # None
    BY <1>0, <1>7 DEF PayloadInv
  <2>3. \A q \in First : \A t \in proc'[q].batch : payload[t] # None <=> t \in proc'[q].encoded
    BY <1>0, <1>2, <1>5, <1>7 DEF PayloadInv, Source, Processes
  <2>4. \A q \in Second : \A t \in proc'[q].batch : payload[t] # None
    <3>1. p \in Second => p \notin First
      BY ExchangeAssumption
    <3> QED  BY <1>0, <1>2, <1>5, <1>7, <3>1 DEF PayloadInv, Source, Processes
  <2>5. \A t \in Tasks : payload[t] # None =>
          /\ payload[t].kind = IF UsesStore(worker.first) THEN "id" ELSE worker.first
          /\ payload[t].kind # "id" => payload[t].of = t
    BY <1>0 DEF PayloadInv
  <2> QED  BY <1>6, <2>1, <2>2, <2>3, <2>4, <2>5 DEF PayloadInv
<1>12. IdInv' /\ CountInv'
  BY <1>0, <1>6 DEF IdInv, CountInv
<1>13. StoreInv'
  <2>1. ASSUME NEW t \in Tasks, payload[t] # None, payload[t].kind = "id", Pending(t)'
        PROVE  store[payload[t].of] = t
    <3>1. CASE t \in B
      <4>1. place[t] = "between"
        BY <1>0, <1>7, <2>1, <3>1 DEF PayloadInv, Source
      <4> QED  BY <1>0, <2>1, <4>1 DEF StoreInv, Pending
    <3>2. CASE t \notin B
      <4>1. Pending(t)
        BY <1>2, <1>5, <1>7, <2>1, <3>2 DEF Pending, Processes
      <4> QED  BY <1>0, <2>1, <4>1 DEF StoreInv
    <3> QED  BY <3>1, <3>2
  <2>2. \A q \in Second : \A t \in Done(proc'[q]) : \A i \in ObjectIds : store[i] # t
    BY <1>0, <1>4, <1>5 DEF StoreInv, Processes
  <2>3. \A i \in ObjectIds : store[i] # None => payload[store[i]] = [kind |-> "id", of |-> i]
    BY <1>0 DEF StoreInv
  <2> QED  BY <1>6, <2>1, <2>2, <2>3 DEF StoreInv
<1>14. NothingLeft' /\ Blame'
  BY <1>0, <1>6, SameBodies DEF NothingLeft, Blame
<1> QED  BY <1>9, <1>10, <1>11, <1>12, <1>13, <1>14 DEF ExchangeInv

LEMMA ForwardStep ==
  ASSUME ExchangeInv, NEW p \in Processes, Forward(p)
  PROVE  ExchangeInv'
<1>0. ExchangeTypes /\ BatchInv /\ StoreInv
  BY DEF ExchangeInv
<1>1. /\ proc[p].pc = "forward"
      /\ UNCHANGED <<worker, body, payload, next_id, counter, store, deaths>>
      /\ store' \in [ObjectIds -> Tasks \cup {None}]
  BY <1>0 DEF Forward, shared, ExchangeTypes
<1>2. CASE proc' = [proc EXCEPT ![p].pc = "encode"] /\ UNCHANGED <<raised, place, status>>
  <2> DEFINE new == [proc[p] EXCEPT !.pc = "encode"]
  <2>1. proc \in [Processes -> Loop] /\ proc[p] \in Loop /\ LoopOK(proc[p])
    BY <1>0 DEF ExchangeTypes, BatchInv
  <2>2. /\ new \in Loop /\ new.pc = "encode" /\ new.batch = proc[p].batch
        /\ new.data = proc[p].data /\ new.encoded = proc[p].encoded
    BY <2>1 DEF Loop
  <2>3. proc' = [proc EXCEPT ![p] = new]
    BY <1>2, <2>1
  <2> HIDE DEF new
  <2>4. Done(new) = Done(proc[p])
    BY <2>2 DEF Done
  <2>5. LoopOK(new)
    BY <1>1, <2>1, <2>2, <2>4 DEF LoopOK
  <2>6. p \in Second => \A t \in Done(new) : \A i \in ObjectIds : store'[i] # t
    BY <1>0, <1>1, <2>4 DEF StoreInv
  <2> QED  BY <1>1, <1>2, <2>2, <2>3, <2>4, <2>5, <2>6, Advance
<1>3. ASSUME NEW err \in DOMAIN ErrorCode, Fail(p, err),
             raised' = [t \in Tasks |-> IF t \in proc[p].batch THEN ErrorCode[err] ELSE raised[t]]
      PROVE  ExchangeInv'
  <2>1. \A t \in proc[p].batch : raised'[t] = ErrorCode[err]
    BY <1>3, OneHolder
  <2>2. \A t \in Tasks \ proc[p].batch : raised'[t] = raised[t]
    BY <1>3
  <2> QED  BY <1>1, <1>3, <2>1, <2>2, Flags, Failed
<1> QED  BY <1>2, <1>3 DEF Forward

(* serialize, at the second stage. *)
LEMMA EncodeBodyStep ==
  ASSUME ExchangeInv, NEW p \in Processes, EncodeBody(p)
  PROVE  ExchangeInv'
<1>0. ExchangeTypes /\ BatchInv /\ StoreInv
  BY DEF ExchangeInv
<1>1. /\ p \in Second /\ p \notin First /\ proc[p].pc = "encode"
      /\ UNCHANGED <<worker, raised, body, payload, next_id, counter, store, deaths>>
      /\ store' \in [ObjectIds -> Tasks \cup {None}]
  BY <1>0, ExchangeAssumption DEF EncodeBody, shared, ExchangeTypes
<1>2. PICK t \in ToEncode(p) : \E result \in {"plain", "odd"} :
        \/ Serialize(result) = "ok" /\ Encoded(p, t) /\ UNCHANGED <<place, status>>
        \/ Serialize(result) # "ok" /\ Fail(p, Serialize(result))
  BY DEF EncodeBody
<1>3. CASE Encoded(p, t) /\ UNCHANGED <<place, status>>
  <2>1. PICK new \in Loop :
          /\ LoopOK(new) /\ proc' = [proc EXCEPT ![p] = new]
          /\ new.batch = proc[p].batch /\ Done(new) = Done(proc[p])
          /\ new.encoded = proc[p].encoded \cup {t}
    BY <1>1, <1>2, <1>3, EncodedItem
  <2>2. p \in Second => \A u \in Done(new) : \A i \in ObjectIds : store'[i] # u
    BY <1>0, <1>1, <2>1 DEF StoreInv
  <2> QED  BY <1>1, <1>3, <2>1, <2>2, Advance
<1>4. ASSUME NEW result \in {"plain", "odd"}, Serialize(result) # "ok", Fail(p, Serialize(result))
      PROVE  ExchangeInv'
  <2> DEFINE err == Serialize(result)
  <2>1. worker.serialize \in {"json", "msgpack", "typed"}
    BY <1>0, ExchangeAssumption DEF ExchangeTypes, WorkerClass
  <2>2. err \in {"EncodingError", "Exception"}
    BY <1>4, <2>1 DEF Serialize, SerializeJson, SerializeMsgpack, SerializeTyped
  <2>3. Fail(p, err)
    BY <1>4
  <2> HIDE DEF err
  <2> QED  BY <1>1, <2>2, <2>3, Failed
<1> QED  BY <1>2, <1>3, <1>4

LEMMA StoreFailsStep ==
  ASSUME ExchangeInv, NEW p \in Processes, StoreFails(p)
  PROVE  ExchangeInv'
<1>1. /\ Fail(p, "Exception")
      /\ UNCHANGED <<worker, raised, body, payload, next_id, counter, store, deaths>>
      /\ store' \in [ObjectIds -> Tasks \cup {None}]
  BY DEF StoreFails, shared, ExchangeInv, ExchangeTypes
<1> QED  BY <1>1, Failed

LEMMA ReplyStep ==
  ASSUME ExchangeInv, NEW p \in Processes, Reply(p)
  PROVE  ExchangeInv'
<1>0. ExchangeTypes /\ BatchInv /\ StoreInv /\ CountInv
  BY DEF ExchangeInv
<1>1. /\ proc[p].pc = "encode" /\ ToEncode(p) = {}
      /\ UNCHANGED <<worker, raised, body, payload, next_id, counter, store, deaths>>
  BY DEF Reply, shared
<1>2. /\ next_id' \in [First -> ObjectIds \cup {None}] /\ deaths' \in 0 .. MaxDeaths
      /\ store' \in [ObjectIds -> Tasks \cup {None}]
      /\ \A q \in First : next_id'[q] \in {next_id[q], None}
      /\ \A i \in ObjectIds : store'[i] \in {store[i], None}
  BY <1>0, <1>1 DEF ExchangeTypes
<1>3. CountInv'
  BY <1>0, <1>1 DEF CountInv
<1>4. CASE p \in First
  <2>1. Answer(p, "between", None)
    BY <1>4 DEF Reply
  <2> QED  BY <1>1, <1>2, <1>3, <1>4, <2>1, Absent, End
<1>5. CASE p \notin First
  <2>1. Answer(p, "answered", 200) /\ p \in Second
    BY <1>5 DEF Reply, Processes
  <2>2. \A t \in proc[p].batch : \A i \in ObjectIds : store[i] # t
    <3>1. Done(proc[p]) = proc[p].batch
      BY <1>0, <1>1 DEF BatchInv, LoopOK
    <3> QED  BY <1>0, <2>1, <3>1 DEF StoreInv
  <2> QED  BY <1>1, <1>2, <1>3, <2>1, <2>2, End
<1> QED  BY <1>4, <1>5

(* A process that dies takes at most one id with it. *)
LEMMA DieStep ==
  ASSUME ExchangeInv, NEW p \in Processes, Die(p)
  PROVE  ExchangeInv'
<1>0. ExchangeTypes /\ CountInv
  BY DEF ExchangeInv
<1>1. /\ deaths < MaxDeaths /\ deaths' = deaths + 1 /\ Answer(p, "lost", None)
      /\ next_id' = [q \in First |-> IF q = p THEN None ELSE next_id[q]]
      /\ UNCHANGED <<worker, raised, body, payload, counter, store>>
  BY DEF Die
<1>2. /\ next_id' \in [First -> ObjectIds \cup {None}]
      /\ store' \in [ObjectIds -> Tasks \cup {None}]
      /\ \A q \in First : next_id'[q] \in {next_id[q], None}
      /\ \A i \in ObjectIds : store'[i] \in {store[i], None}
  BY <1>0, <1>1 DEF ExchangeTypes
<1>3. deaths' \in 0 .. MaxDeaths /\ deaths \in Nat /\ counter \in Nat
  BY <1>0, <1>1, ExchangeAssumption DEF ExchangeTypes
<1>4. CountInv'
  <2> DEFINE F == {q \in First : next_id[q] # None}
             n == Cardinality({u \in Tasks : payload[u] # None})
  <2>1. {q \in First : next_id'[q] # None} = F \ {p}
    BY <1>1
  <2>2. IsFiniteSet(F) /\ IsFiniteSet({u \in Tasks : payload[u] # None})
    BY ExchangeAssumption, FS_Subset
  <2>3. n \in Nat
    BY <2>2, FS_CardinalityType
  <2>4. counter <= n + Cardinality(F) + deaths
    BY <1>0 DEF CountInv
  <2>5. CountInv' <=> counter' <= n + Cardinality(F \ {p}) + deaths'
    BY <1>1, <2>1 DEF CountInv
  <2> HIDE DEF F, n
  <2>6. /\ Cardinality(F \ {p}) = IF p \in F THEN Cardinality(F) - 1 ELSE Cardinality(F)
        /\ Cardinality(F) \in Nat
    BY <2>2, FS_RemoveElement, FS_CardinalityType
  <2> QED  BY <1>1, <1>3, <2>3, <2>4, <2>5, <2>6
<1> QED  BY <1>1, <1>2, <1>3, <1>4, Absent, End

LEMMA NextExchange ==
  ASSUME ExchangeInv, [ENext]_eVars
  PROVE  ExchangeInv'
<1>1. CASE UNCHANGED eVars
  <2>1. UNCHANGED <<worker, raised, body, place, payload, status, proc, next_id, counter, store, deaths>>
    BY <1>1 DEF eVars, tasks, shared
  <2>2. ExchangeTypes' /\ BatchInv' /\ PayloadInv'
    BY <2>1 DEF ExchangeInv, ExchangeTypes, BatchInv, PayloadInv
  <2>3. IdInv' /\ StoreInv' /\ CountInv' /\ NothingLeft'
    BY <2>1 DEF ExchangeInv, IdInv, StoreInv, Pending, CountInv, NothingLeft
  <2>4. Blame'
    BY <2>1, SameBodies DEF ExchangeInv, Blame
  <2> QED  BY <2>2, <2>3, <2>4 DEF ExchangeInv
<1>2. ASSUME NEW p \in Processes,
             \/ Receive(p) \/ DecodeBody(p) \/ DecodeIpc(p) \/ Forward(p)
             \/ EncodeBody(p) \/ EncodeIpc(p) \/ PrepareNextId(p) \/ StoreRedis(p)
             \/ StorePlasma(p) \/ StoreFails(p) \/ Reply(p) \/ Die(p)
      PROVE  ExchangeInv'
  <2>1. CASE Receive(p)
    BY <2>1, ReceiveStep
  <2>2. CASE DecodeBody(p) \/ DecodeIpc(p)
    BY <2>2, DecodeBodyStep, DecodeIpcStep
  <2>3. CASE Forward(p) \/ EncodeBody(p)
    BY <2>3, ForwardStep, EncodeBodyStep
  <2>4. CASE EncodeIpc(p)
    BY <2>4, EncodeIpcStep DEF EncodeIpc
  <2>5. CASE PrepareNextId(p)
    BY <2>5, PrepareNextIdStep DEF PrepareNextId
  <2>6. CASE StoreRedis(p)
    BY <2>6, StoreRedisStep DEF StoreRedis
  <2>7. CASE StorePlasma(p)
    BY <2>7, StorePlasmaStep DEF StorePlasma
  <2>8. CASE StoreFails(p) \/ Reply(p) \/ Die(p)
    BY <2>8, StoreFailsStep, ReplyStep, DieStep
  <2> QED  BY <1>2, <2>1, <2>2, <2>3, <2>4, <2>5, <2>6, <2>7, <2>8
<1> QED  BY <1>1, <1>2 DEF ENext

(* The inductive invariant holds in every state.  CountInv is what keeps   *)
(* the ids within ObjectIds: each belongs to a payload, to a process that  *)
(* has kept it, or to a process that died with it.                         *)
LEMMA ExchangeInvariant == ESpec => []ExchangeInv
BY InitExchange, NextExchange, PTL DEF ESpec

(* Every process is handed the object that was made for that very task:    *)
(* whichever mixins the stages use, however the processes that take ids    *)
(* interleave, fail and die, no id names another task's object             *)
(* (RedisShmIPCMixin.serialize_ipc, PlasmaShmIPCMixin.serialize_ipc).      *)
THEOREM ObjectIsOwn == ESpec => []OwnObject
<1>1. ASSUME ExchangeInv PROVE OwnObject
  <2>1. ASSUME NEW t \in Tasks, place[t] = "between", payload[t].kind = "id"
        PROVE  store[payload[t].of] = t
    <3>1. payload[t] # None
      BY <1>1, <2>1 DEF ExchangeInv, PayloadInv
    <3> QED  BY <1>1, <2>1, <3>1 DEF ExchangeInv, StoreInv, Pending
  <2>2. \A p \in Processes : \A d \in proc[p].data : d[1] = d[2]
    BY <1>1 DEF ExchangeInv, BatchInv, LoopOK
  <2> QED  BY <2>1, <2>2 DEF OwnObject
<1> QED  BY <1>1, ExchangeInvariant, PTL

(* An object is deleted when it is read (deserialize_ipc): a task that was *)
(* answered with 200 has left none in the store.                           *)
THEOREM NothingIsLeft == ESpec => []NothingLeft
<1>1. ExchangeInv => NothingLeft
  BY DEF ExchangeInv
<1> QED  BY <1>1, ExchangeInvariant, PTL

(* When the stages agree on their mixin, the 400 and 422 of mosec/errors   *)
(* reach a client only for a batch of the first stage in which some        *)
(* request could not be decoded.                                           *)
THEOREM ClientBlamedRightly == ESpec => []Blame
<1>1. ExchangeInv => Blame
  BY DEF ExchangeInv
<1> QED  BY <1>1, ExchangeInvariant, PTL
=============================================================================
