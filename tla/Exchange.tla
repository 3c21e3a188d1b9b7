------------------------------ MODULE Exchange ------------------------------
(***************************************************************************)
(* How data changes form on its way through a pipeline: the four codecs of *)
(* a worker (mosec/worker.py), the mixins that replace them (mosec/mixin), *)
(* the loop that applies them to a batch (Coordinator.coordinate) and the  *)
(* status an exception stands for (mosec/errors.py).  Two stages: the      *)
(* first is the ingress, the second the egress of every task; each stage   *)
(* has several processes.  RedisShmIPCMixin and PlasmaShmIPCMixin leave    *)
(* the object in a store that all processes share, and send its id.        *)
(***************************************************************************)
EXTENDS Integers, FiniteSets

CONSTANTS
  Tasks, None,
  First, Second,   \* the processes of the two stages
  Workers,         \* the worker classes: [deserialize, first, second, serialize]
  BatchSize,
  MaxDeaths        \* bound: processes that die

VARIABLES
  worker,          \* the mixins in use, one of Workers
  body,            \* task -> what the client sent
  place,           \* task -> where it is
  payload,         \* task -> what the first stage has encoded it as
  status,          \* task -> the flag its batch was answered with
  proc,            \* process -> its coordinate loop
  next_id,         \* process -> RedisShmIPCMixin._next_id
  counter,         \* the value under REDIS_SHM_IPC_KEY
  store,           \* id -> the object under it
  raised,          \* history: task -> the flag forward raised for its batch
  deaths

tasks == <<body, place, payload, status>>
shared == <<next_id, counter, store>>
eVars == <<worker, raised, tasks, proc, shared, deaths>>

Processes == First \cup Second

(* One id is taken for every task, and one by every process that starts. *)
ObjectIds == 1 .. (Cardinality(Tasks) + Cardinality(First) + MaxDeaths)

Bodies == {"valid", "invalid", "empty", "garbage"}

Idle == [pc |-> "receive", batch |-> {}, data |-> {}, encoded |-> {}]

(* How the stages pass data on. *)
Kinds == {"pickle", "numbin", "redis", "plasma"}

WorkerClass ==
  [deserialize : {"json", "msgpack", "typed"}, first : Kinds, second : Kinds,
   serialize : {"json", "msgpack", "typed"}]

(* A payload between the stages: the data of a task, or the id of an object. *)
Payload == [kind : {"id"}, of : ObjectIds] \cup [kind : Kinds, of : Tasks]

ASSUME ExchangeAssumption ==
  /\ IsFiniteSet(Tasks) /\ IsFiniteSet(First) /\ First \cap Second = {}
  /\ MaxDeaths \in Nat
  /\ Workers \subseteq WorkerClass

ASSUME AbsentAssumption ==
  /\ None \notin Tasks /\ None \notin ObjectIds /\ None \notin Payload
  /\ None \notin {200, 400, 422}

-----------------------------------------------------------------------------
(* The flag of an exception class; any other Exception is answered as an   *)
(* internal error.                                                         *)
ErrorCode ==
  [MosecError |-> 500, ClientError |-> 400, ServerError |-> 500, EncodingError |-> 500,
   DecodingError |-> 400, ValidationError |-> 422, MosecTimeoutError |-> 408, Exception |-> 500]

(* Worker.deserialize: no body stands for an empty object. *)
DeserializeJson(b) == IF b = "garbage" THEN "DecodingError" ELSE "ok"

(* MsgpackMixin.deserialize. *)
DeserializeMsgpack(b) == IF b \in {"garbage", "empty"} THEN "DecodingError" ELSE "ok"

(* TypedMsgPackMixin.deserialize: only msgspec.ValidationError is caught. *)
DeserializeTyped(b) ==
  CASE b = "valid" -> "ok" [] b = "invalid" -> "ValidationError" [] OTHER -> "Exception"

Deserialize(b) ==
  CASE worker.deserialize = "json" -> DeserializeJson(b)
    [] worker.deserialize = "msgpack" -> DeserializeMsgpack(b)
    [] worker.deserialize = "typed" -> DeserializeTyped(b)

(* The serialize methods, of a result that the library can encode or not. *)
SerializeJson(result) == IF result = "odd" THEN "EncodingError" ELSE "ok"

SerializeMsgpack(result) == IF result = "odd" THEN "EncodingError" ELSE "ok"

SerializeTyped(result) == IF result = "odd" THEN "Exception" ELSE "ok"

Serialize(result) ==
  CASE worker.serialize = "json" -> SerializeJson(result)
    [] worker.serialize = "msgpack" -> SerializeMsgpack(result)
    [] worker.serialize = "typed" -> SerializeTyped(result)

(* NumBinIPCMixin.serialize_ipc takes arrays only. *)
SerializeNumBin(result) == IF result = "odd" THEN "EncodingError" ELSE "ok"

(* Worker.serialize_ipc (pickle), which the store mixins call too. *)
SerializeIpc(result) ==
  IF worker.first = "numbin" THEN SerializeNumBin(result) ELSE "ok"

UsesStore(kind) == kind \in {"redis", "plasma"}

(* What deserialize_ipc of the second stage makes of a payload: the object *)
(* it stands for, in the store or in the message, or an exception.         *)
LoadStored(p) == IF p.kind = "id" THEN store[p.of] ELSE None

LoadSent(p) == IF p.kind = worker.second THEN p.of ELSE None

LoadError == IF worker.second = "numbin" THEN "DecodingError" ELSE "Exception"

Load(p) ==
  LET found == IF UsesStore(worker.second) THEN LoadStored(p) ELSE LoadSent(p)
  IN [object |-> found, err |-> IF found = None THEN LoadError ELSE "ok"]

-----------------------------------------------------------------------------
Source(p) == IF p \in First THEN "queued" ELSE "between"

(* Protocol.receive: some of the tasks that wait for the stage. *)
Receive(p) ==
  /\ proc[p].pc = "receive"
  /\ \E B \in SUBSET {t \in Tasks : place[t] = Source(p)} :
       /\ B # {} /\ Cardinality(B) <= BatchSize
       /\ proc' = [proc EXCEPT ![p] = [Idle EXCEPT !.pc = "decode", !.batch = B]]
       /\ place' = [t \in Tasks |-> IF t \in B THEN "held" ELSE place[t]]
  /\ UNCHANGED <<worker, raised, body, payload, status, shared, deaths>>

(* The batch of p goes to a place, with a flag. *)
Answer(p, where, flag) ==
  /\ proc' = [proc EXCEPT ![p] = Idle]
  /\ place' = [t \in Tasks |-> IF t \in proc[p].batch THEN where ELSE place[t]]
  /\ status' = [t \in Tasks |-> IF t \in proc[p].batch THEN flag ELSE status[t]]

(* Mutation of Fail: an internal error is reported as a bad request. *)
FailBlames(p, err) ==
  Answer(p, "answered", IF err = "Exception" THEN 400 ELSE ErrorCode[err])

(* An exception answers the whole batch with its flag. *)
Fail(p, err) == Answer(p, "answered", ErrorCode[err])

(* The list comprehension over decode, one item at a time; items are taken *)
(* in any order, which covers the order of the batch.                      *)
Decoded(p, t, object) ==
  LET data == proc[p].data \cup {<<t, object>>}
  IN proc' = [proc EXCEPT ![p].data = data,
                ![p].pc = IF {d[1] : d \in data} = proc[p].batch
                          THEN "forward" ELSE "decode"]

ToDecode(p) == {t \in proc[p].batch : \A d \in proc[p].data : d[1] # t}

DecodeBody(p) ==
  /\ p \in First /\ proc[p].pc = "decode"
  /\ \E t \in ToDecode(p) :
       \/ Deserialize(body[t]) = "ok" /\ Decoded(p, t, t) /\ UNCHANGED <<place, status>>
       \/ Deserialize(body[t]) # "ok" /\ Fail(p, Deserialize(body[t]))
  /\ UNCHANGED <<worker, raised, body, payload, shared, deaths>>

(* Mutation of Taken: the object is not deleted. *)
TakenKept(p) == store

(* The store without the object of a payload. *)
Taken(p) ==
  IF UsesStore(worker.second) /\ p.kind = "id" THEN [store EXCEPT ![p.of] = None] ELSE store

(* deserialize_ipc: Redis gets and deletes in one transaction. *)
DecodeIpc(p) ==
  /\ p \in Second /\ proc[p].pc = "decode"
  /\ \E t \in ToDecode(p) :
       LET found == Load(payload[t])
       IN /\ \/ found.err = "ok" /\ Decoded(p, t, found.object) /\ UNCHANGED <<place, status>>
             \/ found.err # "ok" /\ Fail(p, found.err)
          /\ store' = Taken(payload[t])
  /\ UNCHANGED <<worker, raised, body, payload, next_id, counter, deaths>>

(* forward returns a result for every item, or raises any of the classes,  *)
(* those that blame the client too, or its timer does; a result of another *)
(* length is a ValueError.                                                 *)
Forward(p) ==
  /\ proc[p].pc = "forward"
  /\ \/ proc' = [proc EXCEPT ![p].pc = "encode"] /\ UNCHANGED <<raised, place, status>>
     \/ \E err \in DOMAIN ErrorCode :
          /\ Fail(p, err)
          /\ raised' = [t \in Tasks |-> IF t \in proc[p].batch THEN ErrorCode[err] ELSE raised[t]]
  /\ UNCHANGED <<worker, body, payload, shared, deaths>>

-----------------------------------------------------------------------------
ToEncode(p) == proc[p].batch \ proc[p].encoded

Encoded(p, t) == proc' = [proc EXCEPT ![p].encoded = @ \cup {t}]

(* serialize at the second stage, and the reply after the last item. *)
EncodeBody(p) ==
  /\ p \in Second /\ proc[p].pc = "encode"
  /\ \E t \in ToEncode(p), result \in {"plain", "odd"} :
       \/ Serialize(result) = "ok" /\ Encoded(p, t) /\ UNCHANGED <<place, status>>
       \/ Serialize(result) # "ok" /\ Fail(p, Serialize(result))
  /\ UNCHANGED <<worker, raised, body, payload, shared, deaths>>

(* serialize_ipc without a store. *)
EncodeIpc(p) ==
  /\ p \in First /\ proc[p].pc = "encode" /\ ~UsesStore(worker.first)
  /\ \E t \in ToEncode(p), result \in {"plain", "odd"} :
       \/ /\ SerializeIpc(result) = "ok" /\ Encoded(p, t)
          /\ payload' = [payload EXCEPT ![t] = [kind |-> worker.first, of |-> t]]
          /\ UNCHANGED <<place, status>>
       \/ SerializeIpc(result) # "ok" /\ Fail(p, SerializeIpc(result)) /\ payload' = payload
  /\ UNCHANGED <<worker, raised, body, shared, deaths>>

(* Mutation of PrepareNextId: the id is looked up and not taken. *)
PrepareNextIdPeek(p) ==
  /\ p \in First /\ proc[p].pc = "encode" /\ worker.first = "redis"
  /\ next_id[p] = None /\ ToEncode(p) # {}
  /\ next_id' = [next_id EXCEPT ![p] = counter + 1]
  /\ UNCHANGED <<worker, raised, tasks, proc, counter, store, deaths>>

(* RedisShmIPCMixin._prepare_next_id. *)
PrepareNextId(p) ==
  /\ p \in First /\ proc[p].pc = "encode" /\ worker.first = "redis"
  /\ next_id[p] = None /\ ToEncode(p) # {}
  /\ counter' = counter + 1
  /\ next_id' = [next_id EXCEPT ![p] = counter']
  /\ UNCHANGED <<worker, raised, tasks, proc, store, deaths>>

PutObject(p, id) ==
  \E t \in ToEncode(p) :
    /\ store' = [store EXCEPT ![id] = t]
    /\ payload' = [payload EXCEPT ![t] = [kind |-> "id", of |-> id]]
    /\ Encoded(p, t)

(* RedisShmIPCMixin.serialize_ipc: the object is stored under the id that  *)
(* was taken before, and the next id is taken, in one transaction.         *)
StoreRedis(p) ==
  /\ p \in First /\ proc[p].pc = "encode" /\ worker.first = "redis"
  /\ next_id[p] # None
  /\ PutObject(p, next_id[p])
  /\ counter' = counter + 1
  /\ next_id' = [next_id EXCEPT ![p] = counter']
  /\ UNCHANGED <<worker, raised, body, place, status, deaths>>

(* PlasmaShmIPCMixin.serialize_ipc: put makes up the id. *)
StorePlasma(p) ==
  /\ p \in First /\ proc[p].pc = "encode" /\ worker.first = "plasma"
  /\ PutObject(p, counter + 1)
  /\ counter' = counter + 1
  /\ UNCHANGED <<worker, raised, body, place, status, next_id, deaths>>

(* The calls that need a client of the store. *)
CallsStore(p) ==
  \/ p \in First /\ proc[p].pc = "encode" /\ UsesStore(worker.first) /\ ToEncode(p) # {}
  \/ p \in Second /\ proc[p].pc = "decode" /\ UsesStore(worker.second)

(* Redis or Plasma cannot be reached, at the first or at a later object. *)
StoreFails(p) ==
  /\ CallsStore(p)
  /\ Fail(p, "Exception")
  /\ UNCHANGED <<worker, raised, body, payload, shared, deaths>>

(* Protocol.send. *)
Reply(p) ==
  /\ proc[p].pc = "encode" /\ ToEncode(p) = {}
  /\ IF p \in First THEN Answer(p, "between", None) ELSE Answer(p, "answered", 200)
  /\ UNCHANGED <<worker, raised, body, payload, shared, deaths>>

(* A process dies with its batch and with the id it has kept, and is       *)
(* started again.                                                          *)
Die(p) ==
  /\ deaths < MaxDeaths /\ proc[p].pc # "receive"
  /\ deaths' = deaths + 1
  /\ Answer(p, "lost", None)
  /\ next_id' = [q \in First |-> IF q = p THEN None ELSE next_id[q]]
  /\ UNCHANGED <<worker, raised, body, payload, counter, store>>

-----------------------------------------------------------------------------
EInit ==
  /\ worker \in Workers
  /\ body \in [Tasks -> Bodies]
  /\ place = [t \in Tasks |-> "queued"]
  /\ payload = [t \in Tasks |-> None] /\ status = [t \in Tasks |-> None]
  /\ raised = [t \in Tasks |-> None]
  /\ proc = [p \in Processes |-> Idle]
  /\ next_id = [p \in First |-> None] /\ counter = 0
  /\ store = [i \in ObjectIds |-> None]
  /\ deaths = 0

ENext ==
  \E p \in Processes :
    \/ Receive(p) \/ DecodeBody(p) \/ DecodeIpc(p) \/ Forward(p)
    \/ EncodeBody(p) \/ EncodeIpc(p) \/ PrepareNextId(p) \/ StoreRedis(p)
    \/ StorePlasma(p) \/ StoreFails(p) \/ Reply(p) \/ Die(p)

ESpec == EInit /\ [][ENext]_eVars

-----------------------------------------------------------------------------
(* A process is handed the object the stage before has made for that very  *)
(* task: an id that is on its way is the key of its own object, however    *)
(* the processes that take ids interleave, fail and die.                   *)
OwnObject ==
  /\ \A t \in Tasks :
       (place[t] = "between" /\ payload[t].kind = "id") => store[payload[t].of] = t
  /\ \A p \in Processes : \A d \in proc[p].data : d[1] = d[2]

(* The store holds an object only for a task that is between the stages,   *)
(* in a batch, or failed: none is left behind by a task that was answered  *)
(* with 200.                                                               *)
NothingLeft ==
  \A i \in ObjectIds : store[i] # None => status[store[i]] # 200

(* The client is blamed, with 400 or 422, when forward says so with an     *)
(* exception of that class, and else only for a batch of the first stage   *)
(* in which some request could not be decoded: when the stages agree on    *)
(* how they pass data on, an error between them, a death or a lost store   *)
(* is never taken for the client's.                                        *)
Blame ==
  \A t \in Tasks :
    (status[t] \in {400, 422} /\ status[t] # raised[t] /\ worker.first = worker.second) =>
      /\ payload[t] = None
      /\ \E u \in Tasks : status[u] = status[t] /\ Deserialize(body[u]) # "ok"
=============================================================================
