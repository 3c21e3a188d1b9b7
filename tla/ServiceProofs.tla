--------------------------- MODULE ServiceProofs ---------------------------
(***************************************************************************)
(* Proofs about Service, for every set of requests, routes, stages and     *)
(* connections and every queue capacity: types, the custody of ids, the    *)
(* maps of the TaskManager, what becomes of a task, and streams.           *)
(***************************************************************************)
EXTENDS Service, FiniteSetTheorems, TLAPS

(* submit_task takes the counter modulo the size of the id space. *)
LEMMA ModSmall ==
  ASSUME NEW n \in Nat \ {0}, NEW i \in Nat, i < n
  PROVE  i % n = i
<1>1. i \div n = 0
  BY Z3
<1>2. i = n * (i \div n) + (i % n)
  BY Z3
<1>3. i % n \in Nat
  BY Z3
<1> QED
  BY <1>1, <1>2, <1>3, Z3

-----------------------------------------------------------------------------
(***************************************************************************)
(* Types.  TypeOK alone is not inductive: what a task puts in a queue, a   *)
(* table or a channel is well typed only because of where it stands.       *)
(***************************************************************************)

(* The local variables a connection task uses at its program counter. *)
Shape(k) ==
  /\ k.pc \in {"push", "notify", "check", "send", "cleanup"} => k.cur \in Ids
  /\ k.pc = "push" => k.dest \in Stages
  /\ k.pc \in {"check", "send", "cleanup", "eventsend", "errsend"} =>
       k.snd \in Requests
  /\ k.pc \in {"event", "eventsend"} =>
       k.cur \in Ids /\ k.data[k.cur] \in Data /\ k.data[k.cur].owner \in Requests
  /\ k.pc \in {"write", "read", "event", "eventsend", "update"} =>
       \A id \in k.ids : k.data[id] \in Data

HasId == {"enqueue", "register", "wait", "take", "expired", "purge", "unstream"}

TypeInv ==
  /\ TypeOK
  /\ \A r \in Requests : hpc[r] \in HasId => rid[r] \in Ids
  /\ \A c \in Conns : Shape(conn[c])

USE ConstantsAssumption, NoneAssumption, ConnsAssumption, DataAssumption,
    ImpatientAssumption

(* A step that gives one connection a well-typed state keeps all of them. *)
LEMMA BecomeType ==
  ASSUME NEW c \in Conns, NEW k,
         conn \in [Conns -> Conn], \A d \in Conns : Shape(conn[d]),
         Become(c, k), k \in Conn, Shape(k)
  PROVE  conn' \in [Conns -> Conn] /\ \A d \in Conns : Shape(conn'[d])
BY DEF Become

LEMMA FreshType ==
  ASSUME NEW pc \in Ended \cup {"recv"}, NEW alive \in BOOLEAN
  PROVE  Fresh(pc, alive) \in Conn /\ Shape(Fresh(pc, alive))
BY DEF Fresh, Conn, Shape, ConnPC, Ended, NoState, State, TaskCode

LEMMA InitType == Init => TypeInv
<1> SUFFICES ASSUME Init PROVE TypeInv
  OBVIOUS
<1>1. TMTypeOK
  BY DEF Init, TMInit, TMTypeOK, Ids, ShutdownStates, Event
<1>2. RoutesTypeOK /\ \A r \in Requests : hpc[r] \in HasId => rid[r] \in Ids
  BY DEF Init, RoutesInit, RoutesTypeOK, HandlerPC, HasId
<1>3. ControllerTypeOK /\ \A c \in Conns : Shape(conn[c])
  BY FreshType DEF Init, ControllerInit, ControllerTypeOK, Ended
<1> QED
  BY <1>1, <1>2, <1>3 DEF TypeInv, TypeOK

LEMMA RespondType ==
  ASSUME RoutesTypeOK, NEW r \in Requests, NEW status \in Status,
         NEW data \in Data \cup {None}, Respond(r, status, data)
  PROVE  /\ hpc' = [hpc EXCEPT ![r] = "done"]
         /\ resp' \in [Requests -> Response \cup {None}]
<1>1. [status |-> status, data |-> data] \in Response
  BY DEF Response
<1> QED
  BY <1>1 DEF Respond, Goto, RoutesTypeOK

LEMMA RemoveType ==
  ASSUME TMTypeOK, NEW id
  PROVE  /\ RemoveTask(id) => table' \in [Ids -> Task \cup {None}]
         /\ RemoveNotifier(id) => notifiers' \in [Ids -> Requests \cup {None}]
BY DEF TMTypeOK, RemoveTask, RemoveNotifier

LEMMA EnqueueType ==
  ASSUME TMTypeOK, NEW s \in Stages, NEW id \in Ids, Enqueue(s, id)
  PROVE  queue' \in [Stages -> Seq(Ids)]
BY DEF TMTypeOK, Enqueue

(* What the handler of r may do to its program counter and its id. *)
LEMMA RoutesPC ==
  ASSUME RoutesTypeOK, \A q \in Requests : hpc[q] \in HasId => rid[q] \in Ids,
         NEW r \in Requests, NEW pc \in HandlerPC,
         hpc' = [hpc EXCEPT ![r] = pc],
         resp' \in [Requests -> Response \cup {None}],
         last_seen' = last_seen,
         \/ rid' = rid /\ (pc \in HasId => rid[r] \in Ids)
         \/ \E id \in Ids : rid' = [rid EXCEPT ![r] = id]
  PROVE  RoutesTypeOK' /\ \A q \in Requests : hpc'[q] \in HasId => rid'[q] \in Ids
<1>1. CASE rid' = rid /\ (pc \in HasId => rid[r] \in Ids)
  BY <1>1 DEF RoutesTypeOK
<1>2. ASSUME NEW id \in Ids, rid' = [rid EXCEPT ![r] = id]
      PROVE  RoutesTypeOK' /\ \A q \in Requests : hpc'[q] \in HasId => rid'[q] \in Ids
  BY <1>2 DEF RoutesTypeOK
<1> QED
  BY <1>1, <1>2

(* The steps of the handlers, of their timers and of their clients. *)
LEMMA RoutesType ==
  ASSUME TypeInv, NEW r \in Requests,
         HandlerStep(r) \/ Timeout(r) \/ ClientStep(r), UNCHANGED connVars
  PROVE  TypeInv'
<1> DEFINE RidOK == \A q \in Requests : hpc[q] \in HasId => rid[q] \in Ids
<1>0. TMTypeOK /\ RoutesTypeOK /\ RidOK
  BY DEF TypeInv, TypeOK
<1>1. ControllerTypeOK' /\ (\A c \in Conns : Shape(conn[c]))'
  BY DEF TypeInv, TypeOK, connVars, ControllerTypeOK, Shape
<1> SUFFICES TMTypeOK' /\ RoutesTypeOK' /\ RidOK'
  BY <1>1 DEF TypeInv, TypeOK
<1>2. CASE Arrive(r)
  <2>1. TMTypeOK'
    BY <1>0, <1>2 DEF Arrive, tmVars, TMTypeOK
  <2>2. "SERVICE_UNAVAILABLE" \in Status /\ {"done", "body"} \subseteq HandlerPC \ HasId
    BY DEF Status, HandlerPC, HasId
  <2>3. CASE Respond(r, "SERVICE_UNAVAILABLE", None)
    BY <1>0, <1>2, <2>1, <2>2, <2>3, RespondType, RoutesPC DEF Arrive
  <2>4. CASE Goto(r, "body") /\ UNCHANGED resp
    BY <1>0, <1>2, <2>1, <2>2, <2>4, RoutesPC DEF Arrive, Goto, RoutesTypeOK
  <2> QED
    BY <1>2, <2>3, <2>4 DEF Arrive
<1>3. CASE ReadBody(r)
  <2>1. TMTypeOK'
    BY <1>0, <1>3 DEF ReadBody, TMTypeOK
  <2>2. /\ {"PAYLOAD_TOO_LARGE", "EMPTY"} \subseteq Status
        /\ {"done", "submit"} \subseteq HandlerPC \ HasId
    BY DEF Status, HandlerPC, HasId
  <2>3. CASE \E status \in {"PAYLOAD_TOO_LARGE", "EMPTY"} : Respond(r, status, None)
    BY <1>0, <1>3, <2>1, <2>2, <2>3, RespondType, RoutesPC DEF ReadBody
  <2>4. CASE Goto(r, "submit") /\ UNCHANGED resp
    BY <1>0, <1>3, <2>1, <2>2, <2>4, RoutesPC DEF ReadBody, Goto, RoutesTypeOK
  <2> QED
    BY <1>3, <2>3, <2>4 DEF ReadBody
<1>4. CASE Submit(r)
  <2>1. NewTask(Body(r), EndpointOf[r]) \in Task
    BY DEF NewTask, Body, Task, Data, TaskCode
  <2>2. current_id' \in Ids
    BY <1>0, <1>4 DEF Submit, InsertTask, Ids, TMTypeOK
  <2>3. TMTypeOK'
    BY <1>0, <1>4, <2>1, <2>2 DEF Submit, InsertTask, TMTypeOK
  <2>4. RoutesTypeOK' /\ RidOK'
    BY <1>0, <1>4, RoutesPC DEF Submit, Goto, HandlerPC, TMTypeOK, RoutesTypeOK
  <2> QED
    BY <2>3, <2>4
<1>5. CASE TrySend(r)
  <2>1. rid[r] \in Ids /\ Pipeline[EndpointOf[r]][1] \in Stages
    BY <1>0, <1>5 DEF TrySend, HasId
  <2>2. TMTypeOK'
    <3>1. queue' \in [Stages -> Seq(Ids)]
      BY <1>0, <1>5, <2>1, EnqueueType DEF TrySend, TMTypeOK
    <3>4. remaining_task' \in Int
      BY <1>0, <1>5 DEF TrySend, TMTypeOK
    <3>2. /\ table' \in [Ids -> Task \cup {None}]
          /\ notifiers' \in [Ids -> Requests \cup {None}]
      BY <1>0, <1>5, RemoveType DEF TrySend, TMTypeOK
    <3>3. rx' \in [Requests -> {"none", "pending", "sent", "closed"}]
      BY <1>0, <1>5 DEF TrySend, TMTypeOK
    <3> QED
      BY <1>0, <1>5, <3>1, <3>2, <3>3, <3>4 DEF TrySend, TMTypeOK
  <2>3. "TOO_MANY_REQUESTS" \in Status /\ {"done", "register", "wait"} \subseteq HandlerPC
    BY DEF Status, HandlerPC
  <2>4. CASE Respond(r, "TOO_MANY_REQUESTS", None)
    BY <1>0, <1>5, <2>1, <2>2, <2>3, <2>4, RespondType, RoutesPC DEF TrySend
  <2>5. CASE Goto(r, IF IsSSE(r) THEN "register" ELSE "wait") /\ UNCHANGED resp
    BY <1>0, <1>5, <2>1, <2>2, <2>3, <2>5, RoutesPC DEF TrySend, Goto, RoutesTypeOK
  <2> QED
    BY <1>5, <2>4, <2>5 DEF TrySend
<1>6. CASE RegisterStream(r)
  <2>1. [status |-> "STREAM", data |-> None] \in Response
    BY DEF Response, Status
  <2> QED
    BY <1>0, <1>6, <2>1, SMTT(60) DEF RegisterStream, Goto, TMTypeOK, RoutesTypeOK, HandlerPC, HasId
<1>7. CASE Notified(r)
  BY <1>0, <1>7 DEF Notified, Goto, TMTypeOK, RoutesTypeOK, HandlerPC, HasId
<1>8. CASE TakeTask(r)
  <2>1. TMTypeOK'
    <3>1. remaining_task' \in Int /\ table' \in [Ids -> Task \cup {None}]
      BY <1>0, <1>8, RemoveType, SMTT(60) DEF TakeTask, TMTypeOK
    <3> QED
      BY <1>0, <1>8, <3>1 DEF TakeTask, TMTypeOK
  <2>2. \E status \in Status, data \in Data \cup {None} : Respond(r, status, data)
    <3>1. CASE InTable(rid[r])
      <4>1. rid[r] \in Ids
        BY <1>0, <1>8 DEF TakeTask, HasId
      <4>2. table[rid[r]].data \in Data
        BY <1>0, <3>1, <4>1 DEF InTable, TMTypeOK, Task
      <4>3. StatusOf(table[rid[r]].code) \in Status
        BY DEF StatusOf, Status
      <4> QED
        BY <1>8, <3>1, <4>2, <4>3 DEF TakeTask
    <3>2. CASE ~InTable(rid[r])
      BY <1>8, <3>2 DEF TakeTask, Status
    <3> QED
      BY <3>1, <3>2
  <2>3. "done" \in HandlerPC \ HasId
    BY DEF HandlerPC, HasId
  <2> QED
    BY <1>0, <1>8, <2>1, <2>2, <2>3, RespondType, RoutesPC DEF TakeTask
<1>9. CASE DeleteNotifier(r)
  BY <1>0, <1>9 DEF DeleteNotifier, RemoveNotifier, Goto, TMTypeOK, RoutesTypeOK,
     HandlerPC, HasId
<1>10. CASE DeleteTask(r)
  <2>1. TMTypeOK'
    <3>1. remaining_task' \in Int /\ table' \in [Ids -> Task \cup {None}]
      BY <1>0, <1>10, RemoveType DEF DeleteTask, TMTypeOK
    <3> QED
      BY <1>0, <1>10, <3>1 DEF DeleteTask, TMTypeOK
  <2>2. rid[r] \in Ids
    BY <1>0, <1>10 DEF DeleteTask, HasId
  <2>3. "REQUEST_TIMEOUT" \in Status /\ {"done", "unstream"} \subseteq HandlerPC
    BY DEF Status, HandlerPC
  <2>4. CASE Respond(r, "REQUEST_TIMEOUT", None)
    BY <1>0, <1>10, <2>1, <2>2, <2>3, <2>4, RespondType, RoutesPC DEF DeleteTask
  <2>5. CASE Goto(r, "unstream") /\ UNCHANGED resp
    BY <1>0, <1>10, <2>1, <2>2, <2>3, <2>5, RoutesPC DEF DeleteTask, Goto, RoutesTypeOK
  <2> QED
    BY <1>10, <2>4, <2>5 DEF DeleteTask
<1>11. CASE DeleteStream(r)
  BY <1>0, <1>11 DEF DeleteStream, RemoveStream, Goto, TMTypeOK, RoutesTypeOK,
     HandlerPC, HasId
<1>12. CASE Disconnect(r)
  <2>1. TMTypeOK'
    <3>1. [open |-> FALSE, events |-> << >>] \in [open : BOOLEAN, events : Seq(Event)]
      OBVIOUS
    <3>2. stream' \in [Requests -> [open : BOOLEAN, events : Seq(Event)]]
      BY <1>0, <1>12, <3>1 DEF Disconnect, TMTypeOK
    <3>3. rx' \in [Requests -> {"none", "pending", "sent", "closed"}]
      BY <1>0, <1>12 DEF Disconnect, TMTypeOK
    <3> QED
      BY <1>0, <1>12, <3>2, <3>3 DEF Disconnect, TMTypeOK
  <2>2. RoutesTypeOK' /\ RidOK'
    BY <1>0, <1>12 DEF Disconnect, Goto, RoutesTypeOK, HandlerPC, HasId
  <2> QED
    BY <2>1, <2>2
<1>13. CASE ReadEvent(r)
  <2>1. stream[r].events \in Seq(Event) /\ stream[r].events # << >>
    BY <1>0, <1>13 DEF ReadEvent, TMTypeOK
  <2>2. /\ Head(stream[r].events) \in Event
        /\ Tail(stream[r].events) \in Seq(Event)
    BY <2>1
  <2>3. Head(stream[r].events).n \in Nat
    BY <2>2 DEF Event
  <2>4. TMTypeOK'
    BY <1>0, <1>13, <2>2, ZenonT(60) DEF ReadEvent, TMTypeOK
  <2>5. last_seen' \in [Requests -> Nat]
    BY <1>0, <1>13, <2>3 DEF ReadEvent, RoutesTypeOK
  <2> QED
    BY <1>0, <1>13, <2>4, <2>5 DEF ReadEvent, RoutesTypeOK
<1>14. CASE Timeout(r)
  BY <1>0, <1>14 DEF Timeout, Goto, TMTypeOK, RoutesTypeOK, HandlerPC, HasId
<1> QED
  BY <1>2, <1>3, <1>4, <1>5, <1>6, <1>7, <1>8, <1>9, <1>10, <1>11, <1>12, <1>13,
     <1>14 DEF HandlerStep, ClientStep

LEMMA HeadType ==
  ASSUME TMTypeOK, NEW s \in Stages, queue[s] # << >>
  PROVE  /\ Head(queue[s]) \in Ids
         /\ [queue EXCEPT ![s] = Tail(@)] \in [Stages -> Seq(Ids)]
<1>1. queue[s] \in Seq(Ids)
  BY DEF TMTypeOK
<1>2. Head(queue[s]) \in Ids /\ Tail(queue[s]) \in Seq(Ids)
  BY <1>1
<1> QED
  BY <1>2 DEF TMTypeOK

(* The fields a connection record has, and what changing one of them does. *)
LEMMA ReplyType ==
  ASSUME NEW c \in Conns, conn[c] \in Conn, Shape(conn[c]), At(c, "read"),
         NEW code \in TaskCode, NEW ids \in SUBSET conn[c].ids
  PROVE  /\ ReplyData(c, code, ids) \in [Ids -> Data \cup {None}]
         /\ \A id \in ids : ReplyData(c, code, ids)[id] \in Data
<1>1. ErrorText \in Data
  BY DEF ErrorText, Data
<1>2. ASSUME NEW id \in ids
      PROVE  Processed(conn[c].data[id], conn[c].states[id]) \in Data
  <2>1. conn[c].data[id] \in Data
    BY <1>2 DEF Shape, At
  <2> QED
    BY <2>1 DEF Processed, Data
<1>3. ids \subseteq Ids
  BY DEF Conn
<1> QED
  BY <1>1, <1>2, <1>3 DEF ReplyData

LEMMA DeliverType ==
  ASSUME TMTypeOK, NEW r \in Requests, NEW e \in Event, Deliver(r, e)
  PROVE  stream' \in [Requests -> [open : BOOLEAN, events : Seq(Event)]]
<1> DEFINE Stream == [open : BOOLEAN, events : Seq(Event)]
           longer == Append(stream[r].events, e)
<1>1. stream \in [Requests -> Stream]
  BY DEF TMTypeOK
<1>2. stream[r] \in Stream
  BY <1>1
<1>3. longer \in Seq(Event)
  <2>1. stream[r].events \in Seq(Event)
    BY <1>2
  <2> QED
    BY <2>1
<1>4. CASE stream' = [stream EXCEPT ![r].events = Append(@, e)]
  <2>1. stream' = [stream EXCEPT ![r] = [stream[r] EXCEPT !.events = longer]]
    BY <1>4
  <2> HIDE DEF longer
  <2>2. [stream[r] EXCEPT !.events = longer] \in Stream
    BY <1>2, <1>3
  <2> HIDE DEF Stream
  <2>3. stream' \in [Requests -> Stream]
    BY <1>1, <2>1, <2>2
  <2> QED
    BY <2>3 DEF Stream
<1>5. CASE UNCHANGED stream
  BY <1>1, <1>5
<1> QED
  BY <1>4, <1>5 DEF Deliver

(* The steps of the connection tasks and of their workers. *)
LEMMA ControllerType ==
  ASSUME TypeInv, NEW c \in Conns,
         ConnStep(c) \/ WorkerStep(c), UNCHANGED routesVars
  PROVE  TypeInv'
<1> DEFINE Good(k) == k \in Conn /\ Shape(k)
           k == conn[c]
<1>0. /\ TMTypeOK /\ ControllerTypeOK /\ \A d \in Conns : Shape(conn[d])
      /\ k \in Conn /\ Shape(k)
  BY DEF TypeInv, TypeOK, ControllerTypeOK
<1>1. RoutesTypeOK' /\ (\A r \in Requests : hpc[r] \in HasId => rid[r] \in Ids)'
  BY DEF TypeInv, TypeOK, routesVars, RoutesTypeOK
<1> SUFFICES /\ TMTypeOK'
             /\ \E new : Become(c, new) /\ Good(new)
             /\ connected' \subseteq Stages
             /\ emitted' \in [Requests -> Nat]
             /\ crashes' \in Nat
  BY <1>0, <1>1, BecomeType DEF TypeInv, TypeOK, ControllerTypeOK
<1> USE DEF ControllerTypeOK
<1>2. CASE Accept(c)
  BY <1>0, <1>2, FreshType DEF Accept, tmVars, TMTypeOK
<1>a. ASSUME NEW pc \in {"fetch", "batch"}, NEW ids \in SUBSET Ids
      PROVE  Good([k EXCEPT !.pc = pc, !.ids = ids])
  BY <1>0, ZenonT(60) DEF Conn, ConnPC, Shape
<1>3. CASE RecvFirst(c)
  <2>1. Good([k EXCEPT !.pc = IF BatchSize[StageOf[c]] <= 1 THEN "fetch" ELSE "batch",
                       !.ids = {Head(queue[StageOf[c]])}])
    <3>1. {Head(queue[StageOf[c]])} \in SUBSET Ids
      BY <1>0, <1>3, HeadType DEF RecvFirst
    <3> QED
      BY <1>a, <3>1
  <2> QED
    BY <1>0, <1>3, <2>1, HeadType DEF RecvFirst, TMTypeOK
<1>4. CASE RecvMore(c)
  <2> DEFINE ids == k.ids \cup {Head(queue[StageOf[c]])}
  <2>1. Good([k EXCEPT !.pc = IF Cardinality(ids) = BatchSize[StageOf[c]]
                              THEN "fetch" ELSE "batch",
                       !.ids = ids])
    <3>1. ids \in SUBSET Ids
      BY <1>0, <1>4, HeadType DEF RecvMore, Conn
    <3> HIDE DEF ids
    <3> QED
      BY <1>a, <3>1
  <2> QED
    BY <1>0, <1>4, <2>1, HeadType DEF RecvMore, TMTypeOK
<1>5. CASE BatchTimeout(c)
  <2>1. Good([k EXCEPT !.pc = "fetch"])
    BY <1>0, ZenonT(60) DEF Conn, ConnPC, Shape
  <2> QED
    BY <1>0, <1>5, <2>1 DEF BatchTimeout, GotoC, tmVars, TMTypeOK
<1>6. CASE Fetch(c)
  <2> DEFINE live == {id \in k.ids : InTable(id)}
             data == [id \in Ids |-> IF id \in live THEN table[id].data ELSE None]
             states == [id \in Ids |-> IF id \in live THEN EncodeState(table[id])
                                                       ELSE NoState]
  <2>1. live \subseteq Ids /\ \A id \in live : table[id].data \in Data
    BY <1>0 DEF Conn, TMTypeOK, Task, InTable
  <2>2. /\ data \in [Ids -> Data \cup {None}]
        /\ states \in [Ids -> State]
        /\ \A id \in live : data[id] \in Data
    BY <2>1 DEF State, EncodeState, NoState
  <2>3. Good([k EXCEPT !.pc = "write", !.ids = live, !.data = data, !.states = states])
    <3> HIDE DEF live, data, states
    <3> QED
      BY <1>0, <2>1, <2>2, ZenonT(60) DEF Conn, ConnPC, Shape
  <2>4. Good(Fresh("recv", k.alive))
    BY <1>0, FreshType DEF Conn
  <2> QED
    BY <1>0, <1>6, <2>3, <2>4 DEF Fetch, tmVars, TMTypeOK
<1>7. CASE Write(c)
  <2>1. At(c, "write") => Good([k EXCEPT !.pc = "read"])
    BY <1>0 DEF At, Conn, ConnPC, Shape
  <2>2. Good([k EXCEPT !.pc = "loop", !.mode = "resend", !.todo = k.ids])
    BY <1>0, ZenonT(60) DEF Conn, ConnPC, Shape
  <2> QED
    BY <1>0, <1>7, <2>1, <2>2 DEF Write, tmVars, TMTypeOK
<1>8. ASSUME At(c, "read"), NEW code \in TaskCode, NEW ids \in SUBSET k.ids
      PROVE  Good([k EXCEPT !.pc = "update", !.code = code, !.ids = ids,
                            !.data = ReplyData(c, code, ids)])
  <2> DEFINE data == ReplyData(c, code, ids)
  <2>1. /\ data \in [Ids -> Data \cup {None}]
        /\ \A id \in ids : data[id] \in Data
    BY <1>0, <1>8, ReplyType
  <2> HIDE DEF data
  <2>2. ids \in SUBSET Ids
    BY <1>0 DEF Conn
  <2>3. [k EXCEPT !.pc = "update", !.code = code, !.ids = ids, !.data = data] \in Conn
    BY <1>0, <2>1, <2>2 DEF Conn, ConnPC
  <2>4. Shape([k EXCEPT !.pc = "update", !.code = code, !.ids = ids, !.data = data])
    BY <1>0, <2>1 DEF Conn, Shape
  <2> QED
    BY <2>3, <2>4 DEF data
<1>9. CASE WorkerReply(c)
  BY <1>0, <1>8, <1>9 DEF WorkerReply, Reply, tmVars, TMTypeOK
<1>10. CASE ReadErrorInLoop(c)
  <2>1. "StreamEvent" \in TaskCode
    BY DEF TaskCode
  <2> QED
    BY <1>0, <1>8, <1>10, <2>1 DEF ReadErrorInLoop, Reply, tmVars, TMTypeOK
<1>11. CASE WorkerEvent(c)
  <2>1. PICK id \in k.ids :
          /\ k.data[id].owner \in Requests
          /\ emitted' = [emitted EXCEPT ![k.data[id].owner] = @ + 1]
          /\ Become(c, [k EXCEPT !.pc = "event", !.code = "StreamEvent",
                                 !.streamed = TRUE, !.cur = id])
    BY <1>11 DEF WorkerEvent
  <2>2. Good([k EXCEPT !.pc = "event", !.code = "StreamEvent",
                       !.streamed = TRUE, !.cur = id])
    BY <1>0, <1>11, <2>1, ZenonT(60) DEF WorkerEvent, At, Conn, ConnPC, Shape, TaskCode
  <2>3. emitted' \in [Requests -> Nat]
    BY <1>0, <2>1, SMTT(60)
  <2>4. TMTypeOK' /\ connected' \subseteq Stages /\ crashes' \in Nat
    BY <1>0, <1>11 DEF WorkerEvent, tmVars, TMTypeOK
  <2> QED
    BY <2>1, <2>2, <2>3, <2>4
<1>12. CASE WorkerCrash(c)
  <2>1. Good([k EXCEPT !.alive = FALSE])
    BY <1>0, ZenonT(60) DEF Conn, Shape
  <2> QED
    BY <1>0, <1>12, <2>1 DEF WorkerCrash, tmVars, TMTypeOK
<1>13. CASE ReadError(c)
  BY <1>0, <1>13, FreshType DEF ReadError, Ended, tmVars, TMTypeOK
<1>14. CASE EventLookup(c)
  <2> DEFINE r == stream_senders[k.cur]
  <2>1. k.cur \in Ids /\ r \in Requests \cup {None}
    BY <1>0, <1>14 DEF EventLookup, At, Shape, TMTypeOK
  <2>2. Good([k EXCEPT !.pc = IF r = None THEN "read" ELSE "eventsend", !.snd = r])
    <3> HIDE DEF r
    <3> QED
      BY <1>0, <1>14, <2>1, ZenonT(60) DEF EventLookup, At, Conn, ConnPC, Shape
  <2> QED
    BY <1>0, <1>14, <2>2 DEF EventLookup, tmVars, TMTypeOK
<1>15. CASE EventSend(c)
  <2> DEFINE owner == k.data[k.cur].owner
             e == [owner |-> owner, n |-> emitted[owner], code |-> "Normal"]
  <2>1. owner \in Requests /\ k.snd \in Requests
    BY <1>0, <1>15 DEF EventSend, At, Shape
  <2>2. e \in Event
    BY <1>0, <2>1 DEF Event, TaskCode
  <2>3. stream' \in [Requests -> [open : BOOLEAN, events : Seq(Event)]]
    BY <1>0, <1>15, <2>1, <2>2, DeliverType DEF EventSend
  <2>4. Good([k EXCEPT !.pc = "read", !.snd = None])
    BY <1>0, <1>15 DEF EventSend, At, Conn, ConnPC, Shape
  <2> QED
    BY <1>0, <1>15, <2>3, <2>4 DEF EventSend, TMTypeOK
<1>16. CASE Update(c)
  <2> DEFINE abnormal == {id \in k.ids : InTable(id)}
  <2>1. table' \in [Ids -> Task \cup {None}]
    <3>1. ASSUME NEW id \in Ids, id \in k.ids, InTable(id)
          PROVE  Updated(table[id], k.code, k.data[id]) \in Task
      <4>1. table[id] \in Task /\ k.code \in TaskCode /\ k.data[id] \in Data
        BY <1>0, <1>16, <3>1 DEF Update, At, Shape, InTable, TMTypeOK, Conn
      <4>2. table[id].stage + 1 \in Nat
        BY <4>1 DEF Task
      <4> QED
        BY <4>1, <4>2 DEF Updated, Task
    <3> QED
      BY <1>0, <1>16, <3>1 DEF Update, UpdateTable, TMTypeOK
  <2>2. Good([k EXCEPT !.pc = "loop", !.mode = "forward", !.todo = k.ids])
    BY <1>0, ZenonT(60) DEF Conn, ConnPC, Shape
  <2>3. Good([k EXCEPT !.pc = "errs", !.mode = "abnormal",
                       !.ids = abnormal, !.todo = abnormal])
    BY <1>0, ZenonT(60) DEF Conn, ConnPC, Shape
  <2> QED
    BY <1>0, <1>16, <2>1, <2>2, <2>3 DEF Update, TMTypeOK
<1>17. CASE ErrNext(c)
  <2>1. Good([k EXCEPT !.pc = "loop", !.todo = k.ids])
    BY <1>0, ZenonT(60) DEF Conn, ConnPC, Shape
  <2>2. ASSUME NEW id \in k.todo
        PROVE  Good([k EXCEPT !.pc = IF stream_senders[id] = None THEN "errs"
                                                                  ELSE "errsend",
                              !.todo = @ \ {id}, !.snd = stream_senders[id]])
    <3> DEFINE r == stream_senders[id]
    <3>1. r \in Requests \cup {None}
      BY <1>0, <2>2 DEF Conn, TMTypeOK
    <3> HIDE DEF r
    <3>2. r = None => Good([k EXCEPT !.pc = "errs", !.todo = @ \ {id}, !.snd = r])
      BY <1>0, <3>1 DEF Conn, ConnPC, Shape
    <3>3. r # None => Good([k EXCEPT !.pc = "errsend", !.todo = @ \ {id}, !.snd = r])
      BY <1>0, <3>1 DEF Conn, ConnPC, Shape
    <3> QED
      BY <3>2, <3>3 DEF r
  <2> QED
    BY <1>0, <1>17, <2>1, <2>2 DEF ErrNext, tmVars, TMTypeOK
<1>18. CASE ErrSend(c)
  <2> DEFINE e == [owner |-> None, n |-> 0, code |-> k.code]
  <2>1. e \in Event /\ k.snd \in Requests
    BY <1>0, <1>18 DEF ErrSend, At, Shape, Conn, Event
  <2>2. stream' \in [Requests -> [open : BOOLEAN, events : Seq(Event)]]
    BY <1>0, <1>18, <2>1, DeliverType DEF ErrSend
  <2>3. Good([k EXCEPT !.pc = "errs", !.snd = None])
    BY <1>0, ZenonT(60) DEF Conn, ConnPC, Shape
  <2> QED
    BY <1>0, <1>18, <2>2, <2>3 DEF ErrSend, TMTypeOK
<1>19. CASE LoopNext(c)
  <2>1. PICK id \in k.todo :
          LET next == NextStage(table[id])
              new  == [k EXCEPT !.todo = @ \ {id}, !.cur = id]
          IN Become(c, IF new.mode = "abnormal"  THEN [new EXCEPT !.pc = "notify"]
                       ELSE IF ~InTable(id)      THEN [new EXCEPT !.cur = None]
                       ELSE IF next = None       THEN [new EXCEPT !.pc = "notify"]
                       ELSE [new EXCEPT !.pc = "push", !.dest = next])
    BY <1>19 DEF LoopNext
  <2> DEFINE next == NextStage(table[id])
             new  == [k EXCEPT !.todo = @ \ {id}, !.cur = id]
  <2>2. id \in Ids /\ new \in Conn /\ At(c, "loop") /\ new.pc = "loop"
    BY <1>0, <1>19 DEF LoopNext, At, Conn
  <2>3. InTable(id) /\ next # None => next \in Stages
    <3> SUFFICES ASSUME InTable(id), next # None PROVE next \in Stages
      OBVIOUS
    <3>1. table[id] \in Task
      BY <1>0, <2>2 DEF InTable, TMTypeOK
    <3>2. table[id].stage \in Nat /\ table[id].route \in Endpoints
      BY <3>1 DEF Task
    <3>3. Pipeline[table[id].route] \in Seq(Stages)
      BY <3>2
    <3>4. ASSUME NEW p \in Seq(Stages), NEW n \in Nat, n < Len(p) PROVE p[n + 1] \in Stages
      BY <3>4
    <3> QED
      BY <3>2, <3>3, <3>4 DEF NextStage
  <2>4. Good([new EXCEPT !.pc = "notify"]) /\ Good([new EXCEPT !.cur = None])
    <3> HIDE DEF next
    <3> QED
      BY <2>2, ZenonT(60) DEF Conn, ConnPC, Shape
  <2>5. next \in Stages => Good([new EXCEPT !.pc = "push", !.dest = next])
    <3> HIDE DEF next
    <3> QED
      BY <2>2 DEF Conn, ConnPC, Shape
  <2>6. \E new2 : Become(c, new2) /\ Good(new2)
    <3> HIDE DEF next, Good
    <3> QED
      BY <2>1, <2>3, <2>4, <2>5 DEF next
  <2> QED
    BY <1>0, <1>19, <2>6 DEF LoopNext, tmVars, TMTypeOK
<1>20. CASE LoopEnd(c)
  <2>1. Good(Fresh("dead", FALSE)) /\ Good(Fresh("recv", k.alive))
    BY <1>0, FreshType DEF Ended, Conn
  <2> QED
    BY <1>0, <1>20, <2>1 DEF LoopEnd, tmVars, TMTypeOK
<1>21. CASE Push(c)
  <2>1. k.cur \in Ids /\ k.dest \in Stages
    BY <1>0, <1>21 DEF Push, At, Shape
  <2>2. Good([k EXCEPT !.pc = "loop", !.cur = None, !.dest = None])
    BY <1>0, ZenonT(60) DEF Conn, ConnPC, Shape
  <2> QED
    BY <1>0, <1>21, <2>1, <2>2, EnqueueType DEF Push, TMTypeOK
<1>22. CASE NotifyTake(c)
  <2> DEFINE r == notifiers[k.cur]
  <2>1. k.cur \in Ids /\ r \in Requests \cup {None}
    BY <1>0, <1>22 DEF NotifyTake, At, Shape, TMTypeOK
  <2>2. Good([k EXCEPT !.pc = "loop", !.cur = None])
    BY <1>0, ZenonT(60) DEF Conn, ConnPC, Shape
  <2>3. r # None => Good([k EXCEPT !.pc = "check", !.snd = r])
    <3> HIDE DEF r
    <3> QED
      BY <1>0, <2>1 DEF Conn, ConnPC, Shape
  <2> QED
    BY <1>0, <1>22, <2>2, <2>3, RemoveType DEF NotifyTake, TMTypeOK
<1>23. CASE NotifyCheck(c)
  <2>1. At(c, "check") => Good([k EXCEPT !.pc = "cleanup"]) /\ Good([k EXCEPT !.pc = "send"])
    BY <1>0 DEF At, Conn, ConnPC, Shape
  <2> QED
    BY <1>0, <1>23, <2>1 DEF NotifyCheck, GotoC, tmVars, TMTypeOK
<1>24. CASE NotifySend(c)
  <2>1. Good(Fresh("panicked", FALSE))
    BY FreshType DEF Ended
  <2>2. Good([k EXCEPT !.pc = "loop", !.cur = None, !.snd = None])
    BY <1>0, ZenonT(60) DEF Conn, ConnPC, Shape
  <2>3. rx' \in [Requests -> {"none", "pending", "sent", "closed"}]
    BY <1>0, <1>24 DEF NotifySend, TMTypeOK
  <2> QED
    BY <1>0, <1>24, <2>1, <2>2, <2>3 DEF NotifySend, TMTypeOK
<1>25. CASE NotifyCleanup(c)
  <2>1. Good([k EXCEPT !.pc = "loop", !.cur = None, !.snd = None])
    BY <1>0 DEF Conn, ConnPC, Shape
  <2>2. remaining_task' \in Int /\ table' \in [Ids -> Task \cup {None}]
    BY <1>0, <1>25, RemoveType DEF NotifyCleanup, DropClosedTask, TMTypeOK
  <2> QED
    BY <1>0, <1>25, <2>1, <2>2 DEF NotifyCleanup, TMTypeOK
<1> QED
  BY <1>2, <1>3, <1>4, <1>5, <1>6, <1>7, <1>9, <1>10, <1>11, <1>12, <1>13, <1>14,
     <1>15, <1>16, <1>17, <1>18, <1>19, <1>20, <1>21, <1>22, <1>23, <1>24, <1>25
     DEF ConnStep, WorkerStep

(* Every variable keeps its type, and the program counters of handlers and *)
(* connection tasks say which of their locals are set.                     *)
THEOREM TypeInvariant == Spec => []TypeInv
<1>1. TypeInv /\ [Next]_vars => TypeInv'
  <2> SUFFICES ASSUME TypeInv, [Next]_vars PROVE TypeInv'
    OBVIOUS
  <2>1. CASE \E r \in Requests : Handler(r) \/ Timer(r) \/ Client(r)
    BY <2>1, RoutesType DEF Handler, Timer, Client
  <2>2. CASE \E c \in Conns : Connection(c) \/ Worker(c)
    BY <2>2, ControllerType DEF Connection, Worker
  <2>3. CASE Shutdown
    BY <2>3 DEF Shutdown, BeginShutdown, EndShutdown, routesVars, connVars, TypeInv,
       TypeOK, TMTypeOK, RoutesTypeOK, ControllerTypeOK, ShutdownStates, Shape
  <2>4. CASE UNCHANGED vars
    BY <2>4 DEF vars, tmVars, routesVars, connVars, TypeInv, TypeOK, TMTypeOK,
       RoutesTypeOK, ControllerTypeOK, Shape
  <2> QED
    BY <2>1, <2>2, <2>3, <2>4 DEF Next
<1> QED
  BY <1>1, InitType, PTL DEF Spec

(* Every variable keeps its type. *)
THEOREM TypeCorrect == Spec => []TypeOK
<1>1. TypeInv => TypeOK
  BY DEF TypeInv
<1> QED
  BY <1>1, TypeInvariant, PTL

-----------------------------------------------------------------------------
(***************************************************************************)
(* An id is given out once, and is in one place: SingleCustody.            *)
(***************************************************************************)

Early == {"idle", "body", "submit"}

Allocated == {r \in Requests : rid[r] # None}

(* The counter has not wrapped: it is the number of ids given out. *)
IdInv ==
  /\ current_id = Cardinality(Allocated)
  /\ \A r \in Requests : rid[r] # None => rid[r] < current_id
  /\ \A r, q \in Requests : rid[r] # None /\ rid[r] = rid[q] => r = q
  /\ \A r \in Requests : hpc[r] \in Early => rid[r] = None

LEMMA InitId == Init => IdInv
<1> SUFFICES ASSUME Init PROVE IdInv
  OBVIOUS
<1>1. Allocated = {}
  BY DEF Init, RoutesInit, Allocated
<1>2. current_id = Cardinality(Allocated)
  BY <1>1, FS_EmptySet DEF Init, TMInit
<1> QED
  BY <1>2 DEF Init, RoutesInit, IdInv

(* Only add_new_task gives out an id, and no handler goes back before it. *)
LEMMA RidFrame ==
  ASSUME TypeInv, [Next]_vars
  PROVE  \/ \E r \in Requests : Submit(r)
         \/ /\ rid' = rid /\ current_id' = current_id
            /\ \A r \in Requests : hpc'[r] \in Early => hpc[r] \in Early
<1> USE DEF Early, TypeInv, TypeOK, RoutesTypeOK
<1>1. ASSUME NEW r \in Requests, HandlerStep(r) \/ Timeout(r), ~Submit(r)
      PROVE  /\ rid' = rid /\ current_id' = current_id
             /\ \A q \in Requests : hpc'[q] \in Early => hpc[q] \in Early
  BY <1>1 DEF HandlerStep, Timeout, TrySend, RegisterStream, Notified, TakeTask,
     DeleteNotifier, DeleteTask, DeleteStream, Goto, Respond
<1>2. ASSUME NEW r \in Requests, ClientStep(r)
      PROVE  /\ rid' = rid /\ current_id' = current_id
             /\ \A q \in Requests : hpc'[q] \in Early => hpc[q] \in Early
  BY <1>2, SMTT(60) DEF ClientStep, Arrive, ReadBody, Disconnect, ReadEvent, Goto, Respond, tmVars
<1>3. ASSUME NEW c \in Conns, Connection(c) \/ Worker(c)
      PROVE  rid' = rid /\ current_id' = current_id /\ hpc' = hpc
  BY <1>3 DEF Connection, Worker, routesVars, ConnStep, WorkerStep, tmVars, Accept,
     RecvFirst, RecvMore, BatchTimeout, Fetch, Write, ReadError, ReadErrorInLoop,
     EventLookup, EventSend, Update, ErrNext, ErrSend, LoopNext, LoopEnd, Push,
     NotifyTake, NotifyCheck, NotifySend, NotifyCleanup, WorkerReply, WorkerEvent,
     WorkerCrash
<1>4. Shutdown \/ UNCHANGED vars => rid' = rid /\ current_id' = current_id /\ hpc' = hpc
  BY DEF Shutdown, BeginShutdown, EndShutdown, routesVars, vars, tmVars
<1> QED
  BY <1>1, <1>2, <1>3, <1>4 DEF Next, Handler, Timer, Client

(* Fewer than IdSpace requests: the counter does not wrap. *)
LEMMA NoWrap ==
  ASSUME TypeInv, IdInv, NEW r \in Requests, Submit(r)
  PROVE  /\ rid[r] = None
         /\ current_id' = current_id + 1
         /\ rid' = [rid EXCEPT ![r] = current_id]
         /\ current_id' = Cardinality(Allocated')
<1>1. rid[r] = None
  BY DEF Submit, IdInv, Early
<1>2. Allocated \in SUBSET Requests /\ r \notin Allocated /\ IsFiniteSet(Requests)
  BY <1>1 DEF Allocated
<1>3. IsFiniteSet(Allocated) /\ Cardinality(Allocated) <= Cardinality(Requests)
  BY <1>2, FS_Subset
<1>4. Cardinality(Requests) < IdSpace /\ Cardinality(Requests) \in Nat
  BY <1>2, IdSpaceAssumption, FS_CardinalityType
<1>5. /\ IsFiniteSet(Allocated \cup {r})
      /\ Cardinality(Allocated \cup {r}) = Cardinality(Allocated) + 1
  BY <1>2, <1>3, FS_AddElement
<1>6. Cardinality(Allocated \cup {r}) <= Cardinality(Requests)
  BY <1>2, FS_Subset
<1>7. current_id \in Nat /\ current_id = Cardinality(Allocated)
  BY DEF IdInv, TypeInv, TypeOK, TMTypeOK, Ids
<1>8. current_id + 1 < IdSpace
  BY <1>4, <1>5, <1>6, <1>7
<1>9. current_id' = current_id + 1
  <2>1. (current_id + 1) % IdSpace = current_id + 1
    BY <1>7, <1>8, ModSmall
  <2> QED
    BY <2>1 DEF Submit, InsertTask
<1>10. rid' = [rid EXCEPT ![r] = current_id]
  BY DEF Submit
<1>11. Allocated' = Allocated \cup {r}
  <2>1. rid \in [Requests -> Ids \cup {None}] /\ current_id # None
    BY DEF TypeInv, TypeOK, RoutesTypeOK, TMTypeOK
  <2>2. Allocated' = {q \in Requests : rid'[q] # None}
    BY DEF Allocated
  <2> QED
    BY <1>10, <2>1, <2>2 DEF Allocated
<1> QED
  BY <1>1, <1>5, <1>7, <1>9, <1>10, <1>11

LEMMA NextId ==
  ASSUME TypeInv, IdInv, [Next]_vars
  PROVE  IdInv'
<1>1. ASSUME NEW r \in Requests, Submit(r) PROVE IdInv'
  <2>1. /\ current_id' = current_id + 1 /\ rid' = [rid EXCEPT ![r] = current_id]
        /\ current_id' = Cardinality(Allocated')
    BY <1>1, NoWrap
  <2>a. Ids \subseteq Nat
    BY DEF Ids
  <2>2. rid \in [Requests -> Ids \cup {None}] /\ current_id \in Ids /\ Ids \subseteq Nat
    BY <2>a DEF TypeInv, TypeOK, RoutesTypeOK, TMTypeOK
  <2>3. hpc' = [hpc EXCEPT ![r] = "enqueue"] /\ hpc \in [Requests -> HandlerPC]
    BY <1>1 DEF Submit, Goto, TypeInv, TypeOK, RoutesTypeOK
  <2>4. ASSUME NEW q \in Requests, rid'[q] # None PROVE rid'[q] < current_id'
    <3>1. CASE q = r
      BY <2>1, <2>2, <3>1
    <3>2. CASE q # r
      <4>1. rid[q] \in Nat /\ rid[q] < current_id
        BY <2>1, <2>2, <2>4, <3>2 DEF IdInv
      <4> QED
        BY <2>1, <2>2, <3>2, <4>1
    <3> QED
      BY <3>1, <3>2
  <2>5. \A q, p \in Requests : rid'[q] # None /\ rid'[q] = rid'[p] => q = p
    BY <2>1, <2>2 DEF IdInv
  <2>6. \A q \in Requests : hpc'[q] \in Early => rid'[q] = None
    BY <2>1, <2>2, <2>3 DEF IdInv, Early
  <2> QED
    BY <2>1, <2>4, <2>5, <2>6 DEF IdInv
<1>2. ASSUME rid' = rid, current_id' = current_id,
             \A r \in Requests : hpc'[r] \in Early => hpc[r] \in Early
      PROVE  IdInv'
  <2>1. Allocated' = Allocated
    BY <1>2 DEF Allocated
  <2> QED
    BY <1>2, <2>1 DEF IdInv
<1> QED
  BY <1>1, <1>2, RidFrame

-----------------------------------------------------------------------------
(* Facts about queues. *)
Elems(q) == {q[i] : i \in 1 .. Len(q)}

NoDup(q) == \A i, j \in 1 .. Len(q) : q[i] = q[j] => i = j

LEMMA AppendElems ==
  ASSUME NEW S, NEW q \in Seq(S), NEW x \in S
  PROVE  /\ Elems(Append(q, x)) = Elems(q) \cup {x}
         /\ NoDup(q) /\ x \notin Elems(q) => NoDup(Append(q, x))
<1>1. /\ Append(q, x) \in Seq(S) /\ Len(Append(q, x)) = Len(q) + 1
      /\ \A i \in 1 .. Len(q) : Append(q, x)[i] = q[i]
      /\ Append(q, x)[Len(q) + 1] = x
      /\ Len(q) \in Nat
  OBVIOUS
<1> HIDE ConstantsAssumption, NoneAssumption, ConnsAssumption, DataAssumption,
         ImpatientAssumption
<1>2. \A i \in 1 .. Len(Append(q, x)) : i \in 1 .. Len(q) \/ i = Len(q) + 1
  BY <1>1
<1>3. ASSUME NEW y \in Elems(Append(q, x)) PROVE y \in Elems(q) \cup {x}
  BY <1>1, <1>2 DEF Elems
<1>4. ASSUME NEW y \in Elems(q) \cup {x} PROVE y \in Elems(Append(q, x))
  BY <1>1 DEF Elems
<1>5. Elems(Append(q, x)) = Elems(q) \cup {x}
  BY <1>3, <1>4
<1>6. ASSUME NoDup(q), x \notin Elems(q), NEW i \in 1 .. Len(Append(q, x)),
             NEW j \in 1 .. Len(Append(q, x)), Append(q, x)[i] = Append(q, x)[j]
      PROVE  i = j
  BY <1>1, <1>2, <1>6 DEF Elems, NoDup
<1> QED
  BY <1>5, <1>6 DEF NoDup

LEMMA TailElems ==
  ASSUME NEW S, NEW q \in Seq(S), q # << >>, NoDup(q)
  PROVE  /\ Elems(Tail(q)) = Elems(q) \ {Head(q)}
         /\ Head(q) \in Elems(q)
         /\ NoDup(Tail(q))
<1>1. /\ Tail(q) \in Seq(S) /\ Len(q) \in Nat \ {0} /\ Len(Tail(q)) = Len(q) - 1
      /\ \A i \in 1 .. Len(Tail(q)) : Tail(q)[i] = q[i + 1]
      /\ Head(q) = q[1]
  OBVIOUS
<1> HIDE ConstantsAssumption, NoneAssumption, ConnsAssumption, DataAssumption,
         ImpatientAssumption
<1>2. Head(q) \in Elems(q)
  BY <1>1 DEF Elems
<1>3. ASSUME NEW y \in Elems(Tail(q)) PROVE y \in Elems(q) \ {Head(q)}
  <2>1. PICK i \in 1 .. Len(Tail(q)) : y = Tail(q)[i]
    BY DEF Elems
  <2>2. y = q[i + 1] /\ i + 1 \in 1 .. Len(q) /\ 1 \in 1 .. Len(q) /\ i + 1 # 1
    BY <1>1, <2>1
  <2> QED
    BY <1>1, <2>2 DEF Elems, NoDup
<1>4. ASSUME NEW y \in Elems(q) \ {Head(q)} PROVE y \in Elems(Tail(q))
  <2>1. PICK i \in 1 .. Len(q) : y = q[i]
    BY DEF Elems
  <2>2. i # 1 /\ i - 1 \in 1 .. Len(Tail(q)) /\ Tail(q)[i - 1] = q[i]
    BY <1>1, <2>1
  <2> QED
    BY <2>1, <2>2 DEF Elems
<1>5. ASSUME NEW i \in 1 .. Len(Tail(q)), NEW j \in 1 .. Len(Tail(q)),
             Tail(q)[i] = Tail(q)[j]
      PROVE  i = j
  <2>1. i + 1 \in 1 .. Len(q) /\ j + 1 \in 1 .. Len(q) /\ q[i + 1] = q[j + 1]
    BY <1>1, <1>5
  <2>2. i + 1 = j + 1
    BY <2>1 DEF NoDup
  <2> QED
    BY <2>2
<1> QED
  BY <1>2, <1>3, <1>4, <1>5 DEF NoDup

-----------------------------------------------------------------------------
(***************************************************************************)
(* Custody of queues Q and batches K, and the four ways it moves.          *)
(***************************************************************************)
Custody(Q, K) ==
  /\ \A s \in Stages : NoDup(Q[s])
  /\ \A s, t \in Stages : \A id \in Elems(Q[s]) : id \in Elems(Q[t]) => s = t
  /\ \A c, d \in Conns : \A id \in K[c] : id \in K[d] => c = d
  /\ \A c \in Conns, s \in Stages : \A id \in K[c] : id \notin Elems(Q[s])

Placed(Q, K, id) ==
  (\E s \in Stages : id \in Elems(Q[s])) \/ (\E c \in Conns : id \in K[c])

(* A task lets go of some of its ids. *)
LEMMA CustodyShrink ==
  ASSUME NEW Q, NEW K, NEW K2, Custody(Q, K), \A c \in Conns : K2[c] \subseteq K[c]
  PROVE  /\ Custody(Q, K2)
         /\ \A id : Placed(Q, K2, id) => Placed(Q, K, id)
BY DEF Custody, Placed

(* A task takes the head of a queue. *)
LEMMA CustodyRecv ==
  ASSUME NEW Q \in [Stages -> Seq(Ids)], NEW K, NEW K2, Custody(Q, K),
         NEW s \in Stages, Q[s] # << >>, NEW c \in Conns,
         \A d \in Conns \ {c} : K2[d] = K[d],
         K2[c] \subseteq K[c] \cup {Head(Q[s])}
  PROVE  LET Q2 == [Q EXCEPT ![s] = Tail(@)]
         IN /\ Custody(Q2, K2)
            /\ \A id : Placed(Q2, K2, id) => Placed(Q, K, id)
<1> DEFINE Q2 == [Q EXCEPT ![s] = Tail(@)]
           x == Head(Q[s])
<1>1. /\ Elems(Q2[s]) = Elems(Q[s]) \ {x} /\ x \in Elems(Q[s]) /\ NoDup(Q2[s])
      /\ \A t \in Stages \ {s} : Q2[t] = Q[t]
  BY TailElems DEF Custody
<1>0. \A d \in Conns : \A id \in K2[d] : id \in K[d] \/ (d = c /\ id = x)
  <2>1. ASSUME NEW d \in Conns, NEW id \in K2[d] PROVE id \in K[d] \/ (d = c /\ id = x)
    BY <2>1, Zenon
  <2> QED
    BY <2>1
<1> HIDE DEF Q2, x
<1>2. \A t \in Stages : NoDup(Q2[t]) /\ Elems(Q2[t]) \subseteq Elems(Q[t])
  BY <1>1 DEF Custody
<1>3. \A t, u \in Stages : \A id \in Elems(Q2[t]) : id \in Elems(Q2[u]) => t = u
  BY <1>2 DEF Custody
<1>4. \A d \in Conns : x \notin K[d]
  BY <1>1 DEF Custody
<1>5. ASSUME NEW d \in Conns, NEW e \in Conns, NEW id \in K2[d], id \in K2[e]
      PROVE  d = e
  <2>1. id \in K[d] \/ (d = c /\ id = x)
    BY <1>0
  <2>2. id \in K[e] \/ (e = c /\ id = x)
    BY <1>0, <1>5
  <2>3. id \in K[d] /\ id \in K[e] => d = e
    BY DEF Custody
  <2> QED
    BY <1>4, <2>1, <2>2, <2>3
<1>6. \A t \in Stages : x \notin Elems(Q2[t])
  BY <1>1 DEF Custody
<1>7. ASSUME NEW d \in Conns, NEW t \in Stages, NEW id \in K2[d]
      PROVE  id \notin Elems(Q2[t])
  <2>1. id \in K[d] \/ id = x
    BY <1>0
  <2>2. id \in K[d] => id \notin Elems(Q[t])
    BY DEF Custody
  <2> QED
    BY <1>2, <1>6, <2>1, <2>2
<1>8. \A id : Placed(Q2, K2, id) => Placed(Q, K, id)
  BY <1>0, <1>1, <1>2 DEF Placed
<1> QED
  BY <1>2, <1>3, <1>5, <1>7, <1>8 DEF Custody, Q2

(* An id nobody else has goes to the end of a queue. *)
LEMMA CustodyNew ==
  ASSUME NEW Q \in [Stages -> Seq(Ids)], NEW K, Custody(Q, K),
         NEW s \in Stages, NEW x \in Ids, ~Placed(Q, K, x)
  PROVE  LET Q2 == [Q EXCEPT ![s] = Append(@, x)]
         IN /\ Custody(Q2, K)
            /\ \A id : Placed(Q2, K, id) => Placed(Q, K, id) \/ id = x
<1> DEFINE Q2 == [Q EXCEPT ![s] = Append(@, x)]
<1>1. /\ Elems(Q2[s]) = Elems(Q[s]) \cup {x} /\ NoDup(Q2[s])
      /\ \A t \in Stages \ {s} : Q2[t] = Q[t]
  <2>1. NoDup(Q[s]) /\ x \notin Elems(Q[s]) /\ Q[s] \in Seq(Ids)
    BY DEF Custody, Placed
  <2>2. Q2[s] = Append(Q[s], x)
    OBVIOUS
  <2> QED
    BY <2>1, <2>2, AppendElems
<1> HIDE DEF Q2
<1>2. \A t \in Stages : NoDup(Q2[t]) /\ Elems(Q2[t]) \subseteq Elems(Q[t]) \cup {x}
  BY <1>1 DEF Custody
<1>3. ASSUME NEW t \in Stages, NEW u \in Stages, NEW id \in Elems(Q2[t]),
             id \in Elems(Q2[u])
      PROVE  t = u
  <2>1. \A v \in Stages : x \notin Elems(Q[v])
    BY DEF Placed
  <2>2. id \in Elems(Q[t]) /\ id \in Elems(Q[u]) => t = u
    BY DEF Custody
  <2>3. id \in Elems(Q[t]) \/ (t = s /\ id = x)
    BY <1>1
  <2>4. id \in Elems(Q[u]) \/ (u = s /\ id = x)
    BY <1>1, <1>3
  <2> QED
    BY <2>1, <2>2, <2>3, <2>4
<1>4. \A d \in Conns, t \in Stages : \A id \in K[d] : id \notin Elems(Q2[t])
  BY <1>2 DEF Custody, Placed
<1>5. \A id : Placed(Q2, K, id) => Placed(Q, K, id) \/ id = x
  BY <1>2 DEF Placed
<1> QED
  BY <1>2, <1>3, <1>4, <1>5 DEF Custody, Q2

(* A task puts one of its ids at the end of a queue and lets go of it. *)
LEMMA CustodyPush ==
  ASSUME NEW Q \in [Stages -> Seq(Ids)], NEW K, NEW K2, Custody(Q, K),
         NEW s \in Stages, NEW c \in Conns, NEW x \in Ids, x \in K[c],
         \A d \in Conns \ {c} : K2[d] = K[d],
         K2[c] \subseteq K[c] \ {x}
  PROVE  LET Q2 == [Q EXCEPT ![s] = Append(@, x)]
         IN /\ Custody(Q2, K2)
            /\ \A id : Placed(Q2, K2, id) => Placed(Q, K, id)
<1>1. ASSUME NEW d \in Conns PROVE K2[d] \subseteq K[d]
  <2>1. CASE d = c
    BY <2>1
  <2>2. CASE d # c
    BY <2>2
  <2> QED
    BY <2>1, <2>2
<1>2. Custody(Q, K2) /\ \A id : Placed(Q, K2, id) => Placed(Q, K, id)
  BY <1>1, CustodyShrink
<1>3. ~Placed(Q, K2, x) /\ Placed(Q, K, x)
  BY DEF Custody, Placed
<1> QED
  BY <1>2, <1>3, CustodyNew

-----------------------------------------------------------------------------
(***************************************************************************)
(* The steps of Service move ids in one of these four ways.                *)
(***************************************************************************)
Batches == [c \in Conns |-> Held(conn[c])]

(* The id a loop visits is no longer among those it has to visit. *)
CurOut(k) ==
  k.pc \in {"push", "notify", "check", "send", "cleanup"} => k.cur \notin k.todo

CustodyInv ==
  /\ Custody(queue, Batches)
  /\ \A c \in Conns : CurOut(conn[c])
  /\ \A id \in Ids : Placed(queue, Batches, id) => id < current_id
  /\ \A r \in Requests : hpc[r] = "enqueue" => ~Placed(queue, Batches, rid[r])

KeepStep(c, new) == queue' = queue /\ Held(new) \subseteq Held(conn[c])

RecvStep(c, new) ==
  LET s == StageOf[c]
  IN /\ queue[s] # << >>
     /\ queue' = [queue EXCEPT ![s] = Tail(@)]
     /\ Held(new) \subseteq Held(conn[c]) \cup {Head(queue[s])}

PushStep(c, new) ==
  LET id == conn[c].cur
  IN /\ conn[c].dest \in Stages
     /\ id \in Ids
     /\ id \in Held(conn[c])
     /\ queue' = [queue EXCEPT ![conn[c].dest] = Append(@, id)]
     /\ Held(new) \subseteq Held(conn[c]) \ {id}

LEMMA ConnMoves ==
  ASSUME TypeInv, NEW c \in Conns, CurOut(conn[c]), ConnStep(c) \/ WorkerStep(c)
  PROVE  \E new : /\ Become(c, new) /\ CurOut(new)
                  /\ KeepStep(c, new) \/ RecvStep(c, new) \/ PushStep(c, new)
<1> DEFINE k == conn[c]
           Keep(new) == CurOut(new) /\ Held(new) \subseteq Held(k)
           Goal == \E new : /\ Become(c, new) /\ CurOut(new)
                            /\ KeepStep(c, new) \/ RecvStep(c, new) \/ PushStep(c, new)
<1>0. k \in Conn /\ Shape(k)
  BY DEF TypeInv, TypeOK, ControllerTypeOK
<1>1. ASSUME NEW new, Become(c, new), Keep(new), queue' = queue PROVE Goal
  BY <1>1 DEF KeepStep
<1>2. ASSUME NEW pc \in Ended \cup {"recv"}, NEW alive PROVE Keep(Fresh(pc, alive))
  BY DEF Fresh, CurOut, Held, Ended
<1> USE DEF Ended
<1>3. CASE Accept(c)
  BY <1>1, <1>2, <1>3 DEF Accept, tmVars
<1>4. CASE RecvFirst(c)
  <2> DEFINE new == [k EXCEPT !.pc = IF BatchSize[StageOf[c]] <= 1 THEN "fetch" ELSE "batch",
                              !.ids = {Head(queue[StageOf[c]])}]
  <2>1. new.pc \in {"fetch", "batch"} /\ new.ids = {Head(queue[StageOf[c]])}
    BY <1>0 DEF Conn
  <2>2. CurOut(new) /\ Held(new) = {Head(queue[StageOf[c]])}
    <3> HIDE DEF new
    <3> QED
      BY <2>1 DEF CurOut, Held
  <2>3. Become(c, new) /\ RecvStep(c, new)
    BY <1>4, <2>2 DEF RecvFirst, RecvStep
  <2> HIDE DEF new
  <2> QED
    BY <2>2, <2>3
<1>5. CASE RecvMore(c)
  <2> DEFINE ids == k.ids \cup {Head(queue[StageOf[c]])}
             new == [k EXCEPT !.pc = IF Cardinality(ids) = BatchSize[StageOf[c]]
                                     THEN "fetch" ELSE "batch",
                              !.ids = ids]
  <2>1. new.pc \in {"fetch", "batch"} /\ new.ids = ids
    BY <1>0 DEF Conn
  <2>2. CurOut(new) /\ Held(new) = ids
    <3> HIDE DEF new, ids
    <3> QED
      BY <2>1 DEF CurOut, Held
  <2>3. Held(k) = k.ids
    BY <1>5 DEF RecvMore, At, Held
  <2>4. Become(c, new) /\ RecvStep(c, new)
    BY <1>5, <2>2, <2>3 DEF RecvMore, RecvStep
  <2> HIDE DEF new
  <2> QED
    BY <2>2, <2>4
<1>6. CASE BatchTimeout(c)
  <2>1. Keep([k EXCEPT !.pc = "fetch"])
    BY <1>0, <1>6 DEF BatchTimeout, At, Conn, CurOut, Held
  <2> QED
    BY <1>1, <1>6, <2>1 DEF BatchTimeout, GotoC, tmVars
<1>7. CASE Fetch(c)
  <2> DEFINE live == {id \in k.ids : InTable(id)}
             data == [id \in Ids |-> IF id \in live THEN table[id].data ELSE None]
             states == [id \in Ids |-> IF id \in live THEN EncodeState(table[id])
                                                       ELSE NoState]
             new == [k EXCEPT !.pc = "write", !.ids = live, !.data = data,
                              !.states = states]
  <2>1. Become(c, IF live = {} THEN Fresh("recv", k.alive) ELSE new) /\ queue' = queue
    BY <1>7 DEF Fetch, tmVars
  <2>2. Keep(new)
    <3>1. live \subseteq k.ids
      OBVIOUS
    <3> HIDE DEF live, data, states
    <3> QED
      BY <1>0, <1>7, <3>1 DEF Fetch, At, Conn, CurOut, Held
  <2>3. Keep(Fresh("recv", k.alive))
    BY <1>2
  <2> HIDE DEF live, new, Keep
  <2> QED
    BY <1>1, <2>1, <2>2, <2>3
<1>8. CASE Write(c)
  <2>1. Keep([k EXCEPT !.pc = "read"])
    BY <1>0, <1>8 DEF Write, At, Conn, CurOut, Held
  <2>2. Keep([k EXCEPT !.pc = "loop", !.mode = "resend", !.todo = k.ids])
    BY <1>0, <1>8 DEF Write, At, Conn, CurOut, Held
  <2> HIDE DEF Keep
  <2> QED
    BY <1>1, <1>8, <2>1, <2>2 DEF Write, tmVars
<1>9. ASSUME At(c, "read"), NEW code, NEW ids \in SUBSET k.ids
      PROVE  Keep([k EXCEPT !.pc = "update", !.code = code, !.ids = ids,
                            !.data = ReplyData(c, code, ids)])
  BY <1>0, <1>9 DEF At, Conn, CurOut, Held
<1>10. CASE WorkerReply(c)
  <2> HIDE DEF Keep
  <2> QED
    BY <1>1, <1>9, <1>10 DEF WorkerReply, Reply, tmVars
<1>11. CASE ReadErrorInLoop(c)
  <2>1. At(c, "read") /\ queue' = queue
    BY <1>11 DEF ReadErrorInLoop, tmVars
  <2>2. CASE Reply(c, "StreamEvent", {})
    <3> HIDE DEF Keep
    <3> QED
      BY <1>1, <1>9, <2>1, <2>2 DEF Reply
  <2>3. ASSUME NEW code, NEW ids \in SUBSET k.ids, Reply(c, code, ids) PROVE Goal
    <3> HIDE DEF Keep
    <3> QED
      BY <1>1, <1>9, <2>1, <2>3 DEF Reply
  <2> QED
    BY <1>11, <2>2, <2>3 DEF ReadErrorInLoop
<1>12. CASE WorkerEvent(c)
  <2>1. PICK id \in k.ids :
          Become(c, [k EXCEPT !.pc = "event", !.code = "StreamEvent",
                              !.streamed = TRUE, !.cur = id])
    BY <1>12 DEF WorkerEvent
  <2>2. Keep([k EXCEPT !.pc = "event", !.code = "StreamEvent",
                       !.streamed = TRUE, !.cur = id])
    BY <1>0, <1>12 DEF WorkerEvent, At, Conn, CurOut, Held
  <2> HIDE DEF Keep
  <2> QED
    BY <1>1, <1>12, <2>1, <2>2 DEF WorkerEvent, tmVars
<1>13. CASE WorkerCrash(c)
  <2>1. Keep([k EXCEPT !.alive = FALSE])
    BY <1>0 DEF Conn, CurOut, Held
  <2> QED
    BY <1>1, <1>13, <2>1 DEF WorkerCrash, tmVars
<1>14. CASE ReadError(c)
  BY <1>1, <1>2, <1>14 DEF ReadError, tmVars
<1>15. CASE EventLookup(c)
  <2> DEFINE r == stream_senders[k.cur]
  <2>1. Keep([k EXCEPT !.pc = IF r = None THEN "read" ELSE "eventsend", !.snd = r])
    BY <1>0, <1>15 DEF EventLookup, At, Conn, CurOut, Held
  <2> HIDE DEF Keep
  <2> QED
    BY <1>1, <1>15, <2>1 DEF EventLookup, tmVars
<1>16. CASE EventSend(c)
  <2>1. Keep([k EXCEPT !.pc = "read", !.snd = None])
    BY <1>0, <1>16 DEF EventSend, At, Conn, CurOut, Held
  <2> QED
    BY <1>1, <1>16, <2>1 DEF EventSend
<1>17. CASE Update(c)
  <2> DEFINE abnormal == {id \in k.ids : InTable(id)}
  <2>1. Keep([k EXCEPT !.pc = "loop", !.mode = "forward", !.todo = k.ids])
    BY <1>0, <1>17 DEF Update, At, Conn, CurOut, Held
  <2>2. Keep([k EXCEPT !.pc = "errs", !.mode = "abnormal",
                       !.ids = abnormal, !.todo = abnormal])
    BY <1>0, <1>17 DEF Update, At, Conn, CurOut, Held
  <2> HIDE DEF Keep
  <2> QED
    BY <1>1, <1>17, <2>1, <2>2 DEF Update
<1>18. CASE ErrNext(c)
  <2>1. Keep([k EXCEPT !.pc = "loop", !.todo = k.ids])
    BY <1>0, <1>18 DEF ErrNext, At, Conn, CurOut, Held
  <2>2. ASSUME NEW id \in k.todo
        PROVE  Keep([k EXCEPT !.pc = IF stream_senders[id] = None THEN "errs"
                                                                  ELSE "errsend",
                              !.todo = @ \ {id}, !.snd = stream_senders[id]])
    BY <1>0, <1>18 DEF ErrNext, At, Conn, CurOut, Held
  <2> HIDE DEF Keep
  <2> QED
    BY <1>1, <1>18, <2>1, <2>2 DEF ErrNext, tmVars
<1>19. CASE ErrSend(c)
  <2>1. Keep([k EXCEPT !.pc = "errs", !.snd = None])
    BY <1>0, <1>19 DEF ErrSend, At, Conn, CurOut, Held
  <2> QED
    BY <1>1, <1>19, <2>1 DEF ErrSend
<1>20. CASE LoopNext(c)
  <2>1. PICK id \in k.todo :
          LET next == NextStage(table[id])
              new  == [k EXCEPT !.todo = @ \ {id}, !.cur = id]
          IN Become(c, IF new.mode = "abnormal"  THEN [new EXCEPT !.pc = "notify"]
                       ELSE IF ~InTable(id)      THEN [new EXCEPT !.cur = None]
                       ELSE IF next = None       THEN [new EXCEPT !.pc = "notify"]
                       ELSE [new EXCEPT !.pc = "push", !.dest = next])
    BY <1>20 DEF LoopNext
  <2> DEFINE next == NextStage(table[id])
             new  == [k EXCEPT !.todo = @ \ {id}, !.cur = id]
  <2>2. k.pc = "loop" /\ queue' = queue
    BY <1>20 DEF LoopNext, At, tmVars
  <2>3. Keep([new EXCEPT !.pc = "notify"]) /\ Keep([new EXCEPT !.cur = None])
    BY <1>0, <2>2 DEF Conn, CurOut, Held
  <2>4. Keep([new EXCEPT !.pc = "push", !.dest = next])
    <3> HIDE DEF next
    <3> QED
      BY <1>0, <2>2 DEF Conn, CurOut, Held
  <2> HIDE DEF Keep, next
  <2> QED
    BY <1>1, <2>1, <2>2, <2>3, <2>4, SMTT(60) DEF next
<1>21. CASE LoopEnd(c)
  <2>1. Keep(Fresh("dead", FALSE)) /\ Keep(Fresh("recv", k.alive))
    BY <1>2
  <2> HIDE DEF Keep
  <2> QED
    BY <1>1, <1>21, <2>1 DEF LoopEnd, tmVars
<1>22. CASE Push(c)
  <2> DEFINE new == [k EXCEPT !.pc = "loop", !.cur = None, !.dest = None]
  <2>1. k.pc = "push" /\ k.cur \in Ids /\ k.dest \in Stages /\ k.cur \notin k.todo
    BY <1>0, <1>22 DEF Push, At, Shape, CurOut
  <2>2. CurOut(new) /\ Held(new) = k.todo /\ Held(k) = k.todo \cup {k.cur}
    BY <1>0, <2>1 DEF Conn, CurOut, Held
  <2>3. Become(c, new) /\ PushStep(c, new)
    BY <1>22, <2>1, <2>2 DEF Push, Enqueue, PushStep
  <2> HIDE DEF new
  <2> QED
    BY <2>2, <2>3
<1>23. CASE NotifyTake(c)
  <2>1. Keep([k EXCEPT !.pc = "loop", !.cur = None])
    BY <1>0, <1>23 DEF NotifyTake, At, Conn, CurOut, Held
  <2>2. Keep([k EXCEPT !.pc = "check", !.snd = notifiers[k.cur]])
    BY <1>0, <1>23 DEF NotifyTake, At, Conn, CurOut, Held
  <2> HIDE DEF Keep
  <2> QED
    BY <1>1, <1>23, <2>1, <2>2 DEF NotifyTake
<1>24. CASE NotifyCheck(c)
  <2>1. Keep([k EXCEPT !.pc = "cleanup"]) /\ Keep([k EXCEPT !.pc = "send"])
    BY <1>0, <1>24 DEF NotifyCheck, At, Conn, CurOut, Held
  <2> HIDE DEF Keep
  <2> QED
    BY <1>1, <1>24, <2>1 DEF NotifyCheck, GotoC, tmVars
<1>25. CASE NotifySend(c)
  <2>1. Keep(Fresh("panicked", FALSE))
    BY <1>2
  <2>2. Keep([k EXCEPT !.pc = "loop", !.cur = None, !.snd = None])
    BY <1>0, <1>25 DEF NotifySend, At, Conn, CurOut, Held
  <2> HIDE DEF Keep
  <2> QED
    BY <1>1, <1>25, <2>1, <2>2 DEF NotifySend
<1>26. CASE NotifyCleanup(c)
  <2>1. Keep([k EXCEPT !.pc = "loop", !.cur = None, !.snd = None])
    BY <1>0, <1>26 DEF NotifyCleanup, At, Conn, CurOut, Held
  <2> QED
    BY <1>1, <1>26, <2>1 DEF NotifyCleanup
<1> QED
  BY <1>3, <1>4, <1>5, <1>6, <1>7, <1>8, <1>10, <1>11, <1>12, <1>13, <1>14, <1>15,
     <1>16, <1>17, <1>18, <1>19, <1>20, <1>21, <1>22, <1>23, <1>24, <1>25, <1>26
     DEF ConnStep, WorkerStep

LEMMA InitCustody == Init => CustodyInv
<1> SUFFICES ASSUME Init PROVE CustodyInv
  OBVIOUS
<1>1. \A c \in Conns : conn[c] = Fresh("down", FALSE)
  BY DEF Init, ControllerInit
<1>2. Held(Fresh("down", FALSE)) = {} /\ CurOut(Fresh("down", FALSE))
  BY DEF Held, CurOut, Fresh, Ended
<1>3. \A c \in Conns : Batches[c] = {} /\ CurOut(conn[c])
  BY <1>1, <1>2 DEF Batches
<1>4. \A s \in Stages : Elems(queue[s]) = {} /\ NoDup(queue[s])
  BY DEF Init, TMInit, Elems, NoDup
<1>5. \A id : ~Placed(queue, Batches, id)
  BY <1>3, <1>4 DEF Placed
<1> QED
  BY <1>3, <1>4, <1>5 DEF CustodyInv, Custody

(* The other steps of the routes touch no queue and start no submission. *)
LEMMA RoutesFrame ==
  ASSUME TypeInv, NEW r \in Requests,
         HandlerStep(r) \/ Timeout(r) \/ ClientStep(r), ~Submit(r), ~TrySend(r)
  PROVE  /\ queue' = queue /\ rid' = rid /\ current_id' = current_id
         /\ \A q \in Requests : hpc'[q] = "enqueue" => hpc[q] = "enqueue"
<1> USE DEF TypeInv, TypeOK, RoutesTypeOK
<1>1. CASE HandlerStep(r) \/ Timeout(r)
  BY <1>1 DEF HandlerStep, Timeout, RegisterStream, Notified, TakeTask,
     DeleteNotifier, DeleteTask, DeleteStream, Goto, Respond
<1>2. CASE ClientStep(r)
  BY <1>2 DEF ClientStep, Arrive, ReadBody, Disconnect, ReadEvent, Goto, Respond, tmVars
<1> QED
  BY <1>1, <1>2

LEMMA NextCustody ==
  ASSUME TypeInv, IdInv, CustodyInv, [Next]_vars
  PROVE  CustodyInv'
<1> DEFINE K == Batches
           K2 == [c \in Conns |-> Held(conn'[c])]
<1>0. /\ Batches' = K2
      /\ queue \in [Stages -> Seq(Ids)]
      /\ rid \in [Requests -> Ids \cup {None}]
      /\ \A c \in Conns : K[c] = Held(conn[c]) /\ K2[c] = Held(conn'[c])
  BY DEF Batches, TypeInv, TypeOK, TMTypeOK, RoutesTypeOK
<1>a. Ids \subseteq Nat /\ current_id \in Ids
  BY DEF TypeInv, TypeOK, TMTypeOK, Ids
<1> HIDE DEF K, K2
<1>1. /\ Custody(queue, K)
      /\ \A c \in Conns : CurOut(conn[c])
      /\ \A id \in Ids : Placed(queue, K, id) => id < current_id
      /\ \A r \in Requests : hpc[r] = "enqueue" => ~Placed(queue, K, rid[r])
  BY DEF CustodyInv, K
<1>2. ASSUME queue' = queue, conn' = conn, rid' = rid, current_id' = current_id,
             \A q \in Requests : hpc'[q] = "enqueue" => hpc[q] = "enqueue"
      PROVE  CustodyInv'
  <2>1. K2 = K
    BY <1>2 DEF K, K2, Batches
  <2> QED
    BY <1>0, <1>1, <1>2, <2>1 DEF CustodyInv
<1>3. ASSUME NEW r \in Requests, Submit(r), UNCHANGED connVars PROVE CustodyInv'
  <2>1. K2 = K /\ queue' = queue /\ conn' = conn
    BY <1>3 DEF K, K2, Batches, connVars, Submit
  <2>2. /\ current_id' = current_id + 1 /\ rid' = [rid EXCEPT ![r] = current_id]
        /\ hpc' = [hpc EXCEPT ![r] = "enqueue"]
    BY <1>3, NoWrap DEF Submit, Goto
  <2>3. \A id \in Ids : Placed(queue, K, id) => id < current_id'
    BY <1>1, <1>a, <2>2
  <2>4. ~Placed(queue, K, current_id)
    BY <1>1, <1>a
  <2>5. ASSUME NEW q \in Requests, hpc'[q] = "enqueue" PROVE ~Placed(queue, K, rid'[q])
    <3>1. CASE q = r
      BY <1>0, <2>2, <2>4, <3>1
    <3>2. CASE q # r
      BY <1>0, <1>1, <2>2, <2>5, <3>2 DEF TypeInv, TypeOK, RoutesTypeOK
    <3> QED
      BY <3>1, <3>2
  <2> QED
    BY <1>0, <1>1, <2>1, <2>3, <2>5 DEF CustodyInv
<1>4. ASSUME NEW r \in Requests, TrySend(r), UNCHANGED connVars PROVE CustodyInv'
  <2> DEFINE first == Pipeline[EndpointOf[r]][1]
             x == rid[r]
  <2>1. K2 = K /\ conn' = conn /\ rid' = rid /\ current_id' = current_id
    BY <1>4 DEF K, K2, Batches, connVars, TrySend
  <2>2. x \in Ids /\ first \in Stages /\ ~Placed(queue, K, x) /\ x < current_id
    BY <1>0, <1>1, <1>4 DEF TrySend, TypeInv, HasId, IdInv
  <2>3. \A q \in Requests : hpc'[q] = "enqueue" => q # r /\ hpc[q] = "enqueue"
    BY <1>4 DEF TrySend, Goto, Respond, TypeInv, TypeOK, RoutesTypeOK
  <2>4. CASE queue' = queue
    BY <1>2, <2>1, <2>3, <2>4
  <2>5. CASE queue' = [queue EXCEPT ![first] = Append(@, x)]
    <3>1. /\ Custody(queue', K)
          /\ \A id : Placed(queue', K, id) => Placed(queue, K, id) \/ id = x
      <4> HIDE DEF first, x
      <4> QED
        BY <1>0, <1>1, <2>2, <2>5, CustodyNew
    <3>2. \A id \in Ids : Placed(queue', K, id) => id < current_id
      BY <1>1, <2>2, <3>1
    <3>3. ASSUME NEW q \in Requests, hpc'[q] = "enqueue"
          PROVE  ~Placed(queue', K, rid[q])
      <4>1. rid[q] # x
        BY <2>2, <2>3, <3>3 DEF IdInv
      <4> QED
        BY <1>1, <2>3, <3>1, <3>3, <4>1
    <3> QED
      BY <1>0, <1>1, <2>1, <3>1, <3>2, <3>3 DEF CustodyInv
  <2> QED
    BY <1>4, <2>4, <2>5 DEF TrySend, Enqueue
<1>5. ASSUME NEW c \in Conns, ConnStep(c) \/ WorkerStep(c), UNCHANGED routesVars
      PROVE  CustodyInv'
  <2>1. rid' = rid /\ hpc' = hpc /\ current_id' = current_id
    BY <1>5 DEF routesVars, ConnStep, WorkerStep, tmVars, Accept,
       RecvFirst, RecvMore, BatchTimeout, Fetch, Write, ReadError, ReadErrorInLoop,
       EventLookup, EventSend, Update, ErrNext, ErrSend, LoopNext, LoopEnd, Push,
       NotifyTake, NotifyCheck, NotifySend, NotifyCleanup, WorkerReply, WorkerEvent,
       WorkerCrash
  <2>2. PICK new : /\ Become(c, new) /\ CurOut(new)
                   /\ KeepStep(c, new) \/ RecvStep(c, new) \/ PushStep(c, new)
    BY <1>1, <1>5, ConnMoves
  <2>3. /\ conn'[c] = new
        /\ \A d \in Conns \ {c} : conn'[d] = conn[d]
    BY <2>2 DEF Become, TypeInv, TypeOK, ControllerTypeOK
  <2>4. /\ K2[c] = Held(new) /\ K[c] = Held(conn[c])
        /\ \A d \in Conns \ {c} : K2[d] = K[d]
    BY <1>0, <2>3
  <2>5. \A d \in Conns : CurOut(conn'[d])
    BY <1>1, <2>2, <2>3
  <2>6. /\ Custody(queue', K2)
        /\ \A id : Placed(queue', K2, id) => Placed(queue, K, id)
    <3>1. CASE KeepStep(c, new)
      <4>1. queue' = queue /\ K2[c] \subseteq K[c]
        BY <2>4, <3>1 DEF KeepStep
      <4>2. \A d \in Conns : K2[d] \subseteq K[d]
        BY <2>4, <4>1
      <4> QED
        BY <1>1, <4>1, <4>2, CustodyShrink
    <3>2. CASE RecvStep(c, new)
      <4>1. /\ queue[StageOf[c]] # << >> /\ StageOf[c] \in Stages
            /\ queue' = [queue EXCEPT ![StageOf[c]] = Tail(@)]
            /\ K2[c] \subseteq K[c] \cup {Head(queue[StageOf[c]])}
        BY <2>4, <3>2 DEF RecvStep
      <4> QED
        BY <1>0, <1>1, <2>4, <4>1, CustodyRecv
    <3>3. CASE PushStep(c, new)
      <4>1. /\ conn[c].dest \in Stages /\ conn[c].cur \in Ids /\ conn[c].cur \in K[c]
            /\ queue' = [queue EXCEPT ![conn[c].dest] = Append(@, conn[c].cur)]
            /\ K2[c] \subseteq K[c] \ {conn[c].cur}
        BY <2>4, <3>3 DEF PushStep
      <4> QED
        BY <1>0, <1>1, <2>4, <4>1, CustodyPush
    <3> QED
      BY <2>2, <3>1, <3>2, <3>3
  <2> QED
    BY <1>0, <1>1, <2>1, <2>5, <2>6, SMTT(60) DEF CustodyInv
<1>6. ASSUME NEW r \in Requests, HandlerStep(r) \/ Timeout(r) \/ ClientStep(r),
             UNCHANGED connVars
      PROVE  CustodyInv'
  <2>1. CASE ~Submit(r) /\ ~TrySend(r)
    BY <1>2, <1>6, <2>1, RoutesFrame DEF connVars
  <2> QED
    BY <1>3, <1>4, <1>6, <2>1
<1>7. CASE Shutdown \/ UNCHANGED vars
  BY <1>2, <1>7 DEF Shutdown, BeginShutdown, EndShutdown, routesVars, connVars, vars,
     tmVars
<1> QED
  BY <1>5, <1>6, <1>7 DEF Next, Handler, Timer, Client, Connection, Worker

(* The full invariant of this module: types, ids and custody. *)
THEOREM CustodyInvariant == Spec => [](TypeInv /\ IdInv /\ CustodyInv)
<1>1. IdInv /\ CustodyInv /\ TypeInv /\ [Next]_vars => IdInv' /\ CustodyInv'
  BY NextId, NextCustody
<1> QED
  BY <1>1, InitId, InitCustody, TypeInvariant, PTL DEF Spec

(* An id is in at most one queue and at most one batch, in one copy: no    *)
(* task is processed by two workers or skips a stage.                      *)
THEOREM SingleCustodyHolds == Spec => []SingleCustody
<1>1. CustodyInv => SingleCustody
  <2> SUFFICES ASSUME CustodyInv PROVE SingleCustody
    OBVIOUS
  <2>1. /\ \A s \in Stages : Queued(s) = Elems(queue[s])
        /\ \A c \in Conns : Batches[c] = Held(conn[c])
    BY DEF Queued, Elems, Batches
  <2>2. \A s \in Stages : \A i, j \in 1 .. Len(queue[s]) :
          queue[s][i] = queue[s][j] => i = j
    BY DEF CustodyInv, Custody, NoDup
  <2>a. /\ \A s, t \in Stages : \A id \in Queued(s) : id \in Queued(t) => s = t
        /\ \A c, d \in Conns : \A id \in Held(conn[c]) : id \in Held(conn[d]) => c = d
        /\ \A c \in Conns, s \in Stages : \A id \in Held(conn[c]) : id \notin Queued(s)
    <3>1. Custody(queue, Batches)
      BY DEF CustodyInv
    <3>2. ASSUME NEW s \in Stages, NEW t \in Stages, NEW id \in Queued(s),
                 id \in Queued(t)
          PROVE  s = t
      <4>1. id \in Elems(queue[s]) /\ id \in Elems(queue[t])
        BY <2>1, <3>2
      <4> QED
        BY <3>1, <4>1 DEF Custody
    <3>3. ASSUME NEW c \in Conns, NEW d \in Conns, NEW id \in Held(conn[c]),
                 id \in Held(conn[d])
          PROVE  c = d
      <4>1. id \in Batches[c] /\ id \in Batches[d]
        BY <2>1, <3>3
      <4> QED
        BY <3>1, <4>1 DEF Custody
    <3>4. ASSUME NEW c \in Conns, NEW s \in Stages, NEW id \in Held(conn[c])
          PROVE  id \notin Queued(s)
      <4>1. id \in Batches[c] /\ Queued(s) = Elems(queue[s])
        BY <2>1, <3>4
      <4>2. id \notin Elems(queue[s])
        BY <3>1, <4>1 DEF Custody
      <4> QED
        BY <4>1, <4>2, Zenon
    <3> QED
      BY <3>2, <3>3, <3>4
  <2>3. ASSUME NEW s \in Stages, NEW t \in Stages, s # t
        PROVE  Queued(s) \cap Queued(t) = {}
    BY <2>a, <2>3, Zenon
  <2>4. ASSUME NEW c \in Conns, NEW d \in Conns, c # d
        PROVE  Held(conn[c]) \cap Held(conn[d]) = {}
    BY <2>a, <2>4, Zenon
  <2>5. ASSUME NEW c \in Conns, NEW s \in Stages
        PROVE  Held(conn[c]) \cap Queued(s) = {}
    BY <2>a, <2>5, Zenon
  <2> QED
    BY <2>2, <2>3, <2>4, <2>5 DEF SingleCustody
<1> QED
  BY <1>1, CustodyInvariant, PTL

-----------------------------------------------------------------------------
(***************************************************************************)
(* The three maps.  The sender of a request is in the notifiers, or in the *)
(* hands of one connection task, or used up; who holds it knows the id it  *)
(* belongs to.                                                             *)
(***************************************************************************)
HasSender == {"check", "send", "cleanup"}

(* What a connection task knows of the sender in its hands. *)
SenderOK(k) ==
  k.pc \in HasSender =>
    /\ rid[k.snd] = k.cur
    /\ notifiers[k.cur] = None
    /\ rx[k.snd] # "sent" /\ hpc[k.snd] # "take"
    /\ k.pc = "cleanup" => rx[k.snd] = "closed"

NotifierInv ==
  /\ \A id \in Ids : notifiers[id] # None => rid[notifiers[id]] = id
  /\ \A c \in Conns : SenderOK(conn[c])
  /\ \A r \in Requests :
       /\ hpc[r] \in {"enqueue", "register", "wait"} => rx[r] \in {"pending", "sent"}
       /\ rx[r] = "sent" \/ hpc[r] = "take" =>
            rid[r] \in Ids /\ notifiers[rid[r]] = None

(* A stream sender belongs to a request whose watcher has yet to end, and  *)
(* only the handler of a stream registers one.                             *)
StreamerInv ==
  /\ \A id \in Ids : stream_senders[id] # None =>
       /\ rid[stream_senders[id]] = id
       /\ IsSSE(stream_senders[id])
       /\ hpc[stream_senders[id]] \in {"wait", "expired", "purge", "unstream"}
  /\ \A r \in Requests : hpc[r] = "register" => IsSSE(r)

(* delete_task, between its locks. *)
PurgeInv ==
  \A r \in Requests :
    /\ hpc[r] \in {"purge", "unstream"} => notifiers[rid[r]] = None
    /\ hpc[r] = "unstream" => table[rid[r]] = None

MapsInv ==
  NotifierInv /\ StreamerInv /\ PurgeInv /\ WaitingIsTabled /\ CleanAfterResponse

(* From here on the proofs cite the assumptions they need. *)
HIDE ConstantsAssumption
HIDE ConnsAssumption
HIDE DataAssumption
HIDE ImpatientAssumption

(* The types these proofs use. *)
MapTypes ==
  /\ table \in [Ids -> Task \cup {None}]
  /\ notifiers \in [Ids -> Requests \cup {None}]
  /\ stream_senders \in [Ids -> Requests \cup {None}]
  /\ rx \in [Requests -> {"none", "pending", "sent", "closed"}]
  /\ hpc \in [Requests -> HandlerPC]
  /\ rid \in [Requests -> Ids \cup {None}]
  /\ conn \in [Conns -> Conn]
  /\ current_id \in Ids
  /\ Ids \subseteq Nat
  /\ \A r \in Requests : hpc[r] \in HasId => rid[r] \in Ids
  /\ \A c \in Conns : conn[c].pc \in HasSender \cup {"push", "notify"} => conn[c].cur \in Ids
  /\ \A c \in Conns : conn[c].pc \in HasSender => conn[c].snd \in Requests

LEMMA MapsTyped == TypeInv => MapTypes
<1>1. Ids \subseteq Nat
  BY DEF Ids
<1> QED
  BY <1>1 DEF TypeInv, TypeOK, TMTypeOK, RoutesTypeOK, ControllerTypeOK, Shape,
     MapTypes, HasSender

LEMMA InitMaps == Init => MapsInv
<1> SUFFICES ASSUME Init PROVE MapsInv
  OBVIOUS
<1>1. \A c \in Conns : conn[c].pc = "down"
  BY DEF Init, ControllerInit, Fresh
<1> QED
  BY <1>1 DEF Init, TMInit, RoutesInit, MapsInv, NotifierInv, SenderOK, HasSender,
     StreamerInv, PurgeInv, WaitingIsTabled, CleanAfterResponse

(* A step that leaves the maps, the handlers and the senders in hand as    *)
(* they are, and drops or adds no task.                                    *)
LEMMA MapsQuiet ==
  ASSUME MapTypes, MapsInv,
         UNCHANGED <<notifiers, stream_senders, rx, hpc, rid>>,
         \A id \in Ids : table'[id] = None <=> table[id] = None,
         \A c \in Conns : \/ conn'[c].pc \notin HasSender
                          \/ /\ conn'[c].pc = conn[c].pc
                             /\ conn'[c].cur = conn[c].cur
                             /\ conn'[c].snd = conn[c].snd
  PROVE  MapsInv'
<1>1. \A c \in Conns : SenderOK(conn[c])'
  BY DEF MapsInv, NotifierInv, SenderOK
<1>2. NotifierInv'
  BY <1>1 DEF MapsInv, NotifierInv
<1>3. StreamerInv' /\ PurgeInv'
  BY DEF MapTypes, MapsInv, StreamerInv, PurgeInv, IsSSE, HasId
<1>4. WaitingIsTabled'
  BY DEF MapTypes, MapsInv, WaitingIsTabled, InTable, HasId
<1>5. CleanAfterResponse'
  BY DEF MapTypes, MapsInv, CleanAfterResponse, InTable
<1> QED
  BY <1>2, <1>3, <1>4, <1>5 DEF MapsInv

(* Two requests never have the same id. *)
LEMMA RidOwner ==
  ASSUME IdInv
  PROVE  /\ \A r, q \in Requests : rid[r] # None /\ rid[r] = rid[q] => r = q
         /\ \A r \in Requests : rid[r] # None => rid[r] < current_id
         /\ \A r \in Requests : hpc[r] \in Early => rid[r] = None
BY DEF IdInv

(* A step of the handler of r, or of its client: it moves its program      *)
(* counter to pc and its receiver to v, and may remove its own entries.    *)
LEMMA HandlerMaps ==
  ASSUME MapTypes, IdInv, MapsInv, NEW r \in Requests, NEW pc, NEW v,
         UNCHANGED <<rid, conn>>,
         \A id \in Ids :
           /\ notifiers'[id] = notifiers[id] \/ (id = rid[r] /\ notifiers'[id] = None)
           /\ table'[id] = table[id] \/ (id = rid[r] /\ table'[id] = None)
           /\ \/ stream_senders'[id] = stream_senders[id]
              \/ id = rid[r] /\ stream_senders'[id] = None,
         hpc' = [hpc EXCEPT ![r] = pc],
         rx' = [rx EXCEPT ![r] = v],
         pc \in {"enqueue", "register", "wait"} => v \in {"pending", "sent"},
         v = "sent" \/ pc = "take" => rx[r] = "sent" \/ hpc[r] = "take",
         rx[r] = "closed" => v = "closed",
         IsSSE(r) /\ hpc[r] \in {"wait", "expired", "purge", "unstream"} =>
           \/ pc \in {"wait", "expired", "purge", "unstream"}
           \/ rid[r] \in Ids => stream_senders'[rid[r]] = None,
         pc = "register" => IsSSE(r),
         pc \in {"purge", "unstream"} => notifiers'[rid[r]] = None,
         pc = "unstream" => table'[rid[r]] = None,
         pc \in {"enqueue", "register", "wait", "take"} =>
           hpc[r] \in {"enqueue", "register", "wait", "take"} /\ table'[rid[r]] = table[rid[r]],
         pc = "done" /\ rid[r] # None => /\ table'[rid[r]] = None
                                         /\ notifiers'[rid[r]] = None
                                         /\ stream_senders'[rid[r]] = None
  PROVE  MapsInv'
<1>1. /\ hpc'[r] = pc /\ rx'[r] = v
      /\ \A q \in Requests \ {r} : hpc'[q] = hpc[q] /\ rx'[q] = rx[q]
  BY DEF MapTypes
<1>2. /\ NotifierInv /\ StreamerInv /\ PurgeInv /\ WaitingIsTabled
      /\ CleanAfterResponse
  BY DEF MapsInv
<1>b. /\ \A q \in Requests : rid[q] # None /\ rid[q] = rid[r] => q = r
      /\ \A q \in Requests : hpc[q] \in HasId => rid[q] \in Ids
      /\ \A q \in Requests : rid[q] \in Ids \/ rid[q] = None
  BY RidOwner DEF MapTypes
<1>d. /\ \A id \in Ids : notifiers[id] = None => notifiers'[id] = None
      /\ \A id \in Ids : table[id] = None => table'[id] = None
      /\ \A id \in Ids : stream_senders[id] = None => stream_senders'[id] = None
      /\ \A id \in Ids : notifiers'[id] # None => notifiers'[id] = notifiers[id]
      /\ \A id \in Ids : stream_senders'[id] # None => stream_senders'[id] = stream_senders[id]
      /\ \A id \in Ids : id # rid[r] => table'[id] = table[id]
  OBVIOUS
<1>3. \A c \in Conns : SenderOK(conn[c])'
  <2> SUFFICES ASSUME NEW c \in Conns, conn[c].pc \in HasSender
               PROVE  SenderOK(conn[c])'
    BY DEF SenderOK
  <2>1. conn[c].snd \in Requests /\ SenderOK(conn[c]) /\ conn[c].cur \in Ids
    BY <1>2 DEF MapTypes, NotifierInv
  <2>2. CASE conn[c].snd = r
    BY <1>1, <1>d, <2>1, <2>2 DEF SenderOK
  <2>3. CASE conn[c].snd # r
    BY <1>1, <1>d, <2>1, <2>3 DEF SenderOK
  <2> QED
    BY <2>2, <2>3
<1>4. NotifierInv'
  <2>1. \A q \in Requests :
          /\ hpc'[q] \in {"enqueue", "register", "wait"} => rx'[q] \in {"pending", "sent"}
          /\ rx'[q] = "sent" \/ hpc'[q] = "take" =>
               rid[q] \in Ids /\ notifiers'[rid[q]] = None
    BY <1>1, <1>2, <1>d DEF NotifierInv
  <2> QED
    BY <1>2, <1>3, <1>d, <2>1 DEF NotifierInv
<1>5. StreamerInv'
  <2>0. \A q \in Requests : hpc'[q] = "register" => IsSSE(q)
    BY <1>1, <1>2 DEF StreamerInv
  <2> SUFFICES ASSUME NEW id \in Ids, stream_senders'[id] # None
               PROVE  /\ rid[stream_senders'[id]] = id
                      /\ IsSSE(stream_senders'[id])
                      /\ hpc'[stream_senders'[id]] \in {"wait", "expired", "purge", "unstream"}
    BY <2>0 DEF StreamerInv, IsSSE
  <2>1. stream_senders'[id] = stream_senders[id] /\ stream_senders[id] \in Requests
    BY <1>d DEF MapTypes
  <2>2. /\ rid[stream_senders[id]] = id
        /\ IsSSE(stream_senders[id])
        /\ hpc[stream_senders[id]] \in {"wait", "expired", "purge", "unstream"}
    BY <1>2, <2>1 DEF StreamerInv
  <2>3. CASE stream_senders[id] = r
    BY <1>1, <2>1, <2>2, <2>3
  <2>4. CASE stream_senders[id] # r
    BY <1>1, <2>1, <2>2, <2>4
  <2> QED
    BY <2>3, <2>4
<1>6. PurgeInv'
  BY <1>1, <1>2, <1>b, <1>d DEF PurgeInv, HasId
<1>7. WaitingIsTabled'
  <2> SUFFICES ASSUME NEW q \in Requests,
                      hpc'[q] \in {"enqueue", "register", "wait", "take"}
               PROVE  table'[rid[q]] # None
    BY DEF WaitingIsTabled, InTable
  <2>1. hpc[q] \in {"enqueue", "register", "wait", "take"} /\ table[rid[q]] # None
    BY <1>1, <1>2 DEF WaitingIsTabled, InTable
  <2>2. rid[q] \in Ids
    BY <1>b, <2>1 DEF HasId
  <2>3. CASE q = r
    BY <1>1, <2>1, <2>3
  <2>4. CASE q # r
    <3>1. rid[q] # None /\ rid[q] # rid[r]
      BY <1>b, <2>2, <2>4
    <3> QED
      BY <1>d, <2>1, <2>2, <3>1
  <2> QED
    BY <2>3, <2>4
<1>8. CleanAfterResponse'
  BY <1>1, <1>2, <1>b, <1>d DEF CleanAfterResponse, InTable
<1> QED
  BY <1>4, <1>5, <1>6, <1>7, <1>8 DEF MapsInv

(* The handlers, their timers and their clients. *)
LEMMA RoutesMaps ==
  ASSUME TypeInv, IdInv, CustodyInv, MapsInv, NEW r \in Requests,
         HandlerStep(r) \/ Timeout(r) \/ ClientStep(r), UNCHANGED connVars
  PROVE  MapsInv'
<1>0. MapTypes
  BY MapsTyped
<1>a. conn' = conn
  BY DEF connVars
<1>b. /\ \A q, p \in Requests : rid[q] # None /\ rid[q] = rid[p] => q = p
      /\ \A q \in Requests : rid[q] # None => rid[q] < current_id
      /\ \A q \in Requests : hpc[q] \in Early => rid[q] = None
  BY RidOwner
<1>c. /\ NotifierInv /\ StreamerInv /\ PurgeInv /\ WaitingIsTabled
      /\ CleanAfterResponse
  BY DEF MapsInv
<1>d. hpc = [hpc EXCEPT ![r] = hpc[r]] /\ rx = [rx EXCEPT ![r] = rx[r]]
  BY <1>0 DEF MapTypes
<1>e. ASSUME rid[r] \in Ids,
             hpc[r] \notin {"wait", "expired", "purge", "unstream"} \/ ~IsSSE(r)
      PROVE  stream_senders[rid[r]] = None
  <2> SUFFICES ASSUME stream_senders[rid[r]] # None PROVE FALSE
    OBVIOUS
  <2>1. PICK q \in Requests : stream_senders[rid[r]] = q
    BY <1>0, <1>e DEF MapTypes
  <2>2. rid[q] = rid[r] /\ IsSSE(q) /\ hpc[q] \in {"wait", "expired", "purge", "unstream"}
    BY <1>c, <1>e, <2>1 DEF StreamerInv
  <2>3. q = r
    BY <1>b, <1>e, <2>2
  <2> QED
    BY <1>e, <2>2, <2>3
<1>2. CASE Arrive(r) \/ ReadBody(r)
  <2>1. PICK pc \in {"done", "body", "submit"} : hpc' = [hpc EXCEPT ![r] = pc]
    BY <1>2 DEF Arrive, ReadBody, Goto, Respond
  <2>2. /\ UNCHANGED <<notifiers, stream_senders, table, rid, rx>>
        /\ hpc[r] \in {"idle", "body"}
    BY <1>2 DEF Arrive, ReadBody, tmVars
  <2>3. rid[r] = None
    BY <1>b, <2>2 DEF Early
  <2>4. rx' = [rx EXCEPT ![r] = rx[r]] /\ conn' = conn
    BY <2>2, <1>d, <1>a
  <2> QED
    BY <1>0, <2>1, <2>2, <2>3, <2>4, HandlerMaps
<1>3. CASE ReadEvent(r)
  BY <1>3, <1>a, <1>0, MapsQuiet DEF ReadEvent
<1>4. CASE Disconnect(r)
  <2>1. UNCHANGED <<notifiers, stream_senders, table, rid, conn>>
    BY <1>4, <1>a DEF Disconnect
  <2>2. CASE /\ hpc[r] \in {"body", "wait"} /\ (hpc[r] = "wait" => ~IsSSE(r))
             /\ hpc' = [hpc EXCEPT ![r] = "gone"]
             /\ rx' = [rx EXCEPT ![r] = "closed"]
    BY <1>0, <2>1, <2>2, HandlerMaps
  <2>3. CASE hpc' = hpc /\ rx' = rx
    BY <1>0, <2>1, <2>3, MapsQuiet
  <2> QED
    BY <1>4, <2>2, <2>3 DEF Disconnect, Goto
<1>5. CASE Notified(r)
  <2>1. /\ UNCHANGED <<notifiers, stream_senders, table, rid, conn>>
        /\ hpc[r] = "wait" /\ rx[r] = "sent"
        /\ hpc' = [hpc EXCEPT ![r] = IF IsSSE(r) THEN "expired" ELSE "take"]
        /\ rx' = [rx EXCEPT ![r] = "closed"]
    BY <1>5, <1>a DEF Notified, Goto
  <2>2. CASE IsSSE(r)
    BY <1>0, <2>1, <2>2, HandlerMaps
  <2>3. CASE ~IsSSE(r)
    BY <1>0, <2>1, <2>3, HandlerMaps
  <2> QED
    BY <2>2, <2>3
<1>6. CASE Timeout(r)
  <2>1. /\ UNCHANGED <<notifiers, stream_senders, table, rid, conn>>
        /\ hpc[r] = "wait"
        /\ hpc' = [hpc EXCEPT ![r] = "expired"]
        /\ rx' = [rx EXCEPT ![r] = "closed"]
    BY <1>6, <1>a DEF Timeout, Goto
  <2> QED
    BY <1>0, <2>1, HandlerMaps
<1>7. CASE TrySend(r)
  <2>1. UNCHANGED <<stream_senders, rid, conn>> /\ hpc[r] = "enqueue" /\ rid[r] \in Ids
    BY <1>7, <1>a, <1>0 DEF TrySend, MapTypes, HasId
  <2>2. rx[r] \in {"pending", "sent"}
    BY <1>c, <2>1 DEF NotifierInv
  <2>3. ASSUME NEW pc \in {"register", "wait"}, hpc' = [hpc EXCEPT ![r] = pc],
               pc = "register" => IsSSE(r),
               UNCHANGED <<table, notifiers, rx>>
        PROVE  MapsInv'
    <3>1. rx' = [rx EXCEPT ![r] = rx[r]]
      BY <1>d, <2>3
    <3> QED
      BY <1>0, <2>1, <2>2, <2>3, <3>1, HandlerMaps
  <2>4. CASE /\ RemoveNotifier(rid[r]) /\ RemoveTask(rid[r])
             /\ rx' = [rx EXCEPT ![r] = "closed"]
             /\ hpc' = [hpc EXCEPT ![r] = "done"]
    <3>1. /\ table'[rid[r]] = None /\ notifiers'[rid[r]] = None
          /\ \A id \in Ids \ {rid[r]} : table'[id] = table[id] /\ notifiers'[id] = notifiers[id]
      BY <1>0, <2>1, <2>4 DEF RemoveNotifier, RemoveTask, MapTypes
    <3>2. stream_senders'[rid[r]] = None
      BY <1>e, <2>1
    <3> QED
      BY <1>0, <2>1, <2>2, <2>4, <3>1, <3>2, HandlerMaps
  <2> QED
    BY <1>7, <2>3, <2>4 DEF TrySend, Goto, Respond
<1>8. CASE TakeTask(r)
  <2>1. UNCHANGED <<notifiers, stream_senders, rid, conn>> /\ hpc[r] = "take"
    BY <1>8, <1>a DEF TakeTask
  <2>2. rid[r] \in Ids /\ notifiers[rid[r]] = None /\ stream_senders[rid[r]] = None
    BY <1>c, <1>e, <2>1 DEF NotifierInv
  <2>3. /\ table'[rid[r]] = None
        /\ \A id \in Ids \ {rid[r]} : table'[id] = table[id]
    BY <1>0, <1>8, <2>2 DEF TakeTask, RemoveTask, MapTypes
  <2>4. hpc' = [hpc EXCEPT ![r] = "done"] /\ rx' = [rx EXCEPT ![r] = rx[r]]
    BY <1>8, <1>d DEF TakeTask, Respond, Goto
  <2> QED
    BY <1>0, <2>1, <2>2, <2>3, <2>4, HandlerMaps
<1>9. CASE DeleteNotifier(r)
  <2>1. /\ UNCHANGED <<table, stream_senders, rid, conn>> /\ hpc[r] = "expired"
        /\ hpc' = [hpc EXCEPT ![r] = "purge"] /\ rx' = [rx EXCEPT ![r] = rx[r]]
    BY <1>9, <1>a, <1>d DEF DeleteNotifier, Goto
  <2>2. rid[r] \in Ids
    BY <1>0, <2>1 DEF MapTypes, HasId
  <2>3. /\ notifiers'[rid[r]] = None
        /\ \A id \in Ids \ {rid[r]} : notifiers'[id] = notifiers[id]
    BY <1>0, <1>9, <2>2 DEF DeleteNotifier, RemoveNotifier, MapTypes
  <2> QED
    BY <1>0, <2>1, <2>2, <2>3, HandlerMaps
<1>10. CASE DeleteTask(r)
  <2>1. /\ UNCHANGED <<notifiers, stream_senders, rid, conn>> /\ hpc[r] = "purge"
        /\ rx' = [rx EXCEPT ![r] = rx[r]]
        /\ \/ IsSSE(r) /\ hpc' = [hpc EXCEPT ![r] = "unstream"]
           \/ ~IsSSE(r) /\ hpc' = [hpc EXCEPT ![r] = "done"]
    BY <1>10, <1>a, <1>d DEF DeleteTask, Goto, Respond
  <2>2. rid[r] \in Ids /\ notifiers[rid[r]] = None
    BY <1>0, <1>c, <2>1 DEF MapTypes, HasId, PurgeInv
  <2>3. /\ table'[rid[r]] = None
        /\ \A id \in Ids \ {rid[r]} : table'[id] = table[id]
    BY <1>0, <1>10, <2>2 DEF DeleteTask, RemoveTask, MapTypes
  <2>4. CASE IsSSE(r) /\ hpc' = [hpc EXCEPT ![r] = "unstream"]
    BY <1>0, <2>1, <2>2, <2>3, <2>4, HandlerMaps
  <2>5. CASE ~IsSSE(r) /\ hpc' = [hpc EXCEPT ![r] = "done"]
    BY <1>0, <1>e, <2>1, <2>2, <2>3, <2>5, HandlerMaps
  <2> QED
    BY <2>1, <2>4, <2>5
<1>11. CASE DeleteStream(r)
  <2>1. /\ UNCHANGED <<table, notifiers, rid, conn>> /\ hpc[r] = "unstream"
        /\ hpc' = [hpc EXCEPT ![r] = "done"] /\ rx' = [rx EXCEPT ![r] = rx[r]]
    BY <1>11, <1>a, <1>d DEF DeleteStream, Goto
  <2>2. rid[r] \in Ids /\ notifiers[rid[r]] = None /\ table[rid[r]] = None
    BY <1>0, <1>c, <2>1 DEF MapTypes, HasId, PurgeInv
  <2>3. /\ stream_senders'[rid[r]] = None
        /\ \A id \in Ids \ {rid[r]} : stream_senders'[id] = stream_senders[id]
    BY <1>0, <1>11, <2>2 DEF DeleteStream, RemoveStream, MapTypes
  <2> QED
    BY <1>0, <2>1, <2>2, <2>3, HandlerMaps
<1>12. CASE Submit(r)
  <2>1. /\ rid[r] = None /\ rid' = [rid EXCEPT ![r] = current_id]
        /\ hpc[r] = "submit"
        /\ hpc' = [hpc EXCEPT ![r] = "enqueue"] /\ rx' = [rx EXCEPT ![r] = "pending"]
        /\ notifiers' = [notifiers EXCEPT ![current_id] = r]
        /\ table' = [table EXCEPT ![current_id] = NewTask(Body(r), EndpointOf[r])]
        /\ stream_senders' = stream_senders
    BY <1>12, <1>b DEF Submit, InsertTask, Goto, Early
  <2>2. /\ rid'[r] = current_id /\ hpc'[r] = "enqueue" /\ rx'[r] = "pending"
        /\ \A q \in Requests \ {r} : rid'[q] = rid[q] /\ hpc'[q] = hpc[q] /\ rx'[q] = rx[q]
        /\ notifiers'[current_id] = r /\ current_id \in Ids /\ current_id \in Nat
        /\ \A id \in Ids : id # current_id => notifiers'[id] = notifiers[id] /\ table'[id] = table[id]
    BY <1>0, <2>1 DEF MapTypes
  <2>3. table'[current_id] # None
    <3>1. NewTask(Body(r), EndpointOf[r]) \in Task
      BY ConstantsAssumption DEF NewTask, Body, Task, TaskCode, Data
    <3> QED
      BY <1>0, <2>1, <2>2, <3>1 DEF MapTypes
  <2>4. \A q \in Requests : rid[q] # None => q # r /\ rid[q] \in Ids /\ rid[q] # current_id
    BY <1>0, <1>b, <2>1 DEF MapTypes
  <2>5. \A c \in Conns : SenderOK(conn[c])'
    <3> SUFFICES ASSUME NEW c \in Conns, conn[c].pc \in HasSender
                 PROVE  SenderOK(conn[c])'
      BY <1>a DEF SenderOK
    <3>1. conn[c].snd \in Requests /\ SenderOK(conn[c]) /\ conn[c].cur \in Ids
      BY <1>0, <1>c DEF MapTypes, NotifierInv
    <3>2. conn[c].snd # r /\ conn[c].cur # current_id
      BY <2>4, <3>1 DEF SenderOK
    <3> QED
      BY <1>a, <2>2, <3>1, <3>2 DEF SenderOK
  <2>6. NotifierInv'
    <3>1. ASSUME NEW id \in Ids, notifiers'[id] # None PROVE rid'[notifiers'[id]] = id
      <4>1. CASE id = current_id
        BY <2>2, <4>1
      <4>2. CASE id # current_id
        <5>1. notifiers[id] \in Requests /\ rid[notifiers[id]] = id /\ notifiers'[id] = notifiers[id]
          BY <1>0, <1>c, <2>2, <3>1, <4>2 DEF MapTypes, NotifierInv
        <5> QED
          BY <2>2, <2>4, <5>1
      <4> QED
        BY <4>1, <4>2
    <3>2. ASSUME NEW q \in Requests
          PROVE  /\ hpc'[q] \in {"enqueue", "register", "wait"} => rx'[q] \in {"pending", "sent"}
                 /\ rx'[q] = "sent" \/ hpc'[q] = "take" =>
                      rid'[q] \in Ids /\ notifiers'[rid'[q]] = None
      <4>1. CASE q = r
        BY <2>2, <4>1
      <4>2. CASE q # r
        <5>1. hpc'[q] = hpc[q] /\ rx'[q] = rx[q] /\ rid'[q] = rid[q]
          BY <2>2, <4>2
        <5>2. rid[q] \in Ids => rid[q] # current_id
          BY <2>4
        <5>3. /\ hpc[q] \in {"enqueue", "register", "wait"} => rx[q] \in {"pending", "sent"}
              /\ rx[q] = "sent" \/ hpc[q] = "take" =>
                   rid[q] \in Ids /\ notifiers[rid[q]] = None
          BY <1>c DEF NotifierInv
        <5> QED
          BY <2>2, <5>1, <5>2, <5>3
      <4> QED
        BY <4>1, <4>2
    <3> QED
      BY <2>5, <3>1, <3>2 DEF NotifierInv
  <2>7. StreamerInv'
    <3>1. ASSUME NEW id \in Ids, stream_senders[id] # None
          PROVE  stream_senders[id] # r /\ stream_senders[id] \in Requests
      BY <1>0, <1>c, <2>4, <3>1 DEF MapTypes, StreamerInv
    <3>2. \A q \in Requests : hpc'[q] = "register" => IsSSE(q)
      BY <1>c, <2>2 DEF StreamerInv
    <3> QED
      BY <1>c, <2>1, <2>2, <3>1, <3>2 DEF StreamerInv, IsSSE
  <2>8. PurgeInv'
    <3> SUFFICES ASSUME NEW q \in Requests, hpc'[q] \in {"purge", "unstream"}
                 PROVE  /\ notifiers'[rid'[q]] = None
                        /\ hpc'[q] = "unstream" => table'[rid'[q]] = None
      BY DEF PurgeInv
    <3>0. q # r
      BY <2>2
    <3>1. hpc[q] = hpc'[q] /\ rid'[q] = rid[q] /\ rid[q] \in Ids
      BY <1>0, <2>2, <3>0 DEF MapTypes, HasId
    <3>2. rid[q] # current_id
      BY <2>4, <3>1
    <3> QED
      BY <1>c, <2>2, <3>0, <3>1, <3>2 DEF PurgeInv
  <2>9. WaitingIsTabled'
    <3> SUFFICES ASSUME NEW q \in Requests,
                        hpc'[q] \in {"enqueue", "register", "wait", "take"}
                 PROVE  table'[rid'[q]] # None
      BY DEF WaitingIsTabled, InTable
    <3>1. CASE q = r
      BY <2>2, <2>3, <3>1
    <3>2. CASE q # r
      <4>1. hpc[q] = hpc'[q] /\ rid'[q] = rid[q] /\ rid[q] \in Ids
        BY <1>0, <2>2, <3>2 DEF MapTypes, HasId
      <4>2. rid[q] # current_id
        BY <2>4, <4>1
      <4>3. table[rid[q]] # None
        BY <1>c, <4>1 DEF WaitingIsTabled, InTable
      <4> QED
        BY <2>2, <4>1, <4>2, <4>3
    <3> QED
      BY <3>1, <3>2
  <2>10. CleanAfterResponse'
    <3> SUFFICES ASSUME NEW q \in Requests, hpc'[q] = "done", rid'[q] # None
                 PROVE  /\ table'[rid'[q]] = None /\ notifiers'[rid'[q]] = None
                        /\ stream_senders'[rid'[q]] = None
      BY DEF CleanAfterResponse, InTable
    <3>1. q # r /\ hpc[q] = "done" /\ rid'[q] = rid[q] /\ rid[q] # None
      BY <2>2
    <3>2. rid[q] \in Ids /\ rid[q] # current_id
      BY <2>4, <3>1
    <3> QED
      BY <1>c, <2>1, <2>2, <3>1, <3>2 DEF CleanAfterResponse, InTable
  <2> QED
    BY <2>6, <2>7, <2>8, <2>9, <2>10 DEF MapsInv
<1>13. CASE RegisterStream(r)
  <2>1. /\ UNCHANGED <<table, notifiers, rx, rid>> /\ hpc[r] = "register"
        /\ hpc' = [hpc EXCEPT ![r] = "wait"]
        /\ stream_senders' = [stream_senders EXCEPT ![rid[r]] = r]
    BY <1>13 DEF RegisterStream, Goto
  <2>2. /\ hpc'[r] = "wait" /\ \A q \in Requests \ {r} : hpc'[q] = hpc[q]
        /\ rid[r] \in Ids /\ rid[r] # None /\ stream_senders'[rid[r]] = r
        /\ \A id \in Ids \ {rid[r]} : stream_senders'[id] = stream_senders[id]
    BY <1>0, <2>1 DEF MapTypes, HasId
  <2>3. NotifierInv'
    <3>1. \A c \in Conns : SenderOK(conn[c])'
      BY <1>a, <1>0, <1>c, <2>1, <2>2 DEF MapTypes, SenderOK, NotifierInv
    <3> QED
      BY <1>c, <2>1, <2>2, <3>1 DEF NotifierInv
  <2>4. StreamerInv'
    <3>1. ASSUME NEW id \in Ids, stream_senders'[id] # None
          PROVE  /\ rid[stream_senders'[id]] = id
                 /\ IsSSE(stream_senders'[id])
                 /\ hpc'[stream_senders'[id]] \in {"wait", "expired", "purge", "unstream"}
      <4>1. CASE id = rid[r]
        BY <1>c, <2>1, <2>2, <4>1 DEF StreamerInv
      <4>2. CASE id # rid[r]
        <5>1. stream_senders[id] \in Requests /\ stream_senders'[id] = stream_senders[id]
          BY <1>0, <2>2, <3>1, <4>2 DEF MapTypes
        <5> QED
          BY <1>c, <2>2, <3>1, <5>1 DEF StreamerInv
      <4> QED
        BY <4>1, <4>2
    <3>2. \A q \in Requests : hpc'[q] = "register" => IsSSE(q)
      BY <1>c, <2>2 DEF StreamerInv
    <3> QED
      BY <2>1, <3>1, <3>2 DEF StreamerInv, IsSSE
  <2>5. PurgeInv' /\ WaitingIsTabled'
    BY <1>c, <2>1, <2>2 DEF PurgeInv, WaitingIsTabled, InTable
  <2>6. CleanAfterResponse'
    <3> SUFFICES ASSUME NEW q \in Requests, hpc'[q] = "done", rid[q] # None
                 PROVE  /\ table[rid[q]] = None /\ notifiers[rid[q]] = None
                        /\ stream_senders'[rid[q]] = None
      BY <2>1 DEF CleanAfterResponse, InTable
    <3>1. q # r /\ hpc[q] = "done" /\ rid[q] \in Ids
      BY <1>0, <2>2 DEF MapTypes
    <3>2. rid[q] # rid[r]
      BY <1>b, <3>1
    <3> QED
      BY <1>c, <2>2, <3>1, <3>2 DEF CleanAfterResponse, InTable
  <2> QED
    BY <2>3, <2>4, <2>5, <2>6 DEF MapsInv
<1> QED
  BY <1>2, <1>3, <1>4, <1>5, <1>6, <1>7, <1>8, <1>9, <1>10, <1>11, <1>12, <1>13
     DEF HandlerStep, ClientStep

-----------------------------------------------------------------------------
(* Two connection tasks never visit the same id. *)
LEMMA CurOwner ==
  ASSUME TypeInv, CustodyInv, NEW c \in Conns, NEW d \in Conns,
         conn[c].pc \in HasSender, conn[d].pc \in HasSender,
         conn[c].cur = conn[d].cur
  PROVE  c = d
<1>1. conn[c].cur \in Held(conn[c]) /\ conn[d].cur \in Held(conn[d])
  BY DEF Held, HasSender, Ended
<1>2. Batches[c] = Held(conn[c]) /\ Batches[d] = Held(conn[d])
  BY DEF Batches
<1> QED
  BY <1>1, <1>2 DEF CustodyInv, Custody

(* Where a connection task passes on a stream event. *)
Streaming == {"event", "eventsend"}

Notify(c) == NotifyTake(c) \/ NotifyCheck(c) \/ NotifySend(c) \/ NotifyCleanup(c)

(* The steps outside of notify_task_done end with no sender in hand, and   *)
(* but for the two that take up an event with no event either.             *)
LEMMA ConnQuiet ==
  ASSUME TypeInv, NEW c \in Conns, ConnStep(c) \/ WorkerStep(c), ~Notify(c)
  PROVE  /\ UNCHANGED <<notifiers, stream_senders, rx>>
         /\ table' = table \/ Update(c)
         /\ \/ conn'[c].pc \notin HasSender
            \/ /\ conn'[c].pc = conn[c].pc
               /\ conn'[c].cur = conn[c].cur
               /\ conn'[c].snd = conn[c].snd
               /\ conn'[c].data = conn[c].data
         /\ WorkerEvent(c) \/ EventLookup(c) \/ WorkerCrash(c) \/ conn'[c].pc \notin Streaming
         /\ \A d \in Conns : d # c => conn'[d] = conn[d]
<1> DEFINE k == conn[c]
           Keeps == UNCHANGED <<notifiers, stream_senders, rx>> /\ (table' = table \/ Update(c))
           Goal == /\ Keeps
                   /\ \/ conn'[c].pc \notin HasSender
                      \/ /\ conn'[c].pc = k.pc /\ conn'[c].cur = k.cur
                         /\ conn'[c].snd = k.snd /\ conn'[c].data = k.data
                   /\ WorkerEvent(c) \/ EventLookup(c) \/ WorkerCrash(c) \/ conn'[c].pc \notin Streaming
                   /\ \A d \in Conns : d # c => conn'[d] = conn[d]
<1> SUFFICES Goal
  OBVIOUS
<1>0. k \in Conn /\ conn \in [Conns -> Conn]
  BY DEF TypeInv, TypeOK, ControllerTypeOK
<1>1. ASSUME NEW new, Become(c, new), Keeps, new.pc \notin HasSender,
             WorkerEvent(c) \/ EventLookup(c) \/ new.pc \notin Streaming
      PROVE  Goal
  BY <1>0, <1>1 DEF Become
<1>2. \A pc, alive : Fresh(pc, alive).pc = pc
  BY DEF Fresh
<1> USE DEF HasSender, Streaming
<1>3. CASE Accept(c) \/ ReadError(c) \/ LoopEnd(c)
  <2>1. Keeps
    BY <1>3 DEF Accept, ReadError, LoopEnd, tmVars
  <2>p. PICK pc \in {"recv", "dead"} : \E alive :
             Become(c, Fresh(pc, alive))
    BY <1>3 DEF Accept, ReadError, LoopEnd
  <2>2. PICK alive :
          Become(c, Fresh(pc, alive))
    BY <2>p
  <2> HIDE DEF Keeps, Goal
  <2> QED
    BY <1>1, <1>2, <2>1, <2>2
<1>4. CASE RecvFirst(c) \/ RecvMore(c)
  <2>1. Keeps
    BY <1>4 DEF RecvFirst, RecvMore
  <2>p. PICK pc \in {"fetch", "batch"} : \E ids :
             Become(c, [k EXCEPT !.pc = pc, !.ids = ids])
    BY <1>4 DEF RecvFirst, RecvMore
  <2>2. PICK ids :
          Become(c, [k EXCEPT !.pc = pc, !.ids = ids])
    BY <2>p
  <2>3. [k EXCEPT !.pc = pc, !.ids = ids].pc = pc
    BY <1>0 DEF Conn
  <2> HIDE DEF Keeps, Goal
  <2> QED
    BY <1>1, <2>1, <2>2, <2>3
<1>5. CASE BatchTimeout(c) \/ Write(c)
  <2>1. Keeps
    BY <1>5 DEF BatchTimeout, Write, tmVars
  <2>2. /\ [k EXCEPT !.pc = "fetch"].pc = "fetch"
        /\ [k EXCEPT !.pc = "read"].pc = "read"
        /\ [k EXCEPT !.pc = "loop", !.mode = "resend", !.todo = k.ids].pc = "loop"
    BY <1>0 DEF Conn
  <2> HIDE DEF Keeps, Goal
  <2> QED
    BY <1>1, <1>5, <2>1, <2>2 DEF BatchTimeout, GotoC, Write
<1>6. CASE Fetch(c)
  <2> DEFINE live == {id \in k.ids : InTable(id)}
             data == [id \in Ids |-> IF id \in live THEN table[id].data ELSE None]
             states == [id \in Ids |-> IF id \in live THEN EncodeState(table[id])
                                                       ELSE NoState]
             new == [k EXCEPT !.pc = "write", !.ids = live, !.data = data,
                              !.states = states]
  <2>1. Keeps /\ Become(c, IF live = {} THEN Fresh("recv", k.alive) ELSE new)
    BY <1>6 DEF Fetch, tmVars
  <2>2. new.pc = "write"
    <3> HIDE DEF live, data, states
    <3> QED
      BY <1>0 DEF Conn
  <2> HIDE DEF Keeps, Goal, new, live
  <2> QED
    BY <1>1, <1>2, <2>1, <2>2
<1>7. CASE WorkerReply(c) \/ ReadErrorInLoop(c)
  <2>1. Keeps
    BY <1>7 DEF WorkerReply, ReadErrorInLoop, tmVars
  <2>2. PICK code, ids : Become(c, [k EXCEPT !.pc = "update", !.code = code, !.ids = ids,
                                             !.data = ReplyData(c, code, ids)])
    BY <1>7 DEF WorkerReply, ReadErrorInLoop, Reply
  <2>3. [k EXCEPT !.pc = "update", !.code = code, !.ids = ids,
                  !.data = ReplyData(c, code, ids)].pc = "update"
    BY <1>0 DEF Conn
  <2> HIDE DEF Keeps, Goal
  <2> QED
    BY <1>1, <2>1, <2>2, <2>3
<1>8. CASE WorkerEvent(c)
  <2>1. Keeps
    BY <1>8 DEF WorkerEvent, tmVars
  <2>2. PICK id : Become(c, [k EXCEPT !.pc = "event", !.code = "StreamEvent",
                                      !.streamed = TRUE, !.cur = id])
    BY <1>8 DEF WorkerEvent
  <2>3. [k EXCEPT !.pc = "event", !.code = "StreamEvent", !.streamed = TRUE,
                  !.cur = id].pc = "event"
    BY <1>0 DEF Conn
  <2> HIDE DEF Keeps, Goal
  <2> QED
    BY <1>1, <1>8, <2>1, <2>2, <2>3
<1>9. CASE WorkerCrash(c)
  <2>1. Keeps
    BY <1>9 DEF WorkerCrash, tmVars
  <2>2. /\ [k EXCEPT !.alive = FALSE].pc = k.pc
        /\ [k EXCEPT !.alive = FALSE].cur = k.cur
        /\ [k EXCEPT !.alive = FALSE].snd = k.snd
        /\ [k EXCEPT !.alive = FALSE].data = k.data
    BY <1>0 DEF Conn
  <2>3. conn' = [conn EXCEPT ![c] = [k EXCEPT !.alive = FALSE]]
    BY <1>9 DEF WorkerCrash, Become
  <2> HIDE DEF Keeps
  <2> QED
    BY <1>0, <1>9, <2>1, <2>2, <2>3
<1>10. CASE EventLookup(c) \/ EventSend(c)
  <2>1. Keeps
    BY <1>10 DEF EventLookup, EventSend, tmVars
  <2>p. PICK pc \in {"read", "eventsend"} : \E snd :
             /\ Become(c, [k EXCEPT !.pc = pc, !.snd = snd])
             /\ EventLookup(c) \/ pc = "read"
    BY <1>10 DEF EventLookup, EventSend
  <2>2. PICK snd :
          /\ Become(c, [k EXCEPT !.pc = pc, !.snd = snd])
          /\ EventLookup(c) \/ pc = "read"
    BY <2>p
  <2>3. [k EXCEPT !.pc = pc, !.snd = snd].pc = pc
    BY <1>0 DEF Conn
  <2> HIDE DEF Keeps, Goal
  <2> QED
    BY <1>1, <2>1, <2>2, <2>3
<1>11. CASE Update(c)
  <2> DEFINE abnormal == {id \in k.ids : InTable(id)}
  <2>1. Keeps
    BY <1>11 DEF Update
  <2>2. /\ [k EXCEPT !.pc = "loop", !.mode = "forward", !.todo = k.ids].pc = "loop"
        /\ [k EXCEPT !.pc = "errs", !.mode = "abnormal",
                     !.ids = abnormal, !.todo = abnormal].pc = "errs"
    BY <1>0 DEF Conn
  <2> HIDE DEF Keeps, Goal
  <2> QED
    BY <1>1, <1>11, <2>1, <2>2 DEF Update
<1>12. CASE ErrNext(c) \/ ErrSend(c)
  <2>1. Keeps
    BY <1>12 DEF ErrNext, ErrSend, tmVars
  <2>p. PICK pc \in {"loop", "errs", "errsend"} : \E todo, snd :
             \/ Become(c, [k EXCEPT !.pc = pc, !.todo = todo])
             \/ Become(c, [k EXCEPT !.pc = pc, !.todo = todo, !.snd = snd])
             \/ Become(c, [k EXCEPT !.pc = pc, !.snd = snd])
    BY <1>12 DEF ErrNext, ErrSend
  <2>2. PICK todo, snd :
          \/ Become(c, [k EXCEPT !.pc = pc, !.todo = todo])
          \/ Become(c, [k EXCEPT !.pc = pc, !.todo = todo, !.snd = snd])
          \/ Become(c, [k EXCEPT !.pc = pc, !.snd = snd])
    BY <2>p
  <2>3. /\ [k EXCEPT !.pc = pc, !.todo = todo].pc = pc
        /\ [k EXCEPT !.pc = pc, !.todo = todo, !.snd = snd].pc = pc
        /\ [k EXCEPT !.pc = pc, !.snd = snd].pc = pc
    BY <1>0 DEF Conn
  <2> HIDE DEF Keeps, Goal
  <2> QED
    BY <1>1, <2>1, <2>2, <2>3
<1>13. CASE LoopNext(c)
  <2>1. PICK id \in k.todo :
          LET next == NextStage(table[id])
              new  == [k EXCEPT !.todo = @ \ {id}, !.cur = id]
          IN Become(c, IF new.mode = "abnormal"  THEN [new EXCEPT !.pc = "notify"]
                       ELSE IF ~InTable(id)      THEN [new EXCEPT !.cur = None]
                       ELSE IF next = None       THEN [new EXCEPT !.pc = "notify"]
                       ELSE [new EXCEPT !.pc = "push", !.dest = next])
    BY <1>13 DEF LoopNext
  <2> DEFINE next == NextStage(table[id])
             new  == [k EXCEPT !.todo = @ \ {id}, !.cur = id]
  <2>2. Keeps /\ k.pc = "loop"
    BY <1>13 DEF LoopNext, tmVars, At
  <2>3. /\ [new EXCEPT !.pc = "notify"].pc = "notify"
        /\ [new EXCEPT !.cur = None].pc = "loop"
        /\ [new EXCEPT !.pc = "push", !.dest = next].pc = "push"
    <3> HIDE DEF next
    <3> QED
      BY <1>0, <2>2 DEF Conn
  <2> HIDE DEF Keeps, Goal, next, new
  <2> QED
    BY <1>1, <2>1, <2>2, <2>3 DEF next, new
<1>14. CASE Push(c)
  <2>1. Keeps
    BY <1>14 DEF Push
  <2>2. [k EXCEPT !.pc = "loop", !.cur = None, !.dest = None].pc = "loop"
    BY <1>0 DEF Conn
  <2> HIDE DEF Keeps, Goal
  <2> QED
    BY <1>1, <1>14, <2>1, <2>2 DEF Push
<1> QED
  BY <1>3, <1>4, <1>5, <1>6, <1>7, <1>8, <1>9, <1>10, <1>11, <1>12, <1>13, <1>14
     DEF ConnStep, WorkerStep, Notify

(* Task::update changes the code and the data and counts the stage. *)
LEMMA UpdatedTask ==
  ASSUME NEW t \in Task, NEW code \in TaskCode, NEW data \in Data
  PROVE  LET u == Updated(t, code, data)
         IN /\ u \in Task /\ u # None
            /\ u.code = code /\ u.data = data
            /\ u.stage = t.stage + 1 /\ u.route = t.route
<1>1. t.stage + 1 \in Nat
  BY DEF Task
<1>2. Updated(t, code, data) \in Task
  BY <1>1 DEF Updated, Task
<1> QED
  BY <1>2 DEF Updated, Task

(* The connection tasks and their workers. *)
LEMMA ConnMaps ==
  ASSUME TypeInv, IdInv, CustodyInv, MapsInv, NEW c \in Conns,
         ConnStep(c) \/ WorkerStep(c), UNCHANGED routesVars
  PROVE  MapsInv'
<1> DEFINE k == conn[c]
<1>0. MapTypes /\ k \in Conn /\ rid' = rid /\ hpc' = hpc
  BY MapsTyped DEF MapTypes, routesVars
<1>b. \A q, p \in Requests : rid[q] # None /\ rid[q] = rid[p] => q = p
  BY RidOwner
<1>c. /\ NotifierInv /\ StreamerInv /\ PurgeInv /\ WaitingIsTabled
      /\ CleanAfterResponse
  BY DEF MapsInv
<1>1. CASE ~Notify(c)
  <2>1. /\ UNCHANGED <<notifiers, stream_senders, rx>>
        /\ table' = table \/ Update(c)
        /\ \/ conn'[c].pc \notin HasSender
           \/ /\ conn'[c].pc = conn[c].pc
              /\ conn'[c].cur = conn[c].cur
              /\ conn'[c].snd = conn[c].snd
        /\ \A d \in Conns : d # c => conn'[d] = conn[d]
    BY <1>1, ConnQuiet
  <2>2. \A id \in Ids : table'[id] = None <=> table[id] = None
    <3>1. CASE Update(c)
      <4>1. ASSUME NEW id \in Ids, id \in k.ids, table[id] # None
            PROVE  Updated(table[id], k.code, k.data[id]) # None
        <5>1. table[id] \in Task
          BY <1>0, <4>1 DEF MapTypes
        <5>2. k.code \in TaskCode /\ k.data[id] \in Data
          <6>1. k.pc = "update" /\ Shape(k)
            BY <3>1 DEF Update, At, TypeInv
          <6> QED
            BY <1>0, <4>1, <6>1 DEF Shape, Conn
        <5> QED
          BY <5>1, <5>2, UpdatedTask
      <4> QED
        BY <3>1, <4>1 DEF Update, UpdateTable, InTable
    <3> QED
      BY <2>1, <3>1
  <2> QED
    BY <1>0, <2>1, <2>2, MapsQuiet
<1>2. ASSUME Become(c, [k EXCEPT !.pc = "loop", !.cur = None])
             \/ Become(c, [k EXCEPT !.pc = "loop", !.cur = None, !.snd = None])
             \/ Become(c, Fresh("panicked", FALSE))
      PROVE  /\ conn'[c].pc \notin HasSender
             /\ \A d \in Conns : d # c => conn'[d] = conn[d]
  <2>1. /\ [k EXCEPT !.pc = "loop", !.cur = None].pc = "loop"
        /\ [k EXCEPT !.pc = "loop", !.cur = None, !.snd = None].pc = "loop"
        /\ Fresh("panicked", FALSE).pc = "panicked"
    BY <1>0 DEF Conn, Fresh
  <2> QED
    BY <1>0, <1>2, <2>1 DEF Become, MapTypes, HasSender
<1>3. CASE NotifyTake(c)
  <2> DEFINE r == notifiers[k.cur]
  <2>1. /\ k.pc = "notify" /\ k.cur \in Ids
        /\ UNCHANGED <<table, stream_senders, rx>>
        /\ notifiers' = [notifiers EXCEPT ![k.cur] = None]
    BY <1>0, <1>3 DEF NotifyTake, RemoveNotifier, At, MapTypes
  <2>2. /\ notifiers'[k.cur] = None
        /\ \A id \in Ids : id # k.cur => notifiers'[id] = notifiers[id]
    BY <1>0, <2>1 DEF MapTypes
  <2>3. \A d \in Conns : d # c => conn'[d] = conn[d]
    BY <1>0, <1>3 DEF NotifyTake, Become, MapTypes
  <2>4. conn'[c].pc \in HasSender =>
          /\ r \in Requests
          /\ conn'[c].pc = "check" /\ conn'[c].cur = k.cur /\ conn'[c].snd = r
    <3>1. CASE r = None
      BY <1>2, <1>3, <3>1 DEF NotifyTake
    <3>2. CASE r # None
      <4>1. Become(c, [k EXCEPT !.pc = "check", !.snd = r]) /\ r \in Requests
        BY <1>0, <1>3, <2>1, <3>2 DEF NotifyTake, MapTypes
      <4> HIDE DEF r
      <4> QED
        BY <1>0, <4>1 DEF Become, MapTypes, Conn
    <3> QED
      BY <3>1, <3>2
  <2>5. ASSUME NEW d \in Conns PROVE SenderOK(conn[d])'
    <3>1. CASE d = c
      <4> SUFFICES ASSUME conn'[c].pc \in HasSender PROVE SenderOK(conn[c])'
        BY <3>1 DEF SenderOK
      <4>1. rid[r] = k.cur /\ notifiers[k.cur] # None /\ r \in Requests
        BY <1>c, <2>1, <2>4 DEF NotifierInv
      <4>2. rx[r] # "sent" /\ hpc[r] # "take"
        BY <1>c, <4>1 DEF NotifierInv
      <4> HIDE DEF r
      <4> QED
        BY <1>0, <2>1, <2>2, <2>4, <4>1, <4>2 DEF SenderOK
    <3>2. CASE d # c
      BY <1>0, <1>c, <2>1, <2>2, <2>3, <3>2 DEF SenderOK, NotifierInv, MapTypes
    <3> QED
      BY <3>1, <3>2
  <2>6. NotifierInv'
    BY <1>0, <1>c, <2>1, <2>2, <2>5 DEF NotifierInv
  <2>7. StreamerInv' /\ WaitingIsTabled'
    BY <1>0, <1>c, <2>1 DEF StreamerInv, WaitingIsTabled, InTable, IsSSE
  <2>8. PurgeInv' /\ CleanAfterResponse'
    BY <1>0, <1>c, <2>1, <2>2 DEF PurgeInv, CleanAfterResponse, InTable, MapTypes, HasId
  <2> QED
    BY <2>6, <2>7, <2>8 DEF MapsInv
<1>4. CASE NotifyCheck(c)
  <2>1. /\ k.pc = "check" /\ UNCHANGED <<table, notifiers, stream_senders, rx>>
        /\ Become(c, [k EXCEPT !.pc = IF rx[k.snd] = "closed" THEN "cleanup" ELSE "send"])
    BY <1>4 DEF NotifyCheck, At, GotoC, tmVars
  <2>2. /\ \A d \in Conns : d # c => conn'[d] = conn[d]
        /\ conn'[c].pc = IF rx[k.snd] = "closed" THEN "cleanup" ELSE "send"
        /\ conn'[c].cur = k.cur /\ conn'[c].snd = k.snd
    BY <1>0, <2>1 DEF Become, MapTypes, Conn
  <2>3. ASSUME NEW d \in Conns PROVE SenderOK(conn[d])'
    <3>1. SenderOK(conn[d])
      BY <1>c DEF NotifierInv
    <3>2. CASE d = c
      BY <1>0, <2>1, <2>2, <3>1, <3>2 DEF SenderOK, HasSender
    <3>3. CASE d # c
      BY <1>0, <2>1, <2>2, <3>1, <3>3 DEF SenderOK
    <3> QED
      BY <3>2, <3>3
  <2>4. NotifierInv'
    BY <1>0, <1>c, <2>1, <2>3 DEF NotifierInv
  <2>5. StreamerInv' /\ WaitingIsTabled' /\ PurgeInv' /\ CleanAfterResponse'
    BY <1>0, <1>c, <2>1 DEF StreamerInv, WaitingIsTabled, InTable, IsSSE, PurgeInv,
       CleanAfterResponse
  <2> QED
    BY <2>4, <2>5 DEF MapsInv
<1>5. CASE NotifySend(c)
  <2> DEFINE r == k.snd
  <2>1. /\ k.pc = "send" /\ UNCHANGED <<table, notifiers, stream_senders>>
        /\ r \in Requests /\ k.cur \in Ids
        /\ rx' = rx \/ rx' = [rx EXCEPT ![r] = "sent"]
        /\ conn'[c].pc \notin HasSender
        /\ \A d \in Conns : d # c => conn'[d] = conn[d]
    BY <1>0, <1>2, <1>5 DEF NotifySend, At, MapTypes, HasSender
  <2>2. CASE rx' = rx
    BY <1>0, <2>1, <2>2, MapsQuiet
  <2>3. CASE rx' = [rx EXCEPT ![r] = "sent"]
    <3>1. rx'[r] = "sent" /\ \A q \in Requests : q # r => rx'[q] = rx[q]
      BY <1>0, <2>1, <2>3 DEF MapTypes
    <3>2. SenderOK(k) /\ rid[r] = k.cur /\ notifiers[k.cur] = None
      BY <1>c, <2>1 DEF NotifierInv, SenderOK, HasSender
    <3>3. ASSUME NEW d \in Conns PROVE SenderOK(conn[d])'
      <4> SUFFICES ASSUME conn'[d].pc \in HasSender PROVE SenderOK(conn[d])'
        BY DEF SenderOK
      <4>1. d # c /\ conn'[d] = conn[d] /\ SenderOK(conn[d]) /\ conn[d].snd \in Requests
        BY <1>0, <1>c, <2>1 DEF NotifierInv, MapTypes
      <4>2. conn[d].snd # r
        <5> SUFFICES ASSUME conn[d].snd = r PROVE FALSE
          OBVIOUS
        <5>1. conn[d].cur = k.cur /\ conn[d].pc \in HasSender /\ k.pc \in HasSender
          BY <2>1, <3>2, <4>1 DEF SenderOK, HasSender
        <5> QED
          BY <4>1, <5>1, CurOwner
      <4> HIDE DEF r
      <4> QED
        BY <1>0, <2>1, <3>1, <4>1, <4>2 DEF SenderOK
    <3> HIDE DEF r
    <3>4. NotifierInv'
      BY <1>0, <1>c, <2>1, <3>1, <3>2, <3>3 DEF NotifierInv
    <3>5. StreamerInv' /\ WaitingIsTabled' /\ PurgeInv' /\ CleanAfterResponse'
      BY <1>0, <1>c, <2>1 DEF StreamerInv, WaitingIsTabled, InTable, IsSSE, PurgeInv,
         CleanAfterResponse
    <3> QED
      BY <3>4, <3>5 DEF MapsInv
  <2> QED
    BY <2>1, <2>2, <2>3
<1>6. CASE NotifyCleanup(c)
  <2>1. /\ k.pc = "cleanup" /\ UNCHANGED <<notifiers, stream_senders, rx>>
        /\ k.snd \in Requests /\ k.cur \in Ids
        /\ table' = [table EXCEPT ![k.cur] = None]
        /\ conn'[c].pc \notin HasSender
        /\ \A d \in Conns : d # c => conn'[d] = conn[d]
    BY <1>0, <1>2, <1>6 DEF NotifyCleanup, DropClosedTask, RemoveTask, At, MapTypes,
       HasSender
  <2>2. /\ table'[k.cur] = None
        /\ \A id \in Ids : id # k.cur => table'[id] = table[id]
    BY <1>0, <2>1 DEF MapTypes
  <2>3. /\ rid[k.snd] = k.cur /\ rx[k.snd] = "closed"
        /\ hpc[k.snd] \notin {"enqueue", "register", "wait", "take"}
    BY <1>c, <2>1 DEF NotifierInv, SenderOK, HasSender
  <2>4. ASSUME NEW d \in Conns PROVE SenderOK(conn[d])'
    BY <1>0, <1>c, <2>1 DEF SenderOK, NotifierInv
  <2>5. NotifierInv' /\ StreamerInv'
    BY <1>0, <1>c, <2>1, <2>4 DEF NotifierInv, StreamerInv, IsSSE
  <2>6. PurgeInv' /\ CleanAfterResponse'
    BY <1>0, <1>c, <2>1, <2>2 DEF PurgeInv, CleanAfterResponse, InTable, MapTypes, HasId
  <2>7. WaitingIsTabled'
    <3> SUFFICES ASSUME NEW q \in Requests,
                        hpc[q] \in {"enqueue", "register", "wait", "take"}
                 PROVE  table'[rid[q]] # None
      BY <1>0 DEF WaitingIsTabled, InTable
    <3>1. rid[q] \in Ids /\ table[rid[q]] # None
      BY <1>0, <1>c DEF WaitingIsTabled, InTable, MapTypes, HasId
    <3>2. q # k.snd
      BY <2>3
    <3>3. rid[q] # k.cur
      BY <1>b, <2>1, <2>3, <3>1, <3>2
    <3> QED
      BY <2>2, <3>1, <3>3
  <2> QED
    BY <2>5, <2>6, <2>7 DEF MapsInv
<1> QED
  BY <1>1, <1>3, <1>4, <1>5, <1>6 DEF Notify

LEMMA NextMaps ==
  ASSUME TypeInv, IdInv, CustodyInv, MapsInv, [Next]_vars
  PROVE  MapsInv'
<1>1. CASE Shutdown \/ UNCHANGED vars
  <2>1. UNCHANGED <<table, notifiers, stream_senders, rx, hpc, rid, conn>>
    BY <1>1 DEF Shutdown, BeginShutdown, EndShutdown, routesVars, connVars, vars, tmVars
  <2> QED
    BY <2>1, MapsTyped, MapsQuiet
<1> QED
  BY <1>1, RoutesMaps, ConnMaps DEF Next, Handler, Timer, Client, Connection, Worker

(* The sender of a request is in the notifiers or with one connection task *)
(* until it is used or dropped, delete_task empties the maps in its order, *)
(* and no map keeps an entry of an answered request.                       *)
THEOREM MapsInvariant == Spec => []MapsInv
<1>1. MapsInv /\ (TypeInv /\ IdInv /\ CustodyInv) /\ [Next]_vars => MapsInv'
  BY NextMaps
<1> QED
  BY <1>1, InitMaps, CustodyInvariant, PTL DEF Spec

(* A handler between add_new_task and its answer finds its task in the     *)
(* table: the error branch of submit_task is dead code.                    *)
THEOREM WaitingIsTabledHolds == Spec => []WaitingIsTabled
<1>1. MapsInv => WaitingIsTabled
  BY DEF MapsInv
<1> QED
  BY <1>1, MapsInvariant, PTL

(* Whichever of completion, timeout and rejection came first, an answered  *)
(* request has no task, notifier or stream sender left.                    *)
THEOREM CleanAfterResponseHolds == Spec => []CleanAfterResponse
<1>1. MapsInv => CleanAfterResponse
  BY DEF MapsInv
<1> QED
  BY <1>1, MapsInvariant, PTL

(* TaskManager::shutdown, which polls the table, ends by itself only when  *)
(* no handler waits for a worker.                                          *)
THEOREM DrainIsQuietHolds == Spec => DrainIsQuiet
<1> DEFINE Quiet == \A r \in Requests :
                      hpc[r] \notin {"enqueue", "register", "wait", "take"}
           Drain == shutdown = "draining" /\ shutdown' = "drained"
<1>1. ASSUME TypeInv, MapsInv, [Next]_vars, Drain PROVE Quiet
  <2>1. ASSUME NEW r \in Requests, HandlerStep(r) \/ Timeout(r) \/ ClientStep(r)
        PROVE  shutdown' = shutdown
    BY <2>1 DEF HandlerStep, ClientStep, Timeout, Submit, InsertTask, TrySend,
       RegisterStream, Notified, TakeTask, DeleteNotifier, DeleteTask, DeleteStream,
       Arrive, ReadBody, Disconnect, ReadEvent, tmVars
  <2>2. ASSUME NEW c \in Conns, ConnStep(c) \/ WorkerStep(c)
        PROVE  shutdown' = shutdown
    BY <2>2 DEF ConnStep, WorkerStep, tmVars, Accept, RecvFirst, RecvMore,
       BatchTimeout, Fetch, Write, ReadError, ReadErrorInLoop, EventLookup, EventSend,
       Update, ErrNext, ErrSend, LoopNext, LoopEnd, Push, NotifyTake, NotifyCheck,
       NotifySend, NotifyCleanup, WorkerReply, WorkerEvent, WorkerCrash
  <2>3. EndShutdown
    BY <1>1, <2>1, <2>2 DEF Next, Handler, Timer, Client, Connection, Worker, Shutdown,
       BeginShutdown, vars, tmVars
  <2>4. \A id \in Ids : ~InTable(id)
    BY <1>1, <2>3 DEF EndShutdown
  <2>5. \A r \in Requests : hpc[r] \in HasId => rid[r] \in Ids
    BY <1>1 DEF TypeInv
  <2> QED
    BY <1>1, <2>4, <2>5 DEF MapsInv, WaitingIsTabled, HasId
<1>2. (TypeInv /\ IdInv /\ CustodyInv) /\ MapsInv /\ [Next]_vars => [Drain => Quiet]_vars
  BY <1>1
<1> QED
  BY <1>2, CustodyInvariant, MapsInvariant, PTL DEF Spec, DrainIsQuiet

-----------------------------------------------------------------------------


(* The number of stages a task has to visit. *)
Depth(t) == Len(Pipeline[t.route])

(* The predicates on a task hold of one that is no longer in the table. *)

(* t is to be processed by stage s. *)
Waiting(t, s) ==
  t # None =>
    /\ t.stage < Depth(t) /\ Pipeline[t.route][t.stage + 1] = s
    /\ t.stage = 0 \/ t.code = "Normal"

(* No stage has to process t any more. *)
Finished(t) ==
  t # None => t.stage > 0 /\ (t.code # "Normal" \/ t.stage = Depth(t))

Forwarded(t) == t # None => t.code = "Normal"

(* t is the task of the request that R gave id to; as long as no stage has *)
(* failed, its payload is that request's, processed so far.                *)
TaskOK(R, id, t) ==
  t # None =>
    /\ t.stage <= Depth(t)
    /\ \A r \in Requests : R[r] = id => t.route = EndpointOf[r]
    /\ t.stage = 0 \/ t.code = "Normal" =>
         /\ t.data.owner \in Requests /\ R[t.data.owner] = id
         /\ t.data.hops = t.stage
         /\ t.data.enc = IF 0 < t.stage /\ t.stage < Depth(t) THEN "ipc" ELSE "client"

(* What the loop of connection c has not visited. *)
Left(c, k, t) ==
  /\ k.mode = "forward" => Forwarded(t)
  /\ k.mode = "resend" => Waiting(t, StageOf[c])
  /\ k.mode = "abnormal" => Finished(t)

(* The payload of id in a batch is its request's, and can be decoded. *)
Carries(R, k, id) ==
  /\ k.data[id].owner \in Requests /\ R[k.data[id].owner] = id
  /\ (k.data[id].enc = "client") <=> k.states[id].ingress

(* A batch has what the table had, and still has unless the task is gone. *)
Copied(k, id, t) == t # None => k.data[id] = t.data /\ k.states[id] = EncodeState(t)

Answers(k, id, t) == t # None => k.data[id] = Processed(t.data, EncodeState(t))

Sent == {"write", "read", "event", "eventsend"}

Visits == {"push", "notify", "check", "send", "cleanup"}

BatchOK(c, k, T, R) ==
  /\ k.pc \in {"batch", "fetch", "update"} \cup Sent =>
       \A id \in k.ids : Waiting(T[id], StageOf[c])
  /\ k.pc \in Sent => \A id \in k.ids : Carries(R, k, id) /\ Copied(k, id, T[id])
  /\ k.pc \in {"event", "eventsend"} => k.cur \in k.ids
  /\ k.pc = "update" /\ k.code = "Normal" => \A id \in k.ids : Answers(k, id, T[id])
  /\ k.pc \in {"errs", "errsend"} =>
       k.mode = "abnormal" /\ k.code # "Normal" /\ \A id \in k.ids : Finished(T[id])
  /\ k.pc \in {"loop"} \cup Visits => \A id \in k.todo : Left(c, k, T[id])
  /\ k.pc = "push" => Waiting(T[k.cur], k.dest)
  /\ k.pc \in {"notify", "check", "send", "cleanup"} => Finished(T[k.cur])

TableInv == \A id \in Ids : TaskOK(rid, id, table[id])

QueueOK(Q, T) == \A s \in Stages : \A i \in 1 .. Len(Q[s]) : Waiting(T[Q[s][i]], s)

BatchInv == \A c \in Conns : BatchOK(c, conn[c], table, rid)

(* A task that is not queued yet is new, and a completion is sent for a    *)
(* task that is finished.                                                  *)
RequestInv ==
  \A r \in Requests :
    /\ hpc[r] = "enqueue" => InTable(rid[r]) /\ table[rid[r]].stage = 0
    /\ rx[r] = "sent" \/ hpc[r] = "take" => Finished(table[rid[r]])

TaskInv ==
  TableInv /\ QueueOK(queue, table) /\ BatchInv /\ RequestInv /\ OwnAnswer

LEMMA NoTask ==
  /\ \A s : Waiting(None, s)
  /\ Finished(None) /\ Forwarded(None)
  /\ \A R, id : TaskOK(R, id, None)
  /\ \A c, k : Left(c, k, None)
  /\ \A k, id : Copied(k, id, None) /\ Answers(k, id, None)
BY DEF Waiting, Finished, Forwarded, TaskOK, Left, Copied, Answers

(* A batch stays as it should when only tasks it does not hold change, or  *)
(* tasks leave the table.                                                  *)
LEMMA BatchShrink ==
  ASSUME NEW c, NEW k, NEW T, NEW U, NEW R, BatchOK(c, k, T, R),
         \A id \in Held(k) : U[id] = T[id] \/ U[id] = None
  PROVE  BatchOK(c, k, U, R)
<1>1. \A id \in Held(k) : U[id] # T[id] => U[id] = None
  OBVIOUS
<1>2. CASE k.pc \in {"batch", "fetch", "update"} \cup Sent \cup {"errs", "errsend"}
  <2>1. Held(k) = k.ids
    BY <1>2 DEF Held, Sent, Ended
  <2> QED
    BY <1>1, <1>2, <2>1, NoTask DEF BatchOK, Sent, Visits
<1>3. CASE k.pc = "loop"
  <2>1. Held(k) = k.todo
    BY <1>3 DEF Held, Ended
  <2> QED
    BY <1>1, <1>3, <2>1, NoTask DEF BatchOK, Sent, Visits
<1>4. CASE k.pc \in Visits
  <2>1. k.todo \subseteq Held(k) /\ k.cur \in Held(k)
    BY <1>4 DEF Held, Ended, Visits
  <2> QED
    BY <1>1, <1>4, <2>1, NoTask DEF BatchOK, Sent, Visits
<1>5. CASE k.pc \notin {"batch", "fetch", "update", "errs", "errsend", "loop"} \cup Sent \cup Visits
  BY <1>5 DEF BatchOK, Sent, Visits
<1> QED
  BY <1>2, <1>3, <1>4, <1>5

LEMMA HeldIds ==
  ASSUME MapTypes, NEW c \in Conns
  PROVE  Held(conn[c]) \subseteq Ids
<1>1. conn[c].ids \subseteq Ids /\ conn[c].todo \subseteq Ids
  BY DEF MapTypes, Conn
<1>2. conn[c].pc \in Visits => conn[c].cur \in Ids
  BY DEF MapTypes, Visits, HasSender
<1> QED
  BY <1>1, <1>2 DEF Held, Visits

LEMMA InitTask == Init => TaskInv
<1> SUFFICES ASSUME Init PROVE TaskInv
  OBVIOUS
<1>1. TableInv
  BY NoTask DEF Init, TMInit, TableInv
<1>2. QueueOK(queue, table)
  BY DEF Init, TMInit, QueueOK
<1>3. BatchInv
  <2>1. \A c \in Conns : conn[c].pc = "down"
    BY DEF Init, ControllerInit, Fresh
  <2> QED
    BY <2>1 DEF BatchInv, BatchOK, Sent, Visits
<1>4. RequestInv /\ OwnAnswer
  BY DEF Init, TMInit, RoutesInit, RequestInv, OwnAnswer
<1> QED
  BY <1>1, <1>2, <1>3, <1>4 DEF TaskInv

(* A step of the routes that only takes tasks out of the table. *)
LEMMA TasksLeave ==
  ASSUME TypeInv, TaskInv, WaitingIsTabled', OwnAnswer',
         UNCHANGED <<rid, queue, conn>>,
         \A id \in Ids : table'[id] = table[id] \/ table'[id] = None,
         \A q \in Requests : hpc'[q] = "enqueue" => hpc[q] = "enqueue",
         \A q \in Requests : rx'[q] = "sent" \/ hpc'[q] = "take" =>
                               (rx[q] = "sent" \/ hpc[q] = "take") /\ rid[q] \in Ids
  PROVE  TaskInv'
<1>0. MapTypes
  BY MapsTyped
<1>1. TableInv'
  BY NoTask DEF TaskInv, TableInv
<1>2. QueueOK(queue, table)'
  <2> SUFFICES ASSUME NEW s \in Stages, NEW i \in 1 .. Len(queue[s])
               PROVE  Waiting(table'[queue[s][i]], s)
    BY DEF QueueOK
  <2>1. queue[s][i] \in Ids /\ Waiting(table[queue[s][i]], s)
    BY DEF TaskInv, QueueOK, TypeInv, TypeOK, TMTypeOK
  <2>2. table'[queue[s][i]] = table[queue[s][i]] \/ table'[queue[s][i]] = None
    BY <2>1
  <2> QED
    BY <2>1, <2>2, NoTask
<1>3. BatchInv'
  <2> SUFFICES ASSUME NEW c \in Conns PROVE BatchOK(c, conn[c], table', rid)
    BY DEF BatchInv
  <2>1. BatchOK(c, conn[c], table, rid)
    BY DEF TaskInv, BatchInv
  <2>2. Held(conn[c]) \subseteq Ids
    BY <1>0, HeldIds
  <2> QED
    BY <2>1, <2>2, BatchShrink
<1>4. RequestInv'
  <2> SUFFICES ASSUME NEW q \in Requests
               PROVE  /\ hpc'[q] = "enqueue" => table'[rid[q]] # None /\ table'[rid[q]].stage = 0
                      /\ rx'[q] = "sent" \/ hpc'[q] = "take" => Finished(table'[rid[q]])
    BY DEF RequestInv, InTable
  <2>1. ASSUME hpc'[q] = "enqueue" PROVE table'[rid[q]] # None /\ table'[rid[q]].stage = 0
    <3>1. rid[q] \in Ids /\ table[rid[q]].stage = 0
      BY <1>0, <2>1 DEF MapTypes, HasId, TaskInv, RequestInv
    <3>2. table'[rid[q]] # None
      BY <2>1 DEF WaitingIsTabled, InTable
    <3> QED
      BY <3>1, <3>2
  <2>2. ASSUME rx'[q] = "sent" \/ hpc'[q] = "take" PROVE Finished(table'[rid[q]])
    <3>1. rid[q] \in Ids /\ Finished(table[rid[q]])
      BY <2>2 DEF TaskInv, RequestInv
    <3> QED
      BY <3>1, NoTask
  <2> QED
    BY <2>1, <2>2
<1> QED
  BY <1>1, <1>2, <1>3, <1>4 DEF TaskInv

(* What the handlers answer. *)
LEMMA RoutesAnswer ==
  ASSUME TypeInv, IdInv, TaskInv, NEW r \in Requests,
         HandlerStep(r) \/ Timeout(r) \/ ClientStep(r)
  PROVE  OwnAnswer'
<1>0. /\ MapTypes /\ resp \in [Requests -> Response \cup {None}] /\ OwnAnswer
  BY MapsTyped DEF TypeInv, TypeOK, RoutesTypeOK, TaskInv
<1>1. ASSUME NEW a,
             resp' = [resp EXCEPT ![r] = a],
             a.status = "OK" =>
               a.data = [owner |-> r, hops |-> Len(Pipeline[EndpointOf[r]]), enc |-> "client"]
      PROVE  OwnAnswer'
  BY <1>0, <1>1 DEF OwnAnswer
<1>2. CASE resp' = resp
  BY <1>0, <1>2 DEF OwnAnswer
<1>3. ASSUME NEW status, status # "OK", resp' = [resp EXCEPT ![r] = [status |-> status, data |-> None]]
      PROVE  OwnAnswer'
  <2>1. [status |-> status, data |-> None].status # "OK"
    BY <1>3
  <2> QED
    BY <1>1, <1>3, <2>1
<1>4. CASE TakeTask(r)
  <2> DEFINE t == table[rid[r]]
  <2>1. hpc[r] = "take" /\ rid[r] \in Ids
    BY <1>0, <1>4 DEF TakeTask, MapTypes, HasId
  <2>2. CASE t = None
    <3>1. resp' = [resp EXCEPT ![r] = [status |-> "UNKNOWN_ERROR", data |-> None]]
      BY <1>4, <2>2 DEF TakeTask, InTable, Respond
    <3> QED
      BY <1>3, <3>1
  <2>3. CASE t # None
    <3>1. resp' = [resp EXCEPT ![r] = [status |-> StatusOf(t.code), data |-> t.data]]
      BY <1>4, <2>3 DEF TakeTask, InTable, Respond
    <3>2. t \in Task /\ Finished(t) /\ TaskOK(rid, rid[r], t)
      BY <1>0, <2>1, <2>3 DEF MapTypes, TaskInv, RequestInv, TableInv
    <3>3. ASSUME t.code = "Normal"
          PROVE  t.data = [owner |-> r, hops |-> Len(Pipeline[EndpointOf[r]]), enc |-> "client"]
      <4>1. t.stage = Depth(t) /\ t.route = EndpointOf[r]
        BY <2>3, <3>2, <3>3 DEF Finished, TaskOK
      <4>2. /\ t.data.owner \in Requests /\ rid[t.data.owner] = rid[r]
            /\ t.data.hops = t.stage
            /\ t.data.enc = IF 0 < t.stage /\ t.stage < Depth(t) THEN "ipc" ELSE "client"
        BY <2>3, <3>2, <3>3 DEF TaskOK
      <4>3. t.data.owner = r
        BY <2>1, <4>2, RidOwner
      <4>4. t.data.enc = "client"
        BY <3>2, <4>1, <4>2 DEF Task
      <4>5. t.data \in Data
        BY <3>2 DEF Task
      <4> QED
        BY <4>1, <4>2, <4>3, <4>4, <4>5 DEF Data, Depth
    <3>4. StatusOf(t.code) = "OK" => t.code = "Normal"
      BY DEF StatusOf
    <3> HIDE DEF t
    <3> QED
      BY <1>1, <3>1, <3>3, <3>4
  <2> QED
    BY <2>2, <2>3
<1>5. CASE Arrive(r) \/ ReadBody(r)
  BY <1>2, <1>3, <1>5 DEF Arrive, ReadBody, Respond
<1>6. CASE TrySend(r) \/ RegisterStream(r) \/ DeleteTask(r)
  BY <1>2, <1>3, <1>6 DEF TrySend, RegisterStream, DeleteTask, Respond
<1>7. CASE Submit(r) \/ Notified(r) \/ DeleteNotifier(r) \/ DeleteStream(r) \/ Timeout(r)
           \/ Disconnect(r) \/ ReadEvent(r)
  BY <1>2, <1>7 DEF Submit, Notified, DeleteNotifier, DeleteStream, Timeout, Disconnect,
     ReadEvent
<1> QED
  BY <1>4, <1>5, <1>6, <1>7 DEF HandlerStep, ClientStep

(* A task that is waiting for s goes to the end of the queue of s. *)
LEMMA QueueAppend ==
  ASSUME NEW Q \in [Stages -> Seq(Ids)], NEW T, QueueOK(Q, T),
         NEW s \in Stages, NEW x \in Ids, Waiting(T[x], s)
  PROVE  QueueOK([Q EXCEPT ![s] = Append(@, x)], T)
<1> DEFINE Q2 == [Q EXCEPT ![s] = Append(@, x)]
<1> SUFFICES ASSUME NEW t \in Stages, NEW i \in 1 .. Len(Q2[t])
             PROVE  Waiting(T[Q2[t][i]], t)
  BY DEF QueueOK
<1>1. CASE t # s
  <2>1. Q2[t] = Q[t]
    BY <1>1
  <2> QED
    BY <2>1 DEF QueueOK
<1>2. CASE t = s
  <2>1. Q2[t] = Append(Q[s], x) /\ Q[s] \in Seq(Ids)
    BY <1>2
  <2>2. /\ Len(Q2[t]) = Len(Q[s]) + 1 /\ Len(Q[s]) \in Nat
        /\ \A j \in 1 .. Len(Q[s]) : Q2[t][j] = Q[s][j]
        /\ Q2[t][Len(Q[s]) + 1] = x
    <3> HIDE DEF Q2
    <3> QED
      BY <2>1
  <2> HIDE DEF Q2
  <2>3. i \in 1 .. Len(Q[s]) \/ i = Len(Q[s]) + 1
    BY <2>2
  <2> QED
    BY <1>2, <2>2, <2>3 DEF QueueOK
<1> QED
  BY <1>1, <1>2

(* The head of a queue is taken. *)
LEMMA QueueTail ==
  ASSUME NEW Q \in [Stages -> Seq(Ids)], NEW T, QueueOK(Q, T),
         NEW s \in Stages, Q[s] # << >>
  PROVE  /\ QueueOK([Q EXCEPT ![s] = Tail(@)], T)
         /\ Waiting(T[Head(Q[s])], s) /\ Head(Q[s]) \in Ids
<1> DEFINE Q2 == [Q EXCEPT ![s] = Tail(@)]
<1>0. Q[s] \in Seq(Ids)
  OBVIOUS
<1>1. /\ Len(Q[s]) \in Nat \ {0} /\ Head(Q[s]) = Q[s][1]
      /\ Len(Tail(Q[s])) = Len(Q[s]) - 1
      /\ \A i \in 1 .. Len(Tail(Q[s])) : Tail(Q[s])[i] = Q[s][i + 1]
  BY <1>0
<1>2. 1 \in 1 .. Len(Q[s])
  BY <1>1
<1>3. Waiting(T[Head(Q[s])], s) /\ Head(Q[s]) \in Ids
  BY <1>0, <1>1, <1>2 DEF QueueOK
<1>4. ASSUME NEW t \in Stages, NEW i \in 1 .. Len(Q2[t])
      PROVE  Waiting(T[Q2[t][i]], t)
  <2>1. CASE t # s
    <3>1. Q2[t] = Q[t]
      BY <2>1
    <3> QED
      BY <3>1 DEF QueueOK
  <2>2. CASE t = s
    <3>1. Q2[t] = Tail(Q[s])
      BY <2>2
    <3>2. i + 1 \in 1 .. Len(Q[s]) /\ Q2[t][i] = Q[s][i + 1]
      BY <1>1, <3>1
    <3> QED
      BY <2>2, <3>2 DEF QueueOK
  <2> QED
    BY <2>1, <2>2
<1> QED
  BY <1>3, <1>4 DEF QueueOK

(* The handlers, their timers and their clients. *)
LEMMA RoutesTask ==
  ASSUME TypeInv, IdInv, CustodyInv, MapsInv, TaskInv, NEW r \in Requests,
         HandlerStep(r) \/ Timeout(r) \/ ClientStep(r), UNCHANGED connVars
  PROVE  TaskInv'
<1>0. MapTypes /\ conn' = conn
  BY MapsTyped DEF connVars
<1>1. OwnAnswer' /\ WaitingIsTabled'
  BY RoutesAnswer, RoutesMaps DEF MapsInv
<1>a. \A q \in Requests : rx[q] = "sent" \/ hpc[q] = "take" => rid[q] \in Ids
  BY DEF MapsInv, NotifierInv
<1>2. ASSUME UNCHANGED <<rid, queue>>,
             \A id \in Ids : table'[id] = table[id] \/ table'[id] = None,
             \A q \in Requests : hpc'[q] = "enqueue" => hpc[q] = "enqueue",
             \A q \in Requests : rx'[q] = "sent" \/ hpc'[q] = "take" =>
                                   rx[q] = "sent" \/ hpc[q] = "take"
      PROVE  TaskInv'
  BY <1>0, <1>1, <1>2, <1>a, TasksLeave
<1> USE DEF Goto, Respond
<1>3. CASE Arrive(r) \/ ReadBody(r) \/ ReadEvent(r) \/ Disconnect(r)
  <2>1. UNCHANGED <<rid, queue, table>>
    BY <1>3 DEF Arrive, ReadBody, ReadEvent, Disconnect, tmVars
  <2>2. \A q \in Requests : hpc'[q] \in {"enqueue", "take"} => hpc'[q] = hpc[q]
    BY <1>0, <1>3 DEF Arrive, ReadBody, ReadEvent, Disconnect, MapTypes
  <2>3. \A q \in Requests : rx'[q] = "sent" => rx[q] = "sent"
    BY <1>0, <1>3 DEF Arrive, ReadBody, ReadEvent, Disconnect, MapTypes, tmVars
  <2> QED
    BY <1>2, <2>1, <2>2, <2>3
<1>4. CASE RegisterStream(r) \/ Notified(r) \/ Timeout(r) \/ DeleteNotifier(r) \/ DeleteStream(r)
  <2>1. UNCHANGED <<rid, queue, table>>
    BY <1>4 DEF RegisterStream, Notified, Timeout, DeleteNotifier, DeleteStream
  <2>2. \A q \in Requests : hpc'[q] = "enqueue" => hpc[q] = "enqueue"
    BY <1>0, <1>4 DEF RegisterStream, Notified, Timeout, DeleteNotifier, DeleteStream, MapTypes
  <2>3. \A q \in Requests : rx'[q] = "sent" \/ hpc'[q] = "take" => rx[q] = "sent" \/ hpc[q] = "take"
    BY <1>0, <1>4 DEF RegisterStream, Notified, Timeout, DeleteNotifier, DeleteStream, MapTypes
  <2> QED
    BY <1>2, <2>1, <2>2, <2>3
<1>5. CASE TakeTask(r) \/ DeleteTask(r)
  <2>1. UNCHANGED <<rid, queue, rx>> /\ RemoveTask(rid[r])
    BY <1>5 DEF TakeTask, DeleteTask
  <2>2. \A q \in Requests : hpc'[q] \in {"enqueue", "take"} => hpc'[q] = hpc[q]
    BY <1>0, <1>5 DEF TakeTask, DeleteTask, MapTypes
  <2>3. \A id \in Ids : table'[id] = table[id] \/ table'[id] = None
    BY <1>0, <2>1 DEF RemoveTask, MapTypes
  <2> QED
    BY <1>2, <2>1, <2>2, <2>3
<1>6. CASE TrySend(r)
  <2> DEFINE first == Pipeline[EndpointOf[r]][1]
             x == rid[r]
  <2>1. hpc[r] = "enqueue" /\ x \in Ids /\ rid' = rid
    BY <1>0, <1>6 DEF TrySend, MapTypes, HasId
  <2>2. \A q \in Requests : hpc'[q] \in {"enqueue", "take"} => hpc'[q] = hpc[q]
    BY <1>0, <1>6 DEF TrySend, MapTypes
  <2>3. CASE /\ RemoveTask(x) /\ rx' = [rx EXCEPT ![r] = "closed"] /\ queue' = queue
    <3>1. \A id \in Ids : table'[id] = table[id] \/ table'[id] = None
      BY <1>0, <2>3 DEF RemoveTask, MapTypes
    <3>2. \A q \in Requests : rx'[q] = "sent" => rx[q] = "sent"
      BY <1>0, <2>3 DEF MapTypes
    <3> QED
      BY <1>2, <2>1, <2>2, <2>3, <3>1, <3>2
  <2>4. CASE Enqueue(first, x) /\ UNCHANGED <<table, rx>>
    <3>1. /\ table[x] # None /\ table[x].stage = 0 /\ TaskOK(rid, x, table[x])
      BY <2>1 DEF TaskInv, RequestInv, TableInv, InTable
    <3>2. Waiting(table[x], first) /\ first \in Stages
      <4>1. table[x].route = EndpointOf[r] /\ EndpointOf[r] \in Endpoints
        BY <3>1, ConstantsAssumption DEF TaskOK
      <4>2. Len(Pipeline[EndpointOf[r]]) > 0 /\ Pipeline[EndpointOf[r]] \in Seq(Stages)
        BY <4>1, ConstantsAssumption
      <4> QED
        BY <3>1, <4>1, <4>2 DEF Waiting, Depth
    <3>3. QueueOK(queue, table)'
      <4>1. /\ queue \in [Stages -> Seq(Ids)] /\ QueueOK(queue, table)
            /\ queue' = [queue EXCEPT ![first] = Append(@, x)] /\ table' = table
        BY <2>4 DEF TypeInv, TypeOK, TMTypeOK, TaskInv, Enqueue
      <4> HIDE DEF first, x
      <4>2. QueueOK(queue', table)
        BY <2>1, <3>2, <4>1, QueueAppend
      <4> QED
        BY <4>1, <4>2
    <3>4. TableInv' /\ BatchInv'
      BY <1>0, <2>1, <2>4 DEF TaskInv, TableInv, BatchInv
    <3>5. RequestInv'
      BY <2>1, <2>2, <2>4 DEF TaskInv, RequestInv, InTable
    <3> QED
      BY <1>1, <3>3, <3>4, <3>5 DEF TaskInv
  <2> QED
    BY <1>6, <2>3, <2>4 DEF TrySend
<1>7. CASE Submit(r)
  <2> DEFINE new == NewTask(Body(r), EndpointOf[r])
             x == current_id
  <2>1. /\ rid[r] = None /\ rid' = [rid EXCEPT ![r] = x]
        /\ hpc' = [hpc EXCEPT ![r] = "enqueue"] /\ rx' = [rx EXCEPT ![r] = "pending"]
        /\ table' = [table EXCEPT ![x] = new]
        /\ queue' = queue /\ hpc[r] = "submit"
    BY <1>7, NoWrap DEF Submit, InsertTask
  <2>2. /\ rid'[r] = x /\ hpc'[r] = "enqueue" /\ rx'[r] = "pending"
        /\ \A q \in Requests : q # r => rid'[q] = rid[q] /\ hpc'[q] = hpc[q] /\ rx'[q] = rx[q]
        /\ table'[x] = new /\ x \in Ids /\ x \in Nat
        /\ \A id \in Ids : id # x => table'[id] = table[id]
    <3> HIDE DEF new
    <3> QED
      BY <1>0, <2>1 DEF MapTypes
  <2>3. /\ new # None /\ new.stage = 0 /\ new.route = EndpointOf[r]
        /\ new.data = Body(r)
    <3>1. new \in Task
      BY ConstantsAssumption DEF NewTask, Body, Task, TaskCode, Data
    <3> QED
      BY <3>1 DEF NewTask
  <2>4. \A q \in Requests : rid[q] # None => q # r /\ rid[q] \in Ids /\ rid[q] # x
    BY <1>0, <2>1, RidOwner DEF MapTypes
  <2> HIDE DEF new
  <2>5. /\ \A id \in Ids : Placed(queue, Batches, id) => id # x
        /\ \A c \in Conns : Batches[c] = Held(conn[c])
    BY <2>2 DEF CustodyInv, Batches
  <2>6. TableInv'
    <3> SUFFICES ASSUME NEW id \in Ids PROVE TaskOK(rid', id, table'[id])
      BY DEF TableInv
    <3>1. CASE id = x
      <4>1. \A q \in Requests : rid'[q] = x => q = r
        BY <2>2, <2>4
      <4>2. new.stage <= Depth(new)
        <5>1. Len(Pipeline[EndpointOf[r]]) \in Nat
          BY ConstantsAssumption
        <5> QED
          BY <2>3, <5>1 DEF Depth
      <4>3. Body(r).owner = r /\ Body(r).hops = 0 /\ Body(r).enc = "client"
        BY DEF Body
      <4> QED
        BY <2>2, <2>3, <3>1, <4>1, <4>2, <4>3 DEF TaskOK
    <3>2. CASE id # x
      <4>1. TaskOK(rid, id, table[id]) /\ table'[id] = table[id]
        BY <2>2, <3>2 DEF TaskInv, TableInv
      <4>2. \A q \in Requests : rid'[q] = id <=> rid[q] = id
        BY <2>1, <2>2, <2>4, <3>2
      <4> QED
        BY <4>1, <4>2 DEF TaskOK
    <3> QED
      BY <3>1, <3>2
  <2>7. QueueOK(queue, table)'
    <3> SUFFICES ASSUME NEW s \in Stages, NEW i \in 1 .. Len(queue[s])
                 PROVE  Waiting(table'[queue[s][i]], s)
      BY <2>1 DEF QueueOK
    <3>1. queue[s][i] \in Ids /\ Waiting(table[queue[s][i]], s)
      BY DEF TaskInv, QueueOK, TypeInv, TypeOK, TMTypeOK
    <3>2. queue[s][i] # x
      BY <2>5, <3>1 DEF Placed, Elems
    <3> QED
      BY <2>2, <3>1, <3>2
  <2>8. BatchInv'
    <3> SUFFICES ASSUME NEW c \in Conns PROVE BatchOK(c, conn[c], table', rid')
      BY <1>0 DEF BatchInv
    <3>1. BatchOK(c, conn[c], table, rid)
      BY DEF TaskInv, BatchInv
    <3>2. \A id \in Held(conn[c]) : id \in Ids /\ id # x
      BY <1>0, <2>5, HeldIds DEF Placed
    <3>3. BatchOK(c, conn[c], table', rid)
      BY <2>2, <3>1, <3>2, BatchShrink
    <3>4. \A id \in conn[c].ids : Carries(rid, conn[c], id) => Carries(rid', conn[c], id)
      <4>1. conn[c].ids \subseteq Ids
        BY <1>0 DEF MapTypes, Conn
      <4> QED
        BY <2>2, <2>4, <4>1 DEF Carries
    <3> QED
      BY <3>3, <3>4 DEF BatchOK
  <2>9. RequestInv'
    <3> SUFFICES ASSUME NEW q \in Requests
                 PROVE  /\ hpc'[q] = "enqueue" => table'[rid'[q]] # None /\ table'[rid'[q]].stage = 0
                        /\ rx'[q] = "sent" \/ hpc'[q] = "take" => Finished(table'[rid'[q]])
      BY DEF RequestInv, InTable
    <3>1. CASE q = r
      BY <2>2, <2>3, <3>1
    <3>2. CASE q # r
      <4>1. hpc'[q] = hpc[q] /\ rx'[q] = rx[q] /\ rid'[q] = rid[q]
        BY <2>2, <3>2
      <4>2. rx[q] = "sent" \/ hpc[q] \in {"enqueue", "take"} => table'[rid[q]] = table[rid[q]]
        BY <1>0, <1>a, <2>2, <2>4 DEF MapTypes, HasId
      <4>3. /\ hpc[q] = "enqueue" => table[rid[q]] # None /\ table[rid[q]].stage = 0
            /\ rx[q] = "sent" \/ hpc[q] = "take" => Finished(table[rid[q]])
        BY DEF TaskInv, RequestInv, InTable
      <4> QED
        BY <4>1, <4>2, <4>3
    <3> QED
      BY <3>1, <3>2
  <2> QED
    BY <1>1, <2>6, <2>7, <2>8, <2>9 DEF TaskInv
<1> QED
  BY <1>3, <1>4, <1>5, <1>6, <1>7 DEF HandlerStep, ClientStep

-----------------------------------------------------------------------------
(* What a connection task does to its own batch. *)
LEMMA ConnBatch ==
  ASSUME TypeInv, TaskInv, NEW c \in Conns, ConnStep(c) \/ WorkerStep(c), ~Update(c)
  PROVE  \E new : Become(c, new) /\ BatchOK(c, new, table, rid)
<1> DEFINE k == conn[c]
           s == StageOf[c]
           Good(new) == BatchOK(c, new, table, rid)
           Goal == \E new : Become(c, new) /\ Good(new)
<1> SUFFICES Goal
  OBVIOUS
<1>0. k \in Conn /\ Good(k) /\ Shape(k) /\ s \in Stages
  BY ConnsAssumption DEF TypeInv, TypeOK, ControllerTypeOK, TaskInv, BatchInv
<1>a. MapTypes /\ TableInv /\ QueueOK(queue, table) /\ queue \in [Stages -> Seq(Ids)]
  BY MapsTyped DEF TaskInv, TypeInv, TypeOK, TMTypeOK
<1>1. ASSUME NEW new, Become(c, new), Good(new) PROVE Goal
  BY <1>1
<1>2. ASSUME NEW pc \in Ended \cup {"recv"}, NEW alive PROVE Good(Fresh(pc, alive))
  <2>1. Fresh(pc, alive).pc = pc
    BY DEF Fresh
  <2> QED
    BY <2>1 DEF BatchOK, Ended, Sent, Visits
<1> HIDE DEF s
<1>3. CASE Accept(c) \/ ReadError(c) \/ LoopEnd(c)
  <2> HIDE DEF Good
  <2> QED
    BY <1>1, <1>2, <1>3 DEF Accept, ReadError, LoopEnd, Ended
<1>4. CASE RecvFirst(c) \/ RecvMore(c)
  <2> DEFINE x == Head(queue[s])
  <2>1. queue[s] # << >> /\ k.pc \in {"recv", "batch"}
    BY <1>4 DEF RecvFirst, RecvMore, At, s
  <2>2. Waiting(table[x], s)
    BY <1>0, <1>a, <2>1, QueueTail
  <2> HIDE DEF x
  <2>p. PICK pc \in {"fetch", "batch"} : \E ids :
             /\ Become(c, [k EXCEPT !.pc = pc, !.ids = ids])
             /\ ids = {x} \/ (k.pc = "batch" /\ ids = k.ids \cup {x})
    BY <1>4 DEF RecvFirst, RecvMore, At, s, x
  <2>3. PICK ids :
          /\ Become(c, [k EXCEPT !.pc = pc, !.ids = ids])
          /\ ids = {x} \/ (k.pc = "batch" /\ ids = k.ids \cup {x})
    BY <2>p
  <2> DEFINE new == [k EXCEPT !.pc = pc, !.ids = ids]
  <2>4. new.pc = pc /\ new.ids = ids
    BY <1>0 DEF Conn
  <2>5. \A id \in ids : Waiting(table[id], s)
    BY <1>0, <2>2, <2>3 DEF BatchOK, s
  <2> HIDE DEF new
  <2>6. Good(new)
    BY <2>4, <2>5 DEF BatchOK, Sent, Visits, s
  <2> QED
    BY <2>3, <2>6 DEF new
<1>5. CASE BatchTimeout(c)
  <2> DEFINE new == [k EXCEPT !.pc = "fetch"]
  <2>1. new.pc = "fetch" /\ new.ids = k.ids /\ k.pc = "batch"
    BY <1>0, <1>5 DEF BatchTimeout, At, Conn
  <2>2. Become(c, new)
    BY <1>5 DEF BatchTimeout, GotoC
  <2> HIDE DEF new
  <2>3. Good(new)
    BY <1>0, <2>1 DEF BatchOK, Sent, Visits
  <2> QED
    BY <2>2, <2>3
<1>6. CASE Fetch(c)
  <2> DEFINE live == {id \in k.ids : InTable(id)}
             data == [id \in Ids |-> IF id \in live THEN table[id].data ELSE None]
             states == [id \in Ids |-> IF id \in live THEN EncodeState(table[id])
                                                       ELSE NoState]
             new == [k EXCEPT !.pc = "write", !.ids = live, !.data = data,
                              !.states = states]
  <2>1. Become(c, IF live = {} THEN Fresh("recv", k.alive) ELSE new) /\ k.pc = "fetch"
    BY <1>6 DEF Fetch, At
  <2>2. /\ live \subseteq k.ids /\ live \subseteq Ids
        /\ \A id \in live : /\ table[id] # None /\ data[id] = table[id].data
                            /\ states[id] = EncodeState(table[id])
    BY <1>0 DEF InTable, Conn
  <2>3. new.pc = "write" /\ new.ids = live /\ new.data = data /\ new.states = states
    <3> HIDE DEF live, data, states
    <3> QED
      BY <1>0 DEF Conn
  <2> HIDE DEF live, data, states, new
  <2>4. \A id \in live : Waiting(table[id], s)
    BY <1>0, <2>1, <2>2 DEF BatchOK, s
  <2>5. ASSUME NEW id \in live PROVE Carries(rid, new, id) /\ Copied(new, id, table[id])
    <3> DEFINE t == table[id]
    <3>1. t \in Task /\ t # None /\ TaskOK(rid, id, t) /\ Waiting(t, s)
      BY <1>a, <2>2, <2>4, <2>5 DEF TableInv, MapTypes
    <3>2. new.data[id] = t.data /\ new.states[id] = EncodeState(t)
      BY <2>2, <2>3
    <3> HIDE DEF t
    <3>3. t.stage < Depth(t) /\ (t.stage = 0 \/ t.code = "Normal") /\ t.stage \in Nat
      BY <3>1 DEF Waiting, Task
    <3>4. /\ t.data.owner \in Requests /\ rid[t.data.owner] = id
          /\ t.data.enc = IF 0 < t.stage /\ t.stage < Depth(t) THEN "ipc" ELSE "client"
      BY <3>1, <3>3 DEF TaskOK
    <3>5. t.data.enc = "client" <=> t.stage = 0
      BY <3>3, <3>4
    <3>6. EncodeState(t).ingress = (t.stage = 0)
      BY DEF EncodeState
    <3>7. Carries(rid, new, id)
      BY <3>2, <3>4, <3>5, <3>6 DEF Carries
    <3>8. Copied(new, id, t)
      BY <3>2 DEF Copied
    <3> QED
      BY <3>7, <3>8 DEF t
  <2>6. Good(new)
    BY <2>3, <2>4, <2>5 DEF BatchOK, Sent, Visits, s
  <2>7. Good(Fresh("recv", k.alive))
    BY <1>2
  <2> HIDE DEF Good
  <2> QED
    BY <1>1, <2>1, <2>6, <2>7
<1>7. CASE Write(c)
  <2> DEFINE n1 == [k EXCEPT !.pc = "read"]
             n2 == [k EXCEPT !.pc = "loop", !.mode = "resend", !.todo = k.ids]
  <2>1. Become(c, IF k.alive THEN n1 ELSE n2) /\ k.pc = "write"
    BY <1>7 DEF Write, At
  <2>2. /\ n1.pc = "read" /\ n1.ids = k.ids /\ n1.data = k.data /\ n1.states = k.states
        /\ n2.pc = "loop" /\ n2.mode = "resend" /\ n2.todo = k.ids
    BY <1>0 DEF Conn
  <2> HIDE DEF n1, n2
  <2>3. Good(n1)
    BY <1>0, <2>1, <2>2 DEF BatchOK, Sent, Visits, Carries, Copied
  <2>4. Good(n2)
    BY <1>0, <2>1, <2>2 DEF BatchOK, Sent, Visits, Left
  <2> HIDE DEF Good
  <2> QED
    BY <1>1, <2>1, <2>3, <2>4
<1>8. CASE WorkerReply(c) \/ ReadErrorInLoop(c)
  <2>1. PICK code \in TaskCode, ids \in SUBSET k.ids :
          Become(c, [k EXCEPT !.pc = "update", !.code = code, !.ids = ids,
                              !.data = ReplyData(c, code, ids)])
    <3>1. CASE WorkerReply(c)
      BY <3>1, ConnsAssumption DEF WorkerReply, Reply
    <3>2. CASE Reply(c, "StreamEvent", {})
      BY <3>2 DEF Reply, TaskCode
    <3>3. CASE \E code \in WorkerCodes, ids \in SUBSET k.ids : Reply(c, code, ids)
      BY <3>3, ConnsAssumption DEF Reply
    <3> QED
      BY <1>8, <3>1, <3>2, <3>3 DEF ReadErrorInLoop
  <2> DEFINE new == [k EXCEPT !.pc = "update", !.code = code, !.ids = ids,
                              !.data = ReplyData(c, code, ids)]
  <2>2. k.pc = "read"
    BY <1>8 DEF WorkerReply, ReadErrorInLoop, At
  <2>3. /\ new.pc = "update" /\ new.code = code /\ new.ids = ids
        /\ new.data = ReplyData(c, code, ids)
    BY <1>0 DEF Conn
  <2> HIDE DEF new
  <2>4. \A id \in ids : Waiting(table[id], s) /\ Copied(k, id, table[id]) /\ id \in Ids
    BY <1>0, <2>2 DEF BatchOK, Sent, s, Conn
  <2>5. ASSUME code = "Normal", NEW id \in ids PROVE Answers(new, id, table[id])
    <3>1. ReplyData(c, code, ids)[id] = Processed(k.data[id], k.states[id])
      BY <2>4, <2>5 DEF ReplyData
    <3> QED
      BY <2>3, <2>4, <3>1 DEF Answers, Copied
  <2>6. Good(new)
    BY <2>3, <2>4, <2>5 DEF BatchOK, Sent, Visits, s
  <2> QED
    BY <2>1, <2>6 DEF new
<1>9. CASE WorkerEvent(c)
  <2>1. PICK id \in k.ids : Become(c, [k EXCEPT !.pc = "event", !.code = "StreamEvent",
                                                !.streamed = TRUE, !.cur = id])
    BY <1>9 DEF WorkerEvent
  <2> DEFINE new == [k EXCEPT !.pc = "event", !.code = "StreamEvent",
                              !.streamed = TRUE, !.cur = id]
  <2>2. /\ new.pc = "event" /\ new.ids = k.ids /\ new.data = k.data
        /\ new.states = k.states /\ new.cur = id /\ k.pc = "read"
    BY <1>0, <1>9 DEF Conn, WorkerEvent, At
  <2> HIDE DEF new
  <2>3. Good(new)
    BY <1>0, <2>2 DEF BatchOK, Sent, Visits, Carries, Copied
  <2> QED
    BY <2>1, <2>3 DEF new
<1>10. CASE WorkerCrash(c)
  <2> DEFINE new == [k EXCEPT !.alive = FALSE]
  <2>1. /\ new.pc = k.pc /\ new.ids = k.ids /\ new.data = k.data /\ new.states = k.states
        /\ new.code = k.code /\ new.mode = k.mode /\ new.todo = k.todo /\ new.cur = k.cur
        /\ new.dest = k.dest
    BY <1>0 DEF Conn
  <2>2. Become(c, new)
    BY <1>10 DEF WorkerCrash
  <2> HIDE DEF new
  <2>3. Good(new)
    BY <1>0, <2>1 DEF BatchOK, Carries, Copied, Answers, Left
  <2> QED
    BY <2>2, <2>3
<1>11. CASE EventLookup(c) \/ EventSend(c)
  <2>p. PICK pc \in {"read", "eventsend"} : \E snd :
             Become(c, [k EXCEPT !.pc = pc, !.snd = snd])
    BY <1>11 DEF EventLookup, EventSend
  <2>1. PICK snd :
          Become(c, [k EXCEPT !.pc = pc, !.snd = snd])
    BY <2>p
  <2> DEFINE new == [k EXCEPT !.pc = pc, !.snd = snd]
  <2>2. /\ new.pc = pc /\ new.ids = k.ids /\ new.data = k.data
        /\ new.states = k.states /\ new.cur = k.cur /\ k.pc \in {"event", "eventsend"}
    BY <1>0, <1>11 DEF Conn, EventLookup, EventSend, At
  <2> HIDE DEF new
  <2>3. Good(new)
    BY <1>0, <2>2 DEF BatchOK, Sent, Visits, Carries, Copied
  <2> QED
    BY <2>1, <2>3 DEF new
<1>12. CASE ErrNext(c) \/ ErrSend(c)
  <2>p. PICK pc \in {"loop", "errs", "errsend"} : \E todo, snd :
             \/ pc = "loop" /\ todo = k.ids /\ Become(c, [k EXCEPT !.pc = pc, !.todo = todo])
             \/ pc # "loop" /\ Become(c, [k EXCEPT !.pc = pc, !.todo = todo, !.snd = snd])
             \/ pc # "loop" /\ Become(c, [k EXCEPT !.pc = pc, !.snd = snd])
    BY <1>12 DEF ErrNext, ErrSend
  <2>1. PICK todo, snd :
          \/ pc = "loop" /\ todo = k.ids /\ Become(c, [k EXCEPT !.pc = pc, !.todo = todo])
          \/ pc # "loop" /\ Become(c, [k EXCEPT !.pc = pc, !.todo = todo, !.snd = snd])
          \/ pc # "loop" /\ Become(c, [k EXCEPT !.pc = pc, !.snd = snd])
    BY <2>p
  <2>2. k.pc \in {"errs", "errsend"}
    BY <1>12 DEF ErrNext, ErrSend, At
  <2> DEFINE n1 == [k EXCEPT !.pc = pc, !.todo = todo]
             n2 == [k EXCEPT !.pc = pc, !.todo = todo, !.snd = snd]
             n3 == [k EXCEPT !.pc = pc, !.snd = snd]
  <2>3. /\ n1.pc = pc /\ n1.todo = todo /\ n1.mode = k.mode
        /\ n2.pc = pc /\ n2.ids = k.ids /\ n2.mode = k.mode /\ n2.code = k.code
        /\ n3.pc = pc /\ n3.ids = k.ids /\ n3.mode = k.mode /\ n3.code = k.code
    BY <1>0 DEF Conn
  <2> HIDE DEF n1, n2, n3
  <2>4. pc = "loop" /\ todo = k.ids => Good(n1)
    BY <1>0, <2>2, <2>3 DEF BatchOK, Sent, Visits, Left
  <2>5. pc # "loop" => Good(n2) /\ Good(n3)
    BY <1>0, <2>2, <2>3 DEF BatchOK, Sent, Visits
  <2> HIDE DEF Good
  <2> QED
    BY <1>1, <2>1, <2>4, <2>5 DEF n1, n2, n3
<1>13. CASE LoopNext(c)
  <2>1. PICK id \in k.todo :
          LET next == NextStage(table[id])
              n    == [k EXCEPT !.todo = @ \ {id}, !.cur = id]
          IN Become(c, IF n.mode = "abnormal"  THEN [n EXCEPT !.pc = "notify"]
                       ELSE IF ~InTable(id)    THEN [n EXCEPT !.cur = None]
                       ELSE IF next = None     THEN [n EXCEPT !.pc = "notify"]
                       ELSE [n EXCEPT !.pc = "push", !.dest = next])
    BY <1>13 DEF LoopNext
  <2> DEFINE t == table[id]
             next == NextStage(t)
             n == [k EXCEPT !.todo = @ \ {id}, !.cur = id]
             n1 == [n EXCEPT !.pc = "notify"]
             n2 == [n EXCEPT !.cur = None]
             n3 == [n EXCEPT !.pc = "push", !.dest = next]
  <2>2. k.pc = "loop" /\ id \in Ids /\ n.mode = k.mode
    BY <1>0, <1>13 DEF LoopNext, At, Conn
  <2>3. /\ n1.pc = "notify" /\ n1.cur = id /\ n1.todo = k.todo \ {id} /\ n1.mode = k.mode
        /\ n2.pc = "loop" /\ n2.todo = k.todo \ {id} /\ n2.mode = k.mode
        /\ n3.pc = "push" /\ n3.cur = id /\ n3.todo = k.todo \ {id} /\ n3.mode = k.mode
        /\ n3.dest = next
    <3> HIDE DEF next
    <3> QED
      BY <1>0, <2>2 DEF Conn
  <2>4. /\ Left(c, k, t) /\ k.mode \in {"forward", "abnormal", "resend"}
        /\ \A i \in k.todo \ {id} : Left(c, k, table[i])
    BY <1>0, <2>2 DEF BatchOK, Conn
  <2>5. TaskOK(rid, id, t) /\ t \in Task \cup {None}
    BY <1>a, <2>2 DEF TableInv, MapTypes
  <2>6. t # None => /\ Depth(t) \in Nat \ {0} /\ t.stage \in Nat /\ t.stage <= Depth(t)
                    /\ t.stage < Depth(t) => Pipeline[t.route][t.stage + 1] \in Stages
    <3> SUFFICES ASSUME t # None
                 PROVE  /\ Depth(t) \in Nat \ {0} /\ t.stage \in Nat /\ t.stage <= Depth(t)
                        /\ t.stage < Depth(t) => Pipeline[t.route][t.stage + 1] \in Stages
      OBVIOUS
    <3>1. t.route \in Endpoints /\ t.stage \in Nat /\ t.stage <= Depth(t)
      BY <2>5 DEF Task, TaskOK
    <3>2. Pipeline[t.route] \in Seq(Stages) /\ Len(Pipeline[t.route]) > 0
      BY <3>1, ConstantsAssumption
    <3> HIDE DEF t
    <3> QED
      BY <3>1, <3>2 DEF Depth
  <2> HIDE DEF t
  <2>7. t # None /\ next = None /\ k.mode # "abnormal" => Finished(t)
    BY <2>4, <2>6, ConnsAssumption DEF NextStage, Left, Finished, Forwarded, Waiting, Depth
  <2>8. t # None /\ next # None /\ k.mode # "abnormal" => Waiting(t, next)
    BY <2>4, <2>6 DEF NextStage, Left, Forwarded, Waiting, Depth
  <2> HIDE DEF next, n, n1, n2, n3
  <2>9. k.mode = "abnormal" \/ (t # None /\ next = None) => Good(n1)
    <3>1. k.mode = "abnormal" => Finished(t)
      BY <2>4 DEF Left
    <3> QED
      BY <2>3, <2>4, <2>7, <3>1 DEF BatchOK, Sent, Visits, Left, t
  <2>10. Good(n2)
    BY <2>3, <2>4 DEF BatchOK, Sent, Visits, Left
  <2>11. t # None /\ next # None /\ k.mode # "abnormal" => Good(n3)
    BY <2>3, <2>4, <2>8 DEF BatchOK, Sent, Visits, Left, t
  <2>12. Become(c, IF k.mode = "abnormal"  THEN n1
                   ELSE IF t = None        THEN n2
                   ELSE IF next = None     THEN n1
                   ELSE n3)
    BY <2>1, <2>2 DEF InTable, t, next, n, n1, n2, n3
  <2> HIDE DEF Good
  <2> QED
    BY <1>1, <2>9, <2>10, <2>11, <2>12
<1>14. CASE Push(c) \/ NotifyCleanup(c)
  <2>1. k.pc \in {"push", "cleanup"}
    BY <1>14 DEF Push, NotifyCleanup, At
  <2> DEFINE n1 == [k EXCEPT !.pc = "loop", !.cur = None, !.dest = None]
             n2 == [k EXCEPT !.pc = "loop", !.cur = None, !.snd = None]
  <2>2. /\ n1.pc = "loop" /\ n1.todo = k.todo /\ n1.mode = k.mode
        /\ n2.pc = "loop" /\ n2.todo = k.todo /\ n2.mode = k.mode
    BY <1>0 DEF Conn
  <2>3. Become(c, n1) \/ Become(c, n2)
    BY <1>14 DEF Push, NotifyCleanup
  <2> HIDE DEF n1, n2
  <2>4. Good(n1) /\ Good(n2)
    BY <1>0, <2>1, <2>2 DEF BatchOK, Sent, Visits, Left
  <2> QED
    BY <2>3, <2>4
<1>15. CASE NotifyTake(c) \/ NotifyCheck(c) \/ NotifySend(c)
  <2>1. k.pc \in {"notify", "check", "send"}
    BY <1>15 DEF NotifyTake, NotifyCheck, NotifySend, At
  <2> DEFINE r == notifiers[k.cur]
             n1 == [k EXCEPT !.pc = "loop", !.cur = None]
             n2 == [k EXCEPT !.pc = "check", !.snd = r]
             n3 == [k EXCEPT !.pc = "cleanup"]
             n4 == [k EXCEPT !.pc = "send"]
             n5 == [k EXCEPT !.pc = "loop", !.cur = None, !.snd = None]
  <2>2. /\ n1.pc = "loop" /\ n1.todo = k.todo /\ n1.mode = k.mode
        /\ n2.pc = "check" /\ n2.todo = k.todo /\ n2.mode = k.mode /\ n2.cur = k.cur
        /\ n3.pc = "cleanup" /\ n3.todo = k.todo /\ n3.mode = k.mode /\ n3.cur = k.cur
        /\ n4.pc = "send" /\ n4.todo = k.todo /\ n4.mode = k.mode /\ n4.cur = k.cur
        /\ n5.pc = "loop" /\ n5.todo = k.todo /\ n5.mode = k.mode
    <3> HIDE DEF r
    <3> QED
      BY <1>0 DEF Conn
  <2>3. \/ Become(c, n1) \/ Become(c, n2) \/ Become(c, n3) \/ Become(c, n4)
        \/ Become(c, n5) \/ Become(c, Fresh("panicked", FALSE))
    BY <1>15 DEF NotifyTake, NotifyCheck, NotifySend, GotoC
  <2> HIDE DEF n1, n2, n3, n4, n5
  <2>4. Good(n1) /\ Good(n5)
    BY <1>0, <2>1, <2>2 DEF BatchOK, Sent, Visits, Left
  <2>5. Good(n2) /\ Good(n3) /\ Good(n4)
    BY <1>0, <2>1, <2>2 DEF BatchOK, Sent, Visits, Left
  <2>6. Good(Fresh("panicked", FALSE))
    BY <1>2 DEF Ended
  <2> HIDE DEF Good
  <2> QED
    BY <1>1, <2>3, <2>4, <2>5, <2>6
<1> QED
  BY <1>3, <1>4, <1>5, <1>6, <1>7, <1>8, <1>9, <1>10, <1>11, <1>12, <1>13, <1>14, <1>15
     DEF ConnStep, WorkerStep

(* A finished task is not waiting for a stage. *)
LEMMA FinishedNotWaiting ==
  ASSUME NEW t \in Task, NEW s, Finished(t), Waiting(t, s)
  PROVE  FALSE
<1>1. t # None /\ t.stage \in Nat
  BY DEF Task
<1>2. Len(Pipeline[t.route]) \in Nat
  BY ConstantsAssumption DEF Task
<1> QED
  BY <1>1, <1>2 DEF Finished, Waiting, Depth

(* update_multi_tasks, on one task. *)
LEMMA UpdateTask ==
  ASSUME NEW t \in Task, NEW id \in Ids, NEW s, Waiting(t, s), TaskOK(rid, id, t),
         NEW code \in TaskCode, NEW data \in Data,
         code = "Normal" => data = Processed(t.data, EncodeState(t))
  PROVE  LET u == Updated(t, code, data)
         IN /\ TaskOK(rid, id, u)
            /\ code = "Normal" => Forwarded(u)
            /\ code # "Normal" => Finished(u)
<1> DEFINE u == Updated(t, code, data)
<1>1. /\ u \in Task /\ u # None /\ u.code = code /\ u.data = data
      /\ u.stage = t.stage + 1 /\ u.route = t.route
  BY UpdatedTask
<1>2. t # None /\ t.stage \in Nat /\ t.data \in Data
  BY DEF Task
<1>3. Depth(t) \in Nat /\ Depth(u) = Depth(t)
  <2>1. Len(Pipeline[t.route]) \in Nat
    BY ConstantsAssumption DEF Task
  <2> HIDE DEF u
  <2> QED
    BY <1>1, <2>1 DEF Depth
<1> HIDE DEF u
<1>4. t.stage < Depth(t) /\ (t.stage = 0 \/ t.code = "Normal")
  BY <1>2 DEF Waiting
<1>5. /\ t.data.owner \in Requests /\ rid[t.data.owner] = id /\ t.data.hops = t.stage
      /\ \A r \in Requests : rid[r] = id => t.route = EndpointOf[r]
  BY <1>2, <1>4 DEF TaskOK
<1>6. u.stage <= Depth(u) /\ u.stage > 0
  BY <1>1, <1>2, <1>3, <1>4
<1>7. ASSUME code = "Normal"
      PROVE  /\ u.data.owner \in Requests /\ rid[u.data.owner] = id
             /\ u.data.hops = u.stage
             /\ u.data.enc = IF 0 < u.stage /\ u.stage < Depth(u) THEN "ipc" ELSE "client"
  <2>1. /\ data.owner = t.data.owner /\ data.hops = t.data.hops + 1
        /\ data.enc = IF EncodeState(t).egress THEN "client" ELSE "ipc"
    BY <1>7 DEF Processed
  <2>2. EncodeState(t).egress = (Depth(t) - 1 = t.stage)
    BY DEF EncodeState, Depth
  <2>3. u.stage < Depth(u) <=> ~(Depth(t) - 1 = t.stage)
    BY <1>1, <1>2, <1>3, <1>4
  <2> QED
    BY <1>1, <1>5, <1>6, <2>1, <2>2, <2>3
<1>8. TaskOK(rid, id, u)
  BY <1>1, <1>5, <1>6, <1>7 DEF TaskOK
<1>9. code = "Normal" => Forwarded(u)
  BY <1>1 DEF Forwarded
<1>10. code # "Normal" => Finished(u)
  BY <1>1, <1>6 DEF Finished
<1> QED
  BY <1>8, <1>9, <1>10 DEF u

(* The connection tasks and their workers. *)
LEMMA ConnTask ==
  ASSUME TypeInv, IdInv, CustodyInv, MapsInv, TaskInv, NEW c \in Conns,
         ConnStep(c) \/ WorkerStep(c), UNCHANGED routesVars
  PROVE  TaskInv'
<1> DEFINE k == conn[c]
<1>0. /\ MapTypes /\ k \in Conn /\ rid' = rid /\ hpc' = hpc /\ resp' = resp
      /\ Shape(k) /\ queue \in [Stages -> Seq(Ids)]
  BY MapsTyped DEF MapTypes, routesVars, TypeInv, TypeOK, TMTypeOK
<1>a. OwnAnswer'
  BY <1>0 DEF TaskInv, OwnAnswer
<1>b. /\ TableInv /\ QueueOK(queue, table) /\ BatchInv /\ RequestInv
      /\ BatchOK(c, k, table, rid)
  BY DEF TaskInv, BatchInv
<1>c. \A q \in Requests : rx[q] = "sent" \/ hpc[q] \in {"take", "enqueue"} => rid[q] \in Ids
  BY <1>0 DEF MapsInv, NotifierInv, MapTypes, HasId
<1>1. ASSUME NEW new, Become(c, new), BatchOK(c, new, table', rid),
             \A d \in Conns : d # c =>
               \A id \in Held(conn[d]) : table'[id] = table[id] \/ table'[id] = None
      PROVE  BatchInv'
  <2> SUFFICES ASSUME NEW d \in Conns PROVE BatchOK(d, conn'[d], table', rid)
    BY <1>0 DEF BatchInv
  <2>1. conn'[c] = new /\ (d # c => conn'[d] = conn[d])
    BY <1>0, <1>1 DEF Become, MapTypes
  <2>2. CASE d = c
    BY <1>1, <2>1, <2>2
  <2>3. CASE d # c
    <3>1. BatchOK(d, conn[d], table, rid)
      BY <1>b DEF BatchInv
    <3>2. BatchOK(d, conn[d], table', rid)
      BY <1>1, <2>3, <3>1, BatchShrink
    <3> QED
      BY <2>1, <2>3, <3>2
  <2> QED
    BY <2>2, <2>3
<1>2. CASE Update(c)
  <2>1. /\ k.pc = "update" /\ UNCHANGED <<queue, rx>>
        /\ table' = [id \in Ids |-> IF id \in k.ids /\ table[id] # None
                                    THEN Updated(table[id], k.code, k.data[id])
                                    ELSE table[id]]
    BY <1>2 DEF Update, At, UpdateTable, InTable
  <2>2. /\ \A id \in Ids : id \notin k.ids => table'[id] = table[id]
        /\ \A id \in Ids : table[id] = None => table'[id] = None
        /\ \A id \in k.ids : table[id] # None =>
             table'[id] = Updated(table[id], k.code, k.data[id])
        /\ k.ids \subseteq Ids
    BY <1>0, <2>1 DEF Conn
  <2>3. \A id \in k.ids : /\ Waiting(table[id], StageOf[c]) /\ k.data[id] \in Data
                          /\ k.code = "Normal" => Answers(k, id, table[id])
    BY <1>0, <1>b, <2>1 DEF BatchOK, Shape
  <2>4. ASSUME NEW id \in k.ids
        PROVE  /\ TaskOK(rid, id, table'[id])
               /\ k.code = "Normal" => Forwarded(table'[id])
               /\ k.code # "Normal" => Finished(table'[id])
    <3>1. CASE table[id] = None
      BY <2>2, <3>1, NoTask
    <3>2. CASE table[id] # None
      <4>1. /\ table[id] \in Task /\ id \in Ids /\ TaskOK(rid, id, table[id])
            /\ k.code \in TaskCode
        BY <1>0, <1>b, <2>2, <3>2 DEF MapTypes, TableInv, Conn
      <4>2. k.code = "Normal" => k.data[id] = Processed(table[id].data, EncodeState(table[id]))
        BY <2>3, <3>2 DEF Answers
      <4>3. table'[id] = Updated(table[id], k.code, k.data[id])
        BY <2>2, <3>2
      <4> QED
        BY <2>3, <4>1, <4>2, <4>3, UpdateTask
    <3> QED
      BY <3>1, <3>2
  <2>5. TableInv'
    <3> SUFFICES ASSUME NEW id \in Ids PROVE TaskOK(rid, id, table'[id])
      BY <1>0 DEF TableInv
    <3> QED
      BY <1>b, <2>2, <2>4 DEF TableInv
  <2>6. /\ Batches[c] = k.ids
        /\ \A d \in Conns : Batches[d] = Held(conn[d])
    BY <2>1 DEF Batches, Held, Ended
  <2>7. QueueOK(queue, table)'
    <3> SUFFICES ASSUME NEW s \in Stages, NEW i \in 1 .. Len(queue[s])
                 PROVE  Waiting(table'[queue[s][i]], s)
      BY <2>1 DEF QueueOK
    <3>1. queue[s][i] \in Ids /\ Waiting(table[queue[s][i]], s) /\ queue[s][i] \in Elems(queue[s])
      BY <1>0, <1>b DEF QueueOK, Elems
    <3>2. queue[s][i] \notin k.ids
      BY <2>6, <3>1 DEF CustodyInv, Custody
    <3> QED
      BY <2>2, <3>1, <3>2
  <2>8. BatchInv'
    <3>1. ASSUME NEW d \in Conns, d # c, NEW id \in Held(conn[d])
          PROVE  table'[id] = table[id]
      <4>1. id \in Ids /\ id \in Batches[d]
        BY <1>0, <2>6, HeldIds
      <4>2. id \notin k.ids
        BY <2>6, <3>1, <4>1 DEF CustodyInv, Custody
      <4> QED
        BY <2>2, <4>1, <4>2
    <3> DEFINE abnormal == {id \in k.ids : InTable(id)}
               n1 == [k EXCEPT !.pc = "loop", !.mode = "forward", !.todo = k.ids]
               n2 == [k EXCEPT !.pc = "errs", !.mode = "abnormal",
                               !.ids = abnormal, !.todo = abnormal]
    <3>2. Become(c, IF k.code = "Normal" THEN n1 ELSE n2)
      BY <1>2 DEF Update
    <3>3. /\ n1.pc = "loop" /\ n1.mode = "forward" /\ n1.todo = k.ids
          /\ n2.pc = "errs" /\ n2.mode = "abnormal" /\ n2.code = k.code
          /\ n2.ids \subseteq k.ids
      BY <1>0 DEF Conn
    <3> HIDE DEF abnormal, n1, n2
    <3>4. k.code = "Normal" => BatchOK(c, n1, table', rid)
      BY <2>4, <3>3 DEF BatchOK, Sent, Visits, Left
    <3>5. k.code # "Normal" => BatchOK(c, n2, table', rid)
      BY <2>4, <3>3 DEF BatchOK, Sent, Visits
    <3> QED
      BY <1>1, <3>1, <3>2, <3>4, <3>5
  <2>9. RequestInv'
    <3> SUFFICES ASSUME NEW q \in Requests
                 PROVE  /\ hpc[q] = "enqueue" => table'[rid[q]] # None /\ table'[rid[q]].stage = 0
                        /\ rx[q] = "sent" \/ hpc[q] = "take" => Finished(table'[rid[q]])
      BY <1>0, <2>1 DEF RequestInv, InTable
    <3>1. ASSUME hpc[q] = "enqueue"
          PROVE  table'[rid[q]] # None /\ table'[rid[q]].stage = 0
      <4>1. rid[q] \in Ids /\ ~Placed(queue, Batches, rid[q])
        BY <1>c, <3>1 DEF CustodyInv
      <4>2. rid[q] \notin k.ids
        BY <2>6, <4>1 DEF Placed
      <4> QED
        BY <1>b, <2>2, <3>1, <4>1, <4>2 DEF RequestInv, InTable
    <3>2. ASSUME rx[q] = "sent" \/ hpc[q] = "take" PROVE Finished(table'[rid[q]])
      <4>1. rid[q] \in Ids /\ Finished(table[rid[q]])
        BY <1>b, <1>c, <3>2 DEF RequestInv
      <4>2. CASE table[rid[q]] = None
        BY <2>2, <4>1, <4>2, NoTask
      <4>3. CASE table[rid[q]] # None
        <5>1. table[rid[q]] \in Task
          BY <1>0, <4>1, <4>3 DEF MapTypes
        <5>2. rid[q] \notin k.ids
          BY <2>3, <4>1, <5>1, FinishedNotWaiting
        <5> QED
          BY <2>2, <4>1, <5>2
      <4> QED
        BY <4>2, <4>3
    <3> QED
      BY <3>1, <3>2
  <2> QED
    BY <1>a, <2>5, <2>7, <2>8, <2>9 DEF TaskInv
<1>3. ASSUME ~Update(c) PROVE TaskInv'
  <2>1. PICK new : Become(c, new) /\ BatchOK(c, new, table, rid)
    BY <1>3, ConnBatch
  <2>2. ASSUME table' = table, QueueOK(queue', table),
               \A q \in Requests : rx'[q] = "sent" => rx[q] = "sent" \/ Finished(table[rid[q]])
        PROVE  TaskInv'
    <3>1. BatchInv'
      BY <1>1, <2>1, <2>2
    <3>2. TableInv' /\ QueueOK(queue, table)'
      BY <1>0, <1>b, <2>2 DEF TableInv
    <3>3. RequestInv'
      BY <1>0, <1>b, <2>2 DEF RequestInv, InTable
    <3> QED
      BY <1>a, <3>1, <3>2, <3>3 DEF TaskInv
  <2>3. CASE RecvFirst(c) \/ RecvMore(c)
    <3>1. /\ table' = table /\ rx' = rx /\ queue[StageOf[c]] # << >> /\ StageOf[c] \in Stages
          /\ queue' = [queue EXCEPT ![StageOf[c]] = Tail(@)]
      BY <2>3, ConnsAssumption DEF RecvFirst, RecvMore
    <3>2. QueueOK(queue', table)
      BY <1>0, <1>b, <3>1, QueueTail
    <3> QED
      BY <2>2, <3>1, <3>2
  <2>4. CASE Push(c)
    <3>1. /\ table' = table /\ rx' = rx /\ k.dest \in Stages /\ k.cur \in Ids
          /\ queue' = [queue EXCEPT ![k.dest] = Append(@, k.cur)]
          /\ k.pc = "push"
      BY <1>0, <2>4 DEF Push, Enqueue, At, Shape
    <3>2. Waiting(table[k.cur], k.dest)
      BY <1>b, <3>1 DEF BatchOK
    <3>3. QueueOK(queue', table)
      BY <1>0, <1>b, <3>1, <3>2, QueueAppend
    <3> QED
      BY <2>2, <3>1, <3>3
  <2>5. CASE NotifySend(c)
    <3>1. /\ k.pc = "send" /\ table' = table /\ queue' = queue /\ k.snd \in Requests
          /\ rx' = rx \/ rx' = [rx EXCEPT ![k.snd] = "sent"]
      BY <1>0, <2>5 DEF NotifySend, At, Shape
    <3>2. rid[k.snd] = k.cur /\ Finished(table[k.cur])
      BY <1>b, <3>1 DEF MapsInv, NotifierInv, SenderOK, HasSender, BatchOK
    <3>3. \A q \in Requests : rx'[q] = "sent" => rx[q] = "sent" \/ q = k.snd
      BY <1>0, <3>1 DEF MapTypes
    <3> QED
      BY <1>b, <2>2, <3>1, <3>2, <3>3
  <2>6. CASE NotifyCleanup(c)
    <3>1. /\ k.pc = "cleanup" /\ k.cur \in Ids /\ UNCHANGED <<queue, rx>>
          /\ table' = [table EXCEPT ![k.cur] = None]
          /\ Become(c, [k EXCEPT !.pc = "loop", !.cur = None, !.snd = None])
      BY <1>0, <2>6 DEF NotifyCleanup, DropClosedTask, RemoveTask, At, Shape
    <3>2. \A id \in Ids : table'[id] = table[id] \/ table'[id] = None
      BY <1>0, <3>1 DEF MapTypes
    <3> DEFINE n == [k EXCEPT !.pc = "loop", !.cur = None, !.snd = None]
    <3>3. n.pc = "loop" /\ n.todo = k.todo /\ n.mode = k.mode /\ k.todo \subseteq Ids
      BY <1>0 DEF Conn
    <3> HIDE DEF n
    <3>4. BatchOK(c, n, table, rid)
      BY <1>b, <3>1, <3>3 DEF BatchOK, Sent, Visits, Left
    <3>5. Held(n) \subseteq Ids
      BY <3>3 DEF Held, Ended
    <3>6. BatchOK(c, n, table', rid)
      BY <3>2, <3>4, <3>5, BatchShrink
    <3>7. BatchInv'
      BY <1>0, <1>1, <3>1, <3>2, <3>6, HeldIds DEF n
    <3>8. TableInv'
      BY <1>0, <1>b, <3>2, NoTask DEF TableInv
    <3>9. QueueOK(queue, table)'
      <4> SUFFICES ASSUME NEW s \in Stages, NEW i \in 1 .. Len(queue[s])
                   PROVE  Waiting(table'[queue[s][i]], s)
        BY <3>1 DEF QueueOK
      <4>1. queue[s][i] \in Ids /\ Waiting(table[queue[s][i]], s)
        BY <1>0, <1>b DEF QueueOK
      <4>2. table'[queue[s][i]] = table[queue[s][i]] \/ table'[queue[s][i]] = None
        BY <3>2, <4>1
      <4> QED
        BY <4>1, <4>2, NoTask
    <3>10. RequestInv'
      <4> SUFFICES ASSUME NEW q \in Requests
                   PROVE  /\ hpc[q] = "enqueue" => table'[rid[q]] # None /\ table'[rid[q]].stage = 0
                          /\ rx[q] = "sent" \/ hpc[q] = "take" => Finished(table'[rid[q]])
        BY <1>0, <3>1 DEF RequestInv, InTable
      <4>1. hpc[q] = "enqueue" => table'[rid[q]] # None
        <5>1. WaitingIsTabled'
          BY ConnMaps DEF MapsInv
        <5> QED
          BY <1>0, <5>1 DEF WaitingIsTabled, InTable
      <4>2. hpc[q] = "enqueue" => table'[rid[q]] = table[rid[q]]
        BY <1>c, <3>2, <4>1
      <4>3. rx[q] = "sent" \/ hpc[q] = "take" => Finished(table'[rid[q]])
        BY <1>b, <1>c, <3>2, NoTask DEF RequestInv
      <4> QED
        BY <1>b, <4>1, <4>2, <4>3 DEF RequestInv
    <3> QED
      BY <1>a, <3>7, <3>8, <3>9, <3>10 DEF TaskInv
  <2>7. CASE UNCHANGED <<table, queue, rx>>
    BY <1>b, <2>2, <2>7
  <2>8. \/ RecvFirst(c) \/ RecvMore(c) \/ Push(c) \/ NotifySend(c) \/ NotifyCleanup(c)
        \/ UNCHANGED <<table, queue, rx>>
    BY <1>3 DEF ConnStep, WorkerStep, tmVars, Accept, BatchTimeout, Fetch, Write,
       ReadError, ReadErrorInLoop, EventLookup, EventSend, ErrNext, ErrSend, LoopNext,
       LoopEnd, NotifyTake, NotifyCheck, WorkerReply, WorkerEvent, WorkerCrash
  <2> QED
    BY <2>3, <2>4, <2>5, <2>6, <2>7, <2>8
<1> QED
  BY <1>2, <1>3

LEMMA NextTask ==
  ASSUME TypeInv, IdInv, CustodyInv, MapsInv, TaskInv, [Next]_vars
  PROVE  TaskInv'
<1>1. CASE Shutdown \/ UNCHANGED vars
  <2>1. UNCHANGED <<table, queue, rx, hpc, rid, resp, conn>>
    BY <1>1 DEF Shutdown, BeginShutdown, EndShutdown, routesVars, connVars, vars, tmVars
  <2> QED
    BY <2>1 DEF TaskInv, TableInv, BatchInv, RequestInv, OwnAnswer, InTable
<1> QED
  BY <1>1, RoutesTask, ConnTask DEF Next, Handler, Timer, Client, Connection, Worker

(* The full invariant of the tasks. *)
THEOREM TaskInvariant == Spec => []TaskInv
<1>1. TaskInv /\ (TypeInv /\ IdInv /\ CustodyInv) /\ MapsInv /\ [Next]_vars => TaskInv'
  BY NextTask
<1> QED
  BY <1>1, InitTask, CustodyInvariant, MapsInvariant, PTL DEF Spec

(* A request answered with 200 gets its own payload, processed by every    *)
(* stage of its route in order and encoded for its client, whatever other  *)
(* requests its batches held.                                              *)
THEOREM OwnAnswerHolds == Spec => []OwnAnswer
<1>1. TaskInv => OwnAnswer
  BY DEF TaskInv
<1> QED
  BY <1>1, TaskInvariant, PTL

(* A task waits in the queue of the stage it has to visit next, and a      *)
(* worker is handed only tasks that are at its stage of their route.       *)
THEOREM StageDisciplineHolds == Spec => []StageDiscipline
<1>1. TypeInv /\ TaskInv => StageDiscipline
  <2> SUFFICES ASSUME TypeInv, TaskInv PROVE StageDiscipline
    OBVIOUS
  <2>1. ASSUME NEW id, NEW s, Waiting(table[id], s), InTable(id) PROVE IsAt(id, s)
    BY <2>1 DEF Waiting, Depth, InTable, IsAt
  <2>2. \A s \in Stages : \A id \in Queued(s) : InTable(id) => IsAt(id, s)
    BY <2>1 DEF TaskInv, QueueOK, Queued
  <2>3. \A c \in Conns :
          conn[c].pc \in {"batch", "fetch", "write", "read", "event", "eventsend", "update"} =>
            \A id \in conn[c].ids : InTable(id) => IsAt(id, StageOf[c])
    BY <2>1 DEF TaskInv, BatchInv, BatchOK, Sent
  <2> QED
    BY <2>2, <2>3 DEF StageDiscipline
<1> QED
  BY <1>1, CustodyInvariant, TaskInvariant, PTL

(* What a worker is handed can be decoded: the ingress bit is set exactly  *)
(* for the payloads that clients encoded.                                  *)
THEOREM CodecMatchHolds == Spec => []CodecMatch
<1>1. TaskInv => CodecMatch
  BY DEF TaskInv, BatchInv, BatchOK, Sent, CodecMatch, Decodable, Carries
<1> QED
  BY <1>1, TaskInvariant, PTL

-----------------------------------------------------------------------------
(***************************************************************************)
(* Streams.                                                                *)
(***************************************************************************)

(* ev is a possible content of the stream of r: its events are r's, in the *)
(* order they were produced, later than seen and at most the last one.     *)
StreamOK(r, ev, seen, last) ==
  /\ seen <= last
  /\ \A i \in 1 .. Len(ev) : ev[i].code = "Normal" =>
       /\ ev[i].owner = r /\ seen < ev[i].n /\ ev[i].n <= last
       /\ \A j \in 1 .. Len(ev) : i < j /\ ev[j].code = "Normal" => ev[i].n < ev[j].n

LEMMA EventNumber ==
  ASSUME NEW ev \in Seq(Event)
  PROVE  \A i \in 1 .. Len(ev) : ev[i].n \in Nat
<1>1. \A i \in 1 .. Len(ev) : ev[i] \in Event
  OBVIOUS
<1>2. \A e \in Event : e.n \in Nat
  BY DEF Event
<1> QED
  BY <1>1, <1>2

LEMMA StreamWiden ==
  ASSUME NEW r, NEW ev \in Seq(Event), NEW seen \in Nat, NEW m \in Int, NEW n \in Int,
         m <= n, StreamOK(r, ev, seen, m)
  PROVE  StreamOK(r, ev, seen, n)
<1>1. \A i \in 1 .. Len(ev) : ev[i].n \in Nat
  BY EventNumber
<1> QED
  BY <1>1 DEF StreamOK

LEMMA StreamEmpty ==
  ASSUME NEW r, NEW ev \in Seq(Event), NEW seen \in Nat, NEW m \in Int, StreamOK(r, ev, seen, m)
  PROVE  StreamOK(r, << >>, seen, m)
BY DEF StreamOK

LEMMA StreamAppend ==
  ASSUME NEW r, NEW ev \in Seq(Event), NEW seen \in Nat, NEW m \in Int, NEW e \in Event
  PROVE  /\ StreamOK(r, ev, seen, m - 1) /\ e.owner = r /\ e.n = m =>
              StreamOK(r, Append(ev, e), seen, m)
         /\ StreamOK(r, ev, seen, m) /\ e.code # "Normal" => StreamOK(r, Append(ev, e), seen, m)
<1> DEFINE ap == Append(ev, e)
<1>1. /\ Len(ap) = Len(ev) + 1 /\ Len(ev) \in Nat
      /\ \A i \in 1 .. Len(ev) : ap[i] = ev[i] /\ ev[i].n \in Nat
      /\ ap[Len(ev) + 1] = e
  BY EventNumber
<1> HIDE DEF ap
<1>2. \A i \in 1 .. Len(ap) : i \in 1 .. Len(ev) \/ i = Len(ev) + 1
  BY <1>1
<1>3. ASSUME StreamOK(r, ev, seen, m - 1), e.owner = r, e.n = m
      PROVE  StreamOK(r, ap, seen, m)
  <2>1. seen <= m /\ seen < m
    BY <1>3 DEF StreamOK
  <2>2. ASSUME NEW i \in 1 .. Len(ap), ap[i].code = "Normal"
        PROVE  ap[i].owner = r /\ seen < ap[i].n /\ ap[i].n <= m
    <3>1. CASE i \in 1 .. Len(ev)
      <4>1. ap[i] = ev[i] /\ ev[i].n \in Nat /\ ev[i].owner = r /\ seen < ev[i].n /\ ev[i].n <= m - 1
        BY <1>1, <1>3, <2>2, <3>1 DEF StreamOK
      <4> QED
        BY <4>1
    <3>2. CASE i = Len(ev) + 1
      BY <1>1, <1>3, <2>1, <3>2
    <3> QED
      BY <1>2, <3>1, <3>2
  <2>3. ASSUME NEW i \in 1 .. Len(ap), NEW j \in 1 .. Len(ap), i < j,
               ap[i].code = "Normal", ap[j].code = "Normal"
        PROVE  ap[i].n < ap[j].n
    <3>1. i \in 1 .. Len(ev)
      BY <1>1, <2>3
    <3>2. ap[i] = ev[i] /\ ev[i].n \in Nat /\ ev[i].n <= m - 1
      BY <1>1, <1>3, <2>3, <3>1 DEF StreamOK
    <3>3. CASE j \in 1 .. Len(ev)
      BY <1>1, <1>3, <2>3, <3>1, <3>3 DEF StreamOK
    <3>4. CASE j = Len(ev) + 1
      BY <1>1, <1>3, <3>2, <3>4
    <3> QED
      BY <1>2, <3>3, <3>4
  <2> QED
    BY <2>1, <2>2, <2>3 DEF StreamOK
<1>4. ASSUME StreamOK(r, ev, seen, m), e.code # "Normal"
      PROVE  StreamOK(r, ap, seen, m)
  <2>1. \A i \in 1 .. Len(ap) : ap[i].code = "Normal" => i \in 1 .. Len(ev) /\ ap[i] = ev[i]
    BY <1>1, <1>2, <1>4
  <2> QED
    BY <1>4, <2>1 DEF StreamOK
<1> QED
  BY <1>3, <1>4 DEF ap

LEMMA StreamTail ==
  ASSUME NEW r, NEW ev \in Seq(Event), NEW seen \in Nat, NEW m \in Int, ev # << >>,
         StreamOK(r, ev, seen, m)
  PROVE  StreamOK(r, Tail(ev), IF Head(ev).code = "Normal" THEN Head(ev).n ELSE seen, m)
<1> DEFINE tl == Tail(ev)
           now == IF Head(ev).code = "Normal" THEN Head(ev).n ELSE seen
<1>1. /\ Len(ev) \in Nat \ {0} /\ Len(tl) = Len(ev) - 1
      /\ \A i \in 1 .. Len(tl) : tl[i] = ev[i + 1]
      /\ Head(ev) = ev[1]
  OBVIOUS
<1>2. \A i \in 1 .. Len(ev) : ev[i].n \in Nat
  BY EventNumber
<1> HIDE DEF tl
<1>3. /\ \A i \in 1 .. Len(tl) : i + 1 \in 1 .. Len(ev) /\ 1 < i + 1
      /\ 1 \in 1 .. Len(ev)
  BY <1>1
<1>4. now <= m
  BY <1>1, <1>2, <1>3 DEF StreamOK
<1>5. ASSUME NEW i \in 1 .. Len(tl), tl[i].code = "Normal"
      PROVE  tl[i].owner = r /\ now < tl[i].n /\ tl[i].n <= m
  <2>1. tl[i] = ev[i + 1] /\ i + 1 \in 1 .. Len(ev) /\ ev[i + 1].code = "Normal"
    BY <1>1, <1>3, <1>5
  <2>2. ev[i + 1].owner = r /\ seen < ev[i + 1].n /\ ev[i + 1].n <= m
    BY <2>1 DEF StreamOK
  <2>3. ev[1].code = "Normal" => ev[1].n < ev[i + 1].n
    BY <1>3, <2>1 DEF StreamOK
  <2> QED
    BY <1>1, <2>1, <2>2, <2>3
<1>6. ASSUME NEW i \in 1 .. Len(tl), NEW j \in 1 .. Len(tl), i < j,
             tl[i].code = "Normal", tl[j].code = "Normal"
      PROVE  tl[i].n < tl[j].n
  <2>1. /\ tl[i] = ev[i + 1] /\ i + 1 \in 1 .. Len(ev)
        /\ tl[j] = ev[j + 1] /\ j + 1 \in 1 .. Len(ev) /\ i + 1 < j + 1
    BY <1>1, <1>3, <1>6
  <2> QED
    BY <1>6, <2>1 DEF StreamOK
<1> QED
  BY <1>4, <1>5, <1>6 DEF StreamOK, tl

(* The request whose event connection c passes on. *)
EventOwner(k) == k.data[k.cur].owner

(* Of the events produced, the last one may still be with a connection     *)
(* task: then it is neither in the stream nor read.                        *)
StreamInv ==
  /\ \A r \in Requests : StreamOK(r, stream[r].events, last_seen[r], emitted[r])
  /\ \A c \in Conns : conn[c].pc \in Streaming =>
       LET r == EventOwner(conn[c])
       IN StreamOK(r, stream[r].events, last_seen[r], emitted[r] - 1)
  /\ \A c \in Conns : conn[c].pc = "eventsend" => rid[conn[c].snd] = conn[c].cur

StreamTypes ==
  /\ MapTypes
  /\ stream \in [Requests -> [open : BOOLEAN, events : Seq(Event)]]
  /\ last_seen \in [Requests -> Nat]
  /\ emitted \in [Requests -> Nat]
  /\ \A c \in Conns : conn[c].pc \in Streaming =>
       /\ conn[c].cur \in Ids /\ conn[c].cur \in Held(conn[c])
       /\ EventOwner(conn[c]) \in Requests /\ rid[EventOwner(conn[c])] = conn[c].cur
  /\ \A c \in Conns : conn[c].pc \in {"eventsend", "errsend"} => conn[c].snd \in Requests

LEMMA StreamsTyped ==
  ASSUME TypeInv, TaskInv
  PROVE  StreamTypes
<1>1. ASSUME NEW c \in Conns, conn[c].pc \in Streaming
      PROVE  /\ conn[c].cur \in Ids /\ conn[c].cur \in Held(conn[c])
             /\ EventOwner(conn[c]) \in Requests /\ rid[EventOwner(conn[c])] = conn[c].cur
  <2>1. BatchOK(c, conn[c], table, rid) /\ Shape(conn[c])
    BY DEF TypeInv, TaskInv, BatchInv
  <2>2. conn[c].cur \in conn[c].ids /\ Carries(rid, conn[c], conn[c].cur) /\ conn[c].cur \in Ids
    BY <1>1, <2>1 DEF BatchOK, Shape, Streaming, Sent
  <2>3. Held(conn[c]) = conn[c].ids
    BY <1>1 DEF Held, Streaming, Ended
  <2> QED
    BY <2>2, <2>3 DEF Carries, EventOwner
<1>2. ASSUME NEW c \in Conns, conn[c].pc \in {"eventsend", "errsend"}
      PROVE  conn[c].snd \in Requests
  BY <1>2 DEF TypeInv, Shape
<1> QED
  BY <1>1, <1>2, MapsTyped DEF StreamTypes, TypeInv, TypeOK, TMTypeOK, RoutesTypeOK,
     ControllerTypeOK

(* A step that leaves the streams alone. *)
LEMMA StreamQuiet ==
  ASSUME StreamTypes, StreamInv, UNCHANGED <<stream, last_seen, emitted>>,
         \A q \in Requests : rid[q] # None => rid'[q] = rid[q],
         \A c \in Conns : \/ conn'[c].pc \notin Streaming
                          \/ /\ conn'[c].pc = conn[c].pc
                             /\ conn'[c].cur = conn[c].cur
                             /\ conn'[c].snd = conn[c].snd
                             /\ conn'[c].data = conn[c].data
  PROVE  StreamInv'
<1>1. \A c \in Conns : conn'[c].pc \in Streaming =>
        LET r == EventOwner(conn'[c])
        IN StreamOK(r, stream[r].events, last_seen[r], emitted[r] - 1)
  BY DEF StreamInv, EventOwner
<1>2. \A c \in Conns : conn'[c].pc = "eventsend" => rid'[conn'[c].snd] = conn'[c].cur
  <2> SUFFICES ASSUME NEW c \in Conns, conn'[c].pc = "eventsend"
               PROVE  rid'[conn'[c].snd] = conn'[c].cur
    OBVIOUS
  <2>1. /\ conn[c].pc = "eventsend" /\ conn'[c].cur = conn[c].cur /\ conn'[c].snd = conn[c].snd
        /\ conn[c].pc \in Streaming
    BY DEF Streaming
  <2>2. conn[c].snd \in Requests /\ rid[conn[c].snd] = conn[c].cur /\ conn[c].cur \in Ids
    BY <2>1 DEF StreamInv, StreamTypes
  <2>3. rid[conn[c].snd] # None
    BY <2>2
  <2> QED
    BY <2>1, <2>2, <2>3
<1>3. \A r \in Requests : StreamOK(r, stream[r].events, last_seen[r], emitted[r])
  BY DEF StreamInv
<1> QED
  BY <1>1, <1>2, <1>3 DEF StreamInv, EventOwner

(* A step that changes one stream, or what its client has read. *)
LEMMA StreamMove ==
  ASSUME StreamTypes, StreamInv, NEW r \in Requests, UNCHANGED <<rid, emitted>>,
         \A q \in Requests : q # r => stream'[q] = stream[q] /\ last_seen'[q] = last_seen[q],
         StreamOK(r, stream'[r].events, last_seen'[r], emitted[r]),
         \A c \in Conns : \/ conn'[c].pc \notin Streaming
                          \/ /\ conn'[c] = conn[c]
                             /\ EventOwner(conn[c]) = r =>
                                  StreamOK(r, stream'[r].events, last_seen'[r], emitted[r] - 1)
  PROVE  StreamInv'
<1>1. \A q \in Requests : StreamOK(q, stream'[q].events, last_seen'[q], emitted[q])
  BY DEF StreamInv
<1>2. ASSUME NEW c \in Conns, conn'[c].pc \in Streaming
      PROVE  LET q == EventOwner(conn'[c])
             IN StreamOK(q, stream'[q].events, last_seen'[q], emitted[q] - 1)
  <2>1. conn'[c] = conn[c] /\ EventOwner(conn[c]) \in Requests
    BY <1>2 DEF StreamTypes
  <2>2. CASE EventOwner(conn[c]) = r
    BY <1>2, <2>1, <2>2
  <2>3. CASE EventOwner(conn[c]) # r
    BY <1>2, <2>1, <2>3 DEF StreamInv
  <2> QED
    BY <2>2, <2>3
<1>3. \A c \in Conns : conn'[c].pc = "eventsend" => rid[conn'[c].snd] = conn'[c].cur
  BY DEF StreamInv, Streaming
<1> QED
  BY <1>1, <1>2, <1>3 DEF StreamInv, EventOwner

LEMMA RoutesStream ==
  ASSUME TypeInv, IdInv, TaskInv, StreamInv, NEW r \in Requests,
         HandlerStep(r) \/ Timeout(r) \/ ClientStep(r), UNCHANGED connVars
  PROVE  StreamInv'
<1>0. StreamTypes /\ conn' = conn /\ emitted' = emitted
  BY StreamsTyped DEF connVars
<1>1. CASE /\ UNCHANGED <<stream, last_seen>>
           /\ \A q \in Requests : rid[q] # None => rid'[q] = rid[q]
  BY <1>0, <1>1, StreamQuiet
<1>2. CASE Submit(r)
  <2>1. UNCHANGED <<stream, last_seen>> /\ rid[r] = None /\ rid' = [rid EXCEPT ![r] = current_id]
    BY <1>2, NoWrap DEF Submit
  <2>2. rid \in [Requests -> Ids \cup {None}]
    BY <1>0 DEF StreamTypes, MapTypes
  <2>3. \A q \in Requests : rid[q] # None => rid'[q] = rid[q]
    BY <2>1, <2>2
  <2> QED
    BY <1>1, <2>1, <2>3
<1>3. CASE ReadEvent(r)
  <2> DEFINE ev == stream[r].events
             now == IF Head(ev).code = "Normal" THEN Head(ev).n ELSE last_seen[r]
  <2>1. /\ ev # << >> /\ rid' = rid
        /\ last_seen' = [last_seen EXCEPT ![r] = IF Head(ev).code = "Normal"
                                                 THEN Head(ev).n ELSE @]
        /\ stream' = [stream EXCEPT ![r].events = Tail(@)]
    BY <1>3 DEF ReadEvent
  <2>2. /\ ev \in Seq(Event) /\ last_seen[r] \in Nat /\ emitted[r] \in Nat
    BY <1>0 DEF StreamTypes
  <2>3. /\ last_seen'[r] = now /\ stream'[r].events = Tail(ev)
        /\ \A q \in Requests : q # r => stream'[q] = stream[q] /\ last_seen'[q] = last_seen[q]
    BY <1>0, <2>1 DEF StreamTypes
  <2> HIDE DEF ev
  <2>4. StreamOK(r, ev, last_seen[r], emitted[r])
    BY DEF StreamInv, ev
  <2>5. StreamOK(r, Tail(ev), now, emitted[r])
    BY <2>1, <2>2, <2>4, StreamTail
  <2>6. ASSUME StreamOK(r, ev, last_seen[r], emitted[r] - 1)
        PROVE  StreamOK(r, Tail(ev), now, emitted[r] - 1)
    <3>1. emitted[r] - 1 \in Int
      BY <2>2
    <3> QED
      BY <2>1, <2>2, <2>6, <3>1, StreamTail
  <2> HIDE DEF now
  <2>7. ASSUME NEW c \in Conns, conn[c].pc \in Streaming, EventOwner(conn[c]) = r
        PROVE  StreamOK(r, Tail(ev), now, emitted[r] - 1)
    BY <2>6, <2>7 DEF StreamInv, ev
  <2> QED
    BY <1>0, <2>1, <2>3, <2>5, <2>7, StreamMove
<1>4. CASE Disconnect(r)
  <2>1. CASE stream' = stream
    BY <1>1, <1>4, <2>1 DEF Disconnect
  <2>2. CASE stream' = [stream EXCEPT ![r] = [open |-> FALSE, events |-> << >>]]
    <3>1. /\ rid' = rid /\ last_seen' = last_seen
          /\ stream'[r].events = << >>
          /\ \A q \in Requests : q # r => stream'[q] = stream[q]
      BY <1>0, <1>4, <2>2 DEF Disconnect, StreamTypes
    <3>2. /\ stream[r].events \in Seq(Event) /\ last_seen[r] \in Nat
          /\ emitted[r] \in Int /\ emitted[r] - 1 \in Int
      BY <1>0 DEF StreamTypes
    <3>3. StreamOK(r, << >>, last_seen[r], emitted[r])
      BY <3>2, StreamEmpty DEF StreamInv
    <3>4. ASSUME NEW c \in Conns, conn[c].pc \in Streaming, EventOwner(conn[c]) = r
          PROVE  StreamOK(r, << >>, last_seen[r], emitted[r] - 1)
      <4>1. StreamOK(r, stream[r].events, last_seen[r], emitted[r] - 1)
        BY <3>4 DEF StreamInv
      <4> QED
        BY <3>2, <4>1, StreamEmpty
    <3> QED
      BY <1>0, <3>1, <3>3, <3>4, StreamMove
  <2> QED
    BY <1>4, <2>1, <2>2 DEF Disconnect
<1>5. CASE ~Submit(r) /\ ~ReadEvent(r) /\ ~Disconnect(r)
  <2>1. UNCHANGED <<stream, last_seen, rid>>
    BY <1>5 DEF HandlerStep, ClientStep, Timeout, TrySend, RegisterStream, Notified,
       TakeTask, DeleteNotifier, DeleteTask, DeleteStream, Arrive, ReadBody, tmVars
  <2> QED
    BY <1>1, <2>1
<1> QED
  BY <1>2, <1>3, <1>4, <1>5

LEMMA InitStream == Init => StreamInv
<1> SUFFICES ASSUME Init PROVE StreamInv
  OBVIOUS
<1>1. \A c \in Conns : conn[c].pc = "down"
  BY DEF Init, ControllerInit, Fresh
<1>2. \A r \in Requests : stream[r].events = << >> /\ last_seen[r] = 0 /\ emitted[r] = 0
  BY DEF Init, TMInit, RoutesInit, ControllerInit
<1> QED
  BY <1>1, <1>2 DEF StreamInv, StreamOK, Streaming

(* An event, or an error, reaches the stream of r. *)
LEMMA DeliverStream ==
  ASSUME StreamTypes, StreamInv, NEW r \in Requests, NEW e \in Event, Deliver(r, e),
         UNCHANGED <<rid, emitted, last_seen>>,
         \/ e.code # "Normal"
         \/ /\ StreamOK(r, stream[r].events, last_seen[r], emitted[r] - 1)
            /\ e.owner = r /\ e.n = emitted[r],
         \A c \in Conns : \/ conn'[c].pc \notin Streaming
                          \/ /\ conn'[c] = conn[c]
                             /\ e.code # "Normal" \/ EventOwner(conn[c]) # r
  PROVE  StreamInv'
<1> DEFINE ev == stream[r].events
<1>1. ev \in Seq(Event) /\ last_seen[r] \in Nat /\ emitted[r] \in Int /\ emitted[r] - 1 \in Int
  BY DEF StreamTypes
<1>2. /\ stream'[r].events \in {ev, Append(ev, e)}
      /\ \A q \in Requests : q # r => stream'[q] = stream[q]
  BY DEF Deliver, StreamTypes
<1>3. StreamOK(r, ev, last_seen[r], emitted[r])
  BY DEF StreamInv
<1> HIDE DEF ev
<1>4. StreamOK(r, Append(ev, e), last_seen[r], emitted[r])
  BY <1>1, <1>3, StreamAppend DEF ev
<1>5. ASSUME NEW c \in Conns, conn[c].pc \in Streaming, EventOwner(conn[c]) = r,
             e.code # "Normal"
      PROVE  StreamOK(r, stream'[r].events, last_seen[r], emitted[r] - 1)
  <2>1. StreamOK(r, ev, last_seen[r], emitted[r] - 1)
    BY <1>5 DEF StreamInv, ev
  <2>2. StreamOK(r, Append(ev, e), last_seen[r], emitted[r] - 1)
    BY <1>1, <1>5, <2>1, StreamAppend
  <2> QED
    BY <1>2, <2>1, <2>2
<1>6. StreamOK(r, stream'[r].events, last_seen[r], emitted[r])
  BY <1>2, <1>3, <1>4
<1> QED
  BY <1>2, <1>5, <1>6, StreamMove

LEMMA ConnStream ==
  ASSUME TypeInv, IdInv, CustodyInv, MapsInv, TaskInv, StreamInv, NEW c \in Conns,
         ConnStep(c) \/ WorkerStep(c), UNCHANGED routesVars
  PROVE  StreamInv'
<1> DEFINE k == conn[c]
<1>0. /\ StreamTypes /\ MapTypes /\ k \in Conn /\ rid' = rid /\ last_seen' = last_seen
      /\ conn \in [Conns -> Conn]
  BY StreamsTyped DEF StreamTypes, MapTypes, routesVars
<1>1. ASSUME UNCHANGED <<stream, emitted>>, \A d \in Conns : d # c => conn'[d] = conn[d],
             \/ conn'[c].pc \notin Streaming
             \/ /\ conn'[c].pc = k.pc /\ conn'[c].cur = k.cur
                /\ conn'[c].snd = k.snd /\ conn'[c].data = k.data
      PROVE  StreamInv'
  BY <1>0, <1>1, StreamQuiet
<1>2. CASE WorkerEvent(c)
  <2>1. PICK id \in k.ids :
          LET owner == k.data[id].owner
          IN /\ owner \in Requests
             /\ emitted' = [emitted EXCEPT ![owner] = @ + 1]
             /\ Become(c, [k EXCEPT !.pc = "event", !.code = "StreamEvent",
                                    !.streamed = TRUE, !.cur = id])
    BY <1>2 DEF WorkerEvent
  <2> DEFINE o == k.data[id].owner
  <2>2. o \in Requests /\ stream' = stream /\ emitted' = [emitted EXCEPT ![o] = @ + 1]
    BY <1>2, <2>1 DEF WorkerEvent, tmVars
  <2>3. /\ conn'[c].pc = "event" /\ conn'[c].cur = id /\ conn'[c].data = k.data
        /\ \A d \in Conns : d # c => conn'[d] = conn[d]
    BY <1>0, <2>1 DEF Become, Conn
  <2>4. EventOwner(conn'[c]) = o
    BY <2>3 DEF EventOwner
  <2> HIDE DEF o
  <2>5. /\ emitted'[o] = emitted[o] + 1
        /\ \A q \in Requests : emitted[q] \in Nat /\ emitted'[q] \in Nat /\ emitted[q] <= emitted'[q]
    BY <1>0, <2>2 DEF StreamTypes
  <2>6. \A q \in Requests : stream[q].events \in Seq(Event) /\ last_seen[q] \in Nat
    BY <1>0 DEF StreamTypes
  <2>7. ASSUME NEW q \in Requests
        PROVE  StreamOK(q, stream[q].events, last_seen[q], emitted'[q])
    BY <2>5, <2>6, StreamWiden DEF StreamInv
  <2>8. ASSUME NEW d \in Conns, conn'[d].pc \in Streaming
        PROVE  LET q == EventOwner(conn'[d])
               IN StreamOK(q, stream[q].events, last_seen[q], emitted'[q] - 1)
    <3>1. CASE d = c
      BY <2>2, <2>4, <2>5, <3>1 DEF StreamInv
    <3>2. CASE d # c
      <4>1. conn'[d] = conn[d] /\ EventOwner(conn[d]) \in Requests
        BY <1>0, <2>3, <2>8, <3>2 DEF StreamTypes
      <4> DEFINE q == EventOwner(conn[d])
      <4>2. StreamOK(q, stream[q].events, last_seen[q], emitted[q] - 1)
        BY <2>8, <4>1 DEF StreamInv
      <4>3. emitted[q] - 1 \in Int /\ emitted'[q] - 1 \in Int /\ emitted[q] - 1 <= emitted'[q] - 1
        BY <2>5, <4>1
      <4>4. stream[q].events \in Seq(Event) /\ last_seen[q] \in Nat
        BY <2>6, <4>1
      <4> HIDE DEF q
      <4>5. StreamOK(q, stream[q].events, last_seen[q], emitted'[q] - 1)
        BY <4>2, <4>3, <4>4, StreamWiden
      <4> QED
        BY <4>1, <4>5 DEF q
    <3> QED
      BY <3>1, <3>2
  <2>9. \A d \in Conns : conn'[d].pc = "eventsend" => rid[conn'[d].snd] = conn'[d].cur
    BY <2>3 DEF StreamInv
  <2> QED
    BY <1>0, <2>2, <2>7, <2>8, <2>9 DEF StreamInv, EventOwner
<1>3. CASE EventLookup(c)
  <2> DEFINE s == stream_senders[k.cur]
  <2>1. /\ k.pc = "event" /\ UNCHANGED <<stream, emitted>>
        /\ Become(c, [k EXCEPT !.pc = IF s = None THEN "read" ELSE "eventsend", !.snd = s])
    BY <1>3 DEF EventLookup, At, tmVars
  <2>2. k.cur \in Ids /\ (s = None \/ (s \in Requests /\ rid[s] = k.cur))
    BY <1>0, <2>1 DEF StreamTypes, Streaming, MapTypes, MapsInv, StreamerInv
  <2> HIDE DEF s
  <2>3. /\ conn'[c].pc = (IF s = None THEN "read" ELSE "eventsend") /\ conn'[c].snd = s
        /\ conn'[c].data = k.data /\ conn'[c].cur = k.cur
        /\ \A d \in Conns : d # c => conn'[d] = conn[d]
    BY <1>0, <2>1 DEF Become, Conn
  <2>4. CASE s = None
    BY <1>1, <2>1, <2>3, <2>4 DEF Streaming
  <2>5. CASE s # None
    <3>1. \A d \in Conns : conn'[d].pc = "eventsend" => rid[conn'[d].snd] = conn'[d].cur
      BY <2>2, <2>3, <2>5 DEF StreamInv
    <3>2. EventOwner(conn'[c]) = EventOwner(k) /\ k.pc \in Streaming
      BY <2>1, <2>3 DEF EventOwner, Streaming
    <3>3. \A d \in Conns : conn'[d].pc \in Streaming =>
            conn[d].pc \in Streaming /\ EventOwner(conn'[d]) = EventOwner(conn[d])
      BY <2>3, <3>2
    <3>4. \A d \in Conns : conn'[d].pc \in Streaming =>
            LET q == EventOwner(conn'[d])
            IN StreamOK(q, stream[q].events, last_seen[q], emitted[q] - 1)
      BY <3>3 DEF StreamInv
    <3>5. \A q \in Requests : StreamOK(q, stream[q].events, last_seen[q], emitted[q])
      BY DEF StreamInv
    <3> QED
      BY <1>0, <2>1, <3>1, <3>4, <3>5 DEF StreamInv, EventOwner
  <2> QED
    BY <2>4, <2>5
<1>4. CASE EventSend(c)
  <2> DEFINE o == EventOwner(k)
             e == [owner |-> o, n |-> emitted[o], code |-> "Normal"]
  <2>1. k.pc = "eventsend" /\ k.pc \in Streaming /\ emitted' = emitted /\ Deliver(k.snd, e)
    BY <1>4 DEF EventSend, At, Streaming, EventOwner
  <2>2. /\ conn'[c].pc = "read"
        /\ \A d \in Conns : d # c => conn'[d] = conn[d]
    BY <1>0, <1>4 DEF EventSend, Become, Conn
  <2>3. /\ k.snd \in Requests /\ o \in Requests /\ k.cur \in Ids /\ k.cur \in Held(k)
        /\ rid[k.snd] = k.cur /\ rid[o] = k.cur
    BY <1>0, <2>1 DEF StreamTypes, StreamInv
  <2>4. k.snd = o
    BY <2>3 DEF IdInv
  <2>5. e \in Event /\ e.owner = o /\ e.n = emitted[o]
    BY <1>0, <2>3 DEF StreamTypes, Event, TaskCode
  <2>6. StreamOK(o, stream[o].events, last_seen[o], emitted[o] - 1)
    BY <2>1 DEF StreamInv
  <2>7. ASSUME NEW d \in Conns, conn'[d].pc \in Streaming
        PROVE  conn'[d] = conn[d] /\ EventOwner(conn[d]) # o
    <3>1. d # c /\ conn'[d] = conn[d]
      BY <2>2, <2>7 DEF Streaming
    <3>2. conn[d].cur \in Held(conn[d]) /\ rid[EventOwner(conn[d])] = conn[d].cur
      BY <1>0, <2>7, <3>1 DEF StreamTypes
    <3>3. conn[d].cur # k.cur
      BY <2>3, <3>1, <3>2 DEF CustodyInv, Custody, Batches
    <3> QED
      BY <2>3, <3>1, <3>2, <3>3
  <2> HIDE DEF o, e
  <2> QED
    BY <1>0, <2>1, <2>3, <2>4, <2>5, <2>6, <2>7, DeliverStream
<1>5. CASE ErrSend(c)
  <2> DEFINE e == [owner |-> None, n |-> 0, code |-> k.code]
  <2>1. k.pc = "errsend" /\ emitted' = emitted /\ Deliver(k.snd, e)
    BY <1>5 DEF ErrSend, At
  <2>2. /\ conn'[c].pc = "errs"
        /\ \A d \in Conns : d # c => conn'[d] = conn[d]
    BY <1>0, <1>5 DEF ErrSend, Become, Conn
  <2>3. BatchOK(c, k, table, rid)
    BY DEF TaskInv, BatchInv
  <2>4. k.code # "Normal" /\ k.snd \in Requests
    BY <1>0, <2>1, <2>3 DEF BatchOK, StreamTypes
  <2>5. e \in Event /\ e.code # "Normal"
    BY <1>0, <2>4 DEF Conn, Event
  <2>6. \A d \in Conns : conn'[d].pc \notin Streaming \/ conn'[d] = conn[d]
    BY <2>2 DEF Streaming
  <2> HIDE DEF e
  <2> QED
    BY <1>0, <2>1, <2>4, <2>5, <2>6, DeliverStream
<1>6. CASE ~WorkerEvent(c) /\ ~EventLookup(c) /\ ~EventSend(c) /\ ~ErrSend(c)
  <2>1. UNCHANGED <<stream, emitted>>
    <3>1. CASE \/ Accept(c) \/ BatchTimeout(c) \/ Fetch(c) \/ Write(c) \/ ReadError(c)
               \/ ReadErrorInLoop(c) \/ ErrNext(c) \/ LoopNext(c) \/ LoopEnd(c)
               \/ NotifyCheck(c) \/ WorkerReply(c) \/ WorkerCrash(c)
      BY <3>1 DEF tmVars, Accept, BatchTimeout, Fetch, Write, ReadError, ReadErrorInLoop,
         ErrNext, LoopNext, LoopEnd, NotifyCheck, WorkerReply, WorkerCrash
    <3>2. CASE \/ RecvFirst(c) \/ RecvMore(c) \/ Update(c) \/ Push(c) \/ NotifyTake(c)
               \/ NotifySend(c) \/ NotifyCleanup(c)
      BY <3>2 DEF RecvFirst, RecvMore, Update, Push, NotifyTake, NotifySend, NotifyCleanup
    <3> QED
      BY <1>6, <3>1, <3>2 DEF ConnStep, WorkerStep
  <2>2. CASE Notify(c)
    <3>1. /\ \A d \in Conns : d # c => conn'[d] = conn[d]
          /\ conn'[c].pc \notin Streaming
      <4>1. \E new : Become(c, new) /\ new.pc \notin Streaming
        <5>1. /\ [k EXCEPT !.pc = "loop", !.cur = None].pc = "loop"
              /\ [k EXCEPT !.pc = "loop", !.cur = None, !.snd = None].pc = "loop"
              /\ Fresh("panicked", FALSE).pc = "panicked"
              /\ \A pc : [k EXCEPT !.pc = pc].pc = pc
              /\ \A r : [k EXCEPT !.pc = "check", !.snd = r].pc = "check"
          BY <1>0 DEF Conn, Fresh
        <5>2. CASE NotifyTake(c)
          BY <5>1, <5>2 DEF NotifyTake, Streaming
        <5>3. CASE NotifyCheck(c)
          <6>1. PICK pc \in {"cleanup", "send"} : Become(c, [k EXCEPT !.pc = pc])
            BY <5>3 DEF NotifyCheck, GotoC
          <6> QED
            BY <5>1, <6>1 DEF Streaming
        <5>4. CASE NotifySend(c) \/ NotifyCleanup(c)
          BY <5>1, <5>4 DEF NotifySend, NotifyCleanup, Streaming
        <5> QED
          BY <2>2, <5>2, <5>3, <5>4 DEF Notify
      <4> QED
        BY <1>0, <4>1 DEF Become
    <3> QED
      BY <1>1, <2>1, <3>1
  <2>3. CASE WorkerCrash(c)
    BY <1>0, <1>1, <2>1, <2>3 DEF WorkerCrash, Become, Conn
  <2>4. CASE ~Notify(c) /\ ~WorkerCrash(c)
    BY <1>1, <1>6, <2>1, <2>4, ConnQuiet
  <2> QED
    BY <2>2, <2>3, <2>4
<1> QED
  BY <1>2, <1>3, <1>4, <1>5, <1>6

LEMMA NextStream ==
  ASSUME TypeInv, IdInv, CustodyInv, MapsInv, TaskInv, StreamInv, [Next]_vars
  PROVE  StreamInv'
<1>1. CASE Shutdown \/ UNCHANGED vars
  <2>1. UNCHANGED <<stream, last_seen, emitted, rid, conn>>
    BY <1>1 DEF Shutdown, BeginShutdown, EndShutdown, routesVars, connVars, vars, tmVars
  <2> QED
    BY <2>1 DEF StreamInv, EventOwner
<1> QED
  BY <1>1, RoutesStream, ConnStream DEF Next, Handler, Timer, Client, Connection, Worker

(* The full invariant of the streams. *)
THEOREM StreamInvariant == Spec => []StreamInv
<1>1. /\ StreamInv /\ (TypeInv /\ IdInv /\ CustodyInv) /\ MapsInv /\ TaskInv /\ [Next]_vars
      => StreamInv'
  BY NextStream
<1> QED
  BY <1>1, InitStream, CustodyInvariant, MapsInvariant, TaskInvariant, PTL DEF Spec

(* A stream carries the events of its own request only, each later than    *)
(* the ones before it and than those its client has read, although the     *)
(* sender is looked up before the channel has room and other tasks of the  *)
(* batch stream through the same connection.                               *)
THEOREM StreamOrderHolds == Spec => []StreamOrder
<1>1. StreamTypes /\ StreamInv => StreamOrder
  <2> SUFFICES ASSUME StreamTypes, StreamInv, NEW r \in Requests,
                      NEW i \in 1 .. Len(stream[r].events), stream[r].events[i].code = "Normal"
               PROVE  LET ev == stream[r].events
                      IN /\ ev[i].owner = r /\ ev[i].n > last_seen[r]
                         /\ \A j \in 1 .. Len(ev) :
                              ev[j].code = "Normal" /\ i < j => ev[i].n < ev[j].n
    BY DEF StreamOrder
  <2>1. StreamOK(r, stream[r].events, last_seen[r], emitted[r])
    BY DEF StreamInv
  <2>2. stream[r].events \in Seq(Event) /\ last_seen[r] \in Nat
    BY DEF StreamTypes
  <2>3. \A j \in 1 .. Len(stream[r].events) : stream[r].events[j].n \in Nat
    BY <2>2, EventNumber
  <2> QED
    BY <2>1, <2>2, <2>3 DEF StreamOK
<1>2. (TypeInv /\ IdInv /\ CustodyInv) /\ TaskInv /\ StreamInv => StreamOrder
  BY <1>1, StreamsTyped
<1> QED
  BY <1>2, CustodyInvariant, TaskInvariant, StreamInvariant, PTL
=============================================================================
