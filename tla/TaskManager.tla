---------------------------- MODULE TaskManager ----------------------------
(***************************************************************************)
(* The state and the critical sections of the Rust TaskManager             *)
(* (src/tasks.rs): the task table, the completion notifiers, the stream    *)
(* senders, the id counter and the bounded stage queues.                   *)
(*                                                                         *)
(* Every HashMap of the code sits behind its own mutex and no thread holds *)
(* two of them, so each operator below is one critical section: callers    *)
(* may interleave between any two of them and nowhere else.  A HashMap is  *)
(* a total function on ids in which None stands for "no entry".            *)
(***************************************************************************)
EXTENDS Integers, Sequences, FiniteSets

CONSTANTS
  Requests,      \* HTTP requests; each is served once
  Endpoints,     \* registered routes
  EndpointOf,    \* the route each request is sent to
  Stages,        \* runtimes; every runtime owns one queue
  SSEStages,     \* the runtimes whose worker is an SSEWorker
  Pipeline,      \* route -> the sequence of stages it goes through
  Capacity,      \* bound of every stage queue (--capacity)
  StreamCap,     \* bound of a stream channel (16 in the code)
  IdSpace,       \* ids are taken modulo IdSpace (2^32 in the code)
  MaySignal,     \* whether a termination signal may arrive
  None           \* the absent value

VARIABLES
  table,           \* id -> Task: tasks in the system
  notifiers,       \* id -> the request that waits for completion
  stream_senders,  \* id -> the request whose stream takes the events
  current_id,      \* the next id to give out
  queue,           \* stage -> ids waiting for a worker of that stage
  shutdown,        \* progress of the graceful shutdown
  remaining_task,  \* the remaining_task gauge of src/metrics.rs
  rx,              \* request -> its oneshot receiver
  stream           \* request -> [open, events]: its stream channel

tmVars == <<table, notifiers, stream_senders, current_id, queue, shutdown,
            remaining_task, rx, stream>>

-----------------------------------------------------------------------------
(***************************************************************************)
(* Data.  A payload is known by the request it was computed for, by the    *)
(* number of stages that processed it and by its encoding: the client's    *)
(* (serialize / deserialize) or the one between stages (serialize_ipc /    *)
(* deserialize_ipc).  A worker that fails answers a text for the batch.    *)
(***************************************************************************)
Ids == 0 .. (IdSpace - 1)

TaskCode == {"Normal", "BadRequestError", "ValidationError", "TimeoutError",
             "InternalError", "StreamEvent"}

Data == [owner : Requests \cup {None}, hops : Nat,
         enc : {"client", "ipc", "error"}]

Body(r) == [owner |-> r, hops |-> 0, enc |-> "client"]

ErrorText == [owner |-> None, hops |-> 0, enc |-> "error"]

Event == [owner : Requests \cup {None}, n : Nat, code : TaskCode]

Task == [code : TaskCode, data : Data, stage : Nat, route : Endpoints]

NewTask(data, route) ==
  [code |-> "InternalError", data |-> data, stage |-> 0, route |-> route]

(* Mutation of Updated: the stage is not advanced. *)
UpdatedNoAdvance(task, code, data) ==
  [task EXCEPT !.code = code, !.data = data]

(* Task::update; stage counts the stages that have answered. *)
Updated(task, code, data) ==
  [task EXCEPT !.code = code, !.data = data, !.stage = @ + 1]

(* Mutation of EncodeState: egress is one stage late. *)
EncodeStateLate(task) ==
  [ingress |-> task.stage = 0,
   egress  |-> Len(Pipeline[task.route]) = task.stage]

(* Task::encode_state, the bits <<ingress, egress>> that pick the codecs. *)
EncodeState(task) ==
  [ingress |-> task.stage = 0,
   egress  |-> Len(Pipeline[task.route]) - 1 = task.stage]

NoState == [ingress |-> FALSE, egress |-> FALSE]

ASSUME ConstantsAssumption ==
  /\ IsFiniteSet(Requests)
  /\ SSEStages \subseteq Stages
  /\ EndpointOf \in [Requests -> Endpoints]
  /\ Pipeline \in [Endpoints -> Seq(Stages)]
  /\ \A e \in Endpoints : Len(Pipeline[e]) > 0
  /\ Capacity \in Nat \ {0}
  /\ StreamCap \in Nat \ {0}
  /\ IdSpace \in Nat \ {0}
  /\ MaySignal \in BOOLEAN

(* Fewer than 2^32 requests are served in one life of the process.         *)
ASSUME IdSpaceAssumption == Cardinality(Requests) < IdSpace

ASSUME NoneAssumption ==
  /\ None \notin Requests
  /\ None \notin Ids
  /\ None \notin Task

(* Server._start_rs_runtime: a route streams when its last worker     *)
(* does; main.rs then serves it with sse_inference.                        *)
IsSSE(r) ==
  LET p == Pipeline[EndpointOf[r]] IN p[Len(p)] \in SSEStages

-----------------------------------------------------------------------------
(***************************************************************************)
(* The critical sections.                                                  *)
(***************************************************************************)
InTable(id) == table[id] # None

(* add_new_task up to its try_send: no other thread knows the id before    *)
(* it is queued, so taking it and filling both maps is one step.           *)
InsertTask(r) ==
  /\ current_id' = (current_id + 1) % IdSpace
  /\ notifiers' = [notifiers EXCEPT ![current_id] = r]
  /\ table' = [table EXCEPT ![current_id] = NewTask(Body(r), EndpointOf[r])]
  /\ rx' = [rx EXCEPT ![r] = "pending"]

RemoveNotifier(id) == notifiers' = [notifiers EXCEPT ![id] = None]

RemoveTask(id) == table' = [table EXCEPT ![id] = None]

RemoveStream(id) == stream_senders' = [stream_senders EXCEPT ![id] = None]

QueueFull(s) == Len(queue[s]) >= Capacity

Enqueue(s, id) == queue' = [queue EXCEPT ![s] = Append(@, id)]

(* The loop of update_multi_tasks, run under the table lock. *)
UpdateTable(code, ids, data) ==
  table' = [id \in Ids |-> IF id \in ids /\ InTable(id)
                           THEN Updated(table[id], code, data[id])
                           ELSE table[id]]

(* notify_task_done finds a notifier whose receiver is gone: the task is   *)
(* dropped and the gauge is decremented on behalf of the dead handler.     *)
DropClosedTask(id) ==
  /\ RemoveTask(id)
  /\ remaining_task' = remaining_task - 1

(* Mutation of NextStage: the queue of the stage that has just answered. *)
NextStageBehind(task) ==
  IF task.stage >= Len(Pipeline[task.route]) THEN None
  ELSE Pipeline[task.route][IF task.stage = 0 THEN 1 ELSE task.stage]

(* What send_task reads under the table lock: the queue the task goes to,  *)
(* or None when every stage of its pipeline has answered.                  *)
NextStage(task) ==
  IF task.stage >= Len(Pipeline[task.route])
  THEN None ELSE Pipeline[task.route][task.stage + 1]

-----------------------------------------------------------------------------
(***************************************************************************)
(* TaskManager::shutdown: the flag is raised, then the table is polled     *)
(* until it is empty or the service timeout has passed.                    *)
(***************************************************************************)
ShutdownStates == {"no", "draining", "drained", "timeout"}

IsShutdown == shutdown # "no"

BeginShutdown ==
  /\ MaySignal
  /\ shutdown = "no"
  /\ shutdown' = "draining"
  /\ UNCHANGED <<table, notifiers, stream_senders, current_id, queue,
                 remaining_task, rx, stream>>

(* Mutation of EndShutdown: the queues are polled instead of the table. *)
EndShutdownQueues ==
  /\ shutdown = "draining"
  /\ \/ /\ \A s \in Stages : queue[s] = << >>
        /\ shutdown' = "drained"
     \/ shutdown' = "timeout"
  /\ UNCHANGED <<table, notifiers, stream_senders, current_id, queue,
                 remaining_task, rx, stream>>

EndShutdown ==
  /\ shutdown = "draining"
  /\ \/ /\ \A id \in Ids : ~InTable(id)
        /\ shutdown' = "drained"
     \/ shutdown' = "timeout"
  /\ UNCHANGED <<table, notifiers, stream_senders, current_id, queue,
                 remaining_task, rx, stream>>

-----------------------------------------------------------------------------
TMInit ==
  /\ table = [id \in Ids |-> None]
  /\ notifiers = [id \in Ids |-> None]
  /\ stream_senders = [id \in Ids |-> None]
  /\ current_id = 0
  /\ queue = [s \in Stages |-> << >>]
  /\ shutdown = "no"
  /\ remaining_task = 0
  /\ rx = [r \in Requests |-> "none"]
  /\ stream = [r \in Requests |-> [open |-> TRUE, events |-> << >>]]

TMTypeOK ==
  /\ table \in [Ids -> Task \cup {None}]
  /\ notifiers \in [Ids -> Requests \cup {None}]
  /\ stream_senders \in [Ids -> Requests \cup {None}]
  /\ current_id \in Ids
  /\ queue \in [Stages -> Seq(Ids)]
  /\ shutdown \in ShutdownStates
  /\ remaining_task \in Int
  /\ rx \in [Requests -> {"none", "pending", "sent", "closed"}]
  /\ stream \in [Requests -> [open : BOOLEAN, events : Seq(Event)]]
=============================================================================
