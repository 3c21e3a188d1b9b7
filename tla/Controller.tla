----------------------------- MODULE Controller -----------------------------
(***************************************************************************)
(* The connection tasks of the Rust controller (communicate and get_batch, *)
(* send_message, read_message, send_stream_event of src/protocol.rs) with  *)
(* the parts of TaskManager they call: send_task, notify_task_done,        *)
(* get_multi_tasks_data and update_multi_tasks of src/tasks.rs.  The       *)
(* worker process at the other end of the socket is seen through what it   *)
(* sends: stream events, then one reply for the batch, or it dies.         *)
(*                                                                         *)
(* A batch is a set of ids: the loops over it visit its ids in any order.  *)
(***************************************************************************)
EXTENDS TaskManager

CONSTANTS
  Conns,         \* connection slots
  StageOf,       \* slot -> the stage its worker belongs to
  BatchSize,     \* stage -> max_batch_size
  WorkerCodes,   \* the codes a worker may answer a batch with
  MaxEvents,     \* bound: request -> its stream events
  MaxCrashes     \* bound: worker deaths

VARIABLES
  conn,          \* slot -> the state of its connection task
  connected,     \* stages that had a first connection (the start barrier)
  emitted,       \* request -> stream events its workers have produced
  crashes        \* worker deaths so far

connVars == <<conn, connected, emitted, crashes>>

Ended == {"down", "dead", "panicked"}

ConnPC == Ended \cup
  {"recv", "batch", "fetch", "write", "read", "event", "eventsend", "update",
   "errs", "errsend", "loop", "push", "notify", "check", "send", "cleanup"}

State == [ingress : BOOLEAN, egress : BOOLEAN]

Conn ==
  [pc       : ConnPC,
   alive    : BOOLEAN,                    \* the worker holds the other end
   ids      : SUBSET Ids,                 \* the batch
   data     : [Ids -> Data \cup {None}],  \* its payloads
   states   : [Ids -> State],             \* its ingress and egress bits
   code     : TaskCode,
   streamed : BOOLEAN,                    \* inside the stream event loop
   mode     : {"forward", "abnormal", "resend"},  \* the loop over todo
   todo     : SUBSET Ids,                 \* ids the loop has still to visit
   cur      : Ids \cup {None},            \* the id it visits
   dest     : Stages \cup {None},         \* the queue that id goes to
   snd      : Requests \cup {None}]       \* the receiver of the sender in hand

(* The local variables at the top of the communicate loop. *)
Fresh(pc, alive) ==
  [pc |-> pc, alive |-> alive, ids |-> {}, data |-> [id \in Ids |-> None],
   states |-> [id \in Ids |-> NoState], code |-> "InternalError",
   streamed |-> FALSE, mode |-> "forward", todo |-> {}, cur |-> None,
   dest |-> None, snd |-> None]

ASSUME ConnsAssumption ==
  /\ StageOf \in [Conns -> Stages]
  /\ BatchSize \in [Stages -> Nat \ {0}]
  /\ WorkerCodes \subseteq TaskCode \ {"StreamEvent"}
  /\ MaxEvents \in [Requests -> Nat]
  /\ MaxCrashes \in Nat
  /\ None \notin Stages

ASSUME DataAssumption == None \notin Data

At(c, pc) == conn[c].pc = pc

Become(c, new) == conn' = [conn EXCEPT ![c] = new]

GotoC(c, pc) == Become(c, [conn[c] EXCEPT !.pc = pc])

-----------------------------------------------------------------------------
(* listener.accept, and the spawn of the connection task.  The listener of *)
(* a stage waits at the barrier after its first connection.                *)
Accept(c) ==
  /\ conn[c].pc \in Ended
  /\ StageOf[c] \notin connected \/ connected = Stages
  /\ Become(c, Fresh("recv", TRUE))
  /\ connected' = connected \cup {StageOf[c]}
  /\ UNCHANGED <<tmVars, emitted, crashes>>

(* get_batch: the first id is awaited without a limit. *)
RecvFirst(c) ==
  LET s == StageOf[c]
  IN /\ At(c, "recv")
     /\ queue[s] # << >>
     /\ queue' = [queue EXCEPT ![s] = Tail(@)]
     /\ Become(c, [conn[c] EXCEPT
                     !.pc = IF BatchSize[s] <= 1 THEN "fetch" ELSE "batch",
                     !.ids = {Head(queue[s])}])
     /\ UNCHANGED <<table, notifiers, stream_senders, current_id, shutdown,
                    remaining_task, rx, stream, connected, emitted, crashes>>

(* inner_batch: one more id, until the batch is full. *)
RecvMore(c) ==
  LET s   == StageOf[c]
      ids == conn[c].ids \cup {Head(queue[s])}
  IN /\ At(c, "batch")
     /\ queue[s] # << >>
     /\ queue' = [queue EXCEPT ![s] = Tail(@)]
     /\ Become(c, [conn[c] EXCEPT
                     !.pc = IF Cardinality(ids) = BatchSize[s] THEN "fetch"
                                                              ELSE "batch",
                     !.ids = ids])
     /\ UNCHANGED <<table, notifiers, stream_senders, current_id, shutdown,
                    remaining_task, rx, stream, connected, emitted, crashes>>

(* The wait_time of get_batch is over. *)
BatchTimeout(c) ==
  /\ At(c, "batch")
  /\ GotoC(c, "fetch")
  /\ UNCHANGED <<tmVars, connected, emitted, crashes>>

(* get_multi_tasks_data: expired ids leave the batch. *)
Fetch(c) ==
  LET live == {id \in conn[c].ids : InTable(id)}
  IN /\ At(c, "fetch")
     /\ Become(c,
          IF live = {} THEN Fresh("recv", conn[c].alive)
          ELSE [conn[c] EXCEPT
                  !.pc = "write",
                  !.ids = live,
                  !.data = [id \in Ids |-> IF id \in live THEN table[id].data
                                                          ELSE None],
                  !.states = [id \in Ids |-> IF id \in live
                                             THEN EncodeState(table[id])
                                             ELSE NoState]])
     /\ UNCHANGED <<tmVars, connected, emitted, crashes>>

(* send_message: a failed write sends the batch back to its queue. *)
Write(c) ==
  /\ At(c, "write")
  /\ Become(c, IF conn[c].alive
               THEN [conn[c] EXCEPT !.pc = "read"]
               ELSE [conn[c] EXCEPT !.pc = "loop", !.mode = "resend",
                                    !.todo = conn[c].ids])
  /\ UNCHANGED <<tmVars, connected, emitted, crashes>>

-----------------------------------------------------------------------------
(***************************************************************************)
(* The worker and read_message.  A reply is in the socket, and can be read *)
(* to its end, whether or not the worker lives on: writing and reading it  *)
(* is one step.                                                            *)
(***************************************************************************)

(* Coordinator.decode: the ingress bit picks deserialize. *)
Decodable(c) ==
  \A id \in conn[c].ids :
    (conn[c].data[id].enc = "client") <=> conn[c].states[id].ingress

(* Coordinator.encode: the egress bit picks serialize. *)
Processed(data, state) ==
  [owner |-> data.owner, hops |-> data.hops + 1,
   enc |-> IF state.egress THEN "client" ELSE "ipc"]

(* Mutation of ReplyData: the error text is not repeated for each task. *)
ReplyDataOnce(c, code, ids) ==
  [id \in Ids |-> IF id \notin ids THEN None
                  ELSE IF code = "Normal"
                  THEN Processed(conn[c].data[id], conn[c].states[id])
                  ELSE IF id = CHOOSE i \in ids : \A j \in ids : i <= j
                  THEN ErrorText ELSE None]

(* The payloads of a reply; a failed batch carries the same text each.     *)
ReplyData(c, code, ids) ==
  [id \in Ids |-> IF id \notin ids THEN None
                  ELSE IF code = "Normal"
                  THEN Processed(conn[c].data[id], conn[c].states[id])
                  ELSE ErrorText]

Reply(c, code, ids) ==
  Become(c, [conn[c] EXCEPT !.pc = "update", !.code = code, !.ids = ids,
                            !.data = ReplyData(c, code, ids)])

(* One reply for the whole batch. *)
WorkerReply(c) ==
  /\ At(c, "read")
  /\ conn[c].alive
  /\ \E code \in WorkerCodes :
       /\ code = "Normal" => Decodable(c)
       /\ Reply(c, code, conn[c].ids)
  /\ UNCHANGED <<tmVars, connected, emitted, crashes>>

(* A stream event for one task of the batch. *)
WorkerEvent(c) ==
  /\ At(c, "read")
  /\ conn[c].alive
  /\ StageOf[c] \in SSEStages
  /\ \E id \in conn[c].ids :
       LET owner == conn[c].data[id].owner
       IN /\ owner \in Requests
          /\ emitted[owner] < MaxEvents[owner]
          /\ emitted' = [emitted EXCEPT ![owner] = @ + 1]
          /\ Become(c, [conn[c] EXCEPT !.pc = "event", !.code = "StreamEvent",
                                       !.streamed = TRUE, !.cur = id])
  /\ UNCHANGED <<tmVars, connected, crashes>>

(* The worker process dies; the connection task learns it from the socket. *)
WorkerCrash(c) ==
  /\ conn[c].pc \notin Ended
  /\ conn[c].alive
  /\ crashes < MaxCrashes
  /\ crashes' = crashes + 1
  /\ Become(c, [conn[c] EXCEPT !.alive = FALSE])
  /\ UNCHANGED <<tmVars, connected, emitted>>

(* The first read fails: the task ends and its batch with it. *)
ReadError(c) ==
  /\ At(c, "read")
  /\ ~conn[c].alive
  /\ ~conn[c].streamed
  /\ Become(c, Fresh("dead", FALSE))
  /\ UNCHANGED <<tmVars, connected, emitted, crashes>>

(* A read fails after a stream event: break leaves the inner loop only.    *)
(* The task goes on with what was read of a message cut short: nothing, or *)
(* the code of the reply and some of its tasks.                            *)
ReadErrorInLoop(c) ==
  /\ At(c, "read")
  /\ ~conn[c].alive
  /\ conn[c].streamed
  /\ \/ Reply(c, "StreamEvent", {})
     \/ \E code \in WorkerCodes, ids \in SUBSET conn[c].ids :
          /\ ids # conn[c].ids
          /\ code = "Normal" => Decodable(c)
          /\ Reply(c, code, ids)
  /\ UNCHANGED <<tmVars, connected, emitted, crashes>>

-----------------------------------------------------------------------------
(* Mutation of EventLookup: the stream of the first task of the batch. *)
EventLookupFirst(c) ==
  LET first == CHOOSE i \in conn[c].ids : \A j \in conn[c].ids : i <= j
      r     == stream_senders[first]
  IN /\ At(c, "event")
     /\ Become(c, [conn[c] EXCEPT !.pc = IF r = None THEN "read" ELSE "eventsend",
                                  !.snd = r])
     /\ UNCHANGED <<tmVars, connected, emitted, crashes>>

(* send_stream_event: the sender is looked up, *)
EventLookup(c) ==
  LET r == stream_senders[conn[c].cur]
  IN /\ At(c, "event")
     /\ Become(c, [conn[c] EXCEPT !.pc = IF r = None THEN "read" ELSE "eventsend",
                                  !.snd = r])
     /\ UNCHANGED <<tmVars, connected, emitted, crashes>>

(* Sender::send of a stream channel waits for room, and fails when the     *)
(* receiver is gone.                                                       *)
Deliver(r, event) ==
  \/ /\ stream[r].open
     /\ Len(stream[r].events) < StreamCap
     /\ stream' = [stream EXCEPT ![r].events = Append(@, event)]
  \/ /\ ~stream[r].open
     /\ UNCHANGED stream

(* and takes the event; then the next message is read. *)
EventSend(c) ==
  LET owner == conn[c].data[conn[c].cur].owner
  IN /\ At(c, "eventsend")
     /\ Deliver(conn[c].snd, [owner |-> owner, n |-> emitted[owner],
                              code |-> "Normal"])
     /\ Become(c, [conn[c] EXCEPT !.pc = "read", !.snd = None])
     /\ UNCHANGED <<table, notifiers, stream_senders, current_id, queue, shutdown,
                    remaining_task, rx, connected, emitted, crashes>>

-----------------------------------------------------------------------------
(* update_multi_tasks, its table lock.  A Normal batch is forwarded; of    *)
(* any other the tasks still in the table are first told to their streams. *)
Update(c) ==
  LET k        == conn[c]
      abnormal == {id \in k.ids : InTable(id)}
  IN /\ At(c, "update")
     /\ UpdateTable(k.code, k.ids, k.data)
     /\ Become(c, IF k.code = "Normal"
                  THEN [k EXCEPT !.pc = "loop", !.mode = "forward",
                                 !.todo = k.ids]
                  ELSE [k EXCEPT !.pc = "errs", !.mode = "abnormal",
                                 !.ids = abnormal, !.todo = abnormal])
     /\ UNCHANGED <<notifiers, stream_senders, current_id, queue, shutdown,
                    remaining_task, rx, stream, connected, emitted, crashes>>

(* The loop over the streams of an abnormal batch: one lookup, or its end. *)
ErrNext(c) ==
  LET k == conn[c]
  IN /\ At(c, "errs")
     /\ \/ /\ k.todo = {}
           /\ Become(c, [k EXCEPT !.pc = "loop", !.todo = k.ids])
        \/ \E id \in k.todo :
             Become(c, [k EXCEPT
                          !.pc = IF stream_senders[id] = None THEN "errs"
                                                              ELSE "errsend",
                          !.todo = @ \ {id},
                          !.snd = stream_senders[id]])
     /\ UNCHANGED <<tmVars, connected, emitted, crashes>>

(* The error goes to the stream: data[i] is the text of the whole batch. *)
ErrSend(c) ==
  /\ At(c, "errsend")
  /\ Deliver(conn[c].snd, [owner |-> None, n |-> 0, code |-> conn[c].code])
  /\ Become(c, [conn[c] EXCEPT !.pc = "errs", !.snd = None])
  /\ UNCHANGED <<table, notifiers, stream_senders, current_id, queue, shutdown,
                 remaining_task, rx, connected, emitted, crashes>>

-----------------------------------------------------------------------------
(* Mutation of LoopNext: the end of the pipeline is not notified. *)
LoopNextSilent(c) ==
  /\ At(c, "loop")
  /\ \E id \in conn[c].todo :
       LET next == NextStage(table[id])
           k    == [conn[c] EXCEPT !.todo = @ \ {id}, !.cur = id]
       IN Become(c, IF k.mode = "abnormal"  THEN [k EXCEPT !.pc = "notify"]
                    ELSE IF ~InTable(id) \/ next = None
                    THEN [k EXCEPT !.cur = None]
                    ELSE [k EXCEPT !.pc = "push", !.dest = next])
  /\ UNCHANGED <<tmVars, connected, emitted, crashes>>

(* One turn of the loop over a batch.  An abnormal task is only notified;  *)
(* the others go through the table lock of send_task.                      *)
LoopNext(c) ==
  /\ At(c, "loop")
  /\ \E id \in conn[c].todo :
       LET next == NextStage(table[id])
           k    == [conn[c] EXCEPT !.todo = @ \ {id}, !.cur = id]
       IN Become(c, IF k.mode = "abnormal"  THEN [k EXCEPT !.pc = "notify"]
                    ELSE IF ~InTable(id)    THEN [k EXCEPT !.cur = None]
                    ELSE IF next = None     THEN [k EXCEPT !.pc = "notify"]
                    ELSE [k EXCEPT !.pc = "push", !.dest = next])
  /\ UNCHANGED <<tmVars, connected, emitted, crashes>>

(* The loop is over: the next batch, or the end of a connection whose      *)
(* write failed.                                                           *)
LoopEnd(c) ==
  /\ At(c, "loop")
  /\ conn[c].todo = {}
  /\ Become(c, IF conn[c].mode = "resend" THEN Fresh("dead", FALSE)
                                          ELSE Fresh("recv", conn[c].alive))
  /\ UNCHANGED <<tmVars, connected, emitted, crashes>>

(* Mutation of Push: the id stays among those to send. *)
PushTwice(c) ==
  /\ At(c, "push")
  /\ ~QueueFull(conn[c].dest)
  /\ Enqueue(conn[c].dest, conn[c].cur)
  /\ Become(c, [conn[c] EXCEPT !.pc = "loop", !.todo = @ \cup {conn[c].cur},
                               !.cur = None, !.dest = None])
  /\ UNCHANGED <<table, notifiers, stream_senders, current_id, shutdown,
                 remaining_task, rx, stream, connected, emitted, crashes>>

(* send_task awaits room in the next queue. *)
Push(c) ==
  /\ At(c, "push")
  /\ ~QueueFull(conn[c].dest)
  /\ Enqueue(conn[c].dest, conn[c].cur)
  /\ Become(c, [conn[c] EXCEPT !.pc = "loop", !.cur = None, !.dest = None])
  /\ UNCHANGED <<table, notifiers, stream_senders, current_id, shutdown,
                 remaining_task, rx, stream, connected, emitted, crashes>>

-----------------------------------------------------------------------------
(* notify_task_done: the notifier is taken, *)
NotifyTake(c) ==
  LET r == notifiers[conn[c].cur]
  IN /\ At(c, "notify")
     /\ RemoveNotifier(conn[c].cur)
     /\ Become(c, IF r = None
                  THEN [conn[c] EXCEPT !.pc = "loop", !.cur = None]
                  ELSE [conn[c] EXCEPT !.pc = "check", !.snd = r])
     /\ UNCHANGED <<table, stream_senders, current_id, queue, shutdown,
                    remaining_task, rx, stream, connected, emitted, crashes>>

(* Mutation of NotifyCheck: the test of is_closed is inverted. *)
NotifyCheckInverted(c) ==
  /\ At(c, "check")
  /\ GotoC(c, IF rx[conn[c].snd] = "closed" THEN "send" ELSE "cleanup")
  /\ UNCHANGED <<tmVars, connected, emitted, crashes>>

(* its receiver is looked at, *)
NotifyCheck(c) ==
  /\ At(c, "check")
  /\ GotoC(c, IF rx[conn[c].snd] = "closed" THEN "cleanup" ELSE "send")
  /\ UNCHANGED <<tmVars, connected, emitted, crashes>>

(* and the completion is sent: send(()).unwrap() panics, and ends the      *)
(* task, when the receiver was dropped since.                              *)
NotifySend(c) ==
  LET r == conn[c].snd
  IN /\ At(c, "send")
     /\ \/ /\ rx[r] = "closed"
           /\ Become(c, Fresh("panicked", FALSE))
           /\ UNCHANGED rx
        \/ /\ rx[r] # "closed"
           /\ rx' = [rx EXCEPT ![r] = "sent"]
           /\ Become(c, [conn[c] EXCEPT !.pc = "loop", !.cur = None,
                                        !.snd = None])
     /\ UNCHANGED <<table, notifiers, stream_senders, current_id, queue, shutdown,
                    remaining_task, stream, connected, emitted, crashes>>

NotifyCleanup(c) ==
  /\ At(c, "cleanup")
  /\ DropClosedTask(conn[c].cur)
  /\ Become(c, [conn[c] EXCEPT !.pc = "loop", !.cur = None, !.snd = None])
  /\ UNCHANGED <<notifiers, stream_senders, current_id, queue, shutdown, rx,
                 stream, connected, emitted, crashes>>

-----------------------------------------------------------------------------
ControllerInit ==
  /\ conn = [c \in Conns |-> Fresh("down", FALSE)]
  /\ connected = {}
  /\ emitted = [r \in Requests |-> 0]
  /\ crashes = 0

ControllerTypeOK ==
  /\ conn \in [Conns -> Conn]
  /\ connected \subseteq Stages
  /\ emitted \in [Requests -> Nat]
  /\ crashes \in Nat

(* The steps a connection task takes by itself. *)
ConnStep(c) ==
  \/ RecvFirst(c) \/ RecvMore(c) \/ BatchTimeout(c) \/ Fetch(c) \/ Write(c)
  \/ ReadError(c) \/ ReadErrorInLoop(c)
  \/ EventLookup(c) \/ EventSend(c)
  \/ Update(c) \/ ErrNext(c) \/ ErrSend(c)
  \/ LoopNext(c) \/ LoopEnd(c) \/ Push(c)
  \/ NotifyTake(c) \/ NotifyCheck(c) \/ NotifySend(c) \/ NotifyCleanup(c)

(* The steps of the worker process and of the listener. *)
WorkerStep(c) ==
  \/ Accept(c) \/ WorkerReply(c) \/ WorkerEvent(c) \/ WorkerCrash(c)
=============================================================================
