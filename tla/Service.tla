------------------------------ MODULE Service ------------------------------
(***************************************************************************)
(* The Rust service: the HTTP handlers of Routes and the connection tasks  *)
(* of Controller, running concurrently over the shared TaskManager, with   *)
(* the start barrier and the shutdown signal of src/main.rs.               *)
(***************************************************************************)
EXTENDS Routes, Controller

vars == <<tmVars, routesVars, connVars>>

(* The HTTP listener is bound once every stage has a worker. *)
Serving == connected = Stages

Init == TMInit /\ RoutesInit /\ ControllerInit

Handler(r) == HandlerStep(r) /\ UNCHANGED connVars

Timer(r) == Timeout(r) /\ UNCHANGED connVars

Client(r) == Serving /\ ClientStep(r) /\ UNCHANGED connVars

Connection(c) == ConnStep(c) /\ UNCHANGED routesVars

Worker(c) == WorkerStep(c) /\ UNCHANGED routesVars

Shutdown ==
  /\ Serving
  /\ BeginShutdown \/ EndShutdown
  /\ UNCHANGED <<routesVars, connVars>>

Next ==
  \/ \E r \in Requests : Handler(r) \/ Timer(r) \/ Client(r)
  \/ \E c \in Conns : Connection(c) \/ Worker(c)
  \/ Shutdown

Spec == Init /\ [][Next]_vars

(***************************************************************************)
(* tokio runs every task that can run.  A worker always answers: forward   *)
(* runs under the SIGALRM timer of the coordinator.  A worker that died is *)
(* replaced, and connects again.  Nothing makes a client read or a request *)
(* time out.                                                               *)
(***************************************************************************)
Fairness ==
  /\ \A r \in Requests : WF_vars(Handler(r))
  /\ \A c \in Conns :
       /\ WF_vars(Connection(c))
       /\ WF_vars(WorkerReply(c) /\ UNCHANGED routesVars)
       /\ WF_vars(Accept(c) /\ UNCHANGED routesVars)

FairSpec == Spec /\ Fairness

-----------------------------------------------------------------------------
TypeOK == TMTypeOK /\ RoutesTypeOK /\ ControllerTypeOK

(* The ids a connection task is responsible for: its batch until the batch *)
(* has been answered, then what its loop has not visited.                  *)
Held(k) ==
  IF k.pc \in Ended \cup {"recv"} THEN {}
  ELSE IF k.pc = "loop" THEN k.todo
  ELSE IF k.pc \in {"push", "notify", "check", "send", "cleanup"}
  THEN k.todo \cup {k.cur}
  ELSE k.ids

Queued(s) == {queue[s][i] : i \in 1 .. Len(queue[s])}

(* A task is in one place: no id is twice in a queue, in two queues, in    *)
(* two batches, or in a queue and a batch.  Otherwise two workers would    *)
(* process it and it would skip a stage (send_task, get_batch, the resend  *)
(* after a failed write).                                                  *)
SingleCustody ==
  /\ \A s \in Stages : \A i, j \in 1 .. Len(queue[s]) :
       queue[s][i] = queue[s][j] => i = j
  /\ \A s, t \in Stages : s # t => Queued(s) \cap Queued(t) = {}
  /\ \A c, d \in Conns : c # d => Held(conn[c]) \cap Held(conn[d]) = {}
  /\ \A c \in Conns, s \in Stages : Held(conn[c]) \cap Queued(s) = {}

(* Task id is at stage s of its route. *)
IsAt(id, s) ==
  LET p == Pipeline[table[id].route]
  IN table[id].stage < Len(p) /\ p[table[id].stage + 1] = s

(* A live task waits in the queue of the stage it has to visit next, and a *)
(* worker is handed only tasks that are at its stage of their route.       *)
StageDiscipline ==
  /\ \A s \in Stages : \A id \in Queued(s) :
       InTable(id) => IsAt(id, s)
  /\ \A c \in Conns :
       conn[c].pc \in {"batch", "fetch", "write", "read", "event", "eventsend",
                       "update"} =>
         \A id \in conn[c].ids :
           InTable(id) => IsAt(id, StageOf[c])

(* What a worker is handed can be decoded: the ingress bit is set exactly  *)
(* for a payload the client encoded (encode_state, Coordinator.decode).    *)
CodecMatch ==
  \A c \in Conns : conn[c].pc \in {"write", "read"} => Decodable(c)

(* A request answered with 200 gets its own payload, processed by every    *)
(* stage of its route and encoded for the client.                          *)
OwnAnswer ==
  \A r \in Requests :
    (resp[r] # None /\ resp[r].status = "OK") =>
      resp[r].data = [owner |-> r, hops |-> Len(Pipeline[EndpointOf[r]]),
                      enc |-> "client"]

(* A handler between its submission and its answer has its task in the     *)
(* table, so one that is notified finds it (the error branch of            *)
(* submit_task is dead code) and an empty table means nobody waits, which  *)
(* is what TaskManager::shutdown polls for.                                *)
WaitingIsTabled ==
  \A r \in Requests :
    hpc[r] \in {"enqueue", "register", "wait", "take"} => InTable(rid[r])

(* An answered request leaves nothing behind in the three maps, whichever  *)
(* of completion, timeout, rejection and late worker came first.           *)
CleanAfterResponse ==
  \A r \in Requests :
    (hpc[r] = "done" /\ rid[r] # None) =>
      /\ ~InTable(rid[r])
      /\ notifiers[rid[r]] = None
      /\ stream_senders[rid[r]] = None

(* A stream carries the events of its own request only, each later than    *)
(* the ones before it, and after those the client has read.                *)
StreamOrder ==
  \A r \in Requests :
    LET events == stream[r].events
        normal == {i \in 1 .. Len(events) : events[i].code = "Normal"}
    IN \A i \in normal :
         /\ events[i].owner = r /\ events[i].n > last_seen[r]
         /\ \A j \in normal : i < j => events[i].n < events[j].n

(* A drain that ends by itself leaves no handler waiting for a worker.     *)
DrainIsQuiet ==
  [][(shutdown = "draining" /\ shutdown' = "drained") =>
       \A r \in Requests : hpc[r] \notin {"enqueue", "register", "wait", "take"}]_vars

-----------------------------------------------------------------------------
(* The routes agree on an order of the stages: none of them is visited     *)
(* twice, nor in one order by one route and in another by the next.        *)
(* register_runtime accepts any routes.                                    *)
Ordered ==
  \E rank \in [Stages -> 1 .. Cardinality(Stages)] :
    \A e \in Endpoints : \A i \in 2 .. Len(Pipeline[e]) :
      rank[Pipeline[e][i - 1]] < rank[Pipeline[e][i]]

(* If the routes agree on an order of the stages, nobody waits for ever on *)
(* a full queue: a submitted request is notified, or gives up, although    *)
(* its timer need not fire, as long as no worker dies and no connection    *)
(* task panics, either of which loses a batch.                             *)
Completes ==
  Ordered =>
    \A r \in Requests :
      hpc[r] = "submit" ~>
        \/ rx[r] \in {"sent", "closed"}
        \/ crashes > 0
        \/ \E c \in Conns : At(c, "panicked")

(* Every request that was submitted is answered or abandoned, whatever     *)
(* dies, once the timers of submit_task and wait_sse_finish run.  A stream *)
(* is done when its watcher is; a connection task that waits for room in   *)
(* its channel holds a sender of it until the client reads or leaves.      *)
Answered ==
  (\A r \in Requests : WF_vars(Timer(r))) =>
    \A r \in Requests : hpc[r] = "submit" ~> hpc[r] \in {"done", "gone"}

-----------------------------------------------------------------------------
(* notify_task_done sends only to a receiver that is still there: the      *)
(* unwrap of send never fails and no connection task panics.               *)
NoPanic == \A c \in Conns : ~At(c, "panicked")
=============================================================================
