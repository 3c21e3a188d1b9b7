------------------------------- MODULE Routes -------------------------------
(***************************************************************************)
(* The HTTP handlers (src/routes.rs), with submit_task, submit_sse_task    *)
(* and wait_sse_finish of src/tasks.rs, which run on their behalf.         *)
(*                                                                         *)
(* A handler is a future: when its client goes away it is dropped at the   *)
(* await it stands at.  The watcher of a stream (wait_sse_finish) is a     *)
(* spawned task and survives its client.                                   *)
(***************************************************************************)
EXTENDS TaskManager

CONSTANTS
  Impatient      \* requests whose client may close the connection

VARIABLES
  hpc,           \* request -> where its handler (or its watcher) stands
  rid,           \* request -> the id it was given
  resp,          \* request -> the response sent, None before
  last_seen      \* request -> number of the last stream event its client read

routesVars == <<hpc, rid, resp, last_seen>>

HandlerPC == {"idle", "body", "submit", "enqueue", "register", "wait", "take",
              "expired", "purge", "unstream", "done", "gone"}

Status == {"OK", "EMPTY", "STREAM", "BAD_REQUEST", "UNPROCESSABLE_ENTITY",
           "REQUEST_TIMEOUT", "INTERNAL_SERVER_ERROR", "UNKNOWN_ERROR",
           "TOO_MANY_REQUESTS", "PAYLOAD_TOO_LARGE", "SERVICE_UNAVAILABLE"}

Response == [status : Status, data : Data \cup {None}]

ASSUME ImpatientAssumption ==
  /\ Impatient \subseteq Requests
  /\ None \notin Response

(* The status of a task that came back, from its code. *)
StatusOf(code) ==
  CASE code = "Normal"          -> "OK"
    [] code = "BadRequestError" -> "BAD_REQUEST"
    [] code = "ValidationError" -> "UNPROCESSABLE_ENTITY"
    [] code = "TimeoutError"    -> "REQUEST_TIMEOUT"
    [] OTHER                    -> "INTERNAL_SERVER_ERROR"

Goto(r, pc) == hpc' = [hpc EXCEPT ![r] = pc]

Respond(r, status, data) ==
  /\ Goto(r, "done")
  /\ resp' = [resp EXCEPT ![r] = [status |-> status, data |-> data]]

-----------------------------------------------------------------------------
(* The handler starts: it answers at once during a shutdown. Once the      *)
(* shutdown future is over axum accepts no request any more.               *)
Arrive(r) ==
  /\ hpc[r] = "idle"
  /\ shutdown \in {"no", "draining"}
  /\ \/ /\ IsShutdown
        /\ Respond(r, "SERVICE_UNAVAILABLE", None)
     \/ /\ ~IsShutdown
        /\ Goto(r, "body")
        /\ UNCHANGED resp
  /\ UNCHANGED <<tmVars, rid, last_seen>>

(* The body has been read: too large, empty, or a task to submit. Only the *)
(* plain handler counts the request before it submits it.                  *)
ReadBody(r) ==
  /\ hpc[r] = "body"
  /\ \/ /\ \E status \in {"PAYLOAD_TOO_LARGE", "EMPTY"} : Respond(r, status, None)
        /\ UNCHANGED remaining_task
     \/ /\ Goto(r, "submit")
        /\ remaining_task' = IF IsSSE(r) THEN remaining_task
                                         ELSE remaining_task + 1
        /\ UNCHANGED resp
  /\ UNCHANGED <<table, notifiers, stream_senders, current_id, queue, shutdown,
                 rx, stream, rid, last_seen>>

(* add_new_task: the task is in both maps before its id is queued. *)
Submit(r) ==
  /\ hpc[r] = "submit"
  /\ InsertTask(r)
  /\ rid' = [rid EXCEPT ![r] = current_id]
  /\ Goto(r, "enqueue")
  /\ UNCHANGED <<stream_senders, queue, shutdown, remaining_task, stream, resp,
                 last_seen>>

(* try_send on the first queue; a full queue undoes the submission. *)
TrySend(r) ==
  LET first == Pipeline[EndpointOf[r]][1]
  IN /\ hpc[r] = "enqueue"
     /\ \/ /\ ~QueueFull(first)
           /\ Enqueue(first, rid[r])
           /\ Goto(r, IF IsSSE(r) THEN "register" ELSE "wait")
           /\ UNCHANGED <<table, notifiers, rx, remaining_task, resp>>
        \/ /\ QueueFull(first)
           /\ RemoveNotifier(rid[r])
           /\ RemoveTask(rid[r])
           /\ rx' = [rx EXCEPT ![r] = "closed"]
           /\ remaining_task' = IF IsSSE(r) THEN remaining_task
                                            ELSE remaining_task - 1
           /\ Respond(r, "TOO_MANY_REQUESTS", None)
           /\ UNCHANGED queue
     /\ UNCHANGED <<stream_senders, current_id, shutdown, stream, rid, last_seen>>

(* submit_sse_task after add_new_task: the sender is registered, the gauge *)
(* incremented and the watcher spawned; the response is the open stream.   *)
RegisterStream(r) ==
  /\ hpc[r] = "register"
  /\ stream_senders' = [stream_senders EXCEPT ![rid[r]] = r]
  /\ remaining_task' = remaining_task + 1
  /\ Goto(r, "wait")
  /\ resp' = [resp EXCEPT ![r] = [status |-> "STREAM", data |-> None]]
  /\ UNCHANGED <<table, notifiers, current_id, queue, shutdown, rx, stream, rid,
                 last_seen>>

(* The oneshot receiver is ready: the handler goes for its task, the       *)
(* watcher of a stream goes on to delete it.                               *)
Notified(r) ==
  /\ hpc[r] = "wait"
  /\ rx[r] = "sent"
  /\ rx' = [rx EXCEPT ![r] = "closed"]
  /\ Goto(r, IF IsSSE(r) THEN "expired" ELSE "take")
  /\ UNCHANGED <<table, notifiers, stream_senders, current_id, queue, shutdown,
                 remaining_task, stream, rid, resp, last_seen>>

(* Mutation of Timeout: the wait starts again instead of giving up. *)
TimeoutRestarts(r) ==
  /\ hpc[r] = "wait"
  /\ rx' = [rx EXCEPT ![r] = "pending"]
  /\ UNCHANGED <<table, notifiers, stream_senders, current_id, queue, shutdown,
                 remaining_task, stream, hpc, rid, resp, last_seen>>

(* The timer fires and the receiver is dropped. A completion sent between  *)
(* the last poll of the receiver and its drop is lost with it.             *)
Timeout(r) ==
  /\ hpc[r] = "wait"
  /\ rx' = [rx EXCEPT ![r] = "closed"]
  /\ Goto(r, "expired")
  /\ UNCHANGED <<table, notifiers, stream_senders, current_id, queue, shutdown,
                 remaining_task, stream, rid, resp, last_seen>>

(* submit_task takes its task out of the table and the handler answers. *)
TakeTask(r) ==
  /\ hpc[r] = "take"
  /\ IF InTable(rid[r])
     THEN Respond(r, StatusOf(table[rid[r]].code), table[rid[r]].data)
     ELSE Respond(r, "UNKNOWN_ERROR", None)
  /\ RemoveTask(rid[r])
  /\ remaining_task' = remaining_task - 1
  /\ UNCHANGED <<notifiers, stream_senders, current_id, queue, shutdown, rx,
                 stream, rid, last_seen>>

(* delete_task, first lock. *)
DeleteNotifier(r) ==
  /\ hpc[r] = "expired"
  /\ RemoveNotifier(rid[r])
  /\ Goto(r, "purge")
  /\ UNCHANGED <<table, stream_senders, current_id, queue, shutdown,
                 remaining_task, rx, stream, rid, resp, last_seen>>

(* delete_task, second lock; submit_task then answers with a timeout. *)
DeleteTask(r) ==
  /\ hpc[r] = "purge"
  /\ RemoveTask(rid[r])
  /\ \/ /\ IsSSE(r)
        /\ Goto(r, "unstream")
        /\ UNCHANGED <<remaining_task, resp>>
     \/ /\ ~IsSSE(r)
        /\ remaining_task' = remaining_task - 1
        /\ Respond(r, "REQUEST_TIMEOUT", None)
  /\ UNCHANGED <<notifiers, stream_senders, current_id, queue, shutdown, rx,
                 stream, rid, last_seen>>

(* Mutation of DeleteStream: has_stream is ignored. *)
DeleteStreamSkipped(r) ==
  /\ hpc[r] = "unstream"
  /\ remaining_task' = remaining_task - 1
  /\ Goto(r, "done")
  /\ UNCHANGED <<table, notifiers, stream_senders, current_id, queue, shutdown,
                 rx, stream, rid, resp, last_seen>>

(* delete_task with has_stream, third lock; end of wait_sse_finish. *)
DeleteStream(r) ==
  /\ hpc[r] = "unstream"
  /\ RemoveStream(rid[r])
  /\ remaining_task' = remaining_task - 1
  /\ Goto(r, "done")
  /\ UNCHANGED <<table, notifiers, current_id, queue, shutdown, rx, stream, rid,
                 resp, last_seen>>

-----------------------------------------------------------------------------
(* The client closes the connection. The handler is dropped at its await,  *)
(* together with its receiver; of a stream only the receiving end is.      *)
Disconnect(r) ==
  /\ r \in Impatient
  /\ \/ /\ hpc[r] \in {"body", "wait"}
        /\ hpc[r] = "wait" => ~IsSSE(r)
        /\ Goto(r, "gone")
        /\ rx' = [rx EXCEPT ![r] = "closed"]
        /\ UNCHANGED stream
     \/ /\ resp[r] # None
        /\ resp[r].status = "STREAM"
        /\ stream[r].open
        /\ stream' = [stream EXCEPT ![r] = [open |-> FALSE, events |-> << >>]]
        /\ UNCHANGED <<hpc, rx>>
  /\ UNCHANGED <<table, notifiers, stream_senders, current_id, queue, shutdown,
                 remaining_task, rid, resp, last_seen>>

(* The client of a stream reads its next event. *)
ReadEvent(r) ==
  /\ resp[r] # None
  /\ resp[r].status = "STREAM"
  /\ stream[r].events # << >>
  /\ LET e == Head(stream[r].events)
     IN last_seen' = [last_seen EXCEPT ![r] = IF e.code = "Normal" THEN e.n ELSE @]
  /\ stream' = [stream EXCEPT ![r].events = Tail(@)]
  /\ UNCHANGED <<table, notifiers, stream_senders, current_id, queue, shutdown,
                 remaining_task, rx, hpc, rid, resp>>

-----------------------------------------------------------------------------
RoutesInit ==
  /\ hpc = [r \in Requests |-> "idle"]
  /\ rid = [r \in Requests |-> None]
  /\ resp = [r \in Requests |-> None]
  /\ last_seen = [r \in Requests |-> 0]

RoutesTypeOK ==
  /\ hpc \in [Requests -> HandlerPC]
  /\ rid \in [Requests -> Ids \cup {None}]
  /\ resp \in [Requests -> Response \cup {None}]
  /\ last_seen \in [Requests -> Nat]

(* The steps of a handler or watcher; Timeout is the timer's. *)
HandlerStep(r) ==
  \/ Submit(r)
  \/ TrySend(r)
  \/ RegisterStream(r)
  \/ Notified(r)
  \/ TakeTask(r)
  \/ DeleteNotifier(r)
  \/ DeleteTask(r)
  \/ DeleteStream(r)

(* The steps of its client. *)
ClientStep(r) ==
  \/ Arrive(r)
  \/ ReadBody(r)
  \/ Disconnect(r)
  \/ ReadEvent(r)
=============================================================================
