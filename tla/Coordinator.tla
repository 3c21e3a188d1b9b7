---------------------------- MODULE Coordinator ----------------------------
(***************************************************************************)
(* The process of an SSE worker (mosec/coordinator.py): the main thread    *)
(* connects, receives batches, runs forward under a timer and replies; the *)
(* streaming thread sends the events that forward emits on the same        *)
(* socket.  They share a queue, a semaphore that starts at one, and        *)
(* current_ids.  The server's end of the socket is external.  Messages are *)
(* whole: cut and delayed bytes are left out.                              *)
(***************************************************************************)
EXTENDS Integers, Sequences, FiniteSets

CONSTANTS
  MaxBatches,    \* bound: batches the server sends
  MaxItems,      \* bound: requests of a batch
  MaxEvents,     \* bound: events a forward emits
  MaxExamples,   \* bound: examples of the warmup
  WarmEvents,    \* bound: events the forward of an example emits
  MaxRetry,      \* CONN_MAX_RETRY
  MayAlarm,      \* whether the timer of forward may fire
  MayFail,       \* whether a send may run into PROTOCOL_TIMEOUT
  MayBreak,      \* whether the server may drop the connection
  MayStop        \* whether the service may be shut down

VARIABLES
  shutdown,      \* the shutdown event
  listening,     \* whether the server listens at the address
  peer,          \* the server's end of the connection
  inbox,         \* the batch the server wrote and the worker did not read
  count,         \* batches written so far
  wire,          \* messages the worker sent
  sock,          \* the socket of Protocol
  pc,            \* the main thread
  retry,         \* retry_count of init_protocol
  examples,      \* examples not forwarded yet
  ids,           \* the batch of the main thread; empty during the warmup
  left,          \* events forward may still emit
  index,         \* the index of the event being emitted
  current,       \* current_ids
  sem,           \* the semaphore
  stream,        \* the stream queue
  spc,           \* the streaming thread
  item,          \* the event it has in hand
  target,        \* the id it sends the event to
  late           \* history: the replies whose acquire timed out while an event
                 \* was on its way

server == <<listening, peer, inbox, count>>

startup == <<retry, examples>>

task == <<ids, left, index, current>>

shared == <<sem, stream>>

streamer == <<spc, item, target>>

cVars == <<shutdown, server, wire, sock, pc, startup, task, shared, streamer, late>>

ASSUME CoordinatorAssumption ==
  /\ MaxBatches \in Nat /\ MaxItems \in Nat \ {0} /\ MaxEvents \in Nat
  /\ MaxExamples \in Nat /\ WarmEvents \in 0 .. MaxEvents /\ MaxRetry \in Nat
  /\ MayAlarm \in BOOLEAN /\ MayFail \in BOOLEAN
  /\ MayBreak \in BOOLEAN /\ MayStop \in BOOLEAN

-----------------------------------------------------------------------------
(* A request is known by its batch and its index; batch 0 is an example.   *)
(* An event carries the index it is emitted with and, as its text, the     *)
(* request it is about.                                                    *)
Request == (0 .. MaxBatches) \X (1 .. MaxItems)

BatchOf(n, k) == [i \in 1 .. k |-> <<n, i>>]

NoRequest == <<0, 1>>

Event == [owner : Request, index : 1 .. MaxItems]

NoEvent == [owner |-> NoRequest, index |-> 1]

EventMessage(id, e) == [kind |-> "event", ids |-> <<id>>, owner |-> <<e.owner>>]

ReplyMessage(b) == [kind |-> "reply", ids |-> b, owner |-> b]

Connected == sock = "open" /\ peer = "up"

Goto(label) == pc' = label

-----------------------------------------------------------------------------
(* warmup: nothing to do, or one forward per example. *)
WarmupSkip ==
  /\ pc = "warmup"
  /\ shutdown \/ examples = 0
  /\ Goto("init")
  /\ UNCHANGED <<shutdown, server, wire, sock, startup, task, shared, streamer, late>>

WarmupNext ==
  /\ \/ pc = "warmup" /\ ~shutdown
     \/ pc = "warming"
  /\ examples > 0
  /\ examples' = examples - 1
  /\ left' = WarmEvents
  /\ Goto("forward")
  /\ UNCHANGED <<shutdown, server, wire, sock, retry, ids, index, current, shared,
                 streamer, late>>

WarmupEnd ==
  /\ pc = "warming"
  /\ examples = 0
  /\ Goto("init")
  /\ UNCHANGED <<shutdown, server, wire, sock, startup, task, shared, streamer, late>>

(* init_protocol looks for the socket file; when it gives up it returns as *)
(* it does when it has found it.                                           *)
InitProtocol ==
  /\ pc = "init"
  /\ \/ /\ retry < MaxRetry /\ ~shutdown /\ ~listening
        /\ retry' = retry + 1
        /\ pc' = pc
     \/ /\ retry = MaxRetry \/ shutdown \/ listening
        /\ retry' = retry
        /\ Goto("run")
  /\ UNCHANGED <<shutdown, server, wire, sock, examples, task, shared, streamer, late>>

(* run: the socket is made once, so it can be connected only once. *)
Open ==
  /\ pc = "run"
  /\ ~shutdown /\ sock = "new" /\ listening
  /\ sock' = "open" /\ peer' = "up"
  /\ Goto("receive")
  /\ UNCHANGED <<shutdown, listening, inbox, count, wire, startup, task, shared,
                 streamer, late>>

(* The loop ends, or connect raises OSError; either way the process ends. *)
Exit ==
  /\ pc = "run"
  /\ shutdown \/ sock # "new" \/ ~listening
  /\ Goto("exit")
  /\ UNCHANGED <<shutdown, server, wire, sock, startup, task, shared, streamer, late>>

-----------------------------------------------------------------------------
(* coordinate: the next batch, whose ids the streaming thread sees too. *)
Receive ==
  /\ pc = "receive"
  /\ inbox # << >>
  /\ ids' = inbox /\ current' = inbox
  /\ inbox' = << >>
  /\ left' = MaxEvents
  /\ Goto("forward")
  /\ UNCHANGED <<shutdown, listening, peer, count, wire, sock, startup, index,
                 shared, streamer, late>>

(* The end of the loop, or the end of the connection. *)
LeaveLoop ==
  /\ pc = "receive"
  /\ shutdown \/ (inbox = << >> /\ peer = "down")
  /\ Goto("close")
  /\ UNCHANGED <<shutdown, server, wire, sock, startup, task, shared, streamer, late>>

Close ==
  /\ pc = "close"
  /\ sock' = "closed"
  /\ peer' = "down"
  /\ Goto("run")
  /\ UNCHANGED <<shutdown, listening, inbox, count, wire, startup, task, shared,
                 streamer, late>>

(* forward calls send_stream_event for one of its requests. *)
Emit ==
  /\ pc = "forward"
  /\ left > 0
  /\ index' \in 1 .. (IF ids = << >> THEN MaxItems ELSE Len(ids))
  /\ left' = left - 1
  /\ Goto("acquire")
  /\ UNCHANGED <<shutdown, server, wire, sock, startup, ids, current, shared,
                 streamer, late>>

(* send_stream_event: no timeout of its own. *)
AcquireEvent ==
  /\ pc = "acquire"
  /\ sem > 0
  /\ sem' = sem - 1
  /\ Goto("put")
  /\ UNCHANGED <<shutdown, server, wire, sock, startup, task, stream, streamer, late>>

PutEvent ==
  /\ pc = "put"
  /\ stream' = Append(stream,
       [owner |-> IF ids = << >> THEN <<0, index>> ELSE ids[index],
        index |-> index])
  /\ Goto("forward")
  /\ UNCHANGED <<shutdown, server, wire, sock, startup, task, sem, streamer, late>>

(* forward returns or raises; an example that raises ends the warmup. *)
ForwardEnds ==
  /\ pc = "forward"
  /\ \/ /\ ids # << >>
        /\ Goto("reply") /\ examples' = examples
     \/ /\ ids = << >>
        /\ Goto("warming") /\ examples' \in {examples, 0}
  /\ UNCHANGED <<shutdown, server, wire, sock, retry, task, shared, streamer, late>>

(* The timer of set_mosec_timeout, which the warmup does not set, raises   *)
(* wherever forward is: between acquire and put the permit is lost.        *)
Alarm ==
  /\ MayAlarm
  /\ pc \in {"forward", "acquire", "put"}
  /\ ids # << >>
  /\ Goto("reply")
  /\ UNCHANGED <<shutdown, server, wire, sock, startup, task, shared, streamer, late>>

(* Mutation of AcquireReply: the reply does not wait. *)
ReplyAtOnce ==
  /\ pc = "reply"
  /\ Goto("sending")
  /\ UNCHANGED <<shutdown, server, wire, sock, startup, task, shared, streamer, late>>

(* The reply waits for the semaphore, so that the last event is out. *)
AcquireReply ==
  /\ pc = "reply"
  /\ sem > 0
  /\ sem' = sem - 1
  /\ Goto("sending")
  /\ UNCHANGED <<shutdown, server, wire, sock, startup, task, stream, streamer, late>>

(* The streaming thread has an event to send, and can. *)
EventPending == spc # "dead" /\ (spc # "get" \/ stream # << >>)

(* Mutation of AcquireTimeout: no timeout. *)
AcquireForever == pc = "none" /\ UNCHANGED cVars

(* acquire may time out whenever there is no permit, and its result is not *)
(* looked at.                                                              *)
AcquireTimeout ==
  /\ pc = "reply"
  /\ sem = 0
  /\ late' = late + (IF EventPending THEN 1 ELSE 0)
  /\ Goto("sending")
  /\ UNCHANGED <<shutdown, server, wire, sock, startup, task, shared, streamer>>

(* The reply is sent and the semaphore released, acquired or not. *)
SendReply ==
  /\ pc = "sending"
  /\ Connected
  /\ wire' = Append(wire, ReplyMessage(ids))
  /\ sem' = sem + 1
  /\ Goto("receive")
  /\ UNCHANGED <<shutdown, server, sock, startup, task, stream, streamer, late>>

SendFails ==
  /\ pc = "sending"
  /\ MayFail \/ ~Connected
  /\ sem' = sem + 1
  /\ Goto("close")
  /\ UNCHANGED <<shutdown, server, wire, sock, startup, task, stream, streamer, late>>

-----------------------------------------------------------------------------
(* streaming: get, then the id from current_ids, then the send. *)
StreamGet ==
  /\ spc = "get" /\ pc # "exit"
  /\ stream # << >>
  /\ item' = Head(stream)
  /\ stream' = Tail(stream)
  /\ spc' = "lookup"
  /\ UNCHANGED <<shutdown, server, wire, sock, pc, startup, task, sem, target, late>>

(* Mutations of StreamLookup: always the first id; the last index counts   *)
(* as out of range, and such an event is passed over.                      *)
StreamLookupFirst ==
  /\ spc = "lookup" /\ pc # "exit"
  /\ current # << >>
  /\ target' = current[1]
  /\ spc' = "sending"
  /\ UNCHANGED <<shutdown, server, wire, sock, pc, startup, task, shared, item, late>>

StreamLookupShort ==
  /\ spc = "lookup" /\ pc # "exit"
  /\ \/ /\ item.index < Len(current)
        /\ target' = current[item.index]
        /\ spc' = "sending"
     \/ /\ item.index >= Len(current)
        /\ spc' = "get"
        /\ target' = target
  /\ UNCHANGED <<shutdown, server, wire, sock, pc, startup, task, shared, item, late>>

(* Mutation of StreamLookup: the permit is given back before the send. *)
StreamLookupReleases ==
  /\ spc = "lookup" /\ pc # "exit"
  /\ item.index <= Len(current)
  /\ target' = current[item.index]
  /\ sem' = sem + 1
  /\ spc' = "sending"
  /\ UNCHANGED <<shutdown, server, wire, sock, pc, startup, task, stream, item, late>>

(* An index out of range raises IndexError, which nobody catches. *)
StreamLookup ==
  /\ spc = "lookup" /\ pc # "exit"
  /\ \/ /\ item.index <= Len(current)
        /\ target' = current[item.index]
        /\ spc' = "sending"
     \/ /\ item.index > Len(current)
        /\ spc' = "dead"
        /\ target' = target
  /\ UNCHANGED <<shutdown, server, wire, sock, pc, startup, task, shared, item, late>>

StreamSend ==
  /\ spc = "sending" /\ pc # "exit"
  /\ Connected
  /\ wire' = Append(wire, EventMessage(target, item))
  /\ spc' = "release"
  /\ UNCHANGED <<shutdown, server, sock, pc, startup, task, shared, item, target, late>>

(* Any OSError ends the thread too, with the permit of the event. *)
StreamFails ==
  /\ spc = "sending" /\ pc # "exit"
  /\ MayFail \/ ~Connected
  /\ spc' = "dead"
  /\ UNCHANGED <<shutdown, server, wire, sock, pc, startup, task, shared, item,
                 target, late>>

StreamRelease ==
  /\ spc = "release" /\ pc # "exit"
  /\ sem' = sem + 1
  /\ spc' = "get"
  /\ UNCHANGED <<shutdown, server, wire, sock, pc, startup, task, stream, item,
                 target, late>>

StreamEnds ==
  /\ spc = "get" /\ pc # "exit"
  /\ shutdown
  /\ spc' = "dead"
  /\ UNCHANGED <<shutdown, server, wire, sock, pc, startup, task, shared, item,
                 target, late>>

-----------------------------------------------------------------------------
(* The server: it listens, writes the next batch when the last one is      *)
(* answered, and may drop the connection or be shut down.                  *)
Listen ==
  /\ ~listening
  /\ listening' = TRUE
  /\ UNCHANGED <<shutdown, peer, inbox, count, wire, sock, pc, startup, task, shared,
                 streamer, late>>

Answered(n) ==
  \E i \in DOMAIN wire : wire[i].kind = "reply" /\ wire[i].ids[1][1] = n

WriteBatch ==
  /\ Connected
  /\ count < MaxBatches
  /\ count = 0 \/ Answered(count)
  /\ \E k \in 1 .. MaxItems : inbox' = BatchOf(count + 1, k)
  /\ count' = count + 1
  /\ UNCHANGED <<shutdown, listening, peer, wire, sock, pc, startup, task, shared,
                 streamer, late>>

Break ==
  /\ MayBreak
  /\ peer = "up"
  /\ peer' = "down"
  /\ UNCHANGED <<shutdown, listening, inbox, count, wire, sock, pc, startup, task,
                 shared, streamer, late>>

Shutdown ==
  /\ MayStop
  /\ ~shutdown
  /\ shutdown' = TRUE
  /\ UNCHANGED <<server, wire, sock, pc, startup, task, shared, streamer, late>>

-----------------------------------------------------------------------------
CInit ==
  /\ shutdown = FALSE /\ listening = FALSE /\ peer = "none"
  /\ inbox = << >> /\ count = 0 /\ wire = << >> /\ sock = "new"
  /\ pc = "warmup" /\ retry = 0 /\ examples \in 0 .. MaxExamples
  /\ ids = << >> /\ left = 0 /\ index = 1 /\ current = << >>
  /\ sem = 1 /\ stream = << >>
  /\ spc = "get" /\ item = NoEvent /\ target = NoRequest /\ late = 0

Starting == WarmupSkip \/ WarmupNext \/ WarmupEnd \/ InitProtocol \/ Open \/ Exit

Coordinating ==
  \/ Receive \/ LeaveLoop \/ Close \/ Emit \/ AcquireEvent \/ PutEvent
  \/ ForwardEnds \/ AcquireReply \/ SendReply \/ SendFails

Streaming ==
  StreamGet \/ StreamLookup \/ StreamSend \/ StreamFails \/ StreamRelease \/ StreamEnds

Peer == Listen \/ WriteBatch \/ Break \/ Shutdown

CNext == Starting \/ Coordinating \/ Alarm \/ AcquireTimeout \/ Streaming \/ Peer

CSpec == CInit /\ [][CNext]_cVars

(* Both threads run and both timers fire; the server starts to listen. *)
CFairness ==
  /\ WF_cVars(Starting) /\ WF_cVars(Coordinating) /\ WF_cVars(Streaming)
  /\ WF_cVars(Alarm) /\ WF_cVars(AcquireTimeout) /\ WF_cVars(Listen)

CFairSpec == CSpec /\ CFairness

-----------------------------------------------------------------------------
CTypeOK ==
  /\ shutdown \in BOOLEAN /\ listening \in BOOLEAN
  /\ peer \in {"none", "up", "down"} /\ sock \in {"new", "open", "closed"}
  /\ pc \in {"warmup", "warming", "init", "run", "receive", "forward", "acquire",
             "put", "reply", "sending", "close", "exit"}
  /\ spc \in {"get", "lookup", "sending", "release", "dead"}
  /\ inbox \in Seq(Request) /\ ids \in Seq(Request) /\ current \in Seq(Request)
  /\ count \in 0 .. MaxBatches /\ retry \in 0 .. MaxRetry
  /\ examples \in 0 .. MaxExamples /\ left \in 0 .. MaxEvents
  /\ index \in 1 .. MaxItems /\ sem \in Nat
  /\ stream \in Seq(Event) /\ item \in Event /\ target \in Request /\ late \in Nat

(* Only a reply whose acquire timed out while an event was on its way adds *)
(* a permit, and one at most.  Before the first such reply the two threads *)
(* never write to the socket at the same time: neither lost permits, nor   *)
(* the releases that put them back, nor events that nobody sends undo it.  *)
OneWriter ==
  /\ sem <= 1 + late
  /\ late = 0 => ~(pc = "sending" /\ spc = "sending")

(* Every event of a request is sent under the id of that request.          *)
OwnIds ==
  \A i \in DOMAIN wire : wire[i].owner[1][1] # 0 => wire[i].ids = wire[i].owner

(* Before the first late reply they are: current_ids is not replaced while *)
(* an event of the batch is on its way, whatever the examples of the       *)
(* warmup have left behind.                                                *)
EventOwner == late = 0 => OwnIds

(* Before the first late reply no event of a request follows its reply.    *)
ReplyIsLast ==
  late = 0 =>
    \A i, j \in DOMAIN wire :
      i < j /\ wire[i].kind = "reply" /\ wire[j].kind = "event"
        => wire[j].owner[1][1] # wire[i].ids[1][1]

(* A batch that is received is answered, or the connection is closed:      *)
(* neither a permit that the timer of forward lost nor an event that       *)
(* cannot be sent blocks the worker for ever.                              *)
Replied ==
  \A n \in 1 .. MaxBatches :
    (pc = "forward" /\ ids # << >> /\ ids[1][1] = n) ~> (Answered(n) \/ pc = "close")

(* An event that forward emitted is sent, also when the timer ends that    *)
(* forward, unless the streaming thread or the process is gone.            *)
EventSent ==
  \A r \in Request :
    (\E i \in DOMAIN stream : stream[i].owner = r)
      ~> \/ \E i \in DOMAIN wire : wire[i].kind = "event" /\ wire[i].owner = <<r>>
         \/ spc = "dead" \/ pc = "exit"
=============================================================================
