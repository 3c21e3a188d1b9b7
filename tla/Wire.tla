-------------------------------- MODULE Wire --------------------------------
(***************************************************************************)
(* The byte streams between a connection task of the service and the       *)
(* worker process at the other end of its socket (mosec/protocol.py and    *)
(* the two loops that call it; send_message and read_message of            *)
(* src/protocol.rs).  A message is                                         *)
(*                                                                         *)
(*   flag:2  batch:2  { id:4  state:2  length:4  payload:length }          *)
(*                                                                         *)
(* big endian.  The service reads every field with read_exact; the worker  *)
(* reads each header field with a single recv, which may return fewer      *)
(* bytes.  The kernel holds at most Buffer bytes for each direction, so a  *)
(* longer message is written in several pieces.                            *)
(***************************************************************************)
EXTENDS Integers, SequencesExt

CONSTANTS
  Work,          \* the batches the service has to send: sequences of items
  Buffer,        \* bytes a direction of the socket can hold
  Events,        \* bound: stream events the worker emits
  MayBreak       \* whether the service may be killed

Byte == 0 .. 255
TwoBytes == 0 .. 65535
LengthLimit == 16777216

(* The sizes are below what their fields can hold: the count of a batch    *)
(* and a state have two bytes, and a length is read up to LengthLimit.     *)
WorkAssumption ==
  /\ Work \in Seq(Seq([id : Nat, state : TwoBytes, data : Seq(Byte)]))
  /\ \A i \in DOMAIN Work :
       /\ Len(Work[i]) \in TwoBytes
       /\ \A k \in DOMAIN Work[i] : Len(Work[i][k].data) < LengthLimit

ASSUME WireAssumption ==
  /\ WorkAssumption
  /\ Buffer \in Nat \ {0} /\ Events \in Nat /\ MayBreak \in BOOLEAN

VARIABLES
  down, up,      \* bytes on their way to the worker and to the service
  open,          \* whether the service's end of the socket is open
  sv,            \* the connection task
  sent,          \* batches the service has begun to write
  out,           \* what is left to write of the current one
  got,           \* locals of read_message
  heard,         \* the messages it has read
  wpc,           \* the main thread of the worker
  rcv,           \* locals of Protocol.receive
  mout,          \* what is left of the reply being sent
  tpc, tout,     \* the streaming thread and what is left of its event
  emitted,       \* stream events so far
  said,          \* the messages the worker has begun to send
  short,         \* a header field was read short while the socket was open
  stalled,       \* a receive timed out after it had taken bytes
  torn,          \* an event was cut, or the reply was begun inside of it
  shutdown       \* the shutdown event

service == <<sv, sent, out, got, heard>>
worker  == <<wpc, rcv>>
sends   == <<mout, tpc, tout, emitted, said, torn>>
faults  == <<short, stalled>>
wVars   == <<down, up, open, service, worker, sends, faults, shutdown>>

-----------------------------------------------------------------------------
Least(m, n) == IF m <= n THEN m ELSE n
Take(s, n) == SubSeq(s, 1, n)
Drop(s, n) == SubSeq(s, n + 1, Len(s))

(* n as w bytes, most significant first (struct.pack, put_u16, put_u32);   *)
(* a larger number loses its upper bytes, as u16 and u32 casts do.         *)
Weight == <<1, 256, 65536, 16777216>>
Digits(n, w) == [i \in 1 .. w |-> (n \div Weight[w - i + 1]) % 256]

(* The number that bytes hold.  From LengthLimit on its upper part is cut  *)
(* to one value, as no length that is sent here comes near.                *)
Number(bytes) ==
  LET upto[n \in 0 .. Len(bytes)] ==
        IF n = 0 THEN 0 ELSE 256 * Least(upto[n - 1], 65536) + bytes[n]
  IN upto[Len(bytes)]

Item(id, state, data) ==
  id \o Digits(state, 2) \o Digits(Len(data), 4) \o data

(* send_message and Protocol.send; an id is carried as the bytes that were *)
(* received.                                                               *)
Message(flag, items) ==
  LET body[n \in 0 .. Len(items)] ==
        IF n = 0 THEN Digits(flag, 2) \o Digits(Len(items), 2)
        ELSE body[n - 1] \o Item(items[n].id, items[n].state, items[n].data)
  IN body[Len(items)]

STREAM_EVENT == 32768

Bit(flag, b) == (flag \div b) % 2 = 1

(* The code read_message gives a flag: the first bit that is set counts. *)
CodeOf(flag) ==
  IF Bit(flag, 1) THEN "Normal"
  ELSE IF Bit(flag, 2) THEN "BadRequestError"
  ELSE IF Bit(flag, 4) THEN "ValidationError"
  ELSE IF Bit(flag, 16) THEN "TimeoutError"
  ELSE IF Bit(flag, STREAM_EVENT) THEN "StreamEvent"
  ELSE "InternalError"

-----------------------------------------------------------------------------
(* The service. *)
Batch(i) == [k \in DOMAIN Work[i] |-> [Work[i][k] EXCEPT !.id = Digits(@, 4)]]

SendMessage ==
  /\ sv = "idle" /\ open
  /\ sent < Len(Work)
  /\ sent' = sent + 1
  /\ out' = Message(0, Batch(sent + 1))
  /\ sv' = "writing"
  /\ UNCHANGED <<down, up, open, got, heard, worker, sends, faults, shutdown>>

(* write_all goes on as soon as there is room. *)
WriteSome ==
  /\ sv = "writing" /\ wpc # "closed"
  /\ LET k == Least(Buffer - Len(down), Len(out))
     IN /\ k > 0
        /\ down' = down \o Take(out, k)
        /\ out' = Drop(out, k)
        /\ sv' = IF k = Len(out) THEN "reading" ELSE sv
  /\ UNCHANGED <<up, open, sent, got, heard, worker, sends, faults, shutdown>>

(* read_message: the part it reads, how long that is, and what came so far *)
(* of it and of the message.                                               *)
NoMessage == [part |-> "head", want |-> 4, bytes |-> <<>>, flag |-> 0, left |-> 0,
              item |-> <<>>, items |-> <<>>]

(* read_exact. *)
ReadSome ==
  /\ sv = "reading" /\ up # <<>>
  /\ LET k == Least(Len(up), got.want - Len(got.bytes))
     IN /\ k > 0
        /\ up' = Drop(up, k)
        /\ got' = [got EXCEPT !.bytes = @ \o Take(up, k)]
  /\ UNCHANGED <<down, open, sv, sent, out, heard, worker, sends, faults, shutdown>>

(* A part is complete: the header, then for every item its header and its  *)
(* payload.                                                                *)
ReadPart ==
  /\ sv = "reading" /\ Len(got.bytes) = got.want
  /\ got.part # "end"
  /\ got' = LET b == got.bytes
                AtItem(m) == [m EXCEPT !.part = IF m.left = 0 THEN "end" ELSE "item",
                                       !.want = IF m.left = 0 THEN 0 ELSE 10,
                                       !.bytes = <<>>]
            IN CASE got.part = "head" ->
                      AtItem([got EXCEPT !.flag = Number(Take(b, 2)), !.left = Number(Drop(b, 2))])
                 [] got.part = "item" ->
                      [got EXCEPT !.part = "data", !.want = Number(Drop(b, 6)), !.bytes = <<>>,
                                  !.item = b]
                 [] got.part = "data" ->
                      AtItem([got EXCEPT !.left = @ - 1,
                                !.items = Append(@, [id |-> Take(got.item, 4),
                                                     state |-> Number(SubSeq(got.item, 5, 6)),
                                                     data |-> b])])
  /\ UNCHANGED <<down, up, open, sv, sent, out, heard, worker, sends, faults, shutdown>>

(* Mutation of ReadMessage: ids, data and states are not cleared before    *)
(* the next message is read.                                               *)
ReadMessageKeeps ==
  /\ sv = "reading" /\ got.part = "end"
  /\ heard' = Append(heard, [code |-> CodeOf(got.flag), items |-> got.items])
  /\ sv' = IF CodeOf(got.flag) = "StreamEvent" THEN "delivering" ELSE "idle"
  /\ got' = [NoMessage EXCEPT !.items = got.items]
  /\ UNCHANGED <<down, up, open, sent, out, worker, sends, faults, shutdown>>

(* A message is complete: an event is passed on to its stream, anything    *)
(* else is the reply.                                                      *)
ReadMessage ==
  /\ sv = "reading" /\ got.part = "end"
  /\ heard' = Append(heard, [code |-> CodeOf(got.flag), items |-> got.items])
  /\ sv' = IF CodeOf(got.flag) = "StreamEvent" THEN "delivering" ELSE "idle"
  /\ got' = NoMessage
  /\ UNCHANGED <<down, up, open, sent, out, worker, sends, faults, shutdown>>

(* send_stream_event returns; until then nothing is read. *)
Delivered ==
  /\ sv = "delivering"
  /\ sv' = "reading"
  /\ UNCHANGED <<down, up, open, sent, out, got, heard, worker, sends, faults, shutdown>>

(* Mutation of SocketError: the end of the stream is taken for silence. *)
SocketErrorWrite ==
  /\ wpc = "closed"
  /\ sv = "writing"
  /\ sv' = "gone" /\ open' = FALSE /\ got' = NoMessage
  /\ UNCHANGED <<down, up, sent, out, heard, worker, sends, faults, shutdown>>

(* A read fails after an event: the task leaves the inner loop only, with  *)
(* what it has, and goes on to its next batch.                             *)
AfterEvent == heard # <<>> /\ Last(heard).code = "StreamEvent"

(* The worker has closed the socket: the write or the read fails. *)
SocketError ==
  /\ wpc = "closed"
  /\ \/ sv = "writing" /\ sv' = "gone" /\ open' = FALSE
     \/ /\ sv = "reading" /\ up = <<>> /\ Len(got.bytes) < got.want
        /\ sv' = IF AfterEvent THEN "idle" ELSE "gone"
        /\ open' = AfterEvent
  /\ got' = NoMessage
  /\ UNCHANGED <<down, up, sent, out, heard, worker, sends, faults, shutdown>>

(* The service is killed, or has ended its drain. *)
Break ==
  /\ MayBreak /\ open
  /\ sv' = "gone" /\ open' = FALSE
  /\ UNCHANGED <<down, up, sent, out, got, heard, worker, sends, faults, shutdown>>

Shutdown ==
  /\ ~shutdown
  /\ shutdown' = TRUE
  /\ UNCHANGED <<down, up, open, service, worker, sends, faults>>

-----------------------------------------------------------------------------
(* The worker's main thread: Coordinator.coordinate. *)
Fresh == [taken |-> FALSE, left |-> 0, id |-> <<>>, state |-> <<>>, want |-> 0,
          data |-> <<>>, items |-> <<>>]

LoopHead ==
  /\ wpc = "head"
  /\ wpc' = IF shutdown THEN "close" ELSE "flag"
  /\ rcv' = Fresh
  /\ UNCHANGED <<down, up, open, service, sends, faults, shutdown>>

Close ==
  /\ wpc = "close"
  /\ wpc' = "closed"
  /\ UNCHANGED <<down, up, open, service, rcv, sends, faults, shutdown>>

Header == [flag |-> 2, batch |-> 2, id |-> 4, state |-> 2, length |-> 4]

(* recv(n): whatever is there, at most n bytes, none when the other end is *)
(* closed.                                                                 *)
Recv(field) ==
  /\ wpc = field
  /\ down # <<>> \/ ~open
  /\ down' = Drop(down, Least(Header[field], Len(down)))
  /\ short' = (short \/ (open /\ Len(down) < Header[field]))
  /\ UNCHANGED <<up, open, service, sends, stalled, shutdown>>

Field(field) == Take(down, Least(Header[field], Len(down)))

Goto(label) == wpc' = label

RecvFlag ==
  /\ Recv("flag")
  /\ rcv' = [rcv EXCEPT !.taken = down # <<>>]
  /\ Goto("batch")

(* struct.unpack of another number of bytes than the format's raises, and  *)
(* the connection is closed.                                               *)
RecvBatch ==
  /\ Recv("batch")
  /\ LET b == Field("batch")
     IN /\ rcv' = [rcv EXCEPT !.left = Number(b)]
        /\ Goto(IF Len(b) # Header["batch"] THEN "close"
                ELSE IF Number(b) = 0 THEN "forward" ELSE "id")

(* The bytes of the id and of the state are only kept. *)
RecvId ==
  /\ Recv("id")
  /\ rcv' = [rcv EXCEPT !.id = Field("id"), !.left = @ - 1]
  /\ Goto("state")

RecvState ==
  /\ Recv("state")
  /\ rcv' = [rcv EXCEPT !.state = Field("state")]
  /\ Goto("length")

RecvLength ==
  /\ Recv("length")
  /\ LET b == Field("length")
     IN /\ rcv' = [rcv EXCEPT !.want = Number(b), !.data = <<>>]
        /\ Goto(IF Len(b) # Header["length"] THEN "close" ELSE "payload")

(* Mutation of RecvPayload: one recv_into is taken for all. *)
RecvPayloadOnce ==
  /\ wpc = "payload" /\ Len(rcv.data) < rcv.want
  /\ down # <<>>
  /\ LET k == Least(rcv.want, Len(down))
     IN /\ down' = Drop(down, k)
        /\ rcv' = [rcv EXCEPT !.data = Take(down, k), !.want = k]
  /\ UNCHANGED <<up, open, service, wpc, sends, faults, shutdown>>

(* _recv_all: takes what is there until the payload is complete.  When the *)
(* other end is closed recv_into returns nothing, and the loop spins.      *)
RecvPayload ==
  /\ wpc = "payload" /\ Len(rcv.data) < rcv.want
  /\ down # <<>>
  /\ LET k == Least(rcv.want - Len(rcv.data), Len(down))
     IN /\ down' = Drop(down, k)
        /\ rcv' = [rcv EXCEPT !.data = @ \o Take(down, k)]
  /\ UNCHANGED <<up, open, service, wpc, sends, faults, shutdown>>

(* The item is complete; its state is unpacked only now. *)
KeepItem ==
  /\ wpc = "payload" /\ Len(rcv.data) = rcv.want
  /\ \/ /\ Len(rcv.state) # Header["state"]
        /\ Goto("close")
        /\ rcv' = rcv
     \/ /\ Len(rcv.state) = Header["state"]
        /\ rcv' = [rcv EXCEPT !.items = Append(@, [id |-> rcv.id, state |-> Number(rcv.state),
                                                   data |-> rcv.data])]
        /\ Goto(IF rcv.left = 0 THEN "forward" ELSE "id")
  /\ UNCHANGED <<down, up, open, service, sends, faults, shutdown>>

Receiving == {"flag", "batch", "id", "state", "length", "payload"}

(* Mutation of ReceiveTimeout: receive is called again at once. *)
ReceiveTimeoutRetries ==
  /\ wpc \in Receiving /\ ~(wpc = "payload" /\ Len(rcv.data) = rcv.want)
  /\ down = <<>> /\ open
  /\ Goto("flag")
  /\ rcv' = Fresh
  /\ stalled' = (stalled \/ rcv.taken)
  /\ UNCHANGED <<down, up, open, service, sends, short, shutdown>>

(* socket.timeout, wherever receive is: the loop begins anew. *)
ReceiveTimeout ==
  /\ wpc \in Receiving /\ ~(wpc = "payload" /\ Len(rcv.data) = rcv.want)
  /\ down = <<>> /\ open
  /\ Goto("head")
  /\ rcv' = Fresh
  /\ stalled' = (stalled \/ rcv.taken)
  /\ UNCHANGED <<down, up, open, service, sends, short, shutdown>>

-----------------------------------------------------------------------------
(* The worker's messages. *)
Speak(flag, items) ==
  said' = Append(said, [code |-> CodeOf(flag), items |-> items])

(* The streaming thread gets an event of the first task of the batch. *)
Emit ==
  /\ wpc = "forward" /\ tpc = "idle"
  /\ rcv.items # <<>>
  /\ emitted < Events /\ emitted' = emitted + 1
  /\ LET event == <<[rcv.items[1] EXCEPT !.state = 0, !.data = <<emitted>>]>>
     IN tout' = Message(STREAM_EVENT, event) /\ Speak(STREAM_EVENT, event)
  /\ tpc' = "sending"
  /\ UNCHANGED <<down, up, open, service, worker, mout, torn, faults, shutdown>>

(* sendall of the streaming thread. *)
EventSome ==
  /\ tpc = "sending" /\ open
  /\ LET k == Least(Buffer - Len(up), Len(tout))
     IN /\ k > 0
        /\ up' = up \o Take(tout, k)
        /\ tout' = Drop(tout, k)
        /\ tpc' = IF k = Len(tout) THEN "idle" ELSE tpc
  /\ UNCHANGED <<down, open, service, worker, mout, emitted, said, torn, faults, shutdown>>

(* It times out on a full socket or finds it closed: the thread ends, the  *)
(* rest of the event is lost, and what is written of it stays written.     *)
EventFails ==
  /\ tpc = "sending"
  /\ ~open \/ wpc = "closed" \/ Len(up) = Buffer
  /\ tpc' = "dead" /\ tout' = <<>>
  /\ torn' = TRUE
  /\ UNCHANGED <<down, up, open, service, worker, mout, emitted, said, faults, shutdown>>

(* forward has returned or raised: the reply, under the flag of its status *)
(* and with one payload for every id.  A send that is not through when the *)
(* acquire of the semaphore times out does not hold it back.               *)
Reply ==
  /\ wpc = "forward"
  /\ torn' = (torn \/ tpc = "sending")
  /\ \E flag \in {1, 8} :
       mout' = Message(flag, rcv.items) /\ Speak(flag, rcv.items)
  /\ Goto("send")
  /\ UNCHANGED <<down, up, open, service, rcv, tpc, tout, emitted, faults, shutdown>>

(* sendall of the main thread. *)
ReplySome ==
  /\ wpc = "send" /\ open
  /\ LET k == Least(Buffer - Len(up), Len(mout))
     IN /\ k > 0
        /\ up' = up \o Take(mout, k)
        /\ mout' = Drop(mout, k)
        /\ Goto(IF k = Len(mout) THEN "head" ELSE "send")
  /\ UNCHANGED <<down, open, service, rcv, tpc, tout, emitted, said, torn, faults, shutdown>>

(* OSError: the connection is closed. *)
ReplyFails ==
  /\ wpc = "send"
  /\ ~open \/ Len(up) = Buffer
  /\ Goto("close")
  /\ mout' = <<>>
  /\ UNCHANGED <<down, up, open, service, rcv, tpc, tout, emitted, said, torn, faults, shutdown>>

-----------------------------------------------------------------------------
WInit ==
  /\ down = <<>> /\ up = <<>> /\ open = TRUE
  /\ sv = "idle" /\ sent = 0 /\ out = <<>> /\ got = NoMessage /\ heard = <<>>
  /\ wpc = "head" /\ rcv = Fresh
  /\ mout = <<>> /\ tpc = "idle" /\ tout = <<>> /\ emitted = 0 /\ said = <<>>
  /\ torn = FALSE /\ short = FALSE /\ stalled = FALSE /\ shutdown = FALSE

ConnectionTask ==
  \/ SendMessage \/ WriteSome \/ ReadSome \/ ReadPart \/ ReadMessage \/ Delivered \/ SocketError

MainThread ==
  \/ LoopHead \/ Close
  \/ RecvFlag \/ RecvBatch \/ RecvId \/ RecvState \/ RecvLength \/ RecvPayload
  \/ KeepItem \/ ReceiveTimeout \/ Reply \/ ReplySome

StreamingThread == Emit \/ EventSome \/ EventFails

WNext ==
  \/ ConnectionTask \/ MainThread \/ ReplyFails \/ StreamingThread
  \/ Break \/ Shutdown

WSpec == WInit /\ [][WNext]_wVars

(* Both processes run, the clock passes the socket's timeout and forward   *)
(* returns.  Whether a send waits for room or times out is left open, and  *)
(* so is whether an event is ever delivered: the channel of its stream may *)
(* be full, and the send to it waits as long as a client that stays        *)
(* connected reads nothing.                                                *)
WFairSpec ==
  /\ WSpec
  /\ WF_wVars(ConnectionTask /\ sv # "delivering")
  /\ WF_wVars(MainThread \/ ReplyFails)
  /\ WF_wVars(EventSome \/ EventFails)

-----------------------------------------------------------------------------
(* What the worker hands to forward is a batch the service wrote, item by  *)
(* item, in whatever pieces the socket delivered it: unless a header field *)
(* was cut, or the rest of a message came later than the timeout, which    *)
(* receive does not notice.  It is the batch the service waits for, unless *)
(* what is left of a torn event was taken for its reply.                   *)
WholeBatches ==
  (wpc = "forward" /\ ~short /\ ~stalled) =>
    \E i \in 1 .. sent : rcv.items = Batch(i) /\ (torn \/ i = sent)

(* The service hears what the worker said, in that order, with the codes,  *)
(* ids and payloads it said, as long as the two threads of the worker do   *)
(* not cut or overlap each other's messages.                               *)
RightReplies == (~short /\ ~torn) => IsPrefix(heard, said)

(* A batch that is sent is answered, or the connection ends, or its task   *)
(* waits for ever for the client of a stream to read: the two sides never  *)
(* wait for each other, with the same exceptions.                          *)
Served ==
  sv = "writing" ~>
    \/ sv \in {"idle", "gone"}
    \/ [](sv = "delivering")
    \/ short \/ stalled \/ torn

(* A worker that is told to shut down closes its socket, wherever it is in *)
(* a message: but for the loop of _recv_all, which a service that ends in  *)
(* the middle of a payload leaves spinning.                                *)
Leaves ==
  shutdown ~> wpc = "closed" \/ (wpc = "payload" /\ ~open)
=============================================================================
