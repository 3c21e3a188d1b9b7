------------------------- MODULE CoordinatorProofs -------------------------
(***************************************************************************)
(* Proofs about the two threads of an SSE worker, for any number of        *)
(* batches, requests and events.                                           *)
(***************************************************************************)
EXTENDS Coordinator, TLAPS

Labels == {"warmup", "warming", "init", "run", "receive", "forward", "acquire",
           "put", "reply", "sending", "close", "exit"}

(* The types, without the counters that no other variable depends on. *)
Types ==
  /\ pc \in Labels
  /\ spc \in {"get", "lookup", "sending", "release", "dead"}
  /\ sem \in Nat
  /\ count \in 0 .. MaxBatches
  /\ retry \in 0 .. MaxRetry /\ examples \in 0 .. MaxExamples
  /\ left \in 0 .. MaxEvents /\ index \in 1 .. MaxItems
  /\ inbox \in Seq(Request) /\ ids \in Seq(Request) /\ current = ids
  /\ stream \in Seq(Event) /\ item \in Event /\ target \in Request
  /\ shutdown \in BOOLEAN /\ listening \in BOOLEAN
  /\ peer \in {"none", "up", "down"} /\ sock \in {"new", "open", "closed"}
  /\ Len(inbox) <= MaxItems /\ Len(ids) <= MaxItems /\ late \in Nat

(* An event is emitted with the index of a request of the batch. *)
IndexOk == pc \in {"acquire", "put"} /\ ids # << >> => index <= Len(ids)

TypeInv == Types /\ IndexOk

(* The bounds are numbers. *)
LEMMA Numbers ==
  /\ MaxBatches \in Nat /\ MaxItems \in Nat /\ 1 <= MaxItems /\ MaxEvents \in Nat
  /\ MaxExamples \in Nat /\ WarmEvents \in 0 .. MaxEvents /\ MaxRetry \in Nat
BY CoordinatorAssumption

LEMMA BatchType ==
  ASSUME NEW n \in 0 .. MaxBatches, NEW k \in 1 .. MaxItems
  PROVE  BatchOf(n, k) \in Seq(Request) /\ Len(BatchOf(n, k)) = k
<1>1. k \in Nat /\ \A i \in 1 .. k : <<n, i>> \in Request
  BY Numbers DEF Request
<1> QED  BY <1>1 DEF BatchOf

LEMMA InitTypes == CInit => TypeInv
<1> SUFFICES ASSUME CInit PROVE TypeInv
  OBVIOUS
<1>1. NoRequest \in Request
  BY Numbers DEF NoRequest, Request
<1>2. NoEvent \in Event
  BY <1>1, Numbers DEF NoEvent, Event
<1>3. inbox = << >> /\ ids = << >> /\ current = << >> /\ stream = << >>
      /\ examples \in 0 .. MaxExamples
  BY DEF CInit
<1>4. inbox \in Seq(Request) /\ ids \in Seq(Request) /\ current = ids
      /\ stream \in Seq(Event) /\ Len(inbox) <= MaxItems /\ Len(ids) <= MaxItems
  BY <1>3, Numbers
<1>5. count = 0 /\ retry = 0 /\ left = 0 /\ index = 1 /\ sem = 1 /\ item \in Event
      /\ target \in Request /\ pc \in Labels /\ spc = "get" /\ peer = "none" /\ sock = "new"
      /\ shutdown = FALSE /\ listening = FALSE /\ late = 0
  BY <1>1, <1>2 DEF CInit, Labels
<1>6. 0 \in 0 .. MaxBatches /\ 0 \in 0 .. MaxRetry /\ 0 \in 0 .. MaxEvents /\ 1 \in 1 .. MaxItems
  BY Numbers
<1>7. Types
  BY <1>3, <1>4, <1>5, <1>6 DEF Types
<1> QED  BY <1>3, <1>7 DEF TypeInv, IndexOk

LEMMA NextTypes == TypeInv /\ [CNext]_cVars => TypeInv'
<1> SUFFICES ASSUME TypeInv, [CNext]_cVars PROVE TypeInv'
  OBVIOUS
<1> USE DEF TypeInv, Types, IndexOk, Labels, Goto, server, startup, task, shared, streamer
<1>1. CASE WarmupSkip
  BY <1>1, Numbers DEF WarmupSkip
<1>2. CASE WarmupNext
  BY <1>2, Numbers DEF WarmupNext
<1>3. CASE WarmupEnd
  BY <1>3, Numbers DEF WarmupEnd
<1>4. CASE InitProtocol
  BY <1>4, Numbers DEF InitProtocol
<1>5. CASE Open
  BY <1>5, Numbers DEF Open
<1>6. CASE Exit
  BY <1>6, Numbers DEF Exit
<1>7. CASE Receive
  BY <1>7, Numbers DEF Receive
<1>8. CASE LeaveLoop
  BY <1>8, Numbers DEF LeaveLoop
<1>9. CASE Close
  BY <1>9, Numbers DEF Close
<1>10. CASE ForwardEnds
  BY <1>10, Numbers DEF ForwardEnds
<1>11. CASE AcquireEvent
  BY <1>11, Numbers DEF AcquireEvent
<1>12. CASE AcquireReply
  BY <1>12, Numbers DEF AcquireReply
<1>13. CASE SendReply
  BY <1>13, Numbers DEF SendReply
<1>14. CASE SendFails
  BY <1>14, Numbers DEF SendFails
<1>15. CASE Alarm
  BY <1>15, Numbers DEF Alarm
<1>16. CASE AcquireTimeout
  BY <1>16, Numbers DEF AcquireTimeout
<1>17. CASE StreamGet
  BY <1>17, Numbers DEF StreamGet
<1>18. CASE StreamSend
  BY <1>18, Numbers DEF StreamSend
<1>19. CASE StreamFails
  BY <1>19, Numbers DEF StreamFails
<1>20. CASE StreamRelease
  BY <1>20, Numbers DEF StreamRelease
<1>21. CASE StreamEnds
  BY <1>21, Numbers DEF StreamEnds
<1>22. CASE Listen
  BY <1>22, Numbers DEF Listen
<1>23. CASE Break
  BY <1>23, Numbers DEF Break
<1>24. CASE Shutdown
  BY <1>24, Numbers DEF Shutdown
<1>25. CASE Emit
  <2>1. index' \in 1 .. MaxItems /\ (ids # << >> => index' <= Len(ids))
    BY <1>25, Numbers DEF Emit
  <2> QED  BY <1>25, <2>1, Numbers DEF Emit
<1>26. CASE PutEvent
  <2> DEFINE o == IF ids = << >> THEN <<0, index>> ELSE ids[index]
             e == [owner |-> o, index |-> index]
  <2>1. o \in Request
    <3>1. CASE ids = << >>
      BY <3>1, Numbers DEF Request
    <3>2. CASE ids # << >>
      <4>1. index \in 1 .. Len(ids)
        BY <1>26, <3>2, Numbers DEF PutEvent
      <4> QED  BY <4>1, <3>2
    <3> QED  BY <3>1, <3>2
  <2>2. e \in Event
    <3> HIDE DEF o
    <3> QED  BY <2>1 DEF Event
  <2>3. stream' = Append(stream, e)
    BY <1>26 DEF PutEvent
  <2> HIDE DEF e
  <2>4. stream' \in Seq(Event)
    BY <2>2, <2>3
  <2> QED  BY <1>26, <2>4 DEF PutEvent
<1>27. CASE StreamLookup
  <2>1. item.index \in 1 .. MaxItems
    BY DEF Event
  <2>2. item.index <= Len(ids) => ids[item.index] \in Request
    BY <2>1, Numbers
  <2>3. target' \in Request
    BY <1>27, <2>2 DEF StreamLookup
  <2> QED  BY <1>27, <2>3 DEF StreamLookup
<1>28. CASE WriteBatch
  <2>1. PICK k \in 1 .. MaxItems : inbox' = BatchOf(count + 1, k)
    BY <1>28 DEF WriteBatch
  <2>2. count + 1 \in 0 .. MaxBatches
    BY <1>28, Numbers DEF WriteBatch
  <2>3. inbox' \in Seq(Request) /\ Len(inbox') <= MaxItems
    BY <2>1, <2>2, BatchType, Numbers
  <2> QED  BY <1>28, <2>2, <2>3 DEF WriteBatch
<1>29. CASE UNCHANGED cVars
  BY <1>29 DEF cVars
<1> QED
  BY <1>1, <1>2, <1>3, <1>4, <1>5, <1>6, <1>7, <1>8, <1>9, <1>10, <1>11,
     <1>12, <1>13, <1>14, <1>15, <1>16, <1>17, <1>18, <1>19, <1>20, <1>21,
     <1>22, <1>23, <1>24, <1>25, <1>26, <1>27, <1>28, <1>29
  DEF CNext, Starting, Coordinating, Streaming, Peer

(* Every variable of the coordinator keeps its type. *)
THEOREM CoordinatorTypes == CSpec => []CTypeOK
<1>1. TypeInv => CTypeOK
  BY DEF TypeInv, Types, Labels, CTypeOK
<1> QED  BY <1>1, InitTypes, NextTypes, PTL DEF CSpec

-----------------------------------------------------------------------------
(* The permits there are: in the semaphore, with the main thread, and with *)
(* the events that a live streaming thread has still to send.              *)
InMain == IF pc \in {"put", "sending"} THEN 1 ELSE 0

InHand == IF spc = "get" THEN 0 ELSE 1

Outstanding == IF spc = "dead" THEN 0 ELSE Len(stream) + InHand

Permits == sem + InMain + Outstanding

(* There is at most one permit, and one more for every late reply: the     *)
(* timer of forward and a dying streaming thread lose it, a reply that     *)
(* found none left puts it back, and a late reply adds one.                *)
OnePermit == Permits <= 1 + late

LEMMA InitPermit == CInit => OnePermit
BY DEF CInit, OnePermit, Permits, Outstanding, InMain, InHand

(* The three parts are numbers. *)
LEMMA PermitParts ==
  ASSUME TypeInv
  PROVE  /\ sem \in Nat /\ InMain \in {0, 1} /\ Outstanding \in Nat
         /\ Len(stream) \in Nat /\ stream \in Seq(Event)
<1>1. sem \in Nat /\ Len(stream) \in Nat /\ stream \in Seq(Event)
  BY DEF TypeInv, Types
<1>2. InMain \in {0, 1} /\ InHand \in {0, 1}
  BY DEF InMain, InHand
<1>3. Len(stream) + InHand \in Nat
  BY <1>1, <1>2
<1>4. Outstanding \in Nat
  BY <1>3 DEF Outstanding
<1> QED  BY <1>1, <1>2, <1>4

LEMMA NextPermit == TypeInv /\ OnePermit /\ [CNext]_cVars => OnePermit'
<1> SUFFICES ASSUME TypeInv, OnePermit, [CNext]_cVars PROVE OnePermit'
  OBVIOUS
<1>0. /\ sem \in Nat /\ InMain \in {0, 1} /\ Outstanding \in Nat
      /\ Len(stream) \in Nat /\ stream \in Seq(Event)
      /\ sem + InMain + Outstanding <= 1 + late /\ late \in Nat
  BY PermitParts DEF OnePermit, Permits, TypeInv, Types
<1> SUFFICES sem' + InMain' + Outstanding' <= 1 + late'
  BY DEF OnePermit, Permits
<1> USE DEF Goto, shared, streamer, startup, task
<1>1. ASSUME UNCHANGED <<sem, stream, spc, late>>, InMain' \in {0, InMain}
      PROVE  sem' + InMain' + Outstanding' <= 1 + late'
  <2>1. Outstanding' = Outstanding
    BY <1>1 DEF Outstanding, InHand
  <2>2. CASE InMain' = 0
    BY <1>0, <1>1, <2>1, <2>2
  <2>3. CASE InMain' = InMain
    BY <1>0, <1>1, <2>1, <2>3
  <2> QED  BY <1>1, <2>2, <2>3
<1>2. CASE Starting
  <2>1. UNCHANGED <<sem, stream, spc, late>> /\ pc' \notin {"put", "sending"}
    BY <1>2 DEF Starting, WarmupSkip, WarmupNext, WarmupEnd, InitProtocol, Open, Exit
  <2> QED  BY <1>0, <1>1, <2>1 DEF InMain
<1>3. CASE Receive \/ LeaveLoop \/ Close \/ ForwardEnds \/ Emit \/ Alarm
  <2>1. UNCHANGED <<sem, stream, spc, late>> /\ pc' \notin {"put", "sending"}
    BY <1>3 DEF Receive, LeaveLoop, Close, ForwardEnds, Emit, Alarm
  <2> QED  BY <1>0, <1>1, <2>1 DEF InMain
<1>4. CASE AcquireEvent \/ AcquireReply
  <2>1. sem > 0 /\ sem' = sem - 1 /\ UNCHANGED <<stream, spc, late>>
    BY <1>4 DEF AcquireEvent, AcquireReply
  <2>2. InMain' = 1 /\ InMain = 0 /\ Outstanding' = Outstanding
    BY <1>4, <2>1 DEF AcquireEvent, AcquireReply, InMain, Outstanding, InHand
  <2> QED  BY <1>0, <2>1, <2>2
<1>5. CASE SendReply \/ SendFails
  <2>1. sem' = sem + 1 /\ UNCHANGED <<stream, spc, late>>
    BY <1>5 DEF SendReply, SendFails
  <2>2. InMain' = 0 /\ InMain = 1 /\ Outstanding' = Outstanding
    BY <1>5, <2>1 DEF SendReply, SendFails, InMain, Outstanding, InHand
  <2> QED  BY <1>0, <2>1, <2>2
<1>6. CASE PutEvent
  <2>1. Len(stream') = Len(stream) + 1 /\ UNCHANGED <<sem, spc, late>>
    BY <1>0, <1>6 DEF PutEvent
  <2>2. InMain' = 0 /\ InMain = 1
    BY <1>6 DEF PutEvent, InMain
  <2>3. CASE spc = "dead"
    <3>1. Outstanding' = 0 /\ Outstanding = 0
      BY <2>1, <2>3 DEF Outstanding
    <3> QED  BY <1>0, <2>1, <2>2, <3>1
  <2>4. CASE spc # "dead"
    <3>1. InHand' = InHand /\ InHand \in {0, 1}
      BY <2>1 DEF InHand
    <3>2. Outstanding = Len(stream) + InHand /\ Outstanding' = Len(stream') + InHand'
      BY <2>1, <2>4 DEF Outstanding
    <3> QED  BY <1>0, <2>1, <2>2, <3>1, <3>2
  <2> QED  BY <2>3, <2>4
<1>7. CASE AcquireTimeout
  <2>1. /\ sem = 0 /\ UNCHANGED <<sem, stream, spc>> /\ InMain' = 1 /\ InMain = 0
        /\ late' = late + (IF EventPending THEN 1 ELSE 0)
    BY <1>7 DEF AcquireTimeout, InMain
  <2>2. Outstanding' = Outstanding
    BY <2>1 DEF Outstanding, InHand
  <2>3. CASE EventPending
    BY <1>0, <2>1, <2>2, <2>3
  <2>4. CASE ~EventPending
    <3>1. spc = "dead" \/ (spc = "get" /\ Len(stream) = 0)
      BY <2>4 DEF EventPending
    <3>2. Outstanding = 0
      BY <3>1 DEF Outstanding, InHand
    <3> QED  BY <1>0, <2>1, <2>2, <2>4, <3>2
  <2> QED  BY <2>3, <2>4
<1>8. CASE StreamGet
  <2>1. Len(stream') = Len(stream) - 1 /\ UNCHANGED <<sem, pc, late>>
        /\ spc = "get" /\ spc' = "lookup"
    BY <1>0, <1>8 DEF StreamGet
  <2>2. InMain' = InMain
    BY <2>1 DEF InMain
  <2>3. Outstanding' = Outstanding
    BY <1>0, <2>1 DEF Outstanding, InHand
  <2> QED  BY <1>0, <2>1, <2>2, <2>3
<1>9. CASE StreamLookup \/ StreamSend \/ StreamFails \/ StreamEnds
  <2>1. UNCHANGED <<sem, pc, stream, late>> /\ (spc' = "dead" \/ (spc' # "get" /\ spc \notin {"get", "dead"}))
    <3>1. CASE StreamLookup
      BY <3>1 DEF StreamLookup
    <3>2. CASE StreamSend
      BY <3>2 DEF StreamSend
    <3>3. CASE StreamFails \/ StreamEnds
      BY <3>3 DEF StreamFails, StreamEnds
    <3> QED  BY <1>9, <3>1, <3>2, <3>3
  <2>2. InMain' = InMain
    BY <2>1 DEF InMain
  <2>3. CASE spc' = "dead"
    <3>1. Outstanding' = 0
      BY <2>3 DEF Outstanding
    <3> QED  BY <1>0, <2>1, <2>2, <3>1
  <2>4. CASE spc' # "dead"
    <3>1. InHand' = InHand
      BY <2>1, <2>4 DEF InHand
    <3>2. Outstanding' = Outstanding
      BY <2>1, <2>4, <3>1 DEF Outstanding
    <3> QED  BY <1>0, <2>1, <2>2, <3>2
  <2> QED  BY <2>3, <2>4
<1>10. CASE StreamRelease
  <2>1. UNCHANGED <<pc, stream, late>> /\ spc = "release" /\ spc' = "get" /\ sem' = sem + 1
    BY <1>10 DEF StreamRelease
  <2>2. InMain' = InMain
    BY <2>1 DEF InMain
  <2>3. Outstanding = Len(stream) + 1 /\ Outstanding' = Len(stream)
    BY <1>0, <2>1 DEF Outstanding, InHand
  <2> QED  BY <1>0, <2>1, <2>2, <2>3
<1>11. CASE Peer \/ UNCHANGED cVars
  <2>1. UNCHANGED <<sem, stream, spc, pc, late>>
    BY <1>11 DEF Peer, Listen, WriteBatch, Break, Shutdown, cVars
  <2>2. InMain' = InMain
    BY <2>1 DEF InMain
  <2> QED  BY <1>0, <1>1, <2>1, <2>2
<1> QED
  BY <1>2, <1>3, <1>4, <1>5, <1>6, <1>7, <1>8, <1>9, <1>10, <1>11
  DEF CNext, Coordinating, Streaming

(* Before a reply is late it was not late before, and no acquire has timed *)
(* out while an event was on its way.                                      *)
LEMMA LateGrows ==
  TypeInv /\ [CNext]_cVars /\ late' = 0 => late = 0 /\ (AcquireTimeout => ~EventPending)
<1> SUFFICES ASSUME TypeInv, [CNext]_cVars, late' = 0
             PROVE  late = 0 /\ (AcquireTimeout => ~EventPending)
  OBVIOUS
<1>0. late \in Nat
  BY DEF TypeInv, Types
<1>1. CASE AcquireTimeout
  <2>1. late' = late + (IF EventPending THEN 1 ELSE 0)
    BY <1>1 DEF AcquireTimeout
  <2>2. CASE EventPending
    BY <1>0, <2>1, <2>2
  <2>3. CASE ~EventPending
    BY <1>0, <2>1, <2>3
  <2> QED  BY <2>2, <2>3
<1>2. CASE ~AcquireTimeout
  <2> SUFFICES late' = late
    BY <1>2
  <2>1. CASE Starting
    BY <2>1 DEF Starting, WarmupSkip, WarmupNext, WarmupEnd, InitProtocol, Open, Exit
  <2>2. CASE Coordinating
    BY <2>2 DEF Coordinating, Receive, LeaveLoop, Close, Emit, AcquireEvent, PutEvent,
                ForwardEnds, AcquireReply, SendReply, SendFails
  <2>3. CASE Alarm \/ Peer \/ UNCHANGED cVars
    BY <2>3 DEF Alarm, Peer, Listen, WriteBatch, Break, Shutdown, cVars
  <2>4. CASE Streaming
    BY <2>4 DEF Streaming, StreamGet, StreamLookup, StreamSend, StreamFails, StreamRelease,
                StreamEnds
  <2> QED  BY <1>2, <2>1, <2>2, <2>3, <2>4 DEF CNext
<1> QED  BY <1>1, <1>2

(* The semaphore of coordinator.py holds at most one permit more for every *)
(* reply whose acquire timed out while an event was on its way, and before *)
(* the first such reply the main thread and the streaming thread never     *)
(* write to the socket at the same time.                                   *)
THEOREM NeverTwoWriters == CSpec => []OneWriter
<1>1. TypeInv /\ OnePermit => OneWriter
  <2> SUFFICES ASSUME TypeInv, OnePermit PROVE OneWriter
    OBVIOUS
  <2>1. /\ sem \in Nat /\ InMain \in {0, 1} /\ Outstanding \in Nat /\ late \in Nat
        /\ sem + InMain + Outstanding <= 1 + late
    BY PermitParts DEF OnePermit, Permits, TypeInv, Types
  <2>2. sem <= 1 + late
    BY <2>1
  <2>3. ASSUME late = 0, pc = "sending", spc = "sending" PROVE FALSE
    <3>1. InMain = 1 /\ Outstanding = Len(stream) + 1
      BY <2>3 DEF InMain, Outstanding, InHand
    <3> QED  BY <2>1, <2>3, <3>1, PermitParts
  <2> QED  BY <2>2, <2>3 DEF OneWriter
<1> QED  BY <1>1, NextPermit, InitTypes, NextTypes, InitPermit, PTL DEF CSpec

-----------------------------------------------------------------------------
(* An event of a request; the events of the warmup have none. *)
OfRequest(e) == e.owner[1] # 0

Working == pc \in {"forward", "acquire", "put", "reply"} /\ ids # << >>

(* An event on its way is one of the batch that the main thread works on,  *)
(* and that batch is current_ids.                                          *)
IsOwn(e) == OfRequest(e) => e.index <= Len(ids) /\ e.owner = ids[e.index]

(* Such an event is queued, or its id is not looked up yet. *)
Moving ==
  /\ spc # "dead"
  /\ \/ \E i \in 1 .. Len(stream) : OfRequest(stream[i])
     \/ spc = "lookup" /\ OfRequest(item)

InFlight ==
  /\ Moving => Working
  /\ spc # "dead" =>
       /\ \A i \in 1 .. Len(stream) : IsOwn(stream[i])
       /\ spc = "lookup" => IsOwn(item)
       /\ spc = "sending" /\ OfRequest(item) => target = item.owner

OwnWire ==
  \A i \in 1 .. Len(wire) : wire[i].owner[1][1] # 0 => wire[i].ids = wire[i].owner

WireSeq == wire \in Seq([kind : {"event", "reply"}, ids : Seq(Request), owner : Seq(Request)])

OwnerInv == InFlight /\ WireSeq /\ OwnWire

LEMMA InitOwner == CInit => OwnerInv
BY DEF CInit, OwnerInv, InFlight, Moving, OwnWire, WireSeq

LEMMA WireGrows ==
  ASSUME NEW m \in [kind : {"event", "reply"}, ids : Seq(Request), owner : Seq(Request)],
         m.owner[1][1] # 0 => m.ids = m.owner, WireSeq, OwnWire, wire' = Append(wire, m)
  PROVE  WireSeq' /\ OwnWire'
<1>1. WireSeq'
  BY DEF WireSeq
<1>2. Len(wire') = Len(wire) + 1 /\ wire'[Len(wire) + 1] = m
      /\ \A i \in 1 .. Len(wire) : wire'[i] = wire[i]
  BY DEF WireSeq
<1>3. Len(wire) \in Nat
  BY DEF WireSeq
<1>4. OwnWire'
  BY <1>2, <1>3 DEF OwnWire
<1> QED  BY <1>1, <1>4

(* A step that leaves the events and the wire alone. *)
LEMMA Untouched ==
  ASSUME OwnerInv, UNCHANGED <<wire, stream, spc, item, target, ids>>, Moving => Working'
  PROVE  OwnerInv'
BY DEF OwnerInv, InFlight, Moving, IsOwn, OfRequest, OwnWire, WireSeq

LEMMA NextOwner ==
  TypeInv /\ OnePermit /\ OwnerInv /\ late = 0 /\ [CNext]_cVars
    /\ (AcquireTimeout => ~EventPending)
  => OwnerInv'
<1> SUFFICES ASSUME TypeInv, OnePermit, OwnerInv, late = 0, [CNext]_cVars,
                    AcquireTimeout => ~EventPending
             PROVE  OwnerInv'
  OBVIOUS
<1>0. /\ InFlight /\ WireSeq /\ OwnWire
      /\ sem \in Nat /\ stream \in Seq(Event) /\ Len(stream) \in Nat
      /\ ids \in Seq(Request) /\ current = ids /\ item \in Event /\ target \in Request
      /\ pc \in Labels
  BY DEF OwnerInv, TypeInv, Types
<1>m. Moving => Working /\ sem = 0 /\ pc \notin {"put", "sending"} /\ EventPending
  <2> SUFFICES ASSUME Moving
               PROVE  Working /\ sem = 0 /\ pc \notin {"put", "sending"} /\ EventPending
    OBVIOUS
  <2>1. Working /\ (stream # << >> \/ spc = "lookup") /\ spc # "dead"
    BY <1>0 DEF InFlight, Moving
  <2>2. Outstanding >= 1 /\ Outstanding \in Nat
    <3>1. InHand \in {0, 1} /\ (spc = "lookup" => InHand = 1)
      BY DEF InHand
    <3>2. stream # << >> => Len(stream) >= 1
      BY <1>0
    <3>3. Len(stream) + InHand >= 1
      BY <2>1, <3>1, <3>2, <1>0
    <3> QED  BY <2>1, <3>3, PermitParts DEF Outstanding
  <2>3. sem + InMain + Outstanding <= 1
    BY DEF OnePermit, Permits
  <2>4. sem = 0 /\ InMain = 0
    BY <2>2, <2>3, PermitParts
  <2> QED  BY <2>1, <2>4 DEF InMain, EventPending
<1>q. ASSUME ~Moving
      PROVE  spc # "dead" =>
               /\ \A i \in 1 .. Len(stream) : ~OfRequest(stream[i])
               /\ spc = "lookup" => ~OfRequest(item)
  BY <1>q DEF Moving
<1>1. CASE Starting \/ LeaveLoop \/ Close
  <2>1. UNCHANGED <<wire, stream, spc, item, target, ids>> /\ ~Working
    BY <1>1 DEF Starting, WarmupSkip, WarmupNext, WarmupEnd, InitProtocol, Open, Exit, LeaveLoop,
                Close, Goto, shared, streamer, task, Working
  <2> QED  BY <2>1, <1>m, Untouched
<1>2. CASE Receive
  <2>1. ~Moving
    BY <1>m, <1>2 DEF Receive, Working
  <2>2. UNCHANGED <<wire, stream, spc, item, target>>
    BY <1>2 DEF Receive, shared, streamer
  <2>3. InFlight'
    BY <1>0, <1>q, <2>1, <2>2 DEF InFlight, Moving, IsOwn, OfRequest
  <2> QED  BY <2>2, <2>3, <1>0 DEF OwnerInv, WireSeq, OwnWire
<1>3. CASE Emit \/ AcquireEvent \/ ForwardEnds \/ Alarm
  <2>1. UNCHANGED <<wire, stream, spc, item, target, ids>> /\ (Working => Working')
    BY <1>3 DEF Emit, AcquireEvent, ForwardEnds, Alarm, Goto, shared, streamer, task, Working
  <2> QED  BY <2>1, <1>m, Untouched
<1>4. CASE AcquireReply \/ AcquireTimeout \/ SendFails
  <2>1. UNCHANGED <<wire, stream, spc, item, target, ids>>
    BY <1>4 DEF AcquireReply, AcquireTimeout, SendFails, shared, streamer, task
  <2>2. ~Moving
    BY <1>0, <1>m, <1>4 DEF AcquireReply, SendFails
  <2> QED  BY <2>1, <2>2, Untouched
<1>5. CASE PutEvent
  <2> DEFINE e == [owner |-> IF ids = << >> THEN <<0, index>> ELSE ids[index], index |-> index]
  <2>1. stream' = Append(stream, e) /\ pc = "put" /\ pc' = "forward"
        /\ UNCHANGED <<wire, spc, item, target, ids>>
    BY <1>5 DEF PutEvent, Goto, streamer, task
  <2>2. ~Moving
    BY <1>m, <2>1
  <2>3. OfRequest(e) => Working' /\ IsOwn(e)
    <3>1. CASE ids = << >>
      BY <3>1 DEF OfRequest
    <3>2. CASE ids # << >>
      <4>1. index \in 1 .. Len(ids)
        BY <1>0, <2>1, <3>2 DEF TypeInv, Types, IndexOk
      <4> QED  BY <2>1, <3>2, <4>1 DEF IsOwn, Working
    <3> QED  BY <3>1, <3>2
  <2> HIDE DEF e
  <2>4. /\ Len(stream') = Len(stream) + 1
        /\ \A i \in 1 .. Len(stream) : stream'[i] = stream[i]
        /\ stream'[Len(stream) + 1] = e
    BY <1>0, <2>1
  <2>5. \A i \in 1 .. Len(stream') : i \in 1 .. Len(stream) \/ i = Len(stream) + 1
    BY <1>0, <2>4
  <2>6. spc # "dead" =>
          \A i \in 1 .. Len(stream') : OfRequest(stream'[i]) => stream'[i] = e
    BY <1>q, <2>2, <2>4, <2>5
  <2>7. Moving' => Working'
    BY <1>q, <2>1, <2>2, <2>3, <2>6 DEF Moving, OfRequest
  <2>8. spc # "dead" => \A i \in 1 .. Len(stream') : IsOwn(stream[i])'
    <3> SUFFICES ASSUME spc # "dead", NEW i \in 1 .. Len(stream'), OfRequest(stream'[i])
                 PROVE  stream'[i].index <= Len(ids') /\ stream'[i].owner = ids'[stream'[i].index]
      BY DEF IsOwn, OfRequest
    <3>1. stream'[i] = e
      BY <2>6
    <3> QED  BY <2>1, <2>3, <3>1 DEF IsOwn
  <2>9. InFlight'
    BY <1>0, <2>1, <2>7, <2>8 DEF InFlight, IsOwn, OfRequest
  <2> QED  BY <2>1, <2>9, <1>0 DEF OwnerInv, WireSeq, OwnWire
<1>6. CASE SendReply
  <2>1. wire' = Append(wire, ReplyMessage(ids)) /\ pc = "sending"
        /\ UNCHANGED <<stream, spc, item, target, ids>>
    BY <1>6 DEF SendReply, streamer, task
  <2>2. WireSeq' /\ OwnWire'
    <3>1. ReplyMessage(ids) \in [kind : {"event", "reply"}, ids : Seq(Request), owner : Seq(Request)]
          /\ ReplyMessage(ids).ids = ReplyMessage(ids).owner
      BY <1>0 DEF ReplyMessage
    <3> QED  BY <3>1, <2>1, <1>0, WireGrows
  <2>3. ~Moving
    BY <1>m, <2>1
  <2>4. InFlight'
    BY <1>0, <2>1, <2>3 DEF InFlight, Moving, IsOwn, OfRequest
  <2> QED  BY <2>2, <2>4 DEF OwnerInv
<1>7. CASE StreamGet
  <2>1. stream # << >> /\ spc = "get" /\ item' = Head(stream) /\ stream' = Tail(stream)
        /\ spc' = "lookup" /\ UNCHANGED <<wire, pc, ids, target>>
    BY <1>7 DEF StreamGet, task
  <2>2. Head(stream) = stream[1] /\ 1 \in 1 .. Len(stream) /\ Len(stream') = Len(stream) - 1
        /\ \A i \in 1 .. Len(stream') : stream'[i] = stream[i + 1] /\ i + 1 \in 1 .. Len(stream)
    BY <1>0, <2>1
  <2>3. \A i \in 1 .. Len(stream) : IsOwn(stream[i])
    BY <1>0, <2>1 DEF InFlight
  <2>4. IsOwn(item)' /\ \A i \in 1 .. Len(stream') : IsOwn(stream[i])'
    BY <2>1, <2>2, <2>3 DEF IsOwn, OfRequest
  <2>5. Moving' => Moving
    BY <2>1, <2>2 DEF Moving, OfRequest
  <2>6. Moving' => Working'
    BY <1>m, <2>1, <2>5 DEF Working
  <2>7. InFlight'
    BY <2>1, <2>4, <2>6 DEF InFlight
  <2> QED  BY <2>1, <2>7, <1>0 DEF OwnerInv, WireSeq, OwnWire
<1>8. CASE StreamLookup
  <2>1. spc = "lookup" /\ IsOwn(item) /\ UNCHANGED <<wire, pc, ids, stream, item>>
    BY <1>0, <1>8 DEF StreamLookup, InFlight, shared, task
  <2>2. spc' = "dead" \/ (spc' = "sending" /\ (OfRequest(item) => target' = item.owner))
    BY <1>0, <1>8, <2>1 DEF StreamLookup, IsOwn
  <2>3. Moving' => Moving
    BY <2>1, <2>2 DEF Moving, OfRequest
  <2>4. InFlight'
    BY <1>0, <1>m, <2>1, <2>2, <2>3 DEF InFlight, IsOwn, OfRequest, Working
  <2> QED  BY <2>1, <2>4, <1>0 DEF OwnerInv, WireSeq, OwnWire
<1>9. CASE StreamSend
  <2>1. wire' = Append(wire, EventMessage(target, item)) /\ spc' = "release" /\ spc = "sending"
        /\ UNCHANGED <<pc, ids, stream, item, target>>
    BY <1>9 DEF StreamSend, shared, task
  <2>2. OfRequest(item) => target = item.owner
    BY <1>0, <2>1 DEF InFlight
  <2>3. WireSeq' /\ OwnWire'
    <3> DEFINE m == EventMessage(target, item)
    <3>1. m \in [kind : {"event", "reply"}, ids : Seq(Request), owner : Seq(Request)]
      BY <1>0 DEF EventMessage, Event
    <3>2. m.owner[1] = item.owner /\ m.owner = <<item.owner>> /\ m.ids = <<target>>
      BY DEF EventMessage
    <3>3. m.owner[1][1] # 0 => m.ids = m.owner
      BY <2>2, <3>2 DEF OfRequest
    <3> HIDE DEF m
    <3>4. wire' = Append(wire, m)
      BY <2>1 DEF m
    <3> QED  BY <3>1, <3>3, <3>4, <1>0, WireGrows
  <2>4. InFlight'
    BY <1>0, <2>1 DEF InFlight, Moving, IsOwn, OfRequest, Working
  <2> QED  BY <2>3, <2>4 DEF OwnerInv
<1>10. CASE StreamFails \/ StreamRelease \/ StreamEnds
  <2>1. spc' \in {"dead", "get"} /\ (spc' = "get" => spc = "release")
        /\ UNCHANGED <<wire, pc, ids, stream, item, target>>
    BY <1>10 DEF StreamFails, StreamRelease, StreamEnds, shared, task
  <2>2. InFlight'
    BY <1>0, <2>1 DEF InFlight, Moving, IsOwn, OfRequest, Working
  <2> QED  BY <2>1, <2>2, <1>0 DEF OwnerInv, WireSeq, OwnWire
<1>11. CASE Peer \/ UNCHANGED cVars
  <2>1. UNCHANGED <<wire, pc, ids, stream, spc, item, target>>
    BY <1>11 DEF Peer, Listen, WriteBatch, Break, Shutdown, cVars, shared, streamer, task
  <2> QED  BY <2>1, <1>m, Untouched DEF Working
<1> QED
  BY <1>1, <1>2, <1>3, <1>4, <1>5, <1>6, <1>7, <1>8, <1>9, <1>10, <1>11
  DEF CNext, Coordinating, Streaming

(* Before the first late reply every event of a request that the streaming *)
(* thread of coordinator.py sends carries the id of that request, though   *)
(* current_ids is looked up only when the event is about to be sent.       *)
THEOREM EventsReachOwner == CSpec => []EventOwner
<1> DEFINE I == TypeInv /\ OnePermit /\ (late = 0 => OwnerInv)
<1>1. CInit => I
  BY InitTypes, InitPermit, InitOwner
<1>2. I /\ [CNext]_cVars => I'
  BY NextTypes, NextPermit, NextOwner, LateGrows
<1>3. I => EventOwner
  <2>1. WireSeq => DOMAIN wire = 1 .. Len(wire)
    BY DEF WireSeq
  <2> QED  BY <2>1 DEF OwnerInv, OwnWire, EventOwner, OwnIds
<1> HIDE DEF I
<1> QED  BY <1>1, <1>2, <1>3, PTL DEF CSpec

-----------------------------------------------------------------------------
Message == [kind : {"event", "reply"}, ids : Seq(Request), owner : Seq(Request)]

(* No message of w answers batch n. *)
Unanswered(w, n) ==
  \A i \in 1 .. Len(w) : w[i].kind = "reply" => w[i].ids[1][1] # n

Ordered(w) ==
  \A i, j \in 1 .. Len(w) :
    i < j /\ w[i].kind = "reply" /\ w[j].kind = "event"
      => w[j].owner[1][1] # w[i].ids[1][1]

NumberedReplies(w, n) ==
  \A i \in 1 .. Len(w) : w[i].kind = "reply" => w[i].ids[1][1] \in 1 .. n

(* b is batch n. *)
IsBatch(b, n) == b # << >> /\ \A i \in 1 .. Len(b) : b[i][1] = n

Busy == pc \in {"forward", "acquire", "put", "reply", "sending"} /\ ids # << >>

(* A batch is answered by the thread that works on it, after the events    *)
(* that are on their way.                                                  *)
LastInv ==
  /\ wire \in Seq(Message)
  /\ Ordered(wire)
  /\ NumberedReplies(wire, count)
  /\ Busy => inbox = << >> /\ count > 0 /\ IsBatch(ids, count) /\ Unanswered(wire, count)
  /\ inbox # << >> => count > 0 /\ IsBatch(inbox, count) /\ Unanswered(wire, count)
  /\ spc # "dead" => \A i \in 1 .. Len(stream) : Unanswered(wire, stream[i].owner[1])
  /\ spc \in {"lookup", "sending"} => Unanswered(wire, item.owner[1])
  /\ pc \in {"reply", "sending"} => ids # << >>
  /\ pc \in {"warmup", "warming"} => ids = << >>

LEMMA InitLast == CInit => LastInv
BY DEF CInit, LastInv, Ordered, NumberedReplies, Busy, Unanswered

(* A message is sent. *)
LEMMA WireAppend ==
  ASSUME NEW w \in Seq(Message), NEW m \in Message
  PROVE  /\ Append(w, m) \in Seq(Message)
         /\ Len(Append(w, m)) = Len(w) + 1 /\ Len(w) \in Nat
         /\ \A i \in 1 .. Len(w) : Append(w, m)[i] = w[i]
         /\ Append(w, m)[Len(w) + 1] = m
         /\ \A i \in 1 .. Len(w) + 1 : i \in 1 .. Len(w) \/ i = Len(w) + 1
OBVIOUS

(* An event follows the replies to other batches. *)
LEMMA EventAppend ==
  ASSUME NEW w \in Seq(Message), NEW m \in Message, m.kind = "event", Ordered(w),
         Unanswered(w, m.owner[1][1]), NEW n
  PROVE  /\ Ordered(Append(w, m))
         /\ NumberedReplies(w, n) => NumberedReplies(Append(w, m), n)
         /\ \A b : Unanswered(w, b) => Unanswered(Append(w, m), b)
<1> DEFINE z == Append(w, m)
<1>0. /\ z \in Seq(Message)
      /\ Len(z) = Len(w) + 1 /\ Len(w) \in Nat
      /\ \A i \in 1 .. Len(w) : z[i] = w[i]
      /\ z[Len(w) + 1] = m
      /\ \A i \in 1 .. Len(z) : i \in 1 .. Len(w) \/ i = Len(w) + 1
  BY WireAppend
<1> HIDE DEF z
<1>1. \A i \in 1 .. Len(z) : z[i].kind = "reply" => i \in 1 .. Len(w) /\ z[i] = w[i]
  BY <1>0
<1>2. Ordered(z)
  <2> SUFFICES ASSUME NEW i \in 1 .. Len(z), NEW j \in 1 .. Len(z), i < j,
                      z[i].kind = "reply", z[j].kind = "event"
               PROVE  z[j].owner[1][1] # z[i].ids[1][1]
    BY DEF Ordered
  <2>1. i \in 1 .. Len(w) /\ z[i] = w[i]
    BY <1>1
  <2>2. CASE j \in 1 .. Len(w)
    BY <1>0, <2>1, <2>2 DEF Ordered
  <2>3. CASE j = Len(w) + 1
    BY <1>0, <2>1, <2>3 DEF Unanswered
  <2> QED  BY <1>0, <2>2, <2>3
<1>3. NumberedReplies(w, n) => NumberedReplies(z, n)
  BY <1>1 DEF NumberedReplies
<1>4. \A b : Unanswered(w, b) => Unanswered(z, b)
  BY <1>1 DEF Unanswered
<1> QED  BY <1>2, <1>3, <1>4 DEF z

(* A reply may follow anything. *)
LEMMA ReplyAppend ==
  ASSUME NEW w \in Seq(Message), NEW m \in Message, m.kind = "reply", Ordered(w), NEW n,
         NumberedReplies(w, n), m.ids[1][1] \in 1 .. n
  PROVE  Ordered(Append(w, m)) /\ NumberedReplies(Append(w, m), n)
<1> DEFINE z == Append(w, m)
<1>0. /\ z \in Seq(Message)
      /\ Len(z) = Len(w) + 1 /\ Len(w) \in Nat
      /\ \A i \in 1 .. Len(w) : z[i] = w[i]
      /\ z[Len(w) + 1] = m
      /\ \A i \in 1 .. Len(z) : i \in 1 .. Len(w) \/ i = Len(w) + 1
  BY WireAppend
<1> HIDE DEF z
<1>1. \A j \in 1 .. Len(z) : z[j].kind = "event" => j \in 1 .. Len(w)
  BY <1>0
<1>2. Ordered(z)
  <2> SUFFICES ASSUME NEW i \in 1 .. Len(z), NEW j \in 1 .. Len(z), i < j,
                      z[i].kind = "reply", z[j].kind = "event"
               PROVE  z[j].owner[1][1] # z[i].ids[1][1]
    BY DEF Ordered
  <2>1. j \in 1 .. Len(w) /\ i \in 1 .. Len(w)
    BY <1>0, <1>1
  <2> QED  BY <1>0, <2>1 DEF Ordered
<1>3. NumberedReplies(z, n)
  BY <1>0 DEF NumberedReplies
<1> QED  BY <1>2, <1>3 DEF z

(* A step that leaves the messages, the events and the batches alone. *)
LEMMA LastQuiet ==
  ASSUME LastInv, UNCHANGED <<wire, count, inbox, ids, stream, item>>,
         spc' = "dead" \/ spc' = spc \/ (spc' \in {"get", "release"} /\ spc # "dead")
           \/ (spc = "lookup" /\ spc' = "sending"),
         Busy' => Busy,
         pc' \in {"reply", "sending"} => ids # << >>,
         pc' \in {"warmup", "warming"} => ids = << >>
  PROVE  LastInv'
BY DEF LastInv

LEMMA NextLast ==
  TypeInv /\ OnePermit /\ LastInv /\ late = 0 /\ [CNext]_cVars => LastInv'
<1> SUFFICES ASSUME TypeInv, OnePermit, LastInv, late = 0, [CNext]_cVars PROVE LastInv'
  OBVIOUS
<1>0. /\ wire \in Seq(Message) /\ stream \in Seq(Event) /\ Len(stream) \in Nat /\ item \in Event
      /\ ids \in Seq(Request) /\ inbox \in Seq(Request) /\ target \in Request
      /\ count \in Nat /\ Ordered(wire) /\ NumberedReplies(wire, count)
  BY Numbers DEF TypeInv, Types, LastInv
<1> USE DEF Goto, server, startup, task, shared, streamer
<1>1. CASE WarmupSkip \/ WarmupEnd \/ InitProtocol \/ Open \/ Exit \/ LeaveLoop \/ Close
  <2>1. /\ UNCHANGED <<wire, count, inbox, ids, stream, item, spc>>
        /\ pc' \in {"init", "run", "exit", "receive", "close"}
    BY <1>1 DEF WarmupSkip, WarmupEnd, InitProtocol, Open, Exit, LeaveLoop, Close
  <2> QED  BY <2>1, LastQuiet DEF Busy
<1>2. CASE WarmupNext
  <2>1. /\ UNCHANGED <<wire, count, inbox, ids, stream, item, spc>>
        /\ pc \in {"warmup", "warming"} /\ pc' = "forward"
    BY <1>2 DEF WarmupNext
  <2>2. ids = << >>
    BY <2>1 DEF LastInv
  <2> QED  BY <2>1, <2>2, LastQuiet DEF Busy
<1>3. CASE Receive
  <2>1. /\ inbox # << >> /\ ids' = inbox /\ inbox' = << >> /\ pc' = "forward"
        /\ UNCHANGED <<wire, count, stream, item, spc>>
    BY <1>3 DEF Receive
  <2>2. count > 0 /\ IsBatch(inbox, count) /\ Unanswered(wire, count)
    BY <2>1 DEF LastInv
  <2> QED  BY <2>1, <2>2 DEF LastInv
<1>4. CASE Emit \/ AcquireEvent \/ Alarm \/ AcquireReply \/ AcquireTimeout
  <2>1. /\ UNCHANGED <<wire, count, inbox, ids, stream, item, spc>>
        /\ pc \in {"forward", "acquire", "put", "reply"}
        /\ pc' \in {"acquire", "put", "reply", "sending"}
        /\ pc' \in {"reply", "sending"} => ids # << >> \/ pc = "reply"
    BY <1>4 DEF Emit, AcquireEvent, Alarm, AcquireReply, AcquireTimeout
  <2>2. pc = "reply" => ids # << >>
    BY DEF LastInv
  <2> QED  BY <2>1, <2>2, LastQuiet DEF Busy
<1>5. CASE ForwardEnds
  <2>1. /\ UNCHANGED <<wire, count, inbox, ids, stream, item, spc>> /\ pc = "forward"
        /\ (pc' = "reply" /\ ids # << >>) \/ (pc' = "warming" /\ ids = << >>)
    BY <1>5 DEF ForwardEnds
  <2> QED  BY <2>1, LastQuiet DEF Busy
<1>6. CASE PutEvent
  <2> DEFINE e == [owner |-> IF ids = << >> THEN <<0, index>> ELSE ids[index], index |-> index]
  <2>1. /\ UNCHANGED <<wire, count, inbox, ids, item, spc>> /\ pc = "put" /\ pc' = "forward"
        /\ stream' = Append(stream, e)
    BY <1>6 DEF PutEvent
  <2>2. Unanswered(wire, e.owner[1])
    <3>1. CASE ids = << >>
      <4>1. e.owner[1] = 0
        BY <3>1
      <4> QED  BY <1>0, <4>1 DEF Unanswered, NumberedReplies
    <3>2. CASE ids # << >>
      <4>1. index \in 1 .. Len(ids)
        BY <1>0, <2>1, <3>2, Numbers DEF TypeInv, Types, IndexOk
      <4>2. IsBatch(ids, count) /\ Unanswered(wire, count)
        BY <2>1, <3>2 DEF LastInv, Busy
      <4>3. e.owner[1] = count
        BY <3>2, <4>1, <4>2 DEF IsBatch
      <4> QED  BY <4>2, <4>3
    <3> QED  BY <3>1, <3>2
  <2> HIDE DEF e
  <2>3. /\ Len(stream') = Len(stream) + 1
        /\ \A i \in 1 .. Len(stream) : stream'[i] = stream[i]
        /\ stream'[Len(stream) + 1] = e
    BY <1>0, <2>1
  <2>4. \A i \in 1 .. Len(stream') : i \in 1 .. Len(stream) \/ i = Len(stream) + 1
    BY <1>0, <2>3
  <2>5. spc # "dead" => \A i \in 1 .. Len(stream') : Unanswered(wire, stream'[i].owner[1])
    BY <2>2, <2>3, <2>4 DEF LastInv
  <2> QED  BY <2>1, <2>5 DEF LastInv, Busy
<1>7. CASE SendReply
  <2> DEFINE m == ReplyMessage(ids)
  <2>1. /\ UNCHANGED <<count, inbox, ids, stream, item, spc>>
        /\ pc = "sending" /\ pc' = "receive" /\ wire' = Append(wire, m)
    BY <1>7 DEF SendReply
  <2>2. inbox = << >> /\ count > 0 /\ IsBatch(ids, count) /\ ids # << >>
    BY <2>1 DEF LastInv, Busy
  <2>3. m \in Message /\ m.kind = "reply" /\ m.ids = ids
    BY <1>0 DEF ReplyMessage, Message
  <2>4. m.ids[1][1] \in 1 .. count
    <3>1. 1 \in 1 .. Len(ids)
      BY <1>0, <2>2
    <3> QED  BY <1>0, <2>2, <2>3, <3>1 DEF IsBatch
  <2> HIDE DEF m
  <2>5. wire' \in Seq(Message) /\ Ordered(wire') /\ NumberedReplies(wire', count)
    <3>1. wire \in Seq(Message) /\ Ordered(wire) /\ NumberedReplies(wire, count)
      BY <1>0
    <3>2. Append(wire, m) \in Seq(Message)
      BY <3>1, <2>3
    <3>3. Ordered(Append(wire, m)) /\ NumberedReplies(Append(wire, m), count)
      BY <3>1, <2>3, <2>4, ReplyAppend, Zenon
    <3> QED  BY <2>1, <3>2, <3>3, Zenon
  <2>6. spc # "dead" => Len(stream) = 0 /\ spc = "get"
    <3>1. InMain = 1
      BY <2>1 DEF InMain
    <3>2. Outstanding = 0
      BY <3>1, PermitParts DEF OnePermit, Permits
    <3> QED  BY <1>0, <3>2 DEF Outstanding, InHand
  <2> QED  BY <2>1, <2>2, <2>5, <2>6 DEF LastInv, Busy
<1>8. CASE SendFails
  <2>1. UNCHANGED <<wire, count, inbox, ids, stream, item, spc>> /\ pc' = "close"
    BY <1>8 DEF SendFails
  <2> QED  BY <2>1, LastQuiet DEF Busy
<1>9. CASE StreamGet
  <2>1. /\ stream # << >> /\ spc = "get" /\ item' = Head(stream) /\ stream' = Tail(stream)
        /\ spc' = "lookup" /\ UNCHANGED <<wire, count, inbox, ids, pc>>
    BY <1>9 DEF StreamGet
  <2>2. Head(stream) = stream[1] /\ 1 \in 1 .. Len(stream) /\ Len(stream') = Len(stream) - 1
        /\ \A i \in 1 .. Len(stream') : stream'[i] = stream[i + 1] /\ i + 1 \in 1 .. Len(stream)
    BY <1>0, <2>1
  <2>3. \A i \in 1 .. Len(stream) : Unanswered(wire, stream[i].owner[1])
    BY <2>1 DEF LastInv
  <2>4. /\ Unanswered(wire, item'.owner[1])
        /\ \A i \in 1 .. Len(stream') : Unanswered(wire, stream'[i].owner[1])
    BY <2>1, <2>2, <2>3
  <2> QED  BY <2>1, <2>4 DEF LastInv, Busy
<1>10. CASE StreamLookup \/ StreamFails \/ StreamRelease \/ StreamEnds
  <2>1. /\ UNCHANGED <<wire, count, inbox, ids, stream, item, pc>>
        /\ \/ spc' = "dead" \/ (spc = "lookup" /\ spc' = "sending")
           \/ (spc = "release" /\ spc' = "get")
    BY <1>10 DEF StreamLookup, StreamFails, StreamRelease, StreamEnds
  <2>2. /\ pc \in {"reply", "sending"} => ids # << >>
        /\ pc \in {"warmup", "warming"} => ids = << >>
    BY DEF LastInv
  <2> QED  BY <2>1, <2>2, LastQuiet DEF Busy
<1>11. CASE StreamSend
  <2> DEFINE m == EventMessage(target, item)
  <2>1. /\ UNCHANGED <<count, inbox, ids, stream, item, pc>> /\ spc = "sending"
        /\ spc' = "release" /\ wire' = Append(wire, m)
    BY <1>11 DEF StreamSend
  <2>2. m \in Message /\ m.kind = "event" /\ m.owner = <<item.owner>>
    BY <1>0 DEF EventMessage, Message, Event
  <2>3. m.owner[1] = item.owner
    BY <2>2
  <2>4. Unanswered(wire, m.owner[1][1])
    BY <2>1, <2>3 DEF LastInv
  <2> HIDE DEF m
  <2>5. /\ wire' \in Seq(Message) /\ Ordered(wire') /\ NumberedReplies(wire', count)
        /\ \A b : Unanswered(wire, b) => Unanswered(wire', b)
    <3>1. wire \in Seq(Message) /\ Ordered(wire) /\ NumberedReplies(wire, count)
      BY <1>0
    <3>2. Append(wire, m) \in Seq(Message)
      BY <3>1, <2>2
    <3>3. /\ Ordered(Append(wire, m))
          /\ NumberedReplies(wire, count) => NumberedReplies(Append(wire, m), count)
          /\ \A b : Unanswered(wire, b) => Unanswered(Append(wire, m), b)
      BY <3>1, <2>2, <2>4, EventAppend, Zenon
    <3> QED  BY <2>1, <3>1, <3>2, <3>3, Zenon
  <2> QED  BY <2>1, <2>5 DEF LastInv, Busy
<1>12. CASE WriteBatch
  <2>1. PICK k \in 1 .. MaxItems : inbox' = BatchOf(count + 1, k)
    BY <1>12 DEF WriteBatch
  <2>2. /\ count' = count + 1 /\ (count = 0 \/ Answered(count))
        /\ UNCHANGED <<wire, ids, stream, item, spc, pc>>
    BY <1>12 DEF WriteBatch
  <2>3. ~Busy
    <3> SUFFICES ASSUME Busy PROVE FALSE
      OBVIOUS
    <3>1. count > 0 /\ Unanswered(wire, count)
      BY DEF LastInv
    <3>2. DOMAIN wire = 1 .. Len(wire)
      BY <1>0
    <3>3. ~Answered(count)
      BY <3>1, <3>2 DEF Answered, Unanswered
    <3> QED  BY <1>0, <2>2, <3>1, <3>3
  <2>4. IsBatch(inbox', count')
    <3>1. k \in Nat /\ k >= 1 /\ Len(inbox') = k /\ \A i \in 1 .. k : inbox'[i] = <<count + 1, i>>
      BY <2>1, Numbers DEF BatchOf
    <3>2. inbox' # << >>
      BY <3>1
    <3> QED  BY <2>2, <3>1, <3>2 DEF IsBatch
  <2>5. NumberedReplies(wire, count') /\ Unanswered(wire, count') /\ count' > 0
    BY <1>0, <2>2 DEF NumberedReplies, Unanswered
  <2>6. ~Busy'
    BY <2>2, <2>3 DEF Busy
  <2> QED  BY <2>2, <2>4, <2>5, <2>6 DEF LastInv
<1>13. CASE Listen \/ Break \/ Shutdown \/ UNCHANGED cVars
  <2>1. UNCHANGED <<wire, count, inbox, ids, stream, item, pc, spc>>
    BY <1>13 DEF Listen, Break, Shutdown, cVars
  <2>2. /\ pc \in {"reply", "sending"} => ids # << >>
        /\ pc \in {"warmup", "warming"} => ids = << >>
    BY DEF LastInv
  <2> QED  BY <2>1, <2>2, LastQuiet DEF Busy
<1> QED
  BY <1>1, <1>2, <1>3, <1>4, <1>5, <1>6, <1>7, <1>8, <1>9, <1>10, <1>11, <1>12, <1>13
  DEF CNext, Starting, Coordinating, Streaming, Peer

(* Before the first late reply no event of a batch follows its reply on    *)
(* the socket: the permit a reply waits for comes back only after the      *)
(* event in hand is out.  The examples of the warmup may emit events too.  *)
THEOREM RepliesAreLast == CSpec => []ReplyIsLast
<1> DEFINE I == TypeInv /\ OnePermit /\ (late = 0 => LastInv)
<1>1. CInit => I
  BY InitTypes, InitPermit, InitLast
<1>2. I /\ [CNext]_cVars => I'
  BY NextTypes, NextPermit, NextLast, LateGrows
<1>3. I => ReplyIsLast
  <2>1. wire \in Seq(Message) => DOMAIN wire = 1 .. Len(wire)
    OBVIOUS
  <2> QED  BY <2>1 DEF LastInv, Ordered, ReplyIsLast
<1> HIDE DEF I
<1> QED  BY <1>1, <1>2, <1>3, PTL DEF CSpec
=============================================================================
