----------------------------- MODULE Dispatcher -----------------------------
(***************************************************************************)
(* The dispatcher (wdtt-client/src/core/dispatcher.go): readLoop takes the  *)
(* packets WireGuard sends and spreads them over the registered workers in  *)
(* chunks, under the mutex d.mu; each worker's Writer goroutine             *)
(* (wdtt-client/src/core/session.go) drains its two queues.                 *)
(*                                                                         *)
(* Abstracted: the contents of packets (a queue is its length), and the     *)
(* clock, which appears as the age of the two timestamps, in steps of Tick  *)
(* milliseconds, saturating at MaxAge, beyond which no comparison changes.  *)
(***************************************************************************)
EXTENDS Integers, SequencesExt

CONSTANTS Slot,         \* the worker slots sessions register
          NoSlot,       \* no slot
          SendBuf,      \* workerSendBuf: capacity of a data queue (128)
          PrioBuf,      \* prioBuf: capacity of a priority queue (32)
          Sizes,        \* the packet sizes that arrive
          Tick          \* granularity of time, in milliseconds

ASSUME NoSlotAssumption == NoSlot \notin Slot
ASSUME BufAssumption    == SendBuf \in Nat \ {0} /\ PrioBuf \in Nat \ {0}
ASSUME SizesAssumption  == Sizes \subseteq Nat
ASSUME TickAssumption   == Tick \in Nat \ {0}

IdlePauseMS   == 10
MaxDwellMS    == 15
PrioThreshold == 128
MaxAge        == 15

\* How many packets of this size in a row one worker gets.
ChunkSizeFor(size) ==
  CASE size > 1100              -> 64
    [] size \in 701 .. 1100     -> 24
    [] size \in 301 .. 700      -> 8
    [] size \in 101 .. 300      -> 3
    [] size <= 100              -> 1

\* The value of a timestamp that is 0 in the code.
Unset == -1

VARIABLES
  workers,     \* d.workers: the registered slots
  rrIndex,     \* d.rrIndex
  rrCount,     \* d.rrCount: packets of the current chunk sent so far
  lastPktAge,  \* milliseconds since d.lastPktTime
  chunkAge,    \* milliseconds since d.chunkStartTs
  sendQ,       \* length of every slot's SendCh
  prioQ,       \* length of every slot's PrioCh
  writer,      \* every slot's Writer goroutine
  \* history:
  lastSlot,    \* the slot of the last data packet, or NoSlot once it has left the
               \* ring, or a pause or a dropped packet has moved the index
  moved,       \* changes of d.workers since then that may have moved the index on
               \* relative to that slot: a newcomer, or a removal before it
  runLen,      \* data packets sent in a row in the current chunk, 0 once a change
               \* of d.workers has ended the run
  runAge,      \* milliseconds since the first of them
  overtook     \* data packets written since the oldest waiting priority packet came

vars == <<workers, rrIndex, rrCount, lastPktAge, chunkAge, sendQ, prioQ,
          writer, lastSlot, moved, runLen, runAge, overtook>>

dispatch  == <<rrIndex, rrCount, lastPktAge, chunkAge>>
history   == <<lastSlot, moved, runLen, runAge>>

\* The next data packet starts a run of its own.
RunEnds == runLen' = 0 /\ runAge' = 0

\* ...and owes nothing to the packet before it.
Disturbed == lastSlot' = NoSlot /\ moved' = 0 /\ RunEnds

Registered(s) == \E i \in DOMAIN workers : workers[i] = s

Init ==
  /\ workers = <<>>
  /\ rrIndex = 0
  /\ rrCount = 0
  /\ lastPktAge = Unset
  /\ chunkAge = Unset
  /\ sendQ = [s \in Slot |-> 0]
  /\ prioQ = [s \in Slot |-> 0]
  /\ writer = [s \in Slot |-> "none"]
  /\ lastSlot = NoSlot
  /\ moved = 0
  /\ runLen = 0
  /\ runAge = 0
  /\ overtook = [s \in Slot |-> 0]

-----------------------------------------------------------------------------
(* Sessions come and go.                                                    *)

\* A session that is ready registers a fresh slot and starts its Writer.
Register(s) ==
  /\ writer[s] = "none"
  /\ workers' = Append(workers, s)
  /\ writer' = [writer EXCEPT ![s] = "poll"]
  /\ moved' = IF lastSlot = NoSlot THEN 0 ELSE moved + 1
  /\ RunEnds
  /\ UNCHANGED <<dispatch, sendQ, prioQ, lastSlot, overtook>>

\* The Writer ends with its session; the slot stays registered until the
\* session's other goroutines have ended too.
WriterExits(s) ==
  /\ writer[s] \in {"poll", "select"}
  /\ writer' = [writer EXCEPT ![s] = "gone"]
  /\ UNCHANGED <<workers, dispatch, sendQ, prioQ, history, overtook>>

\* Broken variant of IndexKept: a removal moves on to the next worker, as a
\* pause does.
IndexMovesOn(n) == IF n > 0 THEN (rrIndex + 1) % n ELSE rrIndex

\* d.rrIndex when n slots remain: only kept inside the ring.
IndexKept(n) == IF rrIndex >= n /\ n > 0 THEN rrIndex % n ELSE rrIndex

\* The slot leaves d.workers; what is still queued for it is lost with it.  The
\* index does not follow the slots behind the gap, which all move up by one.
Unregister(s) ==
  /\ writer[s] = "gone"
  /\ \E i \in DOMAIN workers :
        /\ workers[i] = s
        /\ workers' = RemoveAt(workers, i)
        /\ IF \E j \in DOMAIN workers : j > i /\ workers[j] = lastSlot
           THEN moved' = moved + 1
           ELSE moved' = IF s = lastSlot THEN 0 ELSE moved
  /\ rrIndex' = IndexKept(Len(workers'))
  /\ rrCount' = 0
  /\ chunkAge' = Unset
  /\ sendQ' = [sendQ EXCEPT ![s] = 0]
  /\ prioQ' = [prioQ EXCEPT ![s] = 0]
  /\ writer' = [writer EXCEPT ![s] = "none"]
  /\ lastSlot' = IF s = lastSlot THEN NoSlot ELSE lastSlot
  /\ RunEnds
  /\ overtook' = [overtook EXCEPT ![s] = 0]
  /\ UNCHANGED lastPktAge

-----------------------------------------------------------------------------
(* readLoop.  The whole of a packet's dispatch runs under d.mu.             *)

NW == Len(workers)

\* Slots in ring order: the slot i places after the index idx.
At(idx, i) == workers[((idx + i) % NW) + 1]

\* Broken variant of Roomy: a full queue passes for one with room.
RoomyOffByOne(q, cap, idx, lo) == {i \in lo .. NW - 1 : q[At(idx, i)] <= cap}

\* The places whose queue q has room, counted from idx on, among those from lo
\* on; and the nearest of such places.
Roomy(q, cap, idx, lo) == {i \in lo .. NW - 1 : q[At(idx, i)] < cap}
Nearest(places) == {i \in places : \A j \in places : i <= j}

\* A pause in the traffic ends the chunk: go on with the next worker.
Paused     == lastPktAge > IdlePauseMS
PauseIndex == IF Paused THEN (rrIndex + 1) % NW ELSE rrIndex
PauseCount == IF Paused THEN 0 ELSE rrCount
PauseAge   == IF Paused THEN 0 ELSE chunkAge

\* Broken variant of DwellAge: every packet restarts the chunk's clock.
DwellRestarted == 0

\* A chunk that lasts too long ends as well.
Dwelt      == PauseAge >= MaxDwellMS
DwellIndex == IF Dwelt THEN (PauseIndex + 1) % NW ELSE PauseIndex
DwellCount == IF Dwelt THEN 0 ELSE PauseCount
DwellAge   == IF PauseAge = Unset \/ Dwelt THEN 0 ELSE PauseAge

\* The history of the data packet now sent to s; fresh says that it starts a
\* chunk whatever the slot.
DataSent(s, fresh) ==
  LET continues == ~fresh /\ s = lastSlot /\ runLen > 0 /\ ~Paused /\ ~Dwelt /\ NW > 1
  IN  /\ lastSlot' = s
      /\ moved' = 0
      /\ runLen' = IF continues THEN runLen + 1 ELSE 1
      /\ runAge' = IF continues THEN runAge ELSE 0

\* With nobody registered the packet is dropped before the clock is read.
DispatchNobody(size) ==
  /\ NW = 0
  /\ UNCHANGED vars

\* Does a packet of this size go to a priority queue?
TakesPrio(size) ==
  size <= PrioThreshold /\ Roomy(prioQ, PrioBuf, PauseIndex, 0) # {}

\* A small packet: the priority queue of the current worker, or of the next
\* one that has room.
DispatchPrio(size) ==
  /\ NW > 0
  /\ TakesPrio(size)
  /\ \E i \in Nearest(Roomy(prioQ, PrioBuf, PauseIndex, 0)) :
        prioQ' = [prioQ EXCEPT ![At(PauseIndex, i)] = @ + 1]
  /\ rrIndex' = PauseIndex
  /\ rrCount' = PauseCount
  /\ chunkAge' = PauseAge
  /\ lastPktAge' = 0
  /\ IF Paused THEN Disturbed ELSE UNCHANGED history
  /\ UNCHANGED <<workers, sendQ, writer, overtook>>

\* Broken variant of DispatchCurrent: > instead of >= at the end of the chunk.
DispatchCurrentOverfull(size) ==
  /\ NW > 0
  /\ ~TakesPrio(size)
  /\ LET s    == At(DwellIndex, 0)
         full == DwellCount + 1 > ChunkSizeFor(size)
     IN  /\ sendQ[s] < SendBuf
         /\ sendQ' = [sendQ EXCEPT ![s] = @ + 1]
         /\ rrIndex' = IF full THEN (DwellIndex + 1) % NW ELSE DwellIndex
         /\ rrCount' = IF full THEN 0 ELSE DwellCount + 1
         /\ chunkAge' = IF full THEN 0 ELSE DwellAge
         /\ DataSent(s, FALSE)
  /\ lastPktAge' = 0
  /\ UNCHANGED <<workers, prioQ, writer, overtook>>

\* A data packet for the current worker; the chunk ends when it is full.
DispatchCurrent(size) ==
  /\ NW > 0
  /\ ~TakesPrio(size)
  /\ LET s    == At(DwellIndex, 0)
         full == DwellCount + 1 >= ChunkSizeFor(size)
     IN  /\ sendQ[s] < SendBuf
         /\ sendQ' = [sendQ EXCEPT ![s] = @ + 1]
         /\ rrIndex' = IF full THEN (DwellIndex + 1) % NW ELSE DwellIndex
         /\ rrCount' = IF full THEN 0 ELSE DwellCount + 1
         /\ chunkAge' = IF full THEN 0 ELSE DwellAge
         /\ DataSent(s, FALSE)
  /\ lastPktAge' = 0
  /\ UNCHANGED <<workers, prioQ, writer, overtook>>

\* The current worker's queue is full: start a chunk on the next one with room.
DispatchElsewhere(size) ==
  /\ NW > 0
  /\ ~TakesPrio(size)
  /\ sendQ[At(DwellIndex, 0)] = SendBuf
  /\ \E i \in Nearest(Roomy(sendQ, SendBuf, DwellIndex, 1)) :
        LET s == At(DwellIndex, i)
        IN  /\ sendQ' = [sendQ EXCEPT ![s] = @ + 1]
            /\ rrIndex' = (DwellIndex + i) % NW
            /\ DataSent(s, TRUE)
  /\ rrCount' = 1
  /\ chunkAge' = 0
  /\ lastPktAge' = 0
  /\ UNCHANGED <<workers, prioQ, writer, overtook>>

\* Every queue is full: the packet is dropped and the index moves on.
DispatchDrop(size) ==
  /\ NW > 0
  /\ ~TakesPrio(size)
  /\ Roomy(sendQ, SendBuf, DwellIndex, 0) = {}
  /\ rrIndex' = (DwellIndex + 1) % NW
  /\ rrCount' = 0
  /\ chunkAge' = DwellAge
  /\ lastPktAge' = 0
  /\ Disturbed
  /\ UNCHANGED <<workers, sendQ, prioQ, writer, overtook>>

Dispatch(size) ==
  \/ DispatchNobody(size)
  \/ DispatchPrio(size)
  \/ DispatchCurrent(size)
  \/ DispatchElsewhere(size)
  \/ DispatchDrop(size)

-----------------------------------------------------------------------------
(* The Writer goroutine of a session.                                       *)

WritePrio(s) ==
  /\ prioQ[s] > 0
  /\ prioQ' = [prioQ EXCEPT ![s] = @ - 1]
  /\ writer' = [writer EXCEPT ![s] = "poll"]
  /\ overtook' = [overtook EXCEPT ![s] = 0]
  /\ UNCHANGED <<workers, dispatch, sendQ, history>>

\* First drain the priority queue...
PollPrio(s) == writer[s] = "poll" /\ WritePrio(s)

\* Broken variant of PollEmpty: the first select is left out.
PollSkipped(s) ==
  /\ writer[s] = "poll"
  /\ writer' = [writer EXCEPT ![s] = "select"]
  /\ UNCHANGED <<workers, dispatch, sendQ, prioQ, history, overtook>>

\* ...and when it is empty wait for whatever comes.
PollEmpty(s) ==
  /\ writer[s] = "poll"
  /\ prioQ[s] = 0
  /\ writer' = [writer EXCEPT ![s] = "select"]
  /\ UNCHANGED <<workers, dispatch, sendQ, prioQ, history, overtook>>

\* The second select: Go takes any ready case.
SelectPrio(s) == writer[s] = "select" /\ WritePrio(s)

SelectData(s) ==
  /\ writer[s] = "select"
  /\ sendQ[s] > 0
  /\ sendQ' = [sendQ EXCEPT ![s] = @ - 1]
  /\ writer' = [writer EXCEPT ![s] = "poll"]
  /\ overtook' = [overtook EXCEPT ![s] = IF prioQ[s] > 0 THEN @ + 1 ELSE 0]
  /\ UNCHANGED <<workers, dispatch, prioQ, history>>

Writer(s) == PollPrio(s) \/ PollEmpty(s) \/ SelectPrio(s) \/ SelectData(s)

-----------------------------------------------------------------------------
Older(age) ==
  IF age = Unset THEN Unset
  ELSE IF age + Tick > MaxAge THEN MaxAge ELSE age + Tick

TimePasses ==
  /\ lastPktAge' = Older(lastPktAge)
  /\ chunkAge' = Older(chunkAge)
  /\ runAge' = IF runLen = 0 THEN 0 ELSE Older(runAge)
  /\ UNCHANGED <<workers, rrIndex, rrCount, sendQ, prioQ, writer, lastSlot,
                 moved, runLen, overtook>>

Next ==
  \/ \E s \in Slot : Register(s) \/ WriterExits(s) \/ Unregister(s) \/ Writer(s)
  \/ \E size \in Sizes : Dispatch(size)
  \/ TimePasses

Spec == Init /\ [][Next]_vars

-----------------------------------------------------------------------------
(* Properties.                                                              *)

\* Type invariant: indices and counters are naturals, the queues respect their
\* capacities, and the registered slots are those whose session is up.
TypeOK ==
  /\ workers \in Seq(Slot)
  /\ \A s \in Slot : writer[s] # "none" <=> Registered(s)
  /\ \A i, j \in DOMAIN workers : workers[i] = workers[j] => i = j
  /\ rrIndex \in Nat
  /\ rrCount \in Nat
  /\ lastPktAge \in Unset .. MaxAge
  /\ chunkAge \in Unset .. MaxAge
  /\ sendQ \in [Slot -> 0 .. SendBuf]
  /\ prioQ \in [Slot -> 0 .. PrioBuf]
  /\ writer \in [Slot -> {"none", "poll", "select", "gone"}]
  /\ lastSlot \in Slot \cup {NoSlot}
  /\ moved \in Nat
  /\ runLen \in Nat
  /\ runAge \in 0 .. MaxAge
  /\ overtook \in [Slot -> Nat]

\* The Writer polls the priority queue before every data packet, so that a
\* waiting priority packet (a TCP ACK) is overtaken by at most one of them,
\* however the two selects interleave with readLoop.
OvertakenAtMostOnce == \A s \in Slot : overtook[s] <= 1

\* A chunk is bounded: with several workers no more data packets follow each
\* other through one of them than the largest chunk of the sizes in use, or two
\* where that is one: a chunk begun because another queue was full is not
\* compared with its size before its second packet.
ChunkBounded == runLen <= 2 \/ \E size \in Sizes : runLen <= ChunkSizeFor(size)

SentData(s) == sendQ'[s] = sendQ[s] + 1

\* A chunk is bounded in time: a packet is added to a chunk only within
\* MaxDwellMS of its first packet (the guard against a slow relay).
DwellBounded ==
  [][\A s \in Slot : SentData(s) /\ runLen' > 1 => runAge < MaxDwellMS]_vars

\* Position of a registered slot in the ring.
PositionOf(s) == CHOOSE i \in 1 .. NW : workers[i] = s

\* The ring is walked in order, through changes of the workers too: as long as
\* no pause, no dwell timeout and no drop intervenes and its slot stays, a data
\* packet goes to the slot of the one before it or further round the ring past
\* slots whose queues are full, apart from the `moved` slots next to it: every
\* newcomer, and every removal of an earlier slot (which Unregister does not
\* take off d.rrIndex), may make it skip one slot with room, and no more.
RingInOrder ==
  [][\A s \in Slot :
       SentData(s) /\ ~Paused /\ ~Dwelt /\ Registered(lastSlot) /\ s # lastSlot
         => \A i \in moved + 1 .. NW - 1 :
              (\A j \in 1 .. i : At(PositionOf(lastSlot) - 1, j) # s)
                => sendQ[At(PositionOf(lastSlot) - 1, i)] = SendBuf]_vars
=============================================================================
