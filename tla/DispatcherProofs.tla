------------------------- MODULE DispatcherProofs -------------------------
(***************************************************************************)
(* Proofs about the dispatcher, for any number of slots, any capacities,    *)
(* any sizes of packets and any tick: the Writer's two-step select, the     *)
(* ring and its types, and the length and the duration of a chunk.          *)
(***************************************************************************)
EXTENDS Dispatcher, SequenceTheorems, TLAPS

\* What the writer's history and its place in the loop say of each other.
WriterTypes ==
  /\ prioQ \in [Slot -> Nat]
  /\ writer \in [Slot -> {"none", "poll", "select", "gone"}]
  /\ overtook \in [Slot -> Nat]

\* A data packet that overtook priority packets leaves the writer at its poll
\* with priority packets still waiting; at the second select, and before the
\* writer starts, none has.
SlotInv(s) ==
  /\ overtook[s] <= 1
  /\ writer[s] = "poll" /\ overtook[s] = 1 => prioQ[s] > 0
  /\ writer[s] \in {"none", "select"} => overtook[s] = 0

WriterInv == WriterTypes /\ \A s \in Slot : SlotInv(s)

\* The invariant holds when no session is up.
LEMMA WriterInvInit == Init => WriterInv
  BY DEF Init, WriterInv, WriterTypes, SlotInv

\* Lengthening one queue keeps all of them lengths.
LEMMA LongerQueue ==
  ASSUME NEW q \in [Slot -> Nat], NEW t
  PROVE  [q EXCEPT ![t] = @ + 1] \in [Slot -> Nat]
<1> DEFINE r == [q EXCEPT ![t] = @ + 1]
<1>1. DOMAIN r = Slot /\ r = [s \in Slot |-> r[s]]
  OBVIOUS
<1>2. ASSUME NEW s \in Slot PROVE r[s] \in Nat
  <2>1. CASE s = t
    BY <2>1
  <2>2. CASE s # t
    BY <2>2
  <2>3. QED
    BY <2>1, <2>2
<1>3. QED
  BY <1>1, <1>2

\* readLoop only ever adds to the priority queues.
LEMMA DispatchKeeps ==
  ASSUME WriterInv, NEW size \in Sizes, Dispatch(size)
  PROVE  WriterInv'
<1>1. CASE DispatchPrio(size)
  <2>1. PICK to : /\ prioQ' = [prioQ EXCEPT ![to] = @ + 1]
                  /\ UNCHANGED <<writer, overtook>>
    BY <1>1 DEF DispatchPrio
  <2>2. WriterTypes'
    <3>1. prioQ \in [Slot -> Nat]
      BY DEF WriterInv, WriterTypes
    <3>2. prioQ' \in [Slot -> Nat]
      BY <2>1, <3>1, LongerQueue
    <3>3. QED
      BY <2>1, <3>2 DEF WriterInv, WriterTypes
  <2>3. ASSUME NEW s \in Slot PROVE prioQ'[s] >= prioQ[s]
    BY <2>1 DEF WriterInv, WriterTypes
  <2>4. ASSUME NEW s \in Slot PROVE SlotInv(s)'
    <3>1. prioQ[s] \in Nat /\ prioQ'[s] \in Nat
      BY <2>2 DEF WriterInv, WriterTypes
    <3>2. QED
      BY <2>1, <2>3, <3>1 DEF WriterInv, SlotInv
  <2>5. QED
    BY <2>2, <2>4 DEF WriterInv
<1>2. CASE DispatchNobody(size)
  BY <1>2 DEF DispatchNobody, vars, WriterInv, WriterTypes, SlotInv
<1>3. CASE DispatchCurrent(size)
  BY <1>3 DEF DispatchCurrent, WriterInv, WriterTypes, SlotInv
<1>4. CASE DispatchElsewhere(size)
  BY <1>4 DEF DispatchElsewhere, WriterInv, WriterTypes, SlotInv
<1>5. CASE DispatchDrop(size)
  BY <1>5 DEF DispatchDrop, WriterInv, WriterTypes, SlotInv
<1>6. QED
  BY <1>1, <1>2, <1>3, <1>4, <1>5 DEF Dispatch

\* The writer's own steps: the first select empties the priority queue before
\* the second one is reached.
LEMMA WriterKeeps ==
  ASSUME WriterInv, NEW s \in Slot, Writer(s)
  PROVE  WriterInv'
<1>1. CASE PollPrio(s) \/ SelectPrio(s)
  <2>1. WritePrio(s)
    BY <1>1 DEF PollPrio, SelectPrio
  <2>2. QED
    BY <2>1 DEF WritePrio, WriterInv, WriterTypes, SlotInv
<1>2. CASE PollEmpty(s)
  BY <1>2 DEF PollEmpty, WriterInv, WriterTypes, SlotInv
<1>3. CASE SelectData(s)
  BY <1>3 DEF SelectData, WriterInv, WriterTypes, SlotInv
<1>4. QED
  BY <1>1, <1>2, <1>3 DEF Writer

\* Sessions that come and go start from an empty queue and a clean history.
LEMMA SessionKeeps ==
  ASSUME WriterInv, NEW s \in Slot, Register(s) \/ WriterExits(s) \/ Unregister(s)
  PROVE  WriterInv'
<1>1. CASE Register(s)
  BY <1>1 DEF Register, WriterInv, WriterTypes, SlotInv
<1>2. CASE WriterExits(s)
  BY <1>2 DEF WriterExits, WriterInv, WriterTypes, SlotInv
<1>3. CASE Unregister(s)
  BY <1>3 DEF Unregister, WriterInv, WriterTypes, SlotInv
<1>4. QED
  BY <1>1, <1>2, <1>3

\* Every step keeps the invariant.
LEMMA WriterInvStep == WriterInv /\ [Next]_vars => WriterInv'
<1> SUFFICES ASSUME WriterInv, [Next]_vars PROVE WriterInv'
  OBVIOUS
<1>1. CASE UNCHANGED vars
  BY <1>1 DEF vars, WriterInv, WriterTypes, SlotInv
<1>2. CASE TimePasses
  BY <1>2 DEF TimePasses, WriterInv, WriterTypes, SlotInv
<1>3. CASE Next
  BY <1>2, <1>3, DispatchKeeps, WriterKeeps, SessionKeeps DEF Next
<1>4. QED
  BY <1>1, <1>3

\* However many sessions there are and however long the queues: a waiting
\* priority packet is overtaken by at most one data packet of its slot.
THEOREM PriorityFirst == Spec => []OvertakenAtMostOnce
<1>1. WriterInv => OvertakenAtMostOnce
  BY DEF WriterInv, SlotInv, OvertakenAtMostOnce
<1>2. QED
  BY <1>1, WriterInvInit, WriterInvStep, PTL DEF Spec
-----------------------------------------------------------------------------
(* The ring and the types.                                                  *)

\* Taking one element out of a sequence closes the gap.
LEMMA Removal ==
  ASSUME NEW S, NEW w \in Seq(S), NEW i \in 1 .. Len(w)
  PROVE  /\ RemoveAt(w, i) \in Seq(S)
         /\ Len(RemoveAt(w, i)) = Len(w) - 1
         /\ \A j \in 1 .. Len(w) - 1 : RemoveAt(w, i)[j] = IF j < i THEN w[j] ELSE w[j + 1]
<1> DEFINE a == SubSeq(w, 1, i - 1)
           b == SubSeq(w, i + 1, Len(w))
<1>1. /\ a \in Seq(S) /\ Len(a) = i - 1
      /\ \A j \in 1 .. i - 1 : a[j] = w[j]
  OBVIOUS
<1>2. /\ b \in Seq(S) /\ Len(b) = Len(w) - i
      /\ \A j \in 1 .. Len(w) - i : b[j] = w[i + j]
  OBVIOUS
<1>3. RemoveAt(w, i) = a \o b
  BY DEF RemoveAt
<1> HIDE DEF a, b
<1>4. /\ a \o b \in Seq(S)
      /\ Len(a \o b) = Len(w) - 1
      /\ \A j \in 1 .. Len(w) - 1 :
            (a \o b)[j] = IF j <= i - 1 THEN a[j] ELSE b[j - (i - 1)]
  <2>1. Len(a) + Len(b) = Len(w) - 1
    BY <1>1, <1>2
  <2>2. /\ a \o b \in Seq(S)
        /\ Len(a \o b) = Len(a) + Len(b)
        /\ \A j \in 1 .. Len(a) + Len(b) :
              (a \o b)[j] = IF j <= Len(a) THEN a[j] ELSE b[j - Len(a)]
    BY <1>1, <1>2, ConcatProperties, Zenon
  <2>3. QED
    BY <1>1, <2>1, <2>2, Zenon
<1>5. ASSUME NEW j \in 1 .. Len(w) - 1
      PROVE  (a \o b)[j] = IF j < i THEN w[j] ELSE w[j + 1]
  <2>1. CASE j < i
    BY <1>1, <1>4, <2>1
  <2>2. CASE ~(j < i)
    <3>1. j - (i - 1) \in 1 .. Len(w) - i /\ i + (j - (i - 1)) = j + 1 /\ ~(j <= i - 1)
      BY <2>2
    <3>2. (a \o b)[j] = w[j + 1]
      BY <1>2, <1>4, <3>1
    <3>3. QED
      BY <2>2, <3>2
  <2>3. QED
    BY <2>1, <2>2
<1>6. QED
  BY <1>3, <1>4, <1>5, Zenon

Distinct(w) == \A i, j \in DOMAIN w : w[i] = w[j] => i = j
Has(w, t) == \E i \in DOMAIN w : w[i] = t

\* What removing an element, or adding a new one, makes of a sequence without
\* repetitions.
LEMMA Removed ==
  ASSUME NEW S, NEW w \in Seq(S), Distinct(w), NEW i \in DOMAIN w, NEW r \in Seq(S),
         Len(r) = Len(w) - 1,
         \A j \in 1 .. Len(w) - 1 : r[j] = IF j < i THEN w[j] ELSE w[j + 1]
  PROVE  /\ Distinct(r)
         /\ \A t : Has(r, t) <=> Has(w, t) /\ t # w[i]
<1> DOMAIN w = 1 .. Len(w) /\ DOMAIN r = 1 .. Len(w) - 1 /\ Len(w) \in Nat /\ i \in Nat
  OBVIOUS
<1> DEFINE old(j) == IF j < i THEN j ELSE j + 1
<1>1. \A j \in DOMAIN r : old(j) \in DOMAIN w /\ r[j] = w[old(j)] /\ old(j) # i
  OBVIOUS
<1>2. Distinct(r)
  <2> SUFFICES ASSUME NEW j \in DOMAIN r, NEW k \in DOMAIN r, r[j] = r[k] PROVE j = k
    BY DEF Distinct
  <2>1. old(j) = old(k)
    BY <1>1 DEF Distinct
  <2>2. QED
    BY <2>1
<1>3. ASSUME NEW t, Has(r, t) PROVE Has(w, t) /\ t # w[i]
  <2>1. PICK j \in DOMAIN r : r[j] = t
    BY <1>3 DEF Has
  <2>2. QED
    BY <1>1, <2>1 DEF Has, Distinct
<1>4. ASSUME NEW t, Has(w, t), t # w[i] PROVE Has(r, t)
  <2>1. PICK k \in DOMAIN w : w[k] = t
    BY <1>4 DEF Has
  <2>2. k # i
    BY <1>4, <2>1
  <2>3. CASE k < i
    <3>1. k \in DOMAIN r /\ r[k] = t
      BY <2>1, <2>3
    <3>2. QED
      BY <3>1 DEF Has
  <2>4. CASE k > i
    <3>1. k - 1 \in DOMAIN r
      BY <2>4
    <3>2. r[k - 1] = w[(k - 1) + 1]
      BY <3>1, <2>4
    <3>3. r[k - 1] = t
      BY <2>1, <3>2
    <3>4. QED
      BY <3>1, <3>3 DEF Has
  <2>5. QED
    BY <2>2, <2>3, <2>4
<1>5. QED
  BY <1>2, <1>3, <1>4

\* A new element at the end.
LEMMA Appended ==
  ASSUME NEW S, NEW w \in Seq(S), Distinct(w), NEW s \in S, ~Has(w, s)
  PROVE  /\ Append(w, s) \in Seq(S)
         /\ Len(Append(w, s)) = Len(w) + 1
         /\ Distinct(Append(w, s))
         /\ \A t : Has(Append(w, s), t) <=> Has(w, t) \/ t = s
<1> DEFINE r == Append(w, s)
<1>1. /\ r \in Seq(S) /\ DOMAIN r = 1 .. Len(w) + 1 /\ Len(r) = Len(w) + 1
      /\ \A j \in 1 .. Len(w) : r[j] = w[j]
      /\ r[Len(w) + 1] = s
  OBVIOUS
<1>2. DOMAIN w = 1 .. Len(w) /\ Len(w) \in Nat
  OBVIOUS
<1> HIDE DEF r
<1>3. Distinct(r)
  BY <1>1, <1>2 DEF Distinct, Has
<1>4. ASSUME NEW t, Has(r, t) PROVE Has(w, t) \/ t = s
  BY <1>1, <1>2, <1>4 DEF Has
<1>5. ASSUME NEW t, Has(w, t) PROVE Has(r, t)
  BY <1>1, <1>2, <1>5 DEF Has
<1>6. Has(r, s)
  BY <1>1, <1>2 DEF Has
<1>7. QED
  BY <1>1, <1>3, <1>4, <1>5, <1>6 DEF r

\* The types, with the index inside the ring: Unregister wraps it.
TypeInv == TypeOK /\ (rrIndex = 0 \/ rrIndex < NW)

\* The ring has as many places as slots are registered.
LEMMA RingSize ==
  ASSUME TypeInv
  PROVE  workers \in Seq(Slot) /\ NW = Len(workers) /\ NW \in Nat
<1>1. workers \in Seq(Slot)
  BY DEF TypeInv, TypeOK
<1>2. NW = Len(workers)
  BY DEF NW
<1>3. QED
  BY <1>1, <1>2

\* Nobody is registered in the beginning.
LEMMA TypeInit == Init => TypeInv
  BY BufAssumption DEF Init, TypeInv, TypeOK, Registered, Unset, MaxAge, NW

\* What the pause and the dwell check make of index, count and age.
LEMMA Checks ==
  ASSUME TypeInv, NW > 0
  PROVE  /\ NW \in Nat
         /\ PauseIndex \in 0 .. NW - 1 /\ DwellIndex \in 0 .. NW - 1
         /\ PauseCount \in Nat /\ DwellCount \in Nat
         /\ PauseAge \in Unset .. MaxAge /\ DwellAge \in 0 .. MaxAge
         /\ ~Paused => PauseIndex = rrIndex /\ PauseCount = rrCount /\ PauseAge = chunkAge
         /\ ~Dwelt => DwellIndex = PauseIndex /\ DwellCount = PauseCount /\ DwellAge >= PauseAge
<1> USE DEF TypeInv, TypeOK, Unset, MaxAge, IdlePauseMS, MaxDwellMS
<1>1. NW \in Nat \ {0} /\ rrIndex \in 0 .. NW - 1
  BY DEF NW
<1>2. PauseIndex \in 0 .. NW - 1
  BY <1>1 DEF PauseIndex
<1>3. DwellIndex \in 0 .. NW - 1
  BY <1>1, <1>2 DEF DwellIndex
<1>4. QED
  BY <1>1, <1>2, <1>3
  DEF PauseIndex, DwellIndex, PauseCount, DwellCount, PauseAge, DwellAge, Paused, Dwelt

\* Every place of the ring is a slot.
LEMMA Places ==
  ASSUME TypeInv, NW > 0, NEW idx \in Nat, NEW i \in Nat
  PROVE  /\ At(idx, i) \in Slot
         /\ (idx + i) % NW \in 0 .. NW - 1
         /\ At(idx, i) = workers[((idx + i) % NW) + 1]
<1>1. NW \in Nat \ {0} /\ NW = Len(workers) /\ workers \in Seq(Slot)
  BY RingSize
<1>2. (idx + i) % NW \in 0 .. NW - 1
  BY <1>1
<1>3. QED
  BY <1>1, <1>2 DEF At

\* One more packet in one of the queues.
LEMMA Queued ==
  ASSUME NEW cap \in Nat, NEW q \in [Slot -> 0 .. cap], NEW s \in Slot, q[s] < cap
  PROVE  [q EXCEPT ![s] = @ + 1] \in [Slot -> 0 .. cap]
  OBVIOUS

\* The dispatch of a packet.
LEMMA DispatchTypes ==
  ASSUME TypeInv, NEW size \in Sizes, Dispatch(size)
  PROVE  TypeInv'
<1>1. ASSUME NW > 0, NEW s \in Slot, NEW fresh \in BOOLEAN, DataSent(s, fresh)
      PROVE  /\ lastSlot' \in Slot \cup {NoSlot} /\ moved' \in Nat
             /\ runLen' \in Nat /\ runAge' \in 0 .. MaxAge
  BY <1>1 DEF DataSent, TypeInv, TypeOK, MaxAge
<1> DEFINE Clean == /\ workers' = workers /\ writer' = writer /\ overtook' = overtook
                    /\ lastPktAge' = 0
            Rest  == /\ rrIndex' \in 0 .. NW - 1 /\ rrCount' \in Nat
                    /\ chunkAge' \in Unset .. MaxAge
                    /\ sendQ' \in [Slot -> 0 .. SendBuf]
                    /\ prioQ' \in [Slot -> 0 .. PrioBuf]
                    /\ lastSlot' \in Slot \cup {NoSlot} /\ moved' \in Nat
                    /\ runLen' \in Nat /\ runAge' \in 0 .. MaxAge
<1>2. ASSUME NW > 0, Clean, Rest
      PROVE  TypeInv'
  <2>1. TypeOK'
    <3>1. /\ workers' \in Seq(Slot)
          /\ \A t \in Slot : writer'[t] # "none" <=> Registered(t)'
          /\ \A i, j \in DOMAIN workers' : workers'[i] = workers'[j] => i = j
          /\ writer' \in [Slot -> {"none", "poll", "select", "gone"}]
          /\ overtook' \in [Slot -> Nat]
      BY <1>2 DEF TypeInv, TypeOK, Registered
    <3>2. rrIndex' \in Nat /\ lastPktAge' \in Unset .. MaxAge
      BY <1>2, Checks DEF Unset, MaxAge
    <3>3. QED
      BY <1>2, <3>1, <3>2 DEF TypeOK
  <2>2. rrIndex' < NW'
    BY <1>2, Checks DEF NW
  <2>3. QED
    BY <2>1, <2>2 DEF TypeInv
<1>3. CASE DispatchNobody(size)
  BY <1>3 DEF DispatchNobody, vars, TypeInv, TypeOK, Registered, NW
<1>4. CASE DispatchPrio(size)
  <2>1. PICK i \in Nearest(Roomy(prioQ, PrioBuf, PauseIndex, 0)) :
          prioQ' = [prioQ EXCEPT ![At(PauseIndex, i)] = @ + 1]
    BY <1>4 DEF DispatchPrio
  <2>2. i \in Nat /\ prioQ[At(PauseIndex, i)] < PrioBuf
    BY <1>4, Checks DEF Nearest, Roomy, DispatchPrio
  <2>3. prioQ' \in [Slot -> 0 .. PrioBuf]
    BY <1>4, <2>1, <2>2, Checks, Places, Queued, BufAssumption
    DEF DispatchPrio, TypeInv, TypeOK
  <2>4. /\ lastSlot' \in Slot \cup {NoSlot} /\ moved' \in Nat
        /\ runLen' \in Nat /\ runAge' \in 0 .. MaxAge
    <3>1. CASE Paused
      BY <1>4, <3>1 DEF DispatchPrio, Disturbed, RunEnds, MaxAge
    <3>2. CASE ~Paused
      BY <1>4, <3>2 DEF DispatchPrio, history, TypeInv, TypeOK
    <3>3. QED
      BY <3>1, <3>2
  <2>5. QED
    BY <1>2, <1>4, <2>3, <2>4, Checks DEF DispatchPrio, TypeInv, TypeOK
<1>5. CASE DispatchCurrent(size)
  <2> DEFINE s == At(DwellIndex, 0)
  <2>1. s \in Slot /\ (DwellIndex + 1) % NW \in 0 .. NW - 1
    <3>1. NW > 0 /\ DwellIndex \in Nat /\ 0 \in Nat /\ 1 \in Nat
      BY <1>5, Checks DEF DispatchCurrent
    <3>2. QED
      BY <3>1, Places
  <2>2. sendQ' \in [Slot -> 0 .. SendBuf]
    BY <1>5, <2>1, Queued, BufAssumption DEF DispatchCurrent, TypeInv, TypeOK
  <2>3. rrIndex' \in 0 .. NW - 1 /\ rrCount' \in Nat /\ chunkAge' \in Unset .. MaxAge
    BY <1>5, <2>1, Checks DEF DispatchCurrent, Unset, MaxAge
  <2>4. QED
    BY <1>1, <1>2, <1>5, <2>1, <2>2, <2>3 DEF DispatchCurrent, TypeInv, TypeOK
<1>6. CASE DispatchElsewhere(size)
  <2>1. PICK i \in Nearest(Roomy(sendQ, SendBuf, DwellIndex, 1)) :
          /\ sendQ' = [sendQ EXCEPT ![At(DwellIndex, i)] = @ + 1]
          /\ rrIndex' = (DwellIndex + i) % NW
          /\ DataSent(At(DwellIndex, i), TRUE)
    BY <1>6 DEF DispatchElsewhere
  <2>2. i \in Nat /\ sendQ[At(DwellIndex, i)] < SendBuf
    BY <1>6, Checks DEF Nearest, Roomy, DispatchElsewhere
  <2>3. At(DwellIndex, i) \in Slot /\ rrIndex' \in 0 .. NW - 1
    BY <1>6, <2>1, <2>2, Checks, Places DEF DispatchElsewhere
  <2>4. sendQ' \in [Slot -> 0 .. SendBuf]
    BY <2>1, <2>2, <2>3, Queued, BufAssumption DEF TypeInv, TypeOK
  <2>5. QED
    <3>1. Clean /\ NW > 0 /\ rrCount' \in Nat /\ prioQ' \in [Slot -> 0 .. PrioBuf]
      BY <1>6 DEF DispatchElsewhere, TypeInv, TypeOK
    <3>2. chunkAge' \in Unset .. MaxAge
      BY <1>6 DEF DispatchElsewhere, Unset, MaxAge
    <3>3. QED
      BY <1>1, <1>2, <2>1, <2>3, <2>4, <3>1, <3>2
<1>7. CASE DispatchDrop(size)
  <2>1. NW > 0 /\ Clean
    BY <1>7, Checks DEF DispatchDrop
  <2>2. (DwellIndex + 1) % NW \in 0 .. NW - 1
    BY <1>7, Checks, Places DEF DispatchDrop
  <2>3. sendQ' \in [Slot -> 0 .. SendBuf] /\ prioQ' \in [Slot -> 0 .. PrioBuf]
    BY <1>7 DEF DispatchDrop, TypeInv, TypeOK
  <2>4. /\ lastSlot' \in Slot \cup {NoSlot} /\ moved' \in Nat
        /\ runLen' \in Nat /\ runAge' \in 0 .. MaxAge
    BY <1>7 DEF DispatchDrop, Disturbed, RunEnds, MaxAge
  <2>5. rrIndex' \in 0 .. NW - 1 /\ rrCount' \in Nat /\ chunkAge' \in Unset .. MaxAge
    BY <1>7, <2>1, <2>2, Checks DEF DispatchDrop, Unset, MaxAge
  <2>6. QED
    BY <1>2, <2>1, <2>3, <2>4, <2>5
<1>8. QED
  BY <1>3, <1>4, <1>5, <1>6, <1>7 DEF Dispatch

\* The part of the types that only the coming and going of slots disturbs.
Ring == /\ workers \in Seq(Slot) /\ Distinct(workers)
        /\ \A t \in Slot : writer[t] # "none" <=> Has(workers, t)
        /\ rrIndex \in Nat /\ (rrIndex = 0 \/ rrIndex < Len(workers))

Counters == /\ rrCount \in Nat
            /\ lastPktAge \in Unset .. MaxAge /\ chunkAge \in Unset .. MaxAge
            /\ sendQ \in [Slot -> 0 .. SendBuf] /\ prioQ \in [Slot -> 0 .. PrioBuf]
            /\ writer \in [Slot -> {"none", "poll", "select", "gone"}]
            /\ lastSlot \in Slot \cup {NoSlot} /\ moved \in Nat
            /\ runLen \in Nat /\ runAge \in 0 .. MaxAge
            /\ overtook \in [Slot -> Nat]

LEMMA Parts == TypeInv <=> Ring /\ Counters
  BY DEF TypeInv, TypeOK, Ring, Counters, Registered, Has, Distinct, NW

\* A session registers its slot.
LEMMA RegisterTypes ==
  ASSUME Ring, Counters, NEW s \in Slot, Register(s)
  PROVE  Ring' /\ Counters'
<1>1. ~Has(workers, s)
  BY DEF Register, Ring
<1>2. /\ workers' \in Seq(Slot) /\ Len(workers') = Len(workers) + 1 /\ Distinct(workers')
      /\ \A t : Has(workers', t) <=> Has(workers, t) \/ t = s
  BY <1>1, Appended, Zenon DEF Register, Ring
<1>3. \A t \in Slot : writer'[t] # "none" <=> Has(workers', t)
  <2>1. writer' = [writer EXCEPT ![s] = "poll"] /\ writer \in [Slot -> {"none", "poll", "select", "gone"}]
    BY DEF Register, Counters
  <2>2. QED
    BY <1>2, <2>1 DEF Ring
<1>4. rrIndex' = rrIndex /\ Len(workers) \in Nat
  BY DEF Register, Ring, dispatch
<1>5. Ring'
  BY <1>2, <1>3, <1>4 DEF Ring
<1>6. Counters'
  BY DEF Counters, Register, dispatch, RunEnds, MaxAge
<1>7. QED
  BY <1>5, <1>6

\* A slot leaves the ring, and the index stays inside it.
LEMMA UnregisterTypes ==
  ASSUME Ring, Counters, NEW s \in Slot, Unregister(s)
  PROVE  Ring' /\ Counters'
<1>1. PICK i \in DOMAIN workers : workers[i] = s /\ workers' = RemoveAt(workers, i)
  BY DEF Unregister
<1>2. workers \in Seq(Slot) /\ Distinct(workers) /\ i \in 1 .. Len(workers)
  BY <1>1 DEF Ring
<1>3. /\ workers' \in Seq(Slot) /\ Len(workers') = Len(workers) - 1
      /\ \A j \in 1 .. Len(workers) - 1 :
            workers'[j] = IF j < i THEN workers[j] ELSE workers[j + 1]
  BY <1>1, <1>2, Removal, Zenon
<1>4. /\ Distinct(workers')
      /\ \A t : Has(workers', t) <=> Has(workers, t) /\ t # s
  <2>1. i \in DOMAIN workers
    BY <1>1
  <2>2. Distinct(workers') /\ \A t : Has(workers', t) <=> Has(workers, t) /\ t # workers[i]
    BY <1>2, <1>3, <2>1, Removed, Zenon
  <2>3. workers[i] = s
    BY <1>1
  <2>4. QED
    BY <2>2, <2>3, Zenon
<1>5. \A t \in Slot : writer'[t] # "none" <=> Has(workers', t)
  <2>1. writer' = [writer EXCEPT ![s] = "none"] /\ writer \in [Slot -> {"none", "poll", "select", "gone"}]
    BY DEF Unregister, Counters
  <2>2. QED
    BY <1>4, <2>1 DEF Ring
<1>6. rrIndex' \in Nat /\ (rrIndex' = 0 \/ rrIndex' < Len(workers'))
  <2> DEFINE n == Len(workers')
  <2>1. /\ n \in Nat /\ n = Len(workers) - 1 /\ (workers' = <<>> <=> n = 0)
        /\ rrIndex \in Nat /\ (rrIndex = 0 \/ rrIndex < Len(workers))
    BY <1>3 DEF Ring
  <2>2. rrIndex' = IF rrIndex >= n /\ n # 0 THEN rrIndex % n ELSE rrIndex
    BY <2>1 DEF Unregister, IndexKept
  <2> HIDE DEF n
  <2>3. rrIndex' \in Nat /\ (rrIndex' = 0 \/ rrIndex' < n)
    BY <2>1, <2>2
  <2>4. QED
    BY <2>3 DEF n
<1>7. Ring'
  BY <1>3, <1>4, <1>5, <1>6 DEF Ring
<1>8. sendQ' \in [Slot -> 0 .. SendBuf] /\ prioQ' \in [Slot -> 0 .. PrioBuf]
  BY BufAssumption DEF Counters, Unregister
<1>9. Counters'
  <2>1. moved' \in Nat
    BY DEF Counters, Unregister
  <2>2. QED
    BY <1>8, <2>1 DEF Counters, Unregister, RunEnds, Unset, MaxAge
<1>10. QED
  BY <1>7, <1>9

\* A writer takes packets out of its queues, or ends.
LEMMA WriterTypesKept ==
  ASSUME Ring, Counters, NEW s \in Slot, Writer(s) \/ WriterExits(s)
  PROVE  Ring' /\ Counters'
<1> USE DEF dispatch, history
<1>1. ASSUME NEW w \in {"poll", "select", "gone"}, writer[s] # "none",
             writer' = [writer EXCEPT ![s] = w], UNCHANGED <<workers, rrIndex>>
      PROVE  Ring'
  <2>1. \A t \in Slot : writer'[t] # "none" <=> writer[t] # "none"
    BY <1>1 DEF Counters
  <2>2. QED
    BY <1>1, <2>1 DEF Ring
<1>2. CASE PollPrio(s) \/ SelectPrio(s)
  <2>1. Ring'
    BY <1>1, <1>2 DEF PollPrio, SelectPrio, WritePrio
  <2>2. prioQ' \in [Slot -> 0 .. PrioBuf]
    BY <1>2, BufAssumption DEF PollPrio, SelectPrio, WritePrio, Counters
  <2>3. QED
    BY <1>2, <2>1, <2>2 DEF PollPrio, SelectPrio, WritePrio, Counters
<1>3. CASE PollEmpty(s)
  BY <1>1, <1>3 DEF PollEmpty, Counters
<1>4. CASE SelectData(s)
  <2>1. Ring'
    BY <1>1, <1>4 DEF SelectData
  <2>2. sendQ' \in [Slot -> 0 .. SendBuf]
    BY <1>4, BufAssumption DEF SelectData, Counters
  <2>3. overtook' \in [Slot -> Nat]
    BY <1>4 DEF SelectData, Counters
  <2>4. QED
    BY <1>4, <2>1, <2>2, <2>3 DEF SelectData, Counters
<1>5. CASE WriterExits(s)
  BY <1>1, <1>5 DEF WriterExits, Counters
<1>6. QED
  BY <1>2, <1>3, <1>4, <1>5 DEF Writer

\* Every step keeps the types.
LEMMA TypeStep == TypeInv /\ [Next]_vars => TypeInv'
<1> SUFFICES ASSUME TypeInv, [Next]_vars PROVE TypeInv'
  OBVIOUS
<1>1. CASE UNCHANGED vars
  BY <1>1 DEF vars, TypeInv, TypeOK, Registered, NW
<1>2. CASE TimePasses
  BY <1>2, TickAssumption
  DEF TimePasses, TypeInv, TypeOK, Registered, NW, Older, Unset, MaxAge
<1>3. ASSUME NEW size \in Sizes, Dispatch(size) PROVE TypeInv'
  BY <1>3, DispatchTypes
<1>4. ASSUME NEW s \in Slot, Register(s) \/ WriterExits(s) \/ Unregister(s) \/ Writer(s)
      PROVE  TypeInv'
  <2>1. Ring /\ Counters
    BY Parts
  <2>2. Ring' /\ Counters'
    BY <1>4, <2>1, RegisterTypes, UnregisterTypes, WriterTypesKept, Zenon
  <2>3. QED
    BY <2>2 DEF TypeInv, TypeOK, Ring, Counters, Registered, Has, Distinct, NW
<1>5. QED
  BY <1>1, <1>2, <1>3, <1>4 DEF Next

\* Queues keep within their capacities, no slot is registered twice, and the
\* registered slots are those of the sessions that are up.
THEOREM TypeCorrect == Spec => []TypeOK
<1>1. TypeInv => TypeOK
  BY DEF TypeInv
<1>2. QED
  BY <1>1, TypeInit, TypeStep, PTL DEF Spec

-----------------------------------------------------------------------------
(* The length and the duration of a chunk.                                  *)

\* The count of the current chunk is below a chunk's size, but for the packet
\* that begins one on another slot because the current one was full.
CountBelow == rrCount <= 1 \/ \E size \in Sizes : rrCount < ChunkSizeFor(size)

\* While a run is on and the index stays on its slot, the count and the age of
\* the chunk cover the packets that have followed each other there.
Follows == NW > 1 /\ runLen > 0 /\ lastSlot \in Slot /\ workers[rrIndex + 1] = lastSlot
             => runLen <= rrCount /\ runAge <= chunkAge

ChunkInv == TypeInv /\ ChunkBounded /\ CountBelow /\ Follows

\* A chunk's size is a positive number.
LEMMA ChunkSizes == \A size \in Sizes : ChunkSizeFor(size) \in Nat \ {0}
  BY SizesAssumption DEF ChunkSizeFor

\* A step that ends the run leaves no chunk to speak of.
LEMMA RunEndsKeeps ==
  ASSUME ChunkInv, TypeInv', RunEnds, rrCount' = 0 \/ rrCount' = rrCount
  PROVE  ChunkInv'
<1>1. runLen' = 0
  BY DEF RunEnds
<1>2. QED
  BY <1>1 DEF ChunkInv, ChunkBounded, CountBelow, Follows

\* Where the index goes next is another slot, if there is one.
LEMMA NextPlace ==
  ASSUME NEW n \in Nat, n > 1, NEW i \in 0 .. n - 1
  PROVE  (i + 1) % n \in 0 .. n - 1 /\ (i + 1) % n # i
<1>1. CASE i = n - 1
  BY <1>1
<1>2. CASE i < n - 1
  BY <1>2
<1>3. QED
  BY <1>1, <1>2

\* A data packet for the current worker that follows another one of its chunk.
LEMMA Continues ==
  ASSUME ChunkInv, NW > 1, runLen > 0, ~Paused, ~Dwelt, At(DwellIndex, 0) = lastSlot
  PROVE  /\ DwellCount = rrCount /\ DwellAge >= chunkAge
         /\ runLen <= rrCount /\ runAge <= chunkAge /\ chunkAge < MaxDwellMS
<1>1. TypeInv /\ NW \in Nat
  BY RingSize DEF ChunkInv
<1>2. /\ DwellIndex = rrIndex /\ DwellCount = rrCount /\ DwellAge >= chunkAge
      /\ PauseAge = chunkAge /\ rrIndex \in 0 .. NW - 1
  BY <1>1, Checks
<1>3. (rrIndex + 0) % NW = rrIndex
  BY <1>1, <1>2
<1>4. lastSlot = workers[rrIndex + 1] /\ lastSlot \in Slot
  <2>1. At(rrIndex, 0) = lastSlot
    BY <1>2
  <2>2. workers[rrIndex + 1] = lastSlot
    BY <1>3, <2>1 DEF At
  <2>3. workers \in Seq(Slot) /\ rrIndex + 1 \in 1 .. Len(workers)
    BY <1>1, <1>2 DEF TypeInv, TypeOK, NW
  <2>4. QED
    BY <2>2, <2>3
<1>5. chunkAge < MaxDwellMS
  BY <1>1, <1>2 DEF Dwelt, TypeInv, TypeOK, Unset, MaxAge, MaxDwellMS
<1>6. QED
  BY <1>2, <1>4, <1>5 DEF ChunkInv, Follows

\* A data packet for the current worker.
LEMMA CurrentKeeps ==
  ASSUME ChunkInv, NEW size \in Sizes, DispatchCurrent(size), TypeInv'
  PROVE  ChunkInv'
<1> DEFINE s    == At(DwellIndex, 0)
           full == DwellCount + 1 >= ChunkSizeFor(size)
           follows == s = lastSlot /\ runLen > 0 /\ ~Paused /\ ~Dwelt /\ NW > 1
<1>1. /\ lastSlot' = s /\ runLen' = IF follows THEN runLen + 1 ELSE 1
      /\ runAge' = IF follows THEN runAge ELSE 0
  BY DEF DispatchCurrent, DataSent
<1>2. /\ NW \in Nat /\ NW > 0 /\ DwellIndex \in 0 .. NW - 1 /\ DwellCount \in Nat
      /\ DwellAge \in 0 .. MaxAge /\ workers' = workers /\ NW' = NW
      /\ DwellCount = 0 \/ DwellCount = rrCount
  BY Checks DEF DispatchCurrent, ChunkInv, NW, DwellCount, PauseCount
<1>3. /\ rrIndex' = IF full THEN (DwellIndex + 1) % NW ELSE DwellIndex
      /\ rrCount' = IF full THEN 0 ELSE DwellCount + 1
      /\ chunkAge' = IF full THEN 0 ELSE DwellAge
  BY DEF DispatchCurrent
<1>4. ChunkSizeFor(size) \in Nat \ {0} /\ runLen \in Nat /\ rrCount \in Nat /\ runAge \in Nat
      /\ chunkAge \in Unset .. MaxAge
  BY ChunkSizes DEF ChunkInv, TypeInv, TypeOK
<1>5. follows => /\ DwellCount = rrCount /\ DwellAge >= chunkAge
                 /\ runLen <= rrCount /\ runAge <= chunkAge
  BY Continues
<1>6. s = workers[DwellIndex + 1]
  BY <1>2 DEF At
<1> HIDE DEF s, full, follows
<1>7. CountBelow'
  <2>1. full => rrCount' <= 1
    BY <1>3
  <2>2. ~full => rrCount' < ChunkSizeFor(size)
    BY <1>2, <1>3, <1>4 DEF full
  <2>3. QED
    BY <2>1, <2>2 DEF CountBelow
<1>8. ChunkBounded'
  <2>1. CASE ~follows
    BY <1>1, <2>1 DEF ChunkBounded
  <2>2. CASE follows
    <3>1. runLen' <= rrCount + 1
      BY <1>1, <1>4, <1>5, <2>2
    <3>2. CASE rrCount <= 1
      BY <1>1, <1>4, <2>2, <3>1, <3>2 DEF ChunkBounded
    <3>3. ASSUME NEW z \in Sizes, rrCount < ChunkSizeFor(z) PROVE ChunkBounded'
      <4>1. runLen' \in Nat /\ ChunkSizeFor(z) \in Nat
        BY <1>1, <1>4, <2>2, ChunkSizes
      <4>2. runLen' <= ChunkSizeFor(z)
        BY <1>4, <3>1, <3>3, <4>1
      <4>3. QED
        BY <4>2 DEF ChunkBounded
    <3>4. QED
      BY <3>2, <3>3 DEF ChunkInv, CountBelow
  <2>3. QED
    BY <2>1, <2>2
<1>9. Follows'
  <2>1. SUFFICES ASSUME NW > 1, workers[rrIndex' + 1] = lastSlot'
                 PROVE  runLen' <= rrCount' /\ runAge' <= chunkAge'
    BY <1>2 DEF Follows
  <2>2. ~full
    <3>1. SUFFICES ASSUME full PROVE FALSE
      OBVIOUS
    <3>2. rrIndex' \in 0 .. NW - 1 /\ rrIndex' # DwellIndex
      BY <1>2, <1>3, <2>1, <3>1, NextPlace
    <3>3. workers[rrIndex' + 1] = workers[DwellIndex + 1]
      BY <1>1, <1>6, <2>1
    <3>4. /\ DOMAIN workers = 1 .. NW
          /\ \A i, j \in DOMAIN workers : workers[i] = workers[j] => i = j
      BY DEF NW, ChunkInv, TypeInv, TypeOK
    <3>5. ASSUME NEW i \in 0 .. NW - 1, NEW j \in 0 .. NW - 1, i # j
          PROVE  workers[i + 1] # workers[j + 1]
      BY <1>2, <3>4, <3>5
    <3>6. DwellIndex \in 0 .. NW - 1
      BY <1>2
    <3>7. QED
      BY <3>2, <3>3, <3>5, <3>6
  <2>3. rrCount' = DwellCount + 1 /\ chunkAge' = DwellAge
    BY <1>3, <2>2
  <2>4. CASE follows
    BY <1>1, <1>2, <1>4, <1>5, <2>3, <2>4 DEF Unset, MaxAge
  <2>5. CASE ~follows
    BY <1>1, <1>2, <2>3, <2>5 DEF MaxAge
  <2>6. QED
    BY <2>4, <2>5
<1>10. QED
  BY <1>7, <1>8, <1>9 DEF ChunkInv

\* A data packet begins a chunk on another worker.
LEMMA ElsewhereKeeps ==
  ASSUME ChunkInv, NEW size \in Sizes, DispatchElsewhere(size), TypeInv'
  PROVE  ChunkInv'
<1>1. runLen' = 1 /\ runAge' = 0 /\ rrCount' = 1 /\ chunkAge' = 0
  BY DEF DispatchElsewhere, DataSent
<1>2. QED
  BY <1>1 DEF ChunkInv, ChunkBounded, CountBelow, Follows

\* A step that changes neither the ring nor the count and the run, and lets
\* the age of the chunk grow as that of the run.
LEMMA QuietKeeps ==
  ASSUME ChunkInv, TypeInv', UNCHANGED <<workers, rrIndex, rrCount, lastSlot, runLen>>,
         runAge <= chunkAge => runAge' <= chunkAge'
  PROVE  ChunkInv'
  BY DEF ChunkInv, ChunkBounded, CountBelow, Follows, NW

\* Every step keeps the invariant of the chunks.
LEMMA ChunkStep == ChunkInv /\ [Next]_vars => ChunkInv'
<1> SUFFICES ASSUME ChunkInv, [Next]_vars PROVE ChunkInv'
  OBVIOUS
<1>1. TypeInv /\ TypeInv'
  BY TypeStep DEF ChunkInv
<1>2. CASE UNCHANGED vars
  BY <1>1, <1>2, QuietKeeps DEF vars
<1>3. CASE TimePasses
  <2>1. UNCHANGED <<workers, rrIndex, rrCount, lastSlot, runLen>>
    BY <1>3 DEF TimePasses
  <2>2. runAge <= chunkAge => runAge' <= chunkAge'
    BY <1>1, <1>3, TickAssumption DEF TimePasses, Older, TypeInv, TypeOK, Unset, MaxAge
  <2>3. QED
    BY <1>1, <2>1, <2>2, QuietKeeps
<1>4. ASSUME NEW size \in Sizes, Dispatch(size) PROVE ChunkInv'
  <2>1. CASE DispatchNobody(size)
    BY <1>1, <2>1, QuietKeeps DEF DispatchNobody, vars
  <2>2. CASE DispatchPrio(size)
    <3>1. CASE Paused
      BY <1>1, <2>2, <3>1, RunEndsKeeps DEF DispatchPrio, PauseCount, Disturbed
    <3>2. CASE ~Paused
      BY <1>1, <2>2, <3>2, QuietKeeps
      DEF DispatchPrio, PauseIndex, PauseCount, PauseAge, history
    <3>3. QED
      BY <3>1, <3>2
  <2>3. CASE DispatchCurrent(size)
    BY <1>1, <2>3, CurrentKeeps
  <2>4. CASE DispatchElsewhere(size)
    BY <1>1, <2>4, ElsewhereKeeps
  <2>5. CASE DispatchDrop(size)
    BY <1>1, <2>5, RunEndsKeeps DEF DispatchDrop, Disturbed
  <2>6. QED
    BY <1>4, <2>1, <2>2, <2>3, <2>4, <2>5 DEF Dispatch
<1>5. ASSUME NEW s \in Slot, Register(s) \/ WriterExits(s) \/ Unregister(s) \/ Writer(s)
      PROVE  ChunkInv'
  <2>1. CASE Register(s)
    BY <1>1, <2>1, RunEndsKeeps DEF Register, dispatch
  <2>2. CASE Unregister(s)
    BY <1>1, <2>2, RunEndsKeeps DEF Unregister
  <2>3. CASE WriterExits(s)
    BY <1>1, <2>3, QuietKeeps DEF WriterExits, dispatch, history
  <2>4. CASE Writer(s)
    BY <1>1, <2>4, QuietKeeps
    DEF Writer, PollPrio, PollEmpty, SelectPrio, SelectData, WritePrio, dispatch, history
  <2>5. QED
    BY <1>5, <2>1, <2>2, <2>3, <2>4
<1>6. QED
  BY <1>2, <1>3, <1>4, <1>5 DEF Next

\* No chunk has begun when no session is up.
LEMMA ChunkInit == Init => ChunkInv
  BY TypeInit, NoSlotAssumption DEF Init, ChunkInv, ChunkBounded, CountBelow, Follows, NW

\* With several workers no more data packets follow each other through one of
\* them than a chunk of the sizes in use has.
THEOREM ChunksBounded == Spec => []ChunkBounded
<1>1. ChunkInv => ChunkBounded
  BY DEF ChunkInv
<1>2. QED
  BY <1>1, ChunkInit, ChunkStep, PTL DEF Spec

\* A queue grows only by a data packet dispatched to its slot.
LEMMA OnlyDispatchSends ==
  ASSUME TypeInv, [Next]_vars, NEW s \in Slot, SentData(s)
  PROVE  \E size \in Sizes : DispatchCurrent(size) \/ DispatchElsewhere(size)
<1>1. sendQ[s] \in Nat /\ sendQ'[s] # sendQ[s]
  BY BufAssumption DEF TypeInv, TypeOK, SentData
<1>2. ASSUME NEW t \in Slot, Register(t) \/ WriterExits(t) \/ Unregister(t) \/ Writer(t)
      PROVE  FALSE
  <2>1. CASE Unregister(t)
    BY <1>1, <2>1 DEF Unregister, SentData, TypeInv, TypeOK
  <2>2. CASE SelectData(t)
    BY <1>1, <2>2 DEF SelectData, SentData, TypeInv, TypeOK
  <2>3. QED
    BY <1>1, <1>2, <2>1, <2>2
    DEF Register, WriterExits, Writer, PollPrio, PollEmpty, SelectPrio, WritePrio
<1>3. PICK size \in Sizes : Dispatch(size)
  BY <1>1, <1>2 DEF Next, TimePasses, vars
<1>4. QED
  BY <1>1, <1>3 DEF Dispatch, DispatchNobody, DispatchPrio, DispatchDrop, vars

\* A packet that joins a chunk does so before the chunk's time is over.
LEMMA DwellStep ==
  ASSUME ChunkInv, [Next]_vars, NEW s \in Slot, SentData(s), runLen' > 1
  PROVE  runAge < MaxDwellMS
<1>1. TypeInv
  BY DEF ChunkInv
<1>2. PICK size \in Sizes : DispatchCurrent(size) \/ DispatchElsewhere(size)
  BY <1>1, OnlyDispatchSends
<1>3. DispatchCurrent(size)
  <2>1. CASE DispatchElsewhere(size)
    BY <2>1 DEF DispatchElsewhere, DataSent
  <2>2. QED
    BY <1>2, <2>1
<1>4. At(DwellIndex, 0) = lastSlot /\ runLen > 0 /\ ~Paused /\ ~Dwelt /\ NW > 1
  BY <1>3 DEF DispatchCurrent, DataSent
<1>5. runAge \in Nat /\ chunkAge \in Unset .. MaxAge
  BY <1>1 DEF TypeInv, TypeOK
<1>6. QED
  BY <1>4, <1>5, Continues DEF Unset, MaxAge, MaxDwellMS

\* A packet is added to a chunk only within the dwell time of its first one.
THEOREM ChunksInTime == Spec => DwellBounded
<1>1. ChunkInv /\ [Next]_vars
        => [\A s \in Slot : SentData(s) /\ runLen' > 1 => runAge < MaxDwellMS]_vars
  BY DwellStep
<1>2. QED
  BY <1>1, ChunkInit, ChunkStep, PTL DEF Spec, DwellBounded

-----------------------------------------------------------------------------
(* The order of the ring.                                                   *)

\* How far the index is ahead of the place p, going round the ring.
Ahead(p) == IF rrIndex >= p - 1 THEN rrIndex - (p - 1) ELSE rrIndex - (p - 1) + NW

\* The index stays on the slot of the last data packet until its chunk is full,
\* and goes on to the next slot then; a change of the workers moves it by at
\* most one place more.
NotFarAhead == \A p \in 1 .. NW : workers[p] = lastSlot => Ahead(p) <= moved + 1

RingInv == /\ TypeInv
           /\ lastSlot = NoSlot \/ Has(workers, lastSlot)
           /\ NotFarAhead

\* One or two rounds more lead to the same place.
LEMMA Rounds ==
  ASSUME NEW n \in Nat \ {0}, NEW y \in 0 .. n - 1
  PROVE  y % n = y /\ (y + n) % n = y /\ ((y + n) + n) % n = y
<1>1. y % n = y
  OBVIOUS
<1>2. (y + n) % n = y
  OBVIOUS
<1>3. ((y + n) + n) % n = y
  OBVIOUS
<1>4. QED
  BY <1>1, <1>2, <1>3

\* Counting places from one that is a places ahead of p is counting them from p.
LEMMA Further ==
  ASSUME NEW n \in Nat \ {0}, NEW p \in 1 .. n, NEW r \in 0 .. n - 1, NEW a \in Nat,
         a = IF r >= p - 1 THEN r - (p - 1) ELSE r - (p - 1) + n, NEW m \in 0 .. n - 1
  PROVE  (r + m) % n = ((p - 1) + (m + a)) % n
<1>1. CASE r >= p - 1
  BY <1>1
<1>2. CASE r < p - 1
  <2>1. (p - 1) + (m + a) = (r + m) + n
    BY <1>2
  <2>2. ((r + m) + n) % n = (r + m) % n
    <3>1. CASE r + m < n
      BY <3>1, Rounds
    <3>2. CASE r + m >= n
      <4> DEFINE y == (r + m) - n
      <4>1. y \in 0 .. n - 1 /\ r + m = y + n
        BY <3>2
      <4> HIDE DEF y
      <4>2. QED
        BY <4>1, Rounds
    <3>3. QED
      BY <3>1, <3>2
  <2>3. QED
    BY <2>1, <2>2
<1>3. QED
  BY <1>1, <1>2

\* The places of the ring hold slots.
LEMMA SlotsInRing ==
  ASSUME TypeInv'
  PROVE  \A p \in 1 .. NW' : workers'[p] \in Slot
<1>1. workers' \in Seq(Slot) /\ NW' = Len(workers')
  BY DEF TypeInv, TypeOK, NW
<1>2. QED
  BY <1>1

\* A step that leaves the ring and the last slot alone, or disturbs them.
LEMMA RingQuiet ==
  ASSUME RingInv, TypeInv',
         \/ UNCHANGED <<workers, rrIndex, lastSlot, moved>>
         \/ Disturbed
  PROVE  RingInv'
<1>1. CASE UNCHANGED <<workers, rrIndex, lastSlot, moved>>
  BY <1>1 DEF RingInv, NotFarAhead, Ahead, Has, NW
<1>2. CASE Disturbed
  <2>1. \A p \in 1 .. NW' : workers'[p] # lastSlot'
    BY <1>2, NoSlotAssumption, SlotsInRing DEF Disturbed
  <2>2. QED
    BY <1>2, <2>1 DEF RingInv, NotFarAhead, Disturbed
<1>3. QED
  BY <1>1, <1>2

\* A newcomer at the end of the ring may come between the last slot and the
\* index.
LEMMA RingGrows ==
  ASSUME RingInv, NEW s \in Slot, Register(s), TypeInv'
  PROVE  RingInv'
<1>1. /\ workers \in Seq(Slot) /\ NW \in Nat /\ NW = Len(workers) /\ ~Has(workers, s)
      /\ rrIndex \in Nat /\ (rrIndex = 0 \/ rrIndex < NW) /\ moved \in Nat
  <2>1. TypeOK /\ (rrIndex = 0 \/ rrIndex < NW)
    BY DEF RingInv, TypeInv
  <2>2. workers \in Seq(Slot) /\ rrIndex \in Nat /\ moved \in Nat
    BY <2>1 DEF TypeOK
  <2>3. ~Has(workers, s)
    BY <2>1 DEF Register, TypeOK, Registered, Has
  <2>4. NW = Len(workers)
    BY DEF NW
  <2>5. QED
    BY <2>1, <2>2, <2>3, <2>4
<1>2. /\ workers' = Append(workers, s) /\ rrIndex' = rrIndex /\ lastSlot' = lastSlot
      /\ lastSlot # NoSlot => moved' = moved + 1
  BY DEF Register, dispatch
<1>3. /\ NW' = NW + 1 /\ workers'[NW + 1] = s
      /\ \A p \in 1 .. NW : workers'[p] = workers[p]
  BY <1>1, <1>2 DEF NW
<1>4. lastSlot' = NoSlot \/ Has(workers', lastSlot')
  BY <1>1, <1>2, <1>3 DEF RingInv, Has, NW
<1>5. ASSUME NEW p \in 1 .. NW', workers'[p] = lastSlot'
      PROVE  Ahead(p)' <= moved' + 1
  <2>1. lastSlot # NoSlot
    <3>1. workers'[p] \in Slot
      BY SlotsInRing
    <3>2. QED
      BY <1>2, <1>5, <3>1, NoSlotAssumption
  <2>2. p \in 1 .. NW /\ workers[p] = lastSlot
    <3>1. Has(workers, lastSlot)
      BY <2>1 DEF RingInv
    <3>2. lastSlot # s
      BY <1>1, <3>1
    <3>3. QED
      BY <1>1, <1>2, <1>3, <1>5, <3>2
  <2>3. Ahead(p) <= moved + 1
    BY <2>2 DEF RingInv, NotFarAhead
  <2>4. moved' = moved + 1
    BY <1>2, <2>1
  <2>5. QED
    BY <1>1, <1>2, <1>3, <2>2, <2>3, <2>4 DEF Ahead
<1>6. QED
  BY <1>4, <1>5 DEF RingInv, NotFarAhead

\* A removal leaves the index where it is among the places: the slots behind the
\* gap move up, and so does the last slot, if it is one of them.
LEMMA RingShrinks ==
  ASSUME RingInv, NEW s \in Slot, Unregister(s), TypeInv'
  PROVE  RingInv'
<1>1. PICK i \in DOMAIN workers :
        /\ workers[i] = s
        /\ workers' = RemoveAt(workers, i)
        /\ IF \E j \in DOMAIN workers : j > i /\ workers[j] = lastSlot
           THEN moved' = moved + 1
           ELSE moved' = IF s = lastSlot THEN 0 ELSE moved
  BY DEF Unregister
<1>2. /\ workers \in Seq(Slot) /\ NW \in Nat /\ NW = Len(workers) /\ DOMAIN workers = 1 .. NW
      /\ i \in 1 .. NW /\ rrIndex \in 0 .. NW - 1 /\ moved \in Nat
      /\ \A j, k \in DOMAIN workers : workers[j] = workers[k] => j = k
  <2>1. /\ workers \in Seq(Slot) /\ moved \in Nat /\ rrIndex \in Nat
        /\ rrIndex = 0 \/ rrIndex < NW
        /\ \A j, k \in DOMAIN workers : workers[j] = workers[k] => j = k
    BY DEF RingInv, TypeInv, TypeOK
  <2>2. NW = Len(workers)
    BY DEF NW
  <2>3. QED
    BY <1>1, <2>1, <2>2
<1>3. /\ NW' = NW - 1
      /\ \A j \in 1 .. NW - 1 : workers'[j] = IF j < i THEN workers[j] ELSE workers[j + 1]
  <2>1. /\ Len(RemoveAt(workers, i)) = Len(workers) - 1
        /\ \A j \in 1 .. Len(workers) - 1 :
              RemoveAt(workers, i)[j] = IF j < i THEN workers[j] ELSE workers[j + 1]
    <3>1. workers \in Seq(Slot) /\ i \in 1 .. Len(workers)
      BY <1>2
    <3>2. QED
      BY <3>1, Removal
  <2>2. NW' = Len(workers') /\ NW = Len(workers) /\ workers' = RemoveAt(workers, i)
    BY <1>1 DEF NW
  <2>3. QED
    BY <2>1, <2>2
<1>4. rrIndex' = IF rrIndex >= NW' /\ NW' > 0 THEN rrIndex % NW' ELSE rrIndex
  BY DEF Unregister, IndexKept, NW
<1>5. NW' > 0 => rrIndex' = IF rrIndex = NW' THEN 0 ELSE rrIndex
  <2>1. SUFFICES ASSUME NW' > 0 PROVE rrIndex' = IF rrIndex = NW' THEN 0 ELSE rrIndex
    OBVIOUS
  <2> DEFINE n == NW'
  <2>2. n \in Nat \ {0} /\ n % n = 0 /\ (rrIndex >= n <=> rrIndex = n)
    BY <1>2, <1>3, <2>1
  <2>3. rrIndex' = IF rrIndex >= n /\ n > 0 THEN rrIndex % n ELSE rrIndex
    BY <1>4
  <2> HIDE DEF n
  <2>4. rrIndex' = IF rrIndex = n THEN 0 ELSE rrIndex
    BY <2>2, <2>3
  <2>5. QED
    BY <2>4 DEF n
<1>6. lastSlot' = IF s = lastSlot THEN NoSlot ELSE lastSlot
  BY DEF Unregister
<1>7. lastSlot' = NoSlot \/ Has(workers', lastSlot')
  <2>1. SUFFICES ASSUME lastSlot' # NoSlot PROVE Has(workers', lastSlot')
    OBVIOUS
  <2>2. s # lastSlot /\ lastSlot' = lastSlot /\ lastSlot # NoSlot
    BY <1>6, <2>1
  <2>3. PICK k \in 1 .. NW : workers[k] = lastSlot
    BY <1>2, <2>2 DEF RingInv, Has
  <2>4. k # i
    BY <1>1, <2>2, <2>3
  <2>5. DOMAIN workers' = 1 .. NW'
    BY DEF NW, TypeInv, TypeOK
  <2>6. CASE k < i
    BY <1>2, <1>3, <2>2, <2>3, <2>5, <2>6 DEF Has
  <2>7. CASE k > i
    <3>1. k - 1 \in 1 .. NW - 1 /\ ~(k - 1 < i) /\ (k - 1) + 1 = k
      BY <1>2, <2>7
    <3>2. workers'[k - 1] = workers[k]
      BY <1>3, <3>1
    <3>3. QED
      BY <1>3, <2>2, <2>3, <2>5, <3>1, <3>2 DEF Has
  <2>8. QED
    BY <1>2, <2>4, <2>6, <2>7
<1>8. ASSUME NEW p \in 1 .. NW', workers'[p] = lastSlot'
      PROVE  Ahead(p)' <= moved' + 1
  <2>1. s # lastSlot /\ lastSlot' = lastSlot
    <3>1. workers'[p] \in Slot
      BY SlotsInRing
    <3>2. QED
      BY <1>6, <1>8, <3>1, NoSlotAssumption
  <2>2. p \in 1 .. NW - 1 /\ NW' > 0
    BY <1>2, <1>3, <1>8
  <2> DEFINE r == IF rrIndex = NW' THEN 0 ELSE rrIndex
  <2>3. rrIndex' = r
    BY <1>5, <2>2
  <2>4. CASE p < i
    <3>1. workers[p] = lastSlot /\ p \in 1 .. NW
      BY <1>2, <1>3, <1>8, <2>1, <2>2, <2>4
    <3>2. Ahead(p) <= moved + 1
      BY <3>1 DEF RingInv, NotFarAhead
    <3>3. ~ \E j \in DOMAIN workers : j > i /\ workers[j] = lastSlot
      BY <1>2, <2>4, <3>1
    <3>4. moved' = moved
      BY <1>1, <2>1, <3>3
    <3>5. QED
      BY <1>2, <1>3, <2>2, <2>3, <2>4, <3>2, <3>4 DEF Ahead
  <2>5. CASE p >= i
    <3>1. workers[p + 1] = lastSlot /\ p + 1 \in 1 .. NW
      BY <1>2, <1>3, <1>8, <2>1, <2>2, <2>5
    <3>2. Ahead(p + 1) <= moved + 1
      BY <3>1 DEF RingInv, NotFarAhead
    <3>3. p + 1 \in DOMAIN workers /\ p + 1 > i
      BY <1>2, <2>2, <2>5
    <3>4. moved' = moved + 1
      BY <1>1, <3>1, <3>3
    <3>5. QED
      BY <1>2, <1>3, <2>2, <2>3, <2>5, <3>2, <3>4 DEF Ahead
  <2>6. QED
    BY <1>2, <2>2, <2>4, <2>5
<1>9. QED
  BY <1>7, <1>8 DEF RingInv, NotFarAhead

\* A data packet leaves the index on its slot or on the next one.
LEMMA RingSends ==
  ASSUME RingInv, NEW size \in Sizes, TypeInv',
         DispatchCurrent(size) \/ DispatchElsewhere(size)
  PROVE  RingInv'
<1>1. PICK q \in 0 .. NW - 1 :
        /\ workers' = workers /\ NW' = NW /\ NW \in Nat \ {0}
        /\ lastSlot' = workers[q + 1] /\ moved' = 0
        /\ rrIndex' = q \/ rrIndex' = (q + 1) % NW
  <2>1. CASE DispatchCurrent(size)
    <3>1. /\ NW \in Nat \ {0} /\ DwellIndex \in 0 .. NW - 1 /\ workers' = workers /\ NW' = NW
      BY <2>1, Checks DEF DispatchCurrent, RingInv, NW
    <3>2. lastSlot' = At(DwellIndex, 0) /\ moved' = 0
      BY <2>1 DEF DispatchCurrent, DataSent
    <3>3. At(DwellIndex, 0) = workers[DwellIndex + 1]
      BY <3>1 DEF At
    <3>4. rrIndex' = DwellIndex \/ rrIndex' = (DwellIndex + 1) % NW
      BY <2>1 DEF DispatchCurrent
    <3>5. QED
      BY <3>1, <3>2, <3>3, <3>4
  <2>2. CASE DispatchElsewhere(size)
    <3>1. /\ NW \in Nat \ {0} /\ DwellIndex \in 0 .. NW - 1 /\ workers' = workers /\ NW' = NW
      BY <2>2, Checks DEF DispatchElsewhere, RingInv, NW
    <3>2. PICK i \in Nearest(Roomy(sendQ, SendBuf, DwellIndex, 1)) :
            rrIndex' = (DwellIndex + i) % NW /\ DataSent(At(DwellIndex, i), TRUE)
      BY <2>2 DEF DispatchElsewhere
    <3>3. i \in Nat
      BY <3>1, <3>2 DEF Nearest, Roomy
    <3>4. /\ (DwellIndex + i) % NW \in 0 .. NW - 1
          /\ At(DwellIndex, i) = workers[((DwellIndex + i) % NW) + 1]
      BY <3>1, <3>3, Places DEF RingInv
    <3>5. lastSlot' = At(DwellIndex, i) /\ moved' = 0
      BY <3>2 DEF DataSent
    <3>6. QED
      BY <3>1, <3>2, <3>4, <3>5
  <2>3. QED
    BY <2>1, <2>2
<1>2. DOMAIN workers = 1 .. NW /\ q + 1 \in 1 .. NW
  BY <1>1 DEF NW, RingInv, TypeInv, TypeOK
<1>3. ASSUME NEW p \in 1 .. NW, workers[p] = lastSlot' PROVE Ahead(p)' <= moved' + 1
  <2>1. p = q + 1
    <3>1. \A i, j \in DOMAIN workers : workers[i] = workers[j] => i = j
      BY DEF RingInv, TypeInv, TypeOK
    <3>2. QED
      BY <1>1, <1>2, <1>3, <3>1
  <2>2. (q + 1) % NW = IF q = NW - 1 THEN 0 ELSE q + 1
    BY <1>1
  <2>3. QED
    BY <1>1, <2>1, <2>2 DEF Ahead
<1>4. Has(workers', lastSlot')
  BY <1>1, <1>2 DEF Has
<1>5. QED
  BY <1>1, <1>3, <1>4 DEF RingInv, NotFarAhead

\* Every step keeps the order.
LEMMA RingStep == RingInv /\ [Next]_vars => RingInv'
<1> SUFFICES ASSUME RingInv, [Next]_vars PROVE RingInv'
  OBVIOUS
<1>1. TypeInv'
  BY TypeStep DEF RingInv
<1>2. CASE UNCHANGED vars
  BY <1>1, <1>2, RingQuiet DEF vars
<1>3. CASE TimePasses
  BY <1>1, <1>3, RingQuiet DEF TimePasses
<1>4. ASSUME NEW size \in Sizes, Dispatch(size) PROVE RingInv'
  <2>1. CASE DispatchNobody(size)
    BY <1>1, <2>1, RingQuiet DEF DispatchNobody, vars
  <2>2. CASE DispatchPrio(size)
    BY <1>1, <2>2, RingQuiet DEF DispatchPrio, PauseIndex, history
  <2>3. CASE DispatchCurrent(size) \/ DispatchElsewhere(size)
    BY <1>1, <2>3, RingSends
  <2>4. CASE DispatchDrop(size)
    BY <1>1, <2>4, RingQuiet DEF DispatchDrop
  <2>5. QED
    BY <1>4, <2>1, <2>2, <2>3, <2>4 DEF Dispatch
<1>5. ASSUME NEW s \in Slot, Register(s) \/ WriterExits(s) \/ Unregister(s) \/ Writer(s)
      PROVE  RingInv'
  <2>1. CASE Register(s) \/ Unregister(s)
    BY <1>1, <2>1, RingGrows, RingShrinks
  <2>2. CASE WriterExits(s) \/ Writer(s)
    BY <1>1, <2>2, RingQuiet
    DEF WriterExits, Writer, PollPrio, PollEmpty, SelectPrio, SelectData, WritePrio,
        dispatch, history
  <2>3. QED
    BY <1>5, <2>1, <2>2
<1>6. QED
  BY <1>2, <1>3, <1>4, <1>5 DEF Next

\* A packet of data goes to the current slot, or past full ones, and the current
\* slot is at most one place further than the workers have moved it.
LEMMA SendsInOrder ==
  ASSUME RingInv, NEW size \in Sizes, DispatchCurrent(size) \/ DispatchElsewhere(size),
         NEW s \in Slot, SentData(s), ~Paused, ~Dwelt, s # lastSlot,
         NEW p \in 1 .. NW, workers[p] = lastSlot,
         NEW i \in moved + 1 .. NW - 1, \A j \in 1 .. i : At(p - 1, j) # s
  PROVE  sendQ[At(p - 1, i)] = SendBuf
<1> DEFINE a == Ahead(p)
<1>1. /\ NW \in Nat \ {0} /\ rrIndex \in 0 .. NW - 1 /\ DwellIndex = rrIndex
      /\ sendQ \in [Slot -> 0 .. SendBuf] /\ SendBuf \in Nat /\ moved \in Nat
      /\ a \in 0 .. NW - 1 /\ a <= moved + 1
  <2>1. TypeInv /\ NW > 0
    BY DEF RingInv, DispatchCurrent, DispatchElsewhere
  <2>2. NW \in Nat \ {0} /\ rrIndex \in 0 .. NW - 1
    <3>1. NW \in Nat /\ PauseIndex \in 0 .. NW - 1 /\ PauseIndex = rrIndex
      BY <2>1, Checks
    <3>2. QED
      BY <2>1, <3>1
  <2>3. DwellIndex = rrIndex
    BY DEF DwellIndex, PauseIndex
  <2>4. sendQ \in [Slot -> 0 .. SendBuf] /\ SendBuf \in Nat /\ moved \in Nat
    BY <2>1, BufAssumption DEF TypeInv, TypeOK
  <2>5. a \in 0 .. NW - 1 /\ a <= moved + 1
    BY <2>2 DEF RingInv, NotFarAhead, Ahead
  <2>6. QED
    BY <2>2, <2>3, <2>4, <2>5
<1>2. ASSUME NEW m \in 0 .. NW - 1 PROVE At(rrIndex, m) = At(p - 1, m + a)
  <2>1. a = IF rrIndex >= p - 1 THEN rrIndex - (p - 1) ELSE rrIndex - (p - 1) + NW
    BY DEF Ahead
  <2>2. /\ NW \in Nat \ {0} /\ p \in 1 .. NW /\ rrIndex \in 0 .. NW - 1 /\ a \in Nat
        /\ m \in 0 .. NW - 1
    BY <1>1
  <2> HIDE DEF a
  <2>3. (rrIndex + m) % NW = ((p - 1) + (m + a)) % NW
    BY <2>1, <2>2, Further
  <2>4. QED
    BY <2>3 DEF At
<1> HIDE DEF a
<1>3. At(p - 1, 0) = lastSlot
  <2>1. ((p - 1) + 0) % NW = p - 1
    BY <1>1
  <2>2. QED
    BY <2>1 DEF At
<1>4. PICK k \in 0 .. NW - 1 :
        /\ s = At(rrIndex, k)
        /\ \A m \in 0 .. NW - 1 : m < k => sendQ[At(rrIndex, m)] = SendBuf
  <2>1. CASE DispatchCurrent(size)
    <3>1. s = At(rrIndex, 0)
      BY <1>1, <2>1 DEF DispatchCurrent, SentData
    <3>2. QED
      BY <1>1, <3>1
  <2>2. CASE DispatchElsewhere(size)
    <3>1. PICK k \in Nearest(Roomy(sendQ, SendBuf, rrIndex, 1)) :
            sendQ' = [sendQ EXCEPT ![At(rrIndex, k)] = @ + 1]
      BY <1>1, <2>2 DEF DispatchElsewhere
    <3>2. k \in 1 .. NW - 1 /\ s = At(rrIndex, k)
      BY <1>1, <3>1 DEF Nearest, Roomy, SentData
    <3>3. ASSUME NEW m \in 0 .. NW - 1, m < k PROVE sendQ[At(rrIndex, m)] = SendBuf
      <4>1. CASE m = 0
        BY <1>1, <2>2, <4>1 DEF DispatchElsewhere
      <4>2. CASE m # 0
        <5>1. ~(sendQ[At(rrIndex, m)] < SendBuf)
          BY <1>1, <3>1, <3>2, <3>3, <4>2 DEF Nearest, Roomy
        <5>2. At(rrIndex, m) \in Slot
          BY <1>1, Places DEF RingInv
        <5>3. QED
          BY <1>1, <5>1, <5>2
      <4>3. QED
        BY <4>1, <4>2
    <3>4. QED
      BY <1>1, <3>2, <3>3
  <2>3. QED
    BY <2>1, <2>2
\* The place i is at or behind the index, and in front of s.
<1>5. i - a \in 0 .. NW - 1
  BY <1>1
<1>6. i - a < k
  <2>1. SUFFICES ASSUME k + a <= i PROVE FALSE
    BY <1>1, <1>4, <1>5
  <2>2. At(p - 1, k + a) = s
    BY <1>1, <1>2, <1>4
  <2>3. k + a # 0
    BY <1>3, <2>2
  <2>4. k + a \in 1 .. i
    BY <1>1, <1>4, <2>1, <2>3
  <2>5. QED
    BY <2>2, <2>4
<1>7. sendQ[At(rrIndex, i - a)] = SendBuf
  BY <1>4, <1>5, <1>6
<1>8. At(rrIndex, i - a) = At(p - 1, i)
  <2>1. i - a \in 0 .. NW - 1 /\ (i - a) + a = i
    BY <1>1, <1>5
  <2>2. QED
    BY <1>2, <2>1
<1>9. QED
  BY <1>7, <1>8

\* The ring is walked in order, whatever sessions come and go: a data packet
\* goes to the slot of the one before it, or further round the ring past slots
\* whose queues are all full, apart from one slot for every newcomer and every
\* removal of an earlier slot since.
THEOREM RingWalked == Spec => RingInOrder
<1>1. Init => RingInv
  BY TypeInit DEF Init, RingInv, NotFarAhead, NW
<1>2. ASSUME RingInv, [Next]_vars, NEW s \in Slot, SentData(s), ~Paused, ~Dwelt,
             Registered(lastSlot), s # lastSlot, NEW i \in moved + 1 .. NW - 1,
             \A j \in 1 .. i : At(PositionOf(lastSlot) - 1, j) # s
      PROVE  sendQ[At(PositionOf(lastSlot) - 1, i)] = SendBuf
  <2> DEFINE p == PositionOf(lastSlot)
  <2>1. DOMAIN workers = 1 .. NW
    BY <1>2 DEF RingInv, TypeInv, TypeOK, NW
  <2>2. p \in 1 .. NW /\ workers[p] = lastSlot
    BY <1>2, <2>1 DEF Registered, PositionOf
  <2>3. PICK size \in Sizes : DispatchCurrent(size) \/ DispatchElsewhere(size)
    BY <1>2, OnlyDispatchSends DEF RingInv
  <2> HIDE DEF p
  <2>4. \A j \in 1 .. i : At(p - 1, j) # s
    BY <1>2 DEF p
  <2>5. sendQ[At(p - 1, i)] = SendBuf
    BY <1>2, <2>2, <2>3, <2>4, SendsInOrder
  <2>6. QED
    BY <2>5 DEF p
<1> DEFINE InOrder ==
      \A s \in Slot :
        SentData(s) /\ ~Paused /\ ~Dwelt /\ Registered(lastSlot) /\ s # lastSlot
          => \A i \in moved + 1 .. NW - 1 :
               (\A j \in 1 .. i : At(PositionOf(lastSlot) - 1, j) # s)
                 => sendQ[At(PositionOf(lastSlot) - 1, i)] = SendBuf
<1>3. RingInv /\ [Next]_vars => [InOrder]_vars
  BY <1>2
<1>4. QED
  BY <1>1, <1>3, RingStep, PTL DEF Spec, RingInOrder
=============================================================================
