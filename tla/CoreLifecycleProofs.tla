------------------------- MODULE CoreLifecycleProofs -------------------------
(***************************************************************************)
(* Proofs about a Core and its daemon, in both modes and for any capacity   *)
(* of the events channel: the types, the order in which the Core is taken   *)
(* down, what the daemon has been told before it leaves, and the way of the *)
(* configuration from the worker that got it to the daemon.                 *)
(***************************************************************************)
EXTENDS CoreLifecycle, TLAPS

\* What each stage of main's deferred calls has established; nobody undoes it.
DownInv ==
  /\ main # "waiting" => groups = "done"
  /\ main \in {"cancel", "shutdown", "closeEvents", "done"} => localConn # "open"
  /\ main \in {"shutdown", "closeEvents", "done"} => ctxDone
  /\ main \in {"closeEvents", "done"} => reader = "done" /\ writer = "done"
  /\ closed => main = "done"

\* A loop that has begun found ready closed, and ready is closed only when
\* there is something to read from; the TUN is closed only after readLoop.
SourceInv ==
  /\ rawMode \in BOOLEAN
  /\ reader \in {"waiting", "top", "reading", "done"}
  /\ reader \in {"top", "reading"} => ready
  /\ rawMode /\ (ready \/ config = "attached") => tunFile # "none"
  /\ ~rawMode => localConn # "none"
  /\ tunFile \in {"none", "open", "closed"}
  /\ tunFile = "closed" => reader = "done"

LifeInv == DownInv /\ SourceInv

\* Nothing is down yet and, in RAW mode, nothing is ready.
LEMMA LifeInit == Init => LifeInv
  BY RawModeAssumption DEF Init, LifeInv, DownInv, SourceInv

\* emit touches nothing but the channel and its own state.
LEMMA EmitKeeps ==
  ASSUME LifeInv, NEW p \in Emitter, Emit(p)
  PROVE  LifeInv'
<1>1. UNCHANGED <<rawMode, ctxDone, groups, main, localConn, reader, writer, closed,
                  ready, config, tunFile>>
  BY DEF Emit, EmitTry, EmitDrain, EmitRetry, coreVars, goVars, dispVars
<1>2. QED
  BY <1>1 DEF LifeInv, DownInv, SourceInv

\* The groups, the config goroutine and the stats loop.
LEMMA OthersKeep ==
  ASSUME LifeInv,
         \/ StreamUp \/ StreamDown \/ GroupsReturn \/ AskCaptcha \/ HandOverConfig
         \/ ConfigStep
         \/ CloseShutdownCh \/ StatsTick \/ StatsReport \/ StatsLeave
  PROVE  LifeInv'
<1> USE DEF LifeInv, DownInv, SourceInv, goVars, dispVars, eventVars, coreVars
<1>1. CASE StreamUp \/ StreamDown \/ GroupsReturn \/ AskCaptcha \/ HandOverConfig
  BY <1>1 DEF StreamUp, StreamDown, GroupsReturn, AskCaptcha, HandOverConfig
<1>2. CASE ReceiveConfig
  BY <1>2 DEF ReceiveConfig
<1>3. CASE NoConfig \/ AttachFails
  BY <1>3 DEF NoConfig, AttachFails
<1>4. CASE AttachTUN
  BY <1>4 DEF AttachTUN
<1>5. CASE SignalReady
  BY <1>5 DEF SignalReady
<1>6. CASE CloseShutdownCh \/ StatsTick \/ StatsReport \/ StatsLeave
  BY <1>6 DEF CloseShutdownCh, StatsTick, StatsReport, StatsLeave
<1>7. QED
  BY <1>1, <1>2, <1>3, <1>4, <1>5, <1>6 DEF ConfigStep

\* The dispatcher's loops end once and for all.
LEMMA LoopsKeep ==
  ASSUME LifeInv, ReaderStep \/ ReaderPacket \/ WriterStep
  PROVE  LifeInv'
<1> USE DEF LifeInv, DownInv, SourceInv, goVars, eventVars, coreVars
<1>1. CASE ReaderBegins
  BY <1>1 DEF ReaderBegins, LoopBegins
<1>2. CASE ReaderTop \/ ReaderPacket \/ ReaderError
  BY <1>2 DEF ReaderTop, ReaderPacket, ReaderError
<1>3. CASE WriterBegins
  BY <1>3 DEF WriterBegins, LoopBegins
<1>4. CASE WriterLeaves
  BY <1>4 DEF WriterLeaves
<1>5. QED
  BY <1>1, <1>2, <1>3, <1>4 DEF ReaderStep, WriterStep

\* main goes down one stage at a time.
LEMMA MainKeeps ==
  ASSUME LifeInv, MainStep
  PROVE  LifeInv'
<1> USE DEF LifeInv, DownInv, SourceInv, MainAt, dispVars, eventVars, coreVars
<1>1. CASE AllReturned
  BY <1>1 DEF AllReturned
<1>2. CASE ReportDead \/ ReportState \/ NothingToReport
  BY <1>2 DEF ReportDead, ReportState, NothingToReport
<1>3. CASE CloseLocalConn
  BY <1>3 DEF CloseLocalConn
<1>4. CASE Cancel
  BY <1>4 DEF Cancel
<1>5. CASE Shutdown
  BY <1>5 DEF Shutdown
<1>6. CASE CloseEvents
  BY <1>6 DEF CloseEvents
<1>7. QED
  BY <1>1, <1>2, <1>3, <1>4, <1>5, <1>6 DEF MainStep

\* The daemon may cancel the context, never revive it.
LEMMA DaemonKeeps ==
  ASSUME LifeInv, DaemonStep \/ Signal
  PROVE  LifeInv'
<1> USE DEF LifeInv, DownInv, SourceInv, DaemonAt, dispVars, goVars, coreVars
<1>1. CASE HandleEvent \/ EventsEnd \/ Signal \/ Teardown
  BY <1>1 DEF HandleEvent, EventsEnd, Signal, Teardown
<1>2. CASE StopCore
  BY <1>2 DEF StopCore
<1>3. QED
  BY <1>1, <1>2 DEF DaemonStep

\* Every step keeps the invariant.
LEMMA LifeStep == LifeInv /\ [Next]_vars => LifeInv'
<1> SUFFICES ASSUME LifeInv, [Next]_vars PROVE LifeInv'
  OBVIOUS
<1>1. CASE UNCHANGED vars
  BY <1>1 DEF vars, LifeInv, DownInv, SourceInv
<1>2. CASE Next
  BY <1>2, EmitKeeps, OthersKeep, LoopsKeep, MainKeeps, DaemonKeeps DEF Next
<1>3. QED
  BY <1>1, <1>2

\* However the goroutines interleave: a closed events channel means that the
\* socket, the loops and the groups are all gone.
THEOREM ClosedIsOver == Spec => []ClosedMeansOver
<1>1. LifeInv => ClosedMeansOver
  BY DEF LifeInv, DownInv, ClosedMeansOver
<1>2. QED
  BY <1>1, LifeInit, LifeStep, PTL DEF Spec

\* readLoop never reads from a source that does not exist yet or no longer.
THEOREM SourceExists == Spec => []ReaderHasSource
<1>1. LifeInv => ReaderHasSource
  BY DEF LifeInv, SourceInv, ReaderHasSource
<1>2. QED
  BY <1>1, LifeInit, LifeStep, PTL DEF Spec

-----------------------------------------------------------------------------
(* The types.                                                               *)

Call == [step : {"idle", "try", "drain", "retry"}, kind : Kind]

\* Where the goroutines are and what they share, but for emit and the events.
Places ==
  /\ ctxDone \in BOOLEAN /\ shutdownCh \in BOOLEAN /\ ready \in BOOLEAN /\ rawMode \in BOOLEAN
  /\ groups \in {"down", "up", "done"}
  /\ reports \in 0 .. MaxReports
  /\ configCh \in {"empty", "full", "taken", "closedFull", "closed"}
  /\ config \in {"waiting", "attaching", "attached", "done"}
  /\ stats \in {"select", "stats", "done"}
  /\ main \in {"waiting", "verdict", "report", "closeConn", "cancel", "shutdown",
               "closeEvents", "done"}
  /\ localConn \in {"none", "open", "closed"}
  /\ tunFile \in {"none", "open", "closed"}
  /\ reader \in {"waiting", "top", "reading", "done"}
  /\ writer \in {"waiting", "loop", "done"}

Channel ==
  /\ closed \in BOOLEAN /\ panicked \in BOOLEAN
  /\ events \in Seq(Kind) /\ Len(events) <= EventBuf
  /\ daemon \in {"loop", "stopping", "teardown", "exited"}
  /\ passed \subseteq Verdict

Calls == emitting \in [Emitter -> Call]

LEMMA TypeParts == TypeOK <=> Places /\ Channel /\ Calls
<1>1. {ctxDone, shutdownCh, ready, closed, panicked} \subseteq BOOLEAN
        <=> /\ ctxDone \in BOOLEAN /\ shutdownCh \in BOOLEAN /\ ready \in BOOLEAN
            /\ closed \in BOOLEAN /\ panicked \in BOOLEAN
  BY Zenon
<1>2. QED
  BY <1>1, Zenon DEF TypeOK, Places, Channel, Calls, Call

\* A goroutine enters emit with an event of a kind there is.
LEMMA EmitsCalls ==
  ASSUME Calls, NEW p \in Emitter, NEW kind \in Kind, Emits(p, kind)
  PROVE  Calls'
  BY DEF Calls, Call, Emits

LEMMA TypeInit == Init => Places /\ Channel /\ Calls
<1> SUFFICES ASSUME Init PROVE Places /\ Channel /\ Calls
  OBVIOUS
<1>1. Places
  <2>1. rawMode \in BOOLEAN
    BY RawModeAssumption DEF Init
  <2>2. ready \in BOOLEAN /\ localConn \in {"none", "open", "closed"}
    <3>1. ready = ~rawMode /\ localConn = IF rawMode THEN "none" ELSE "open"
      BY DEF Init
    <3>2. QED
      BY <2>1, <3>1, Zenon
  <2>3. reports \in 0 .. MaxReports
    BY BoundsAssumption DEF Init
  <2>4. QED
    BY <2>1, <2>2, <2>3, Zenon DEF Init, Places
<1>2. Channel
  <2>1. events = <<"state">> /\ "state" \in Kind
    BY DEF Init, Kind
  <2>2. events \in Seq(Kind) /\ Len(events) = 1
    BY <2>1
  <2>3. Len(events) <= EventBuf
    BY <2>2, EventBufAssumption
  <2>4. QED
    BY <2>2, <2>3, Zenon DEF Init, Channel
<1>3. Calls
  BY DEF Init, Calls, Call, Idle, Kind
<1>4. QED
  BY <1>1, <1>2, <1>3

\* emit: a send fits into the channel, a drain makes it shorter.
LEMMA EmitTypes ==
  ASSUME Places, Channel, Calls, NEW p \in Emitter, Emit(p)
  PROVE  Places' /\ Channel' /\ Calls'
<1>1. Places'
  BY DEF Emit, EmitTry, EmitDrain, EmitRetry, coreVars, goVars, dispVars, Places
<1>2. emitting[p] \in Call /\ emitting[p].kind \in Kind /\ Idle \in Call
  BY DEF Calls, Call, Idle, Kind
<1>3. ASSUME NEW otherwise \in Call, Send(p, otherwise), UNCHANGED <<closed, daemon>>
      PROVE  Channel' /\ Calls'
  <2>1. CASE closed
    BY <1>3, <2>1 DEF Send, Channel, Calls
  <2>2. CASE ~closed /\ Len(events) < EventBuf
    <3>1. /\ events' = Append(events, emitting[p].kind)
          /\ emitting' = [emitting EXCEPT ![p] = Idle]
          /\ UNCHANGED <<passed, panicked, closed, daemon>>
      BY <1>3, <2>2 DEF Send
    <3>2. Channel'
      BY <1>2, <2>2, <3>1, EventBufAssumption DEF Channel
    <3>3. Calls'
      BY <1>2, <3>1 DEF Calls
    <3>4. QED
      BY <3>2, <3>3
  <2>3. CASE ~closed /\ ~(Len(events) < EventBuf)
    <3>1. /\ UNCHANGED <<events, panicked, closed, daemon>>
          /\ emitting' = [emitting EXCEPT ![p] = otherwise]
          /\ passed' = passed \/ passed' = passed \cup ({emitting[p].kind} \cap Verdict)
      BY <1>3, <2>3 DEF Send
    <3>2. Channel'
      BY <3>1 DEF Channel
    <3>3. Calls'
      BY <1>3, <3>1 DEF Calls
    <3>4. QED
      BY <3>2, <3>3
  <2>4. QED
    BY <2>1, <2>2, <2>3
<1>4. CASE EmitTry(p)
  <2>1. [emitting[p] EXCEPT !.step = "drain"] \in Call
    BY <1>2 DEF Call
  <2>2. QED
    BY <1>1, <1>2, <1>3, <1>4, <2>1 DEF EmitTry
<1>5. CASE EmitDrain(p)
  <2>1. Channel'
    <3>1. CASE events = <<>>
      BY <1>5, <3>1 DEF EmitDrain, Channel
    <3>2. CASE events # <<>>
      <4>1. /\ events' = Tail(events) /\ UNCHANGED <<closed, panicked, daemon>>
            /\ passed' = passed \cup ({Head(events)} \cap Verdict)
        BY <1>5, <3>2 DEF EmitDrain
      <4>2. Tail(events) \in Seq(Kind) /\ Len(Tail(events)) <= EventBuf
        BY <3>2, EventBufAssumption DEF Channel
      <4>3. QED
        BY <4>1, <4>2 DEF Channel
    <3>3. QED
      BY <3>1, <3>2
  <2>2. Calls'
    BY <1>2, <1>5 DEF EmitDrain, Calls, Call
  <2>3. QED
    BY <1>1, <2>1, <2>2
<1>6. CASE EmitRetry(p)
  BY <1>1, <1>2, <1>3, <1>6 DEF EmitRetry
<1>7. QED
  BY <1>4, <1>5, <1>6 DEF Emit

\* The groups, the config goroutine, the stats loop, and main.
LEMMA CallersTypes ==
  ASSUME Places, Channel, Calls,
         \/ StreamUp \/ StreamDown \/ GroupsReturn \/ AskCaptcha \/ HandOverConfig
         \/ ConfigStep
         \/ CloseShutdownCh \/ StatsTick \/ StatsReport \/ StatsLeave
         \/ MainStep
  PROVE  Places' /\ Channel' /\ Calls'
<1> DEFINE Quiet == UNCHANGED emitting \/ \E p \in Emitter, kind \in Kind : Emits(p, kind)
<1>1. Quiet => Calls'
  <2>1. UNCHANGED emitting => Calls'
    BY DEF Calls
  <2>2. QED
    BY <2>1, EmitsCalls
<1> USE DEF Places, Channel, coreVars, goVars, dispVars, eventVars, MainAt, Emitter, Kind
<1>2. CASE StreamUp \/ StreamDown \/ GroupsReturn \/ HandOverConfig \/ CloseShutdownCh
           \/ StatsLeave
  <2>1. Quiet
    BY <1>2 DEF StreamUp, StreamDown, GroupsReturn, HandOverConfig, CloseShutdownCh, StatsLeave
  <2>2. Places' /\ Channel'
    BY <1>2 DEF StreamUp, StreamDown, GroupsReturn, HandOverConfig, CloseShutdownCh, StatsLeave
  <2>3. QED
    BY <1>1, <2>1, <2>2
<1>3. CASE AskCaptcha \/ StatsTick \/ StatsReport
  <2>1. Quiet
    BY <1>3 DEF AskCaptcha, StatsTick, StatsReport
  <2>2. Places' /\ Channel'
    BY <1>3, BoundsAssumption DEF AskCaptcha, StatsTick, StatsReport
  <2>3. QED
    BY <1>1, <2>1, <2>2
<1>4. CASE ConfigStep
  <2>1. Quiet
    BY <1>4 DEF ConfigStep, ReceiveConfig, NoConfig, AttachFails, AttachTUN, SignalReady
  <2>2. Places' /\ Channel'
    BY <1>4 DEF ConfigStep, ReceiveConfig, NoConfig, AttachFails, AttachTUN, SignalReady
  <2>3. QED
    BY <1>1, <2>1, <2>2
<1>5. CASE MainStep
  <2>1. Quiet
    BY <1>5 DEF MainStep, AllReturned, ReportDead, ReportState, NothingToReport,
       CloseLocalConn, Cancel, Shutdown, CloseEvents
  <2>2. Places' /\ Channel'
    BY <1>5 DEF MainStep, AllReturned, ReportDead, ReportState, NothingToReport,
       CloseLocalConn, Cancel, Shutdown, CloseEvents
  <2>3. QED
    BY <1>1, <2>1, <2>2
<1>6. QED
  BY <1>2, <1>3, <1>4, <1>5

\* The dispatcher's loops and the daemon.
LEMMA LoopsTypes ==
  ASSUME Places, Channel, Calls,
         ReaderStep \/ ReaderPacket \/ WriterStep \/ DaemonStep \/ Signal
  PROVE  Places' /\ Channel' /\ Calls'
<1> USE DEF Places, Channel, Calls, coreVars, goVars, dispVars, eventVars, DaemonAt
<1>1. CASE ReaderStep \/ ReaderPacket
  BY <1>1 DEF ReaderStep, ReaderBegins, LoopBegins, ReaderTop, ReaderPacket, ReaderError
<1>2. CASE WriterStep
  BY <1>2 DEF WriterStep, WriterBegins, LoopBegins, WriterLeaves
<1>3. CASE HandleEvent
  <2>1. /\ events' = Tail(events) /\ events # <<>>
        /\ passed' = passed \cup ({Head(events)} \cap Verdict)
    BY <1>3 DEF HandleEvent
  <2>2. events' \in Seq(Kind) /\ Len(events') <= EventBuf
    BY <2>1, EventBufAssumption
  <2>3. QED
    BY <1>3, <2>1, <2>2 DEF HandleEvent
<1>4. CASE EventsEnd \/ Signal \/ StopCore \/ Teardown
  BY <1>4 DEF EventsEnd, Signal, StopCore, Teardown
<1>5. QED
  BY <1>1, <1>2, <1>3, <1>4 DEF DaemonStep

\* Every step keeps the types.
LEMMA TypeStep == Places /\ Channel /\ Calls /\ [Next]_vars => Places' /\ Channel' /\ Calls'
<1> SUFFICES ASSUME Places, Channel, Calls, [Next]_vars PROVE Places' /\ Channel' /\ Calls'
  OBVIOUS
<1>1. CASE UNCHANGED vars
  BY <1>1 DEF vars, Places, Channel, Calls
<1>2. CASE Next
  BY <1>2, EmitTypes, CallersTypes, LoopsTypes, Zenon DEF Next
<1>3. QED
  BY <1>1, <1>2

\* Every goroutine is in a place of its own loop, and no emit, whichever of its
\* three selects the others interleave with, puts more into the channel of
\* events than it holds.
THEOREM TypeCorrect == Spec => []TypeOK
<1>1. Places /\ Channel /\ Calls => TypeOK
  BY TypeParts
<1>2. QED
  BY <1>1, TypeInit, TypeStep, PTL DEF Spec

-----------------------------------------------------------------------------
(* The report of a dead core.                                               *)

\* The event is on its way: q is sending it, the channel holds it, or the
\* daemon has seen it or a full channel lost it.
Queued(kind)       == \E i \in 1 .. Len(events) : events[i] = kind
Accounted(q, kind) == emitting[q].kind = kind \/ Queued(kind) \/ kind \in passed

Types    == Places /\ Channel /\ Calls
Reported == {"report", "closeConn", "cancel", "shutdown", "closeEvents", "done"}

\* While the daemon handles events only main's end cancels the context, so main
\* reports; and it closes the channel when its last call of emit has returned.
DeadInv ==
  /\ daemon = "loop" /\ ctxDone => main \in {"shutdown", "closeEvents", "done"}
  /\ daemon = "loop" /\ main \in Reported => Accounted("main", "error")
  /\ daemon = "loop" /\ main \in Reported \ {"report"} => Accounted("main", "dead")
  /\ main = "done" => emitting["main"] = Idle
  /\ closed => main = "done"

\* The first event leaves the channel for the daemon or is lost.
LEMMA HeadTaken ==
  ASSUME Channel, events # <<>>, events' = Tail(events), NEW kind \in Verdict,
         passed' = passed \cup ({Head(events)} \cap Verdict),
         Queued(kind) \/ kind \in passed
  PROVE  (Queued(kind) \/ kind \in passed)'
<1>1. /\ events \in Seq(Kind) /\ Len(events) \in Nat \ {0} /\ Len(events') = Len(events) - 1
      /\ Head(events) = events[1]
      /\ \A i \in 1 .. Len(events) - 1 : events'[i] = events[i + 1]
  BY DEF Channel
<1>2. CASE kind \in passed
  BY <1>2
<1>3. CASE Queued(kind)
  <2>1. PICK i \in 1 .. Len(events) : events[i] = kind
    BY <1>3 DEF Queued
  <2>2. CASE i = 1
    BY <1>1, <2>1, <2>2
  <2>3. CASE i # 1
    <3>1. i - 1 \in 1 .. Len(events) - 1 /\ events'[i - 1] = events[(i - 1) + 1] /\ (i - 1) + 1 = i
      BY <1>1, <2>1, <2>3
    <3>2. QED
      BY <1>1, <2>1, <3>1 DEF Queued
  <2>4. QED
    BY <2>2, <2>3
<1>4. QED
  BY <1>2, <1>3

\* emit never forgets a verdict it was called with.
LEMMA EmitAccounts ==
  ASSUME Types, NEW p \in Emitter, Emit(p), NEW q \in Emitter, NEW kind \in Verdict, Accounted(q, kind)
  PROVE  Accounted(q, kind)'
<1>1. /\ emitting[p] \in Call /\ kind # "log" /\ Idle.kind = "log"
      /\ DOMAIN emitting = Emitter
  BY DEF Types, Calls, Emitter, Verdict, Idle
<1>2. ASSUME NEW otherwise \in Call, Send(p, otherwise),
             otherwise = Idle \/ otherwise.kind = emitting[p].kind
      PROVE  Accounted(q, kind)'
  <2>1. CASE closed
    BY <1>2, <2>1 DEF Send, Accounted, Queued
  <2>2. CASE ~closed /\ Len(events) < EventBuf
    <3>1. /\ events' = Append(events, emitting[p].kind) /\ passed' = passed
          /\ emitting' = [emitting EXCEPT ![p] = Idle]
      BY <1>2, <2>2 DEF Send
    <3>2. /\ events \in Seq(Kind) /\ emitting[p].kind \in Kind /\ Len(events) \in Nat
      BY <1>1 DEF Types, Channel, Call
    <3>3. /\ Len(events') = Len(events) + 1 /\ events'[Len(events) + 1] = emitting[p].kind
          /\ \A i \in 1 .. Len(events) : events'[i] = events[i]
      BY <3>1, <3>2
    <3>4. Queued(kind) \/ emitting[p].kind = kind => Queued(kind)'
      BY <3>2, <3>3 DEF Queued
    <3>5. p # q => emitting'[q] = emitting[q]
      BY <1>1, <3>1
    <3>6. QED
      BY <3>1, <3>4, <3>5 DEF Accounted
  <2>3. CASE ~closed /\ ~(Len(events) < EventBuf)
    <3>1. /\ events' = events /\ emitting' = [emitting EXCEPT ![p] = otherwise]
          /\ passed' = IF otherwise = Idle THEN passed \cup ({emitting[p].kind} \cap Verdict)
                       ELSE passed
      BY <1>2, <2>3 DEF Send
    <3>2. emitting'[q] = IF p = q THEN otherwise ELSE emitting[q]
      BY <1>1, <3>1
    <3>3. Queued(kind) => Queued(kind)'
      BY <3>1 DEF Queued
    <3>4. kind \in passed => kind \in passed'
      BY <3>1
    <3>5. p = q /\ emitting[q].kind = kind => Accounted(q, kind)'
      BY <1>2, <3>1, <3>2 DEF Accounted
    <3>6. QED
      BY <3>2, <3>3, <3>4, <3>5 DEF Accounted
  <2>4. QED
    BY <2>1, <2>2, <2>3
<1>3. CASE EmitTry(p)
  <2> DEFINE draining == [emitting[p] EXCEPT !.step = "drain"]
             otherwise == IF emitting[p].kind = "log" THEN Idle ELSE draining
  <2>1. draining \in Call /\ draining.kind = emitting[p].kind /\ Idle \in Call
    BY <1>1 DEF Call, Idle, Kind
  <2>2. otherwise \in Call /\ (otherwise = Idle \/ otherwise.kind = emitting[p].kind)
    BY <2>1
  <2>3. Send(p, otherwise)
    BY <1>3 DEF EmitTry
  <2>4. QED
    BY <1>2, <2>2, <2>3
<1>4. CASE EmitDrain(p)
  <2>1. emitting'[q].kind = emitting[q].kind
    BY <1>1, <1>4 DEF EmitDrain, Types, Calls, Call
  <2>2. CASE events = <<>>
    BY <1>4, <2>1, <2>2 DEF EmitDrain, Accounted, Queued
  <2>3. CASE events # <<>>
    <3>1. events' = Tail(events) /\ passed' = passed \cup ({Head(events)} \cap Verdict)
      BY <1>4, <2>3 DEF EmitDrain
    <3>2. QED
      BY <2>1, <2>3, <3>1, HeadTaken DEF Accounted, Types
  <2>4. QED
    BY <2>2, <2>3
<1>5. CASE EmitRetry(p)
  <2>1. Idle \in Call
    BY DEF Call, Idle, Kind
  <2>2. QED
    BY <1>2, <1>5, <2>1 DEF EmitRetry
<1>6. QED
  BY <1>3, <1>4, <1>5 DEF Emit

\* A step that leaves main, its emit and the channel of events alone.
LEMMA BesideDead ==
  ASSUME DeadInv, UNCHANGED <<main, ctxDone, daemon, closed, events, passed>>,
         emitting'["main"] = emitting["main"]
  PROVE  DeadInv'
  BY DEF DeadInv, Accounted, Queued, Reported

\* The calls of emit by the others, and their other steps.
LEMMA CallersBeside ==
  ASSUME Types, DeadInv,
         \/ StreamUp \/ StreamDown \/ GroupsReturn \/ AskCaptcha \/ HandOverConfig
         \/ ConfigStep
         \/ CloseShutdownCh \/ StatsTick \/ StatsReport \/ StatsLeave
         \/ ReaderStep \/ ReaderPacket \/ WriterStep
  PROVE  DeadInv'
<1> USE DEF coreVars, goVars, dispVars, eventVars
<1>1. UNCHANGED <<main, ctxDone, daemon, closed, events, passed>>
  BY DEF StreamUp, StreamDown, GroupsReturn, AskCaptcha, HandOverConfig, ConfigStep,
     ReceiveConfig, NoConfig, AttachFails, AttachTUN, SignalReady, CloseShutdownCh,
     StatsTick, StatsReport, StatsLeave, ReaderStep, ReaderBegins, ReaderTop, ReaderError,
     ReaderPacket, WriterStep, WriterBegins, WriterLeaves
<1>2. \/ UNCHANGED emitting
      \/ \E p \in {"groups", "config", "stats"}, kind \in Kind : Emits(p, kind)
  BY DEF StreamUp, StreamDown, GroupsReturn, AskCaptcha, HandOverConfig, ConfigStep,
     ReceiveConfig, NoConfig, AttachFails, AttachTUN, SignalReady, CloseShutdownCh,
     StatsTick, StatsReport, StatsLeave, ReaderStep, ReaderBegins, ReaderTop, ReaderError,
     ReaderPacket, WriterStep, WriterBegins, WriterLeaves, Kind
<1>3. emitting'["main"] = emitting["main"]
  BY <1>2 DEF Emits, Types, Calls, Emitter
<1>4. QED
  BY <1>1, <1>3, BesideDead

\* main's steps: a report follows the end of the one before it.
LEMMA MainReports ==
  ASSUME Types, DeadInv, MainStep
  PROVE  DeadInv'
<1> USE DEF coreVars, goVars, dispVars, eventVars, MainAt, Free, Reported
<1>1. emitting["main"] = Idle /\ Idle.kind = "log" /\ DOMAIN emitting = Emitter
      /\ "main" \in Emitter
  BY DEF MainStep, AllReturned, ReportDead, ReportState, NothingToReport, CloseLocalConn,
     Cancel, Shutdown, CloseEvents, Types, Calls, Emitter, Idle
<1>2. UNCHANGED <<events, passed, daemon>>
  BY DEF MainStep, AllReturned, ReportDead, ReportState, NothingToReport, CloseLocalConn,
     Cancel, Shutdown, CloseEvents
<1>3. \A kind \in Verdict : Queued(kind)' <=> Queued(kind)
  BY <1>2 DEF Queued
<1>4. \A kind \in Verdict : Accounted("main", kind) => Accounted("main", kind)'
  BY <1>1, <1>2, <1>3 DEF Accounted, Verdict
<1>5. "error" \in Verdict /\ "dead" \in Verdict
  BY DEF Verdict
<1>6. CASE AllReturned
  BY <1>2, <1>6 DEF AllReturned, DeadInv
<1>7. CASE ReportDead
  <2>1. Accounted("main", "error")'
    BY <1>1, <1>7 DEF ReportDead, Emits, Accounted
  <2>2. QED
    BY <1>2, <1>7, <2>1 DEF ReportDead, DeadInv
<1>8. CASE ReportState
  <2>1. Accounted("main", "dead")'
    BY <1>1, <1>8 DEF ReportState, Emits, Accounted
  <2>2. QED
    BY <1>2, <1>4, <1>5, <1>8, <2>1 DEF ReportState, DeadInv
<1>9. CASE NothingToReport
  BY <1>2, <1>9 DEF NothingToReport, DeadInv
<1>10. CASE CloseLocalConn \/ Cancel \/ Shutdown
  BY <1>2, <1>4, <1>5, <1>10 DEF CloseLocalConn, Cancel, Shutdown, DeadInv
<1>11. CASE CloseEvents
  BY <1>1, <1>2, <1>4, <1>5, <1>11 DEF CloseEvents, DeadInv
<1>12. QED
  BY <1>6, <1>7, <1>8, <1>9, <1>10, <1>11 DEF MainStep

\* Every step keeps the invariant of the report.
LEMMA DeadStep == Types /\ DeadInv /\ [Next]_vars => DeadInv'
<1> SUFFICES ASSUME Types, DeadInv, [Next]_vars PROVE DeadInv'
  OBVIOUS
<1>1. CASE UNCHANGED vars
  BY <1>1, BesideDead DEF vars
<1>2. ASSUME NEW p \in Emitter, Emit(p) PROVE DeadInv'
  <2>1. UNCHANGED <<main, ctxDone, daemon, closed>>
    BY <1>2 DEF Emit, EmitTry, EmitDrain, EmitRetry, coreVars, goVars
  <2>2. "error" \in Verdict /\ "dead" \in Verdict
    BY DEF Verdict
  <2>3. emitting["main"] = Idle => emitting'["main"] = Idle
    <3>1. emitting["main"] = Idle => p # "main"
      BY <1>2 DEF Emit, EmitTry, EmitDrain, EmitRetry, Idle
    <3>2. p # "main" => emitting'["main"] = emitting["main"]
      BY <1>2 DEF Emit, EmitTry, EmitDrain, EmitRetry, Send, Types, Calls, Emitter
    <3>3. QED
      BY <3>1, <3>2
  <2>4. "main" \in Emitter
    BY DEF Emitter
  <2>5. QED
    BY <1>2, <2>1, <2>2, <2>3, <2>4, EmitAccounts DEF DeadInv
<1>3. CASE DaemonStep \/ Signal
  <2>1. UNCHANGED <<main, emitting, closed>>
    BY <1>3 DEF DaemonStep, HandleEvent, EventsEnd, StopCore, Teardown, Signal, goVars
  <2>2. CASE HandleEvent
    <3>1. UNCHANGED <<ctxDone, daemon>>
      BY <2>2 DEF HandleEvent, DaemonAt, coreVars
    <3>2. \A kind \in Verdict : Accounted("main", kind) => Accounted("main", kind)'
      BY <2>1, <2>2, HeadTaken DEF HandleEvent, Accounted, Types
    <3>3. "error" \in Verdict /\ "dead" \in Verdict
      BY DEF Verdict
    <3>4. QED
      BY <2>1, <3>1, <3>2, <3>3 DEF DeadInv
  <2>3. CASE EventsEnd \/ StopCore \/ Teardown \/ Signal
    BY <2>1, <2>3 DEF EventsEnd, StopCore, Teardown, Signal, DaemonAt, DeadInv
  <2>4. QED
    BY <1>3, <2>2, <2>3 DEF DaemonStep
<1>4. CASE MainStep
  BY <1>4, MainReports
<1>5. QED
  BY <1>1, <1>2, <1>3, <1>4, CallersBeside DEF Next

\* A daemon that reaches the end of the channel by itself has been told that
\* the core is dead, unless the full channel lost it.
THEOREM DeadIsReported == Spec => DeadReported
<1>1. Init => Types /\ DeadInv
  BY TypeInit DEF Types, Init, DeadInv, Reported, Idle, Emitter
<1>2. Types /\ DeadInv /\ [Next]_vars => (Types /\ DeadInv)'
  BY TypeStep, DeadStep DEF Types
<1>3. Types /\ DeadInv /\ [Next]_vars => [EventsEnd => {"error", "dead"} \subseteq passed]_vars
  <2> SUFFICES ASSUME Types, DeadInv, EventsEnd PROVE {"error", "dead"} \subseteq passed
    OBVIOUS
  <2>1. closed /\ events = <<>> /\ daemon = "loop"
    BY DEF EventsEnd, DaemonAt
  <2>2. emitting["main"].kind = "log" /\ main = "done"
    BY <2>1 DEF DeadInv, Idle
  <2>3. Accounted("main", "error") /\ Accounted("main", "dead")
    BY <2>1, <2>2 DEF DeadInv, Reported
  <2>4. QED
    BY <2>1, <2>2, <2>3 DEF Accounted, Queued
<1>4. QED
  BY <1>1, <1>2, <1>3, PTL DEF Spec, DeadReported

-----------------------------------------------------------------------------
(* The way of the configuration: the safety behind ConfigApplied, which     *)
(* itself is liveness.                                                      *)

\* The goroutine that waits for the configuration is about to take it, or opens
\* the TUN for it.
Underway ==
  \/ config = "waiting" /\ configCh \in {"full", "closedFull"}
  \/ config \in {"attaching", "attached"}

\* The daemon is being told of it, or of the TUN that could not be opened.
Answered == Accounted("config", "config") \/ Accounted("config", "error")

\* Nobody stops waiting before the configuration came but for a cancelled context,
\* and main closes its channel once.
WaitingInv ==
  /\ configCh = "empty" => config = "waiting" \/ ctxDone
  /\ configCh \in {"closedFull", "closed"} => main # "waiting"

\* From a worker to the daemon's hands, or to a full channel that loses it in the
\* open, the configuration is always somewhere, unless the client is stopping.
ConfigKept ==
  /\ HandOverConfig => Underway' \/ ctxDone
  /\ Underway => Underway' \/ Answered' \/ ctxDone
  /\ Answered => Answered'

\* A step that leaves the channel of events alone, and config's call of emit
\* unless there is none.
LEMMA AnsweredBeside ==
  ASSUME UNCHANGED <<events, passed>>, Answered,
         emitting'["config"] = emitting["config"] \/ emitting["config"] = Idle
  PROVE  Answered'
<1>1. Idle.kind \notin {"config", "error"}
  BY DEF Idle
<1>2. \A kind : Queued(kind)' <=> Queued(kind)
  BY DEF Queued
<1>3. QED
  BY <1>1, <1>2 DEF Answered, Accounted

\* Whatever runs beside it, the answer stays on its way.
LEMMA AnsweredStep == Types /\ Answered /\ [Next]_vars => Answered'
<1> SUFFICES ASSUME Types, Answered, [Next]_vars PROVE Answered'
  OBVIOUS
<1>0. "config" \in Emitter /\ {"config", "error"} \subseteq Verdict
  BY DEF Emitter, Verdict
<1>1. CASE UNCHANGED vars
  BY <1>1, AnsweredBeside DEF vars
<1>2. ASSUME NEW p \in Emitter, Emit(p) PROVE Answered'
  BY <1>0, <1>2, EmitAccounts DEF Answered
<1>3. CASE \/ StreamUp \/ StreamDown \/ GroupsReturn \/ AskCaptcha \/ HandOverConfig
           \/ ConfigStep
           \/ CloseShutdownCh \/ StatsTick \/ StatsReport \/ StatsLeave
           \/ ReaderStep \/ ReaderPacket \/ WriterStep
  <2>1. UNCHANGED <<events, passed>>
    BY <1>3
    DEF StreamUp, StreamDown, GroupsReturn, AskCaptcha, HandOverConfig, ConfigStep,
        ReceiveConfig, NoConfig, AttachFails, AttachTUN, SignalReady, CloseShutdownCh,
        StatsTick, StatsReport, StatsLeave, ReaderStep, ReaderBegins, ReaderTop, ReaderError,
        ReaderPacket, WriterStep, WriterBegins, WriterLeaves, eventVars
  <2>2. \/ UNCHANGED emitting
        \/ \E p \in {"groups", "stats"}, kind \in Kind : Emits(p, kind)
        \/ emitting["config"] = Idle
    BY <1>3
    DEF StreamUp, StreamDown, GroupsReturn, AskCaptcha, HandOverConfig, ConfigStep,
        ReceiveConfig, NoConfig, AttachFails, AttachTUN, SignalReady, CloseShutdownCh,
        StatsTick, StatsReport, StatsLeave, ReaderStep, ReaderBegins, ReaderTop, ReaderError,
        ReaderPacket, WriterStep, WriterBegins, WriterLeaves, Kind, Free
  <2>3. emitting'["config"] = emitting["config"] \/ emitting["config"] = Idle
    BY <2>2 DEF Emits, Types, Calls, Emitter
  <2>4. QED
    BY <2>1, <2>3, AnsweredBeside
<1>4. CASE MainStep
  <2>1. UNCHANGED <<events, passed>>
    BY <1>4
    DEF MainStep, AllReturned, ReportDead, ReportState, NothingToReport, CloseLocalConn,
        Cancel, Shutdown, CloseEvents, eventVars
  <2>2. UNCHANGED emitting \/ \E kind \in Kind : Emits("main", kind)
    BY <1>4
    DEF MainStep, AllReturned, ReportDead, ReportState, NothingToReport, CloseLocalConn,
        Cancel, Shutdown, CloseEvents, Kind
  <2>3. emitting'["config"] = emitting["config"]
    BY <2>2 DEF Emits, Types, Calls, Emitter
  <2>4. QED
    BY <2>1, <2>3, AnsweredBeside
<1>5. CASE HandleEvent
  <2>1. UNCHANGED emitting
    BY <1>5 DEF HandleEvent
  <2>2. \A kind \in Verdict : Accounted("config", kind) => Accounted("config", kind)'
    BY <1>5, <2>1, HeadTaken DEF HandleEvent, Accounted, Types
  <2>3. QED
    BY <1>0, <2>2 DEF Answered
<1>6. CASE EventsEnd \/ Signal \/ StopCore \/ Teardown
  BY <1>6, AnsweredBeside DEF EventsEnd, Signal, StopCore, Teardown
<1>7. QED
  BY <1>1, <1>2, <1>3, <1>4, <1>5, <1>6 DEF Next, DaemonStep

\* Who changes configCh and config: the worker, main at the end of the groups, and
\* the goroutine itself.
LEMMA ConfigMovers ==
  ASSUME [Next]_vars
  PROVE  \/ UNCHANGED <<config, configCh>>
         \/ HandOverConfig
         \/ ConfigStep
         \/ AllReturned
BY DEF Next, Emit, EmitTry, EmitDrain, EmitRetry, StreamUp, StreamDown, GroupsReturn, AskCaptcha,
   CloseShutdownCh, StatsTick, StatsReport, StatsLeave, ReaderStep, ReaderBegins, ReaderTop,
   ReaderError, ReaderPacket, WriterStep, WriterBegins, WriterLeaves, MainStep, ReportDead,
   ReportState, NothingToReport, CloseLocalConn, Cancel, Shutdown, CloseEvents, DaemonStep,
   HandleEvent, EventsEnd, Signal, StopCore, Teardown, vars, goVars

\* A cancelled context stays cancelled, and main does not wait twice.
LEMMA DoneForGood == [Next]_vars => (ctxDone => ctxDone') /\ (main # "waiting" => main' # "waiting")
<1> SUFFICES ASSUME [Next]_vars
             PROVE  (ctxDone => ctxDone') /\ (main # "waiting" => main' # "waiting")
  OBVIOUS
<1>1. CASE MainStep
  <2>1. main' # "waiting"
    BY <1>1
    DEF MainStep, AllReturned, ReportDead, ReportState, NothingToReport, CloseLocalConn,
        Cancel, Shutdown, CloseEvents, MainAt
  <2>2. UNCHANGED ctxDone \/ ctxDone'
    BY <1>1
    DEF MainStep, AllReturned, ReportDead, ReportState, NothingToReport, CloseLocalConn,
        Cancel, Shutdown, CloseEvents, coreVars
  <2>3. QED
    BY <2>1, <2>2
<1>2. CASE DaemonStep \/ Signal
  BY <1>2
  DEF DaemonStep, HandleEvent, EventsEnd, Signal, StopCore, Teardown, coreVars, goVars
<1>3. ASSUME NEW p \in Emitter, Emit(p) PROVE UNCHANGED <<ctxDone, main>>
  BY <1>3 DEF Emit, EmitTry, EmitDrain, EmitRetry, coreVars, goVars
<1>4. CASE ConfigStep
  BY <1>4
  DEF ConfigStep, ReceiveConfig, NoConfig, AttachFails, AttachTUN, SignalReady, coreVars
<1>5. CASE StreamUp \/ StreamDown \/ GroupsReturn \/ AskCaptcha \/ HandOverConfig
  BY <1>5 DEF StreamUp, StreamDown, GroupsReturn, AskCaptcha, HandOverConfig, coreVars, goVars
<1>6. CASE CloseShutdownCh \/ StatsTick \/ StatsReport \/ StatsLeave
  BY <1>6 DEF CloseShutdownCh, StatsTick, StatsReport, StatsLeave, coreVars, goVars
<1>7. CASE ReaderStep \/ ReaderPacket \/ WriterStep
  BY <1>7
  DEF ReaderStep, ReaderBegins, ReaderTop, ReaderError, ReaderPacket, WriterStep,
      WriterBegins, WriterLeaves, coreVars, goVars
<1>8. CASE UNCHANGED vars
  BY <1>8 DEF vars
<1>9. QED
  BY <1>1, <1>2, <1>3, <1>4, <1>5, <1>6, <1>7, <1>8 DEF Next

LEMMA WaitingStep == WaitingInv /\ [Next]_vars => WaitingInv'
<1> SUFFICES ASSUME WaitingInv, [Next]_vars PROVE WaitingInv'
  OBVIOUS
<1> USE DoneForGood DEF WaitingInv
<1>1. CASE UNCHANGED <<config, configCh>>
  BY <1>1
<1>2. CASE HandOverConfig \/ AllReturned
  BY <1>2 DEF HandOverConfig, AllReturned, MainAt
<1>3. CASE ConfigStep
  BY <1>3 DEF ConfigStep, ReceiveConfig, NoConfig, AttachFails, AttachTUN, SignalReady
<1>4. QED
  BY <1>1, <1>2, <1>3, ConfigMovers

\* config has emitted what it was to say.
LEMMA Tells ==
  ASSUME Types, NEW kind \in {"config", "error"}, Emits("config", kind)
  PROVE  Answered'
<1>1. emitting'["config"].kind = kind
  BY DEF Emits, Types, Calls, Emitter
<1>2. QED
  BY <1>1 DEF Answered, Accounted

LEMMA UnderwayStep ==
  ASSUME Types, WaitingInv, [Next]_vars
  PROVE  /\ HandOverConfig => Underway' \/ ctxDone
         /\ Underway => Underway' \/ Answered' \/ ctxDone
<1> USE DEF Underway
<1>1. HandOverConfig => Underway' \/ ctxDone
  BY DEF HandOverConfig, WaitingInv
<1>2. ASSUME Underway PROVE Underway' \/ Answered' \/ ctxDone
  <2>1. CASE UNCHANGED <<config, configCh>>
    BY <1>2, <2>1
  <2>2. CASE HandOverConfig \/ AllReturned
    BY <1>2, <2>2 DEF HandOverConfig, AllReturned, MainAt, WaitingInv
  <2>3. CASE ReceiveConfig
    BY <2>3, Tells DEF ReceiveConfig
  <2>4. CASE NoConfig
    BY <1>2, <2>4 DEF NoConfig
  <2>5. CASE AttachFails \/ AttachTUN \/ SignalReady
    BY <2>5, Tells DEF AttachFails, AttachTUN, SignalReady
  <2>6. QED
    BY <2>1, <2>2, <2>3, <2>4, <2>5, ConfigMovers DEF ConfigStep
<1>3. QED
  BY <1>1, <1>2

\* The tunnel's configuration, or the failure to open its TUN, is never dropped
\* between configCh, the goroutine of Start, its call of emit, the channel of
\* events and the daemon, except by a context that is cancelled.
THEOREM ConfigOnItsWay == Spec => [][ConfigKept]_vars
<1>1. Init => Types /\ WaitingInv
  BY TypeInit DEF Types, Init, WaitingInv
<1>2. Types /\ WaitingInv /\ [Next]_vars => (Types /\ WaitingInv)' /\ [ConfigKept]_vars
  BY TypeStep, WaitingStep, UnderwayStep, AnsweredStep DEF Types, ConfigKept
<1>3. QED
  BY <1>1, <1>2, PTL DEF Spec
=============================================================================
