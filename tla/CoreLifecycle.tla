--------------------------- MODULE CoreLifecycle ---------------------------
(***************************************************************************)
(* The life of one Core (wdtt-client/src/core/core.go, Start to the close   *)
(* of the events channel) and of the daemon that consumes its events        *)
(* (wdtt-client/src/internal/daemon/daemon.go).                             *)
(*                                                                         *)
(* The goroutines: main waits for the worker groups and shuts down; config  *)
(* waits for the tunnel configuration; stats reports every 3 s; the         *)
(* dispatcher's readLoop and writeLoop (dispatcher.go); the worker groups   *)
(* (WorkerGroup.tla), which appear here as one process that comes up, goes  *)
(* down, asks for captchas, hands over one configuration and ends.         *)
(*                                                                         *)
(* Abstracted: the contents of events (an event is its kind) and what the   *)
(* daemon does with them, except that it has seen them.                     *)
(***************************************************************************)
EXTENDS Naturals, Sequences

CONSTANTS RawModes,     \* the values of cfg.RawMode looked at
          EventBuf,     \* capacity of c.events (256)
          MaxReports    \* bound: reports of the stats loop and captchas asked for

ASSUME RawModeAssumption  == RawModes \subseteq BOOLEAN
ASSUME EventBufAssumption == EventBuf \in Nat \ {0}
ASSUME BoundsAssumption   == MaxReports \in Nat

VARIABLES
  rawMode,    \* cfg.RawMode: the packets come from a TUN, not from UDP
  ctxDone,    \* the context of Core.Start was cancelled
  shutdownCh, \* closed (TRUE) when the stats loop must end
  groups,     \* the worker groups: no stream, some stream, all returned
  reports,    \* reports of the stats loop and captchas asked for so far
  configCh,   \* the configuration's channel
  config,     \* the goroutine that waits for the configuration
  stats,      \* Stats.RunLoop
  main,       \* the goroutine that waits for the groups
  localConn,  \* the UDP socket WireGuard sends to
  ready,      \* Dispatcher.ready is closed
  tunFile,    \* Dispatcher.tunFile
  reader,     \* readLoop
  writer,     \* writeLoop
  emitting,   \* what each goroutine's call of emit is doing
  events,     \* the kinds of the buffered events
  closed,     \* c.events is closed
  panicked,   \* a send on the closed channel killed the process
  daemon,     \* the daemon's main goroutine
  passed      \* history: kinds (of Verdict) of the events the daemon has handled
              \* and of those that a full buffer has lost

vars == <<rawMode, ctxDone, shutdownCh, groups, reports, configCh, config, stats,
          main, localConn, ready, tunFile, reader, writer, emitting,
          events, closed, panicked, daemon, passed>>

coreVars  == <<rawMode, ctxDone, shutdownCh, groups, reports>>
goVars    == <<configCh, config, stats, main>>
dispVars  == <<localConn, ready, tunFile, reader, writer>>
eventVars == <<events, closed, panicked, daemon, passed>>

Emitter == {"groups", "config", "stats", "main"}
Kind    == {"state", "log", "stats", "captcha", "config", "error", "dead"}
Verdict == {"config", "error", "dead"}   \* the kinds the history keeps
Idle    == [step |-> "idle", kind |-> "log"]

Init ==
  /\ rawMode \in RawModes
  /\ ctxDone = FALSE
  /\ shutdownCh = FALSE
  /\ groups = "down"
  /\ reports = 0
  /\ configCh = "empty"
  /\ config = "waiting"
  /\ stats = "select"
  /\ main = "waiting"
  /\ localConn = IF rawMode THEN "none" ELSE "open"
  /\ ready = ~rawMode
  /\ tunFile = "none"
  /\ reader = "waiting"
  /\ writer = "waiting"
  /\ emitting = [p \in Emitter |-> Idle]
  /\ events = <<"state">>
  /\ closed = FALSE
  /\ panicked = FALSE
  /\ daemon = "loop"
  /\ passed = {}

\* The process still runs.
Alive == ~panicked /\ daemon # "exited"

\* The goroutine p is not inside a call of emit.
Free(p) == Alive /\ emitting[p] = Idle

\* p calls emit with an event of this kind.
Emits(p, kind) ==
  emitting' = [emitting EXCEPT ![p] = [step |-> "try", kind |-> kind]]

-----------------------------------------------------------------------------
(* Core.emit: three selects with a default, one after the other.            *)

\* Broken variant of Send: one event more than the channel holds.
SendOverfull(p, otherwise) ==
  IF closed
  THEN panicked' = TRUE /\ UNCHANGED <<events, emitting, passed>>
  ELSE /\ UNCHANGED panicked
       /\ IF Len(events) <= EventBuf
          THEN /\ events' = Append(events, emitting[p].kind)
               /\ emitting' = [emitting EXCEPT ![p] = Idle]
               /\ UNCHANGED passed
          ELSE /\ UNCHANGED events
               /\ emitting' = [emitting EXCEPT ![p] = otherwise]
               /\ passed' = IF otherwise = Idle THEN passed \cup ({emitting[p].kind} \cap Verdict) ELSE passed

\* A send: a panic when the channel is closed.
Send(p, otherwise) ==
  IF closed
  THEN panicked' = TRUE /\ UNCHANGED <<events, emitting, passed>>
  ELSE /\ UNCHANGED panicked
       /\ IF Len(events) < EventBuf
          THEN /\ events' = Append(events, emitting[p].kind)
               /\ emitting' = [emitting EXCEPT ![p] = Idle]
               /\ UNCHANGED passed
          ELSE /\ UNCHANGED events
               /\ emitting' = [emitting EXCEPT ![p] = otherwise]
               /\ passed' = IF otherwise = Idle THEN passed \cup ({emitting[p].kind} \cap Verdict) ELSE passed

\* With the buffer full a log event is dropped, any other makes room first.
EmitTry(p) ==
  /\ Alive
  /\ emitting[p].step = "try"
  /\ Send(p, IF emitting[p].kind = "log"
             THEN Idle ELSE [emitting[p] EXCEPT !.step = "drain"])
  /\ UNCHANGED <<coreVars, goVars, dispVars, closed, daemon>>

EmitDrain(p) ==
  /\ Alive
  /\ emitting[p].step = "drain"
  /\ IF events = <<>>
     THEN UNCHANGED <<events, passed>>
     ELSE events' = Tail(events) /\ passed' = passed \cup ({Head(events)} \cap Verdict)
  /\ emitting' = [emitting EXCEPT ![p].step = "retry"]
  /\ UNCHANGED <<coreVars, goVars, dispVars, closed, panicked, daemon>>

EmitRetry(p) ==
  /\ Alive
  /\ emitting[p].step = "retry"
  /\ Send(p, Idle)
  /\ UNCHANGED <<coreVars, goVars, dispVars, closed, daemon>>

Emit(p) == EmitTry(p) \/ EmitDrain(p) \/ EmitRetry(p)

-----------------------------------------------------------------------------
(* The worker groups, as the rest of the core sees them.                    *)

StreamUp ==
  /\ Free("groups")
  /\ groups = "down"
  /\ groups' = "up"
  /\ UNCHANGED <<rawMode, ctxDone, shutdownCh, reports, goVars, dispVars, emitting, eventVars>>

StreamDown ==
  /\ Free("groups")
  /\ groups = "up"
  /\ groups' = "down"
  /\ UNCHANGED <<rawMode, ctxDone, shutdownCh, reports, goVars, dispVars,
                 emitting, eventVars>>

\* Every group returned: dead hashes, fatal errors or a cancelled context.
GroupsReturn ==
  /\ Free("groups")
  /\ groups \in {"up", "down"}
  /\ groups' = "done"
  /\ UNCHANGED <<rawMode, ctxDone, shutdownCh, reports, goVars, dispVars,
                 emitting, eventVars>>

AskCaptcha ==
  /\ Free("groups")
  /\ groups # "done"
  /\ reports < MaxReports
  /\ reports' = reports + 1
  /\ Emits("groups", "captcha")
  /\ UNCHANGED <<rawMode, ctxDone, shutdownCh, groups, goVars, dispVars, eventVars>>

\* The one worker that got the configuration puts it into configCh.
HandOverConfig ==
  /\ Free("groups")
  /\ groups = "up"
  /\ configCh = "empty"
  /\ configCh' = "full"
  /\ UNCHANGED <<coreVars, config, stats, main, dispVars, emitting, eventVars>>

-----------------------------------------------------------------------------
(* The goroutine that waits for the configuration.                          *)

\* Broken variant of ReceiveConfig: the WireGuard configuration is not emitted.
ReceiveConfigSilently ==
  /\ Free("config")
  /\ config = "waiting"
  /\ configCh \in {"full", "closedFull"}
  /\ configCh' = IF configCh = "full" THEN "taken" ELSE "closed"
  /\ config' = IF rawMode THEN "attaching" ELSE "done"
  /\ UNCHANGED <<emitting, coreVars, stats, main, dispVars, eventVars>>

\* In RAW mode the TUN is opened and attached before the event is emitted.
ReceiveConfig ==
  /\ Free("config")
  /\ config = "waiting"
  /\ configCh \in {"full", "closedFull"}
  /\ configCh' = IF configCh = "full" THEN "taken" ELSE "closed"
  /\ IF rawMode
     THEN config' = "attaching" /\ UNCHANGED emitting
     ELSE config' = "done" /\ Emits("config", "config")
  /\ UNCHANGED <<coreVars, stats, main, dispVars, eventVars>>

NoConfig ==
  /\ Free("config")
  /\ config = "waiting"
  /\ ctxDone \/ configCh = "closed"
  /\ config' = "done"
  /\ UNCHANGED <<coreVars, configCh, stats, main, dispVars, emitting, eventVars>>

\* attachRawTUN: a RAWCONF that does not parse, or a TUN that cannot be opened
\* or configured, is an error event.
AttachFails ==
  /\ Free("config")
  /\ config = "attaching"
  /\ config' = "done"
  /\ Emits("config", "error")
  /\ UNCHANGED <<coreVars, configCh, stats, main, dispVars, eventVars>>

\* Broken variant of AttachTUN: ready is closed before the file is stored.
AttachTUNReadyFirst ==
  /\ Free("config")
  /\ config = "attaching"
  /\ config' = "attached"
  /\ ready' = TRUE
  /\ UNCHANGED <<coreVars, configCh, stats, main, localConn, tunFile,
                 reader, writer, emitting, eventVars>>

\* AttachTUN: first the file...
AttachTUN ==
  /\ Free("config")
  /\ config = "attaching"
  /\ config' = "attached"
  /\ tunFile' = "open"
  /\ UNCHANGED <<coreVars, configCh, stats, main, localConn, ready,
                 reader, writer, emitting, eventVars>>

\* ...then close(d.ready), and the raw_config event.
SignalReady ==
  /\ Free("config")
  /\ config = "attached"
  /\ config' = "done"
  /\ ready' = TRUE
  /\ Emits("config", "config")
  /\ UNCHANGED <<coreVars, configCh, stats, main, localConn, tunFile,
                 reader, writer, eventVars>>

ConfigStep ==
  ReceiveConfig \/ NoConfig \/ AttachFails \/ AttachTUN \/ SignalReady

-----------------------------------------------------------------------------
(* Stats.RunLoop and the goroutine that closes shutdownCh.                  *)

CloseShutdownCh ==
  /\ Alive
  /\ ctxDone
  /\ ~shutdownCh
  /\ shutdownCh' = TRUE
  /\ UNCHANGED <<rawMode, ctxDone, groups, reports, goVars, dispVars, emitting, eventVars>>

\* The ticker fired; with shutdownCh closed as well, select may still take it.
StatsTick ==
  /\ Free("stats")
  /\ stats = "select"
  /\ reports < MaxReports
  /\ reports' = reports + 1
  /\ stats' = "stats"
  /\ Emits("stats", "log")
  /\ UNCHANGED <<rawMode, ctxDone, shutdownCh, groups, configCh, config, main, dispVars, eventVars>>

StatsReport ==
  /\ Free("stats")
  /\ stats = "stats"
  /\ stats' = "select"
  /\ Emits("stats", "stats")
  /\ UNCHANGED <<coreVars, configCh, config, main, dispVars, eventVars>>

StatsLeave ==
  /\ Free("stats")
  /\ stats = "select"
  /\ shutdownCh
  /\ stats' = "done"
  /\ UNCHANGED <<coreVars, configCh, config, main, dispVars, emitting, eventVars>>

-----------------------------------------------------------------------------
(* The dispatcher's loops.                                                  *)

\* Both wait for ready; with the context cancelled too either may be taken.
LoopBegins(pc, inside) == \/ pc = "waiting" /\ ready /\ pc' = inside
                          \/ pc = "waiting" /\ ctxDone /\ pc' = "done"

ReaderBegins ==
  /\ Alive
  /\ LoopBegins(reader, "top")
  /\ UNCHANGED <<coreVars, goVars, localConn, ready, tunFile, writer, emitting, eventVars>>

ReaderTop ==
  /\ Alive
  /\ reader = "top"
  /\ reader' = IF ctxDone THEN "done" ELSE "reading"
  /\ UNCHANGED <<coreVars, goVars, localConn, ready, tunFile, writer, emitting, eventVars>>

\* A packet arrived and is dispatched (Dispatcher.tla).
ReaderPacket ==
  /\ Alive
  /\ reader = "reading"
  /\ reader' = "top"
  /\ UNCHANGED <<coreVars, goVars, localConn, ready, tunFile, writer, emitting, eventVars>>

\* The socket was closed: leave if cancelled, else sleep 10 ms and go on.
ReaderError ==
  /\ Alive
  /\ reader = "reading"
  /\ localConn = "closed"
  /\ reader' = IF ctxDone THEN "done" ELSE "top"
  /\ UNCHANGED <<coreVars, goVars, localConn, ready, tunFile, writer, emitting, eventVars>>

WriterBegins ==
  /\ Alive
  /\ LoopBegins(writer, "loop")
  /\ UNCHANGED <<coreVars, goVars, localConn, ready, tunFile, reader, emitting, eventVars>>

WriterLeaves ==
  /\ Alive
  /\ writer = "loop"
  /\ ctxDone
  /\ writer' = "done"
  /\ UNCHANGED <<coreVars, goVars, localConn, ready, tunFile, reader, emitting, eventVars>>

ReaderStep == ReaderBegins \/ ReaderTop \/ ReaderError
WriterStep == WriterBegins \/ WriterLeaves

-----------------------------------------------------------------------------
(* main: wg.Wait(), close(configCh), the verdict, and the deferred calls.    *)

MainAt(from, to) ==
  /\ Free("main")
  /\ main = from
  /\ main' = to

AllReturned ==
  /\ groups = "done"
  /\ MainAt("waiting", "verdict")
  /\ configCh' = IF configCh = "full" THEN "closedFull" ELSE "closed"
  /\ UNCHANGED <<coreVars, config, stats, dispVars, emitting, eventVars>>

\* Not cancelled and no active connection (none is left once all returned):
\* an error event and the state "error".
ReportDead ==
  /\ ~ctxDone
  /\ MainAt("verdict", "report")
  /\ Emits("main", "error")
  /\ UNCHANGED <<coreVars, configCh, config, stats, dispVars, eventVars>>

ReportState ==
  /\ MainAt("report", "closeConn")
  /\ Emits("main", "dead")
  /\ UNCHANGED <<coreVars, configCh, config, stats, dispVars, eventVars>>

NothingToReport ==
  /\ ctxDone
  /\ MainAt("verdict", "closeConn")
  /\ UNCHANGED <<coreVars, configCh, config, stats, dispVars, emitting, eventVars>>

\* Broken variant of CloseLocalConn: the deferred Close is missing.
KeepLocalConn ==
  /\ MainAt("closeConn", "cancel")
  /\ UNCHANGED <<coreVars, configCh, config, stats, dispVars, emitting, eventVars>>

CloseLocalConn ==
  /\ MainAt("closeConn", "cancel")
  /\ localConn' = IF localConn = "open" THEN "closed" ELSE localConn
  /\ UNCHANGED <<coreVars, configCh, config, stats, ready, tunFile,
                 reader, writer, emitting, eventVars>>

Cancel ==
  /\ MainAt("cancel", "shutdown")
  /\ ctxDone' = TRUE
  /\ UNCHANGED <<rawMode, shutdownCh, groups, reports, configCh, config, stats,
                 dispVars, emitting, eventVars>>

\* Broken variant of Shutdown: it does not wait for the loops.
ShutdownHasty ==
  /\ MainAt("shutdown", "closeEvents")
  /\ tunFile' = IF tunFile = "open" THEN "closed" ELSE tunFile
  /\ UNCHANGED <<coreVars, configCh, config, stats, localConn, ready,
                 reader, writer, emitting, eventVars>>

\* Dispatcher.Shutdown: wait for both loops, then close the TUN.
Shutdown ==
  /\ reader = "done"
  /\ writer = "done"
  /\ MainAt("shutdown", "closeEvents")
  /\ tunFile' = IF tunFile = "open" THEN "closed" ELSE tunFile
  /\ UNCHANGED <<coreVars, configCh, config, stats, localConn, ready,
                 reader, writer, emitting, eventVars>>

CloseEvents ==
  /\ MainAt("closeEvents", "done")
  /\ closed' = TRUE
  /\ UNCHANGED <<coreVars, configCh, config, stats, dispVars, emitting,
                 events, panicked, daemon, passed>>

MainStep == AllReturned \/ ReportDead \/ ReportState \/ NothingToReport
            \/ CloseLocalConn \/ Cancel \/ Shutdown \/ CloseEvents

-----------------------------------------------------------------------------
(* The daemon.                                                              *)

DaemonAt(from, to) ==
  /\ Alive
  /\ daemon = from
  /\ daemon' = to

HandleEvent ==
  /\ DaemonAt("loop", "loop")
  /\ events # <<>>
  /\ passed' = passed \cup ({Head(events)} \cap Verdict)
  /\ events' = Tail(events)
  /\ UNCHANGED <<coreVars, goVars, dispVars, emitting, closed, panicked>>

\* Broken variant of EventsEnd: the end is noticed before the buffer is empty.
EventsEndEarly ==
  /\ closed
  /\ DaemonAt("loop", "stopping")
  /\ UNCHANGED <<coreVars, goVars, dispVars, emitting, events, closed, panicked, passed>>

EventsEnd ==
  /\ closed
  /\ events = <<>>
  /\ DaemonAt("loop", "stopping")
  /\ UNCHANGED <<coreVars, goVars, dispVars, emitting, events, closed, panicked, passed>>

\* SIGTERM, SIGINT: runCtx is cancelled and the loop ends.
Signal ==
  /\ DaemonAt("loop", "stopping")
  /\ UNCHANGED <<coreVars, goVars, dispVars, emitting, events, closed, panicked, passed>>

\* The deferred stopCore cancels the core's context; it waits for nobody.
StopCore ==
  /\ DaemonAt("stopping", "teardown")
  /\ ctxDone' = TRUE
  /\ UNCHANGED <<rawMode, shutdownCh, groups, reports, goVars, dispVars,
                 emitting, events, closed, panicked, passed>>

\* Routing and WireGuard are torn down and the process ends.
Teardown ==
  /\ DaemonAt("teardown", "exited")
  /\ UNCHANGED <<coreVars, goVars, dispVars, emitting, events, closed, panicked, passed>>

DaemonStep == HandleEvent \/ EventsEnd \/ StopCore \/ Teardown

-----------------------------------------------------------------------------
Next ==
  \/ \E p \in Emitter : Emit(p)
  \/ StreamUp \/ StreamDown \/ GroupsReturn \/ AskCaptcha \/ HandOverConfig
  \/ ConfigStep
  \/ CloseShutdownCh \/ StatsTick \/ StatsReport \/ StatsLeave
  \/ ReaderStep \/ ReaderPacket \/ WriterStep
  \/ MainStep
  \/ DaemonStep \/ Signal

Spec == Init /\ [][Next]_vars

\* Every goroutine that can move does; groups end after cancellation
\* (WorkerGroup!StopCompletes).  No packet, tick, stream or signal is promised.
Fairness ==
  /\ \A p \in Emitter : WF_vars(Emit(p))
  /\ WF_vars(ctxDone /\ GroupsReturn)
  /\ WF_vars(ConfigStep)
  /\ WF_vars(CloseShutdownCh)
  /\ WF_vars(StatsReport)
  /\ WF_vars(StatsLeave)
  /\ WF_vars(ReaderStep)
  /\ WF_vars(WriterStep)
  /\ WF_vars(MainStep)
  /\ WF_vars(DaemonStep)

LiveSpec == Spec /\ Fairness

-----------------------------------------------------------------------------
(* Properties.                                                              *)

\* Type invariant.
TypeOK ==
  /\ {ctxDone, shutdownCh, ready, closed, panicked} \subseteq BOOLEAN
  /\ groups \in {"down", "up", "done"}
  /\ reports \in 0 .. MaxReports
  /\ configCh \in {"empty", "full", "taken", "closedFull", "closed"}
  /\ config \in {"waiting", "attaching", "attached", "done"}
  /\ stats \in {"select", "stats", "done"}
  /\ main \in {"waiting", "verdict", "report", "closeConn", "cancel", "shutdown",
               "closeEvents", "done"}
  /\ localConn \in {"none", "open", "closed"}
  /\ tunFile \in {"none", "open", "closed"}
  /\ reader \in {"waiting", "top", "reading", "done"}
  /\ writer \in {"waiting", "loop", "done"}
  /\ emitting \in [Emitter -> [step : {"idle", "try", "drain", "retry"}, kind : Kind]]
  /\ events \in Seq(Kind) /\ Len(events) <= EventBuf
  /\ daemon \in {"loop", "stopping", "teardown", "exited"}
  /\ passed \subseteq Verdict
  /\ rawMode \in BOOLEAN

\* readLoop never reads before it has something open to read from, and the TUN
\* it reads is closed by nobody under its feet: the order of AttachTUN's two
\* steps and of the deferred calls of main.
ReaderHasSource ==
  reader = "reading" => IF rawMode THEN tunFile = "open" ELSE localConn # "none"

\* When the events channel is closed the socket is closed, both loops of the
\* dispatcher have ended and the groups have too: nothing of the core outlives
\* its channel but the config and stats goroutines.
ClosedMeansOver ==
  closed => /\ ctxDone
            /\ localConn # "open"
            /\ reader = "done" /\ writer = "done"
            /\ groups = "done"

\* Start: the channel of events "is closed at the end": nobody sends on it
\* after that.
NoSendAfterClose == ~panicked

-----------------------------------------------------------------------------
Over == panicked \/ daemon # "loop"

\* When every group has given up the daemon's loop ends (and procd may start
\* the daemon again): the events channel does get closed.
DaemonLeavesDeadCore == groups = "done" ~> Over

\* What holds of that: it does with packets from a socket, which the way down
\* closes before it waits for its reader.
DaemonLeavesDeadUDPCore == groups = "done" /\ ~rawMode ~> Over

\* README: if no group came up "an explicit error goes to the status".  A daemon
\* that reaches the end of the channel by itself has seen the error and the
\* state before it, unless the buffer was full: main sends them while others
\* still emit.
DeadReported == [][EventsEnd => {"error", "dead"} \subseteq passed]_vars

\* A configuration handed over by a worker reaches the daemon, or a raw TUN
\* failure does, unless the client ends first or the full buffer loses it.
ConfigApplied ==
  configCh = "full" ~> passed \cap {"config", "error"} # {} \/ ctxDone \/ Over
=============================================================================
