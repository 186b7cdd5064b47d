---------------------------- MODULE WorkerGroup ----------------------------
(***************************************************************************)
(* The worker groups of the WDTT client (wdtt-client/src/core/group.go) and *)
(* the goroutine of Core.Start that launches them and waits for them.       *)
(*                                                                         *)
(* A group waits for the baton of the group before it, fetches TURN         *)
(* credentials, hands the baton on and runs its workers.  Each worker runs  *)
(* sessions for ever; at most one of all the workers may ask the server for *)
(* the tunnel configuration while its session comes up.                    *)
(*                                                                         *)
(* Abstracted: the text of errors (an error is the class the code sorts it  *)
(* into), durations (a timer may fire at any moment), what happens inside   *)
(* a session beyond the points where it can fail, and the credentials       *)
(* themselves.                                                             *)
(***************************************************************************)
EXTENDS Naturals, FiniteSets

CONSTANTS NumGroups,   \* groups started by Core.Start
          Worker,      \* all the workers
          GroupOf,     \* the group each worker belongs to
          Nobody       \* no worker (used by the refinement mapping)

Group == 1 .. NumGroups

ASSUME NumGroupsAssumption == NumGroups \in Nat \ {0}
ASSUME GroupOfAssumption   == GroupOf \in [Worker -> Group]
ASSUME NobodyAssumption    == Nobody \notin Worker

VARIABLES
  ctxDone,        \* the context of Core.Start was cancelled
  pauseFlag,      \* Core.pauseFlag (Doze pause)
  gpc,            \* where each group's goroutine is
  timer,          \* the goroutine that hands the baton on 500-750 ms after the credentials
  passed,         \* the group has closed its signalReady
  wpc,            \* where each worker's goroutine is
  getConf,        \* the worker's local getConf: it claimed the right to ask
  delivered,      \* the result configDelivered of the worker's session
  outcome,        \* the class of the error its last session returned
  configSent,     \* the shared flag: the configuration has been delivered
  configInFlight, \* the shared flag: some worker holds the right to ask
  configCh,       \* configurations buffered in configCh (capacity 1)
  consumer,       \* the goroutine of Core.Start that reads configCh
  main,           \* the goroutine of Core.Start that waits for all the groups
  deliveries      \* history: configurations received from the server

vars == <<ctxDone, pauseFlag, gpc, timer, passed, wpc, getConf, delivered,
          outcome, configSent, configInFlight, configCh, consumer, main,
          deliveries>>

groupVars  == <<gpc, timer, passed>>
workerVars == <<wpc, getConf, delivered, outcome>>
configVars == <<configSent, configInFlight, configCh, consumer, deliveries>>
coreVars   == <<ctxDone, pauseFlag, main>>

GroupPC  == {"waiting", "pause", "check", "fetch", "retry", "running", "done"}
WorkerPC == {"unborn", "stagger", "top", "claim", "dial", "ask", "ready",
             "settle", "refresh", "refreshing", "sleep", "done"}
Outcome  == {"nil", "retry", "refresh", "dead", "fatal"}

\* The capacity of configCh: make(chan string, 1).
ConfigChCap == 1

WorkersOf(g) == {w \in Worker : GroupOf[w] = g}

\* A group has a signalReady channel unless it is the last one; the first has
\* no waitReady.
HasBaton(g)      == g < NumGroups
BatonReceived(g) == g > 1 => passed[g - 1]

\* releaseBaton: close(signalReady), by whoever is first through batonOnce.
Released(g) == IF HasBaton(g) THEN [passed EXCEPT ![g] = TRUE] ELSE passed

Init ==
  /\ ctxDone = FALSE
  /\ pauseFlag = FALSE
  /\ gpc = [g \in Group |-> "waiting"]
  /\ timer = [g \in Group |-> "off"]
  /\ passed = [g \in Group |-> FALSE]
  /\ wpc = [w \in Worker |-> "unborn"]
  /\ getConf = [w \in Worker |-> FALSE]
  /\ delivered = [w \in Worker |-> FALSE]
  /\ outcome = [w \in Worker |-> "nil"]
  /\ configSent = 0
  /\ configInFlight = 0
  /\ configCh = 0
  /\ consumer = "waiting"
  /\ main = "waiting"
  /\ deliveries = 0

-----------------------------------------------------------------------------
(* The group's goroutine.                                                   *)

\* WorkerGroup returns: the deferred releaseBaton runs on every path.
Return(g) ==
  /\ gpc' = [gpc EXCEPT ![g] = "done"]
  /\ passed' = Released(g)
  /\ UNCHANGED timer

GroupAt(g, from, to) ==
  /\ gpc[g] = from
  /\ gpc' = [gpc EXCEPT ![g] = to]

\* select on waitReady and ctx.Done(): with both ready either may be taken.
TakeBaton(g) ==
  /\ BatonReceived(g)
  /\ GroupAt(g, "waiting", "pause")
  /\ UNCHANGED <<timer, passed, workerVars, configVars, coreVars>>

GiveUpWaiting(g) ==
  /\ gpc[g] = "waiting"
  /\ g > 1
  /\ ctxDone
  /\ Return(g)
  /\ UNCHANGED <<workerVars, configVars, coreVars>>

\* The Doze loop: leave it when the flag is clear; while it is set a cancelled
\* context ends the group.
LeavePause(g) ==
  /\ ~pauseFlag
  /\ GroupAt(g, "pause", "check")
  /\ UNCHANGED <<timer, passed, workerVars, configVars, coreVars>>

CancelledInPause(g) ==
  /\ gpc[g] = "pause"
  /\ pauseFlag
  /\ ctxDone
  /\ Return(g)
  /\ UNCHANGED <<workerVars, configVars, coreVars>>

\* The head of the credentials loop.
StartFetch(g) ==
  /\ ~ctxDone
  /\ GroupAt(g, "check", "fetch")
  /\ UNCHANGED <<timer, passed, workerVars, configVars, coreVars>>

CancelledBeforeFetch(g) ==
  /\ gpc[g] = "check"
  /\ ctxDone
  /\ Return(g)
  /\ UNCHANGED <<workerVars, configVars, coreVars>>

\* Broken variant of FetchOK: the baton waits for the end of the group.
FetchOKHoldsBaton(g) ==
  /\ GroupAt(g, "fetch", "running")
  /\ wpc' = [w \in Worker |-> IF GroupOf[w] = g THEN "stagger" ELSE wpc[w]]
  /\ UNCHANGED <<timer, passed, getConf, delivered, outcome, configVars, coreVars>>

\* GetCreds succeeded: arm the baton timer and start every worker.
FetchOK(g) ==
  /\ GroupAt(g, "fetch", "running")
  /\ timer' = [timer EXCEPT ![g] = IF HasBaton(g) THEN "armed" ELSE "off"]
  /\ wpc' = [w \in Worker |-> IF GroupOf[w] = g THEN "stagger" ELSE wpc[w]]
  /\ UNCHANGED <<passed, getConf, delivered, outcome, configVars, coreVars>>

\* Broken variant of FetchFatal: a way out without releaseBaton.
FetchFatalKeepsBaton(g) ==
  /\ gpc[g] = "fetch"
  /\ gpc' = [gpc EXCEPT ![g] = "done"]
  /\ UNCHANGED <<timer, passed, workerVars, configVars, coreVars>>

\* The call is gone (dead hash), FATAL_AUTH, or the context was cancelled.
FetchFatal(g) ==
  /\ gpc[g] = "fetch"
  /\ Return(g)
  /\ UNCHANGED <<workerVars, configVars, coreVars>>

\* Broken variant of FetchError: the baton is passed on any error.
FetchErrorReleases(g) ==
  /\ GroupAt(g, "fetch", "retry")
  /\ passed' = Released(g)
  /\ UNCHANGED <<timer, workerVars, configVars, coreVars>>

\* Any other error: wait 15 s (65 s after a captcha lockout) and try again.
FetchError(g) ==
  /\ GroupAt(g, "fetch", "retry")
  /\ UNCHANGED <<timer, passed, workerVars, configVars, coreVars>>

RetryFetch(g) ==
  /\ GroupAt(g, "retry", "check")
  /\ UNCHANGED <<timer, passed, workerVars, configVars, coreVars>>

CancelledInRetry(g) ==
  /\ gpc[g] = "retry"
  /\ ctxDone
  /\ Return(g)
  /\ UNCHANGED <<workerVars, configVars, coreVars>>

\* The timer goroutine: it passes the baton only if the context still lives.
TimerFires(g) ==
  /\ timer[g] = "armed"
  /\ timer' = [timer EXCEPT ![g] = "off"]
  /\ passed' = IF ctxDone THEN passed ELSE Released(g)
  /\ UNCHANGED <<gpc, workerVars, configVars, coreVars>>

\* wg.Wait() over the group's workers.
WorkersFinished(g) ==
  /\ gpc[g] = "running"
  /\ \A w \in WorkersOf(g) : wpc[w] = "done"
  /\ Return(g)
  /\ UNCHANGED <<workerVars, configVars, coreVars>>

GroupStep(g) ==
  \/ TakeBaton(g) \/ GiveUpWaiting(g)
  \/ LeavePause(g) \/ CancelledInPause(g)
  \/ StartFetch(g) \/ CancelledBeforeFetch(g)
  \/ FetchOK(g) \/ FetchFatal(g) \/ FetchError(g)
  \/ RetryFetch(g) \/ CancelledInRetry(g)
  \/ WorkersFinished(g)

-----------------------------------------------------------------------------
(* A worker's goroutine.                                                    *)

WorkerAt(w, from, to) ==
  /\ wpc[w] = from
  /\ wpc' = [wpc EXCEPT ![w] = to]

\* The 75 ms stagger before the first session, cut short by cancellation.
EndStagger(w) ==
  /\ \/ WorkerAt(w, "stagger", "top")
     \/ ctxDone /\ WorkerAt(w, "stagger", "done")
  /\ UNCHANGED <<getConf, delivered, outcome, groupVars, configVars, coreVars>>

\* Broken variant of BeginIteration: the loop never looks at the context.
BeginIterationBlind(w) ==
  /\ \/ configSent = 0 /\ WorkerAt(w, "top", "claim")
     \/ configSent # 0 /\ WorkerAt(w, "top", "dial")
  /\ UNCHANGED <<getConf, delivered, outcome, groupVars, configVars, coreVars>>

\* The head of the loop: leave if cancelled; look at configSent.
BeginIteration(w) ==
  /\ \/ ctxDone /\ WorkerAt(w, "top", "done")
     \/ ~ctxDone /\ configSent = 0 /\ WorkerAt(w, "top", "claim")
     \/ ~ctxDone /\ configSent # 0 /\ WorkerAt(w, "top", "dial")
  /\ UNCHANGED <<getConf, delivered, outcome, groupVars, configVars, coreVars>>

\* Broken variant of ClaimRight: a store instead of the compare-and-swap.
ClaimRightBlind(w) ==
  /\ WorkerAt(w, "claim", "dial")
  /\ getConf' = [getConf EXCEPT ![w] = TRUE]
  /\ configInFlight' = 1
  /\ UNCHANGED <<delivered, outcome, configSent, configCh, consumer,
                 deliveries, groupVars, coreVars>>

\* getConf = CompareAndSwap(configInFlight, 0, 1): a step of its own, other
\* workers may run between it and the load of configSent.
ClaimRight(w) ==
  /\ WorkerAt(w, "claim", "dial")
  /\ getConf' = [getConf EXCEPT ![w] = (configInFlight = 0)]
  /\ configInFlight' = 1
  /\ UNCHANGED <<delivered, outcome, configSent, configCh, consumer,
                 deliveries, groupVars, coreVars>>

\* RunSession fails before the DTLS handshake is over.
DialFails(w) ==
  /\ WorkerAt(w, "dial", "settle")
  /\ \E e \in {"retry", "refresh", "dead"} :
       outcome' = [outcome EXCEPT ![w] = e]
  /\ UNCHANGED <<getConf, delivered, groupVars, configVars, coreVars>>

\* The handshake succeeded: the holder of the right asks for the
\* configuration, any other worker sends AUTH and is ready.
Handshake(w) ==
  /\ WorkerAt(w, "dial", IF getConf[w] THEN "ask" ELSE "ready")
  /\ UNCHANGED <<getConf, delivered, outcome, groupVars, configVars, coreVars>>

\* The server answered with a configuration: a non-blocking send to configCh.
ConfigArrives(w) ==
  /\ WorkerAt(w, "ask", "ready")
  /\ delivered' = [delivered EXCEPT ![w] = TRUE]
  /\ deliveries' = deliveries + 1
  /\ configCh' = IF configCh < ConfigChCap THEN configCh + 1 ELSE configCh
  /\ UNCHANGED <<getConf, outcome, configSent, configInFlight, consumer,
                 groupVars, coreVars>>

\* DENIED is FATAL_AUTH; NOCONF, a timeout or a transport error end the session.
ConfigRefused(w) ==
  /\ WorkerAt(w, "ask", "settle")
  /\ \E e \in {"retry", "fatal"} : outcome' = [outcome EXCEPT ![w] = e]
  /\ UNCHANGED <<getConf, delivered, groupVars, configVars, coreVars>>

\* A ready session ends: with the error of its reader or writer, or with none.
SessionEnds(w) ==
  /\ WorkerAt(w, "ready", "settle")
  /\ \E e \in {"retry", "nil"} : outcome' = [outcome EXCEPT ![w] = e]
  /\ UNCHANGED <<getConf, delivered, groupVars, configVars, coreVars>>

\* Where the error's class sends the worker after its session.
AfterSession(w) ==
  CASE outcome[w] = "nil"                         -> "top"
    [] outcome[w] # "nil" /\ ctxDone              -> "done"
    [] outcome[w] \in {"fatal", "dead"} /\ ~ctxDone -> "done"
    [] outcome[w] = "refresh" /\ ~ctxDone         -> "refresh"
    [] outcome[w] = "retry" /\ ~ctxDone           -> "sleep"

\* Broken variant of Settle: the right is released after a delivery too,
\* relying on configSent alone.
SettleAlwaysFrees(w) ==
  /\ WorkerAt(w, "settle", AfterSession(w))
  /\ configSent' = IF getConf[w] /\ delivered[w] THEN 1 ELSE configSent
  /\ configInFlight' = IF getConf[w] THEN 0 ELSE configInFlight
  /\ getConf' = [getConf EXCEPT ![w] = FALSE]
  /\ delivered' = [delivered EXCEPT ![w] = FALSE]
  /\ UNCHANGED <<outcome, configCh, consumer, deliveries, groupVars, coreVars>>

\* Broken variant of Settle: a fatal error returns before the right is released.
SettleLosesRight(w) ==
  /\ WorkerAt(w, "settle", AfterSession(w))
  /\ configSent' = IF getConf[w] /\ delivered[w] THEN 1 ELSE configSent
  /\ configInFlight' =
       IF getConf[w] /\ ~delivered[w] /\ outcome[w] # "fatal" THEN 0 ELSE configInFlight
  /\ getConf' = [getConf EXCEPT ![w] = FALSE]
  /\ delivered' = [delivered EXCEPT ![w] = FALSE]
  /\ UNCHANGED <<outcome, configCh, consumer, deliveries, groupVars, coreVars>>

\* The session returned.  A holder whose session brought the configuration
\* records it, a holder whose session did not gives the right back.
Settle(w) ==
  /\ WorkerAt(w, "settle", AfterSession(w))
  /\ configSent' = IF getConf[w] /\ delivered[w] THEN 1 ELSE configSent
  /\ configInFlight' =
       IF getConf[w] /\ ~delivered[w] THEN 0 ELSE configInFlight
  /\ getConf' = [getConf EXCEPT ![w] = FALSE]
  /\ delivered' = [delivered EXCEPT ![w] = FALSE]
  /\ UNCHANGED <<outcome, configCh, consumer, deliveries, groupVars, coreVars>>

\* refreshCreds under refreshMu: skipped when the credentials are less than
\* 15 s old, a fetch of at most 35 s otherwise.
BeginRefresh(w) ==
  /\ \A v \in WorkersOf(GroupOf[w]) : wpc[v] # "refreshing"
  /\ \/ WorkerAt(w, "refresh", "refreshing")
     \/ WorkerAt(w, "refresh", "sleep")
  /\ UNCHANGED <<getConf, delivered, outcome, groupVars, configVars, coreVars>>

EndRefresh(w) ==
  /\ WorkerAt(w, "refreshing", "sleep")
  /\ UNCHANGED <<getConf, delivered, outcome, groupVars, configVars, coreVars>>

\* The retry delay, cut short by cancellation.
WakeUp(w) ==
  /\ \/ WorkerAt(w, "sleep", "top")
     \/ ctxDone /\ WorkerAt(w, "sleep", "done")
  /\ UNCHANGED <<getConf, delivered, outcome, groupVars, configVars, coreVars>>

WorkerStep(w) ==
  \/ EndStagger(w) \/ BeginIteration(w) \/ ClaimRight(w)
  \/ DialFails(w) \/ Handshake(w)
  \/ ConfigArrives(w) \/ ConfigRefused(w)
  \/ Settle(w) \/ BeginRefresh(w) \/ EndRefresh(w) \/ WakeUp(w)

-----------------------------------------------------------------------------
(* Core.Start: the goroutine that reads configCh, the one that waits for    *)
(* the groups; Core.Stop, Pause and Resume.                                 *)

\* Broken variant of ConsumeConfig: it takes an empty channel for a full one.
ConsumeConfigBlind ==
  /\ consumer = "waiting"
  /\ configCh' = configCh - 1
  /\ consumer' = "handled"
  /\ UNCHANGED <<configSent, configInFlight, deliveries, groupVars,
                 workerVars, coreVars>>

\* One configuration is handled, never a second one.
ConsumeConfig ==
  /\ consumer = "waiting"
  /\ configCh > 0
  /\ configCh' = configCh - 1
  /\ consumer' = "handled"
  /\ UNCHANGED <<configSent, configInFlight, deliveries, groupVars,
                 workerVars, coreVars>>

\* ctx.Done(), or configCh closed by main and empty.
ConsumerLeaves ==
  /\ consumer = "waiting"
  /\ ctxDone \/ (main # "waiting" /\ configCh = 0)
  /\ consumer' = "gone"
  /\ UNCHANGED <<configSent, configInFlight, configCh, deliveries, groupVars,
                 workerVars, coreVars>>

\* wg.Wait() over the groups, close(configCh).
AllGroupsReturned ==
  /\ main = "waiting"
  /\ \A g \in Group : gpc[g] = "done"
  /\ main' = "closing"
  /\ UNCHANGED <<ctxDone, pauseFlag, groupVars, workerVars, configVars>>

\* The deferred cancel().
MainReturns ==
  /\ main = "closing"
  /\ main' = "done"
  /\ ctxDone' = TRUE
  /\ UNCHANGED <<pauseFlag, groupVars, workerVars, configVars>>

Stop ==
  /\ ~ctxDone
  /\ ctxDone' = TRUE
  /\ UNCHANGED <<pauseFlag, main, groupVars, workerVars, configVars>>

PauseOrResume ==
  /\ pauseFlag' = ~pauseFlag
  /\ UNCHANGED <<ctxDone, main, groupVars, workerVars, configVars>>

CoreStep == ConsumeConfig \/ ConsumerLeaves \/ AllGroupsReturned \/ MainReturns

Next ==
  \/ \E g \in Group : GroupStep(g) \/ TimerFires(g)
  \/ \E w \in Worker : WorkerStep(w) \/ SessionEnds(w)
  \/ CoreStep
  \/ Stop
  \/ PauseOrResume

Spec == Init /\ [][Next]_vars

-----------------------------------------------------------------------------
(* Fairness.  The Go scheduler runs every goroutine that can move; timers    *)
(* fire; GetCreds, the TURN dial, the handshake and the wait for the         *)
(* configuration have deadlines.  A ready session is promised nothing,       *)
(* except that cancellation ends it.                                        *)

ProgramFairness ==
  /\ \A g \in Group : WF_vars(GroupStep(g)) /\ WF_vars(TimerFires(g))
  /\ \A w \in Worker : WF_vars(WorkerStep(w)) /\ WF_vars(ctxDone /\ SessionEnds(w))
  /\ WF_vars(CoreStep)

LiveSpec == Spec /\ ProgramFairness

\* The server answers whoever keeps asking: a worker that comes up with the
\* right again and again reaches the request, and one that requests again and
\* again gets the configuration.  Go's mutexes starve nobody.
ServerAnswers ==
  \A w \in Worker : /\ SF_vars(getConf[w] /\ Handshake(w))
                    /\ SF_vars(ConfigArrives(w))
                    /\ SF_vars(BeginRefresh(w))

\* Every ready session ends some day: workers that hold no right look again.
SessionsTurnOver == \A w \in Worker : WF_vars(SessionEnds(w))

-----------------------------------------------------------------------------
(* Invariants.                                                              *)

\* Type invariant: every variable keeps its type; the received
\* configurations are counted.
TypeOK ==
  /\ ctxDone \in BOOLEAN
  /\ pauseFlag \in BOOLEAN
  /\ gpc \in [Group -> GroupPC]
  /\ timer \in [Group -> {"off", "armed"}]
  /\ passed \in [Group -> BOOLEAN]
  /\ wpc \in [Worker -> WorkerPC]
  /\ getConf \in [Worker -> BOOLEAN]
  /\ delivered \in [Worker -> BOOLEAN]
  /\ outcome \in [Worker -> Outcome]
  /\ configSent \in {0, 1}
  /\ configInFlight \in {0, 1}
  /\ configCh \in 0 .. ConfigChCap
  /\ consumer \in {"waiting", "handled", "gone"}
  /\ main \in {"waiting", "closing", "done"}
  /\ deliveries \in Nat

\* "Exactly one worker at a time" (core.go): no two workers hold the right to
\* ask for the configuration, although the load of configSent and the
\* compare-and-swap of configInFlight are two steps.
OneAsker == \A v, w \in Worker : getConf[v] /\ getConf[w] => v = w

\* "Exactly once in all" (core.go): over all groups and sessions at most one
\* configuration is ever received from the server.
ConfigOnce == deliveries <= 1

\* The right is never lost: while configInFlight is set some worker holds it,
\* or the configuration has been recorded as delivered.
RightNotLost ==
  configInFlight = 1 => configSent = 1 \/ \E w \in Worker : getConf[w]

\* The cascade: a group asks VK for its first credentials only when every
\* earlier group has its own or has given up, so that the groups never ask VK
\* side by side while starting.
StartupCascade ==
  \A g, h \in Group :
    g < h /\ gpc[h] \in {"fetch", "retry"} => gpc[g] \in {"running", "done"}

\* The baton is never lost, whichever of the timer, the deferred release and the
\* cancellation comes first (the comment on releaseBaton): a group that ended has
\* passed it; one with credentials has, or its timer will, or nobody needs it.
BatonNotLost ==
  \A g \in Group : HasBaton(g) =>
    /\ gpc[g] = "done" => passed[g]
    /\ gpc[g] = "running" => passed[g] \/ timer[g] = "armed" \/ ctxDone

-----------------------------------------------------------------------------
(* Liveness and refinement.                                                 *)

\* The comment on releaseBaton: the baton must be handed on whatever happens
\* to the group.  A group that got credentials or ended is followed by the
\* next one leaving its wait.
BatonPassed ==
  \A g \in Group :
    HasBaton(g) => (gpc[g] \in {"running", "done"} ~> gpc[g + 1] # "waiting")

\* After Core.Stop every goroutine of every group ends, main closes configCh
\* and the reader of configCh leaves, from whatever state they were in.
StopCompletes == ctxDone ~> (main = "done" /\ consumer # "waiting")

\* README v3.18.4: a failed attempt does not eat the right, the configuration
\* "is picked up by itself as soon as the server begins to answer".  Once some
\* worker has started, the configuration arrives, unless every worker dies or
\* the client is stopped; given a server that answers and sessions that end.
ConfigArrivesEventually ==
  ServerAnswers /\ SessionsTurnOver =>
    ((\E w \in Worker : wpc[w] = "stagger")
       ~> \/ deliveries > 0
          \/ ctxDone
          \/ \A w \in Worker : wpc[w] \in {"unborn", "done"})

\* The two flags implement the abstract right to ask: it is taken only when
\* free, given back only by its holder, and spent for good by the first
\* configuration that arrives.
Asking(w) == getConf[w] /\ ~delivered[w]

Asker ==
  IF \E w \in Worker : Asking(w) THEN CHOOSE w \in Worker : Asking(w) ELSE Nobody

Right == INSTANCE ConfigRight WITH holder <- Asker, spent <- (deliveries > 0)

ImplementsConfigRight == Right!Spec
=============================================================================
