------------------------- MODULE WorkerGroupProofs -------------------------
(***************************************************************************)
(* Proofs about WorkerGroup, for any number of groups and any set of        *)
(* workers: type correctness, the exclusive right to ask for the            *)
(* configuration, the start-up cascade, and the refinement of ConfigRight.  *)
(***************************************************************************)
EXTENDS WorkerGroup, TLAPS

USE NumGroupsAssumption, GroupOfAssumption, NobodyAssumption

\* Type correctness: every variable of the worker groups keeps its type.
THEOREM TypeCorrect == Spec => []TypeOK
<1>1. Init => TypeOK
  <2> SUFFICES ASSUME Init PROVE TypeOK
    OBVIOUS
  <2> USE DEF Init
  <2>1. ctxDone \in BOOLEAN /\ pauseFlag \in BOOLEAN
    OBVIOUS
  <2>2. /\ gpc \in [Group -> GroupPC]
        /\ timer \in [Group -> {"off", "armed"}]
        /\ passed \in [Group -> BOOLEAN]
    BY DEF GroupPC
  <2>3. /\ wpc \in [Worker -> WorkerPC]
        /\ getConf \in [Worker -> BOOLEAN]
        /\ delivered \in [Worker -> BOOLEAN]
        /\ outcome \in [Worker -> Outcome]
    BY DEF WorkerPC, Outcome
  <2>4. /\ configSent \in {0, 1}
        /\ configInFlight \in {0, 1}
        /\ configCh \in 0 .. ConfigChCap
        /\ consumer \in {"waiting", "handled", "gone"}
        /\ main \in {"waiting", "closing", "done"}
        /\ deliveries \in Nat
    BY DEF ConfigChCap
  <2>5. QED
    BY <2>1, <2>2, <2>3, <2>4 DEF TypeOK
<1>2. TypeOK /\ [Next]_vars => TypeOK'
  <2> SUFFICES ASSUME TypeOK, [Next]_vars PROVE TypeOK'
    OBVIOUS
  <2> USE DEF TypeOK, groupVars, workerVars, configVars, coreVars
  <2>1. ASSUME NEW g \in Group, GroupStep(g) PROVE TypeOK'
    <3> USE DEF GroupAt, GroupPC
    <3>0. Released(g) \in [Group -> BOOLEAN]
      BY DEF Released
    <3>1. CASE TakeBaton(g) \/ LeavePause(g) \/ StartFetch(g)
      BY <3>1 DEF TakeBaton, LeavePause, StartFetch
    <3>2. CASE FetchError(g) \/ RetryFetch(g)
      BY <3>2 DEF FetchError, RetryFetch
    <3>3. CASE FetchOK(g)
      BY <3>3 DEF FetchOK, WorkerPC
    <3>4. CASE GiveUpWaiting(g) \/ CancelledInPause(g) \/ CancelledBeforeFetch(g)
      BY <3>0, <3>4 DEF GiveUpWaiting, CancelledInPause, CancelledBeforeFetch, Return
    <3>5. CASE FetchFatal(g) \/ CancelledInRetry(g) \/ WorkersFinished(g)
      BY <3>0, <3>5 DEF FetchFatal, CancelledInRetry, WorkersFinished, Return
    <3>6. QED
      BY <2>1, <3>1, <3>2, <3>3, <3>4, <3>5 DEF GroupStep
  <2>2. ASSUME NEW g \in Group, TimerFires(g) PROVE TypeOK'
    BY <2>2 DEF TimerFires, Released
  <2>3. ASSUME NEW w \in Worker, WorkerStep(w) PROVE TypeOK'
    <3> USE DEF WorkerAt, WorkerPC
    <3>1. CASE EndStagger(w) \/ BeginIteration(w) \/ Handshake(w)
      BY <3>1 DEF EndStagger, BeginIteration, Handshake
    <3>2. CASE ClaimRight(w)
      BY <3>2 DEF ClaimRight
    <3>3. CASE DialFails(w) \/ ConfigRefused(w)
      BY <3>3 DEF DialFails, ConfigRefused, Outcome
    <3>4. CASE ConfigArrives(w)
      BY <3>4 DEF ConfigArrives, ConfigChCap
    <3>5. CASE Settle(w)
      <4>1. AfterSession(w) \in WorkerPC
        BY DEF AfterSession, Outcome
      <4>2. QED
        BY <3>5, <4>1 DEF Settle
    <3>6. CASE BeginRefresh(w) \/ EndRefresh(w) \/ WakeUp(w)
      BY <3>6 DEF BeginRefresh, EndRefresh, WakeUp
    <3>7. QED
      BY <2>3, <3>1, <3>2, <3>3, <3>4, <3>5, <3>6 DEF WorkerStep
  <2>4. ASSUME NEW w \in Worker, SessionEnds(w) PROVE TypeOK'
    BY <2>4 DEF SessionEnds, WorkerAt, WorkerPC, Outcome
  <2>5. CASE CoreStep
    <3>1. CASE ConsumeConfig
      BY <3>1 DEF ConsumeConfig, ConfigChCap
    <3>2. CASE ConsumerLeaves
      BY <3>2 DEF ConsumerLeaves
    <3>3. CASE AllGroupsReturned
      BY <3>3 DEF AllGroupsReturned
    <3>4. CASE MainReturns
      BY <3>4 DEF MainReturns
    <3>5. QED
      BY <2>5, <3>1, <3>2, <3>3, <3>4 DEF CoreStep
  <2>6. CASE Stop \/ PauseOrResume
    BY <2>6 DEF Stop, PauseOrResume
  <2>7. CASE UNCHANGED vars
    BY <2>7 DEF vars
  <2>8. QED
    BY <2>1, <2>2, <2>3, <2>4, <2>5, <2>6, <2>7 DEF Next
<1>3. QED
  BY <1>1, <1>2, PTL DEF Spec

-----------------------------------------------------------------------------
(* The cascade.                                                             *)

Started == {"running", "done"}

\* The inductive strengthening of StartupCascade.  While the context lives a group
\* leaves its wait only with the baton of the group before it, which by then has
\* credentials or has ended; a cancelled context lets groups out of order, but
\* none of them starts a fetch any more.
CascadeInv ==
  /\ StartupCascade
  /\ \A g \in Group : passed[g] \/ timer[g] = "armed" => gpc[g] \in Started
  /\ ~ctxDone => \A g, h \in Group :
                   g < h /\ gpc[h] # "waiting" => gpc[g] \in Started
  /\ \A w \in Worker : gpc[GroupOf[w]] \notin Started => wpc[w] = "unborn"

LEMMA CascadeInvInit == Init => CascadeInv
BY DEF Init, CascadeInv, StartupCascade, Started

\* A group that returns keeps the cascade, wherever it returns from: only a
\* cancelled context makes it return before it had the baton.
LEMMA ReturnPreserves ==
  ASSUME TypeOK, CascadeInv, NEW g \in Group, Return(g), UNCHANGED wpc,
         UNCHANGED ctxDone, ctxDone \/ gpc[g] # "waiting"
  PROVE  CascadeInv'
<1>1. \A h \in Group : h # g => passed'[h] = passed[h]
  BY DEF Return, Released, TypeOK
<1>2. \A h \in Group : gpc'[h] = IF h = g THEN "done" ELSE gpc[h]
  BY DEF Return, TypeOK
<1>3. UNCHANGED <<timer, wpc, ctxDone>>
  BY DEF Return
<1>4. StartupCascade'
  BY <1>2 DEF CascadeInv, StartupCascade, Started
<1>5. \A h \in Group : passed'[h] \/ timer'[h] = "armed" => gpc'[h] \in Started
  BY <1>1, <1>2, <1>3 DEF CascadeInv, Started
<1>6. ~ctxDone' => \A h, k \in Group :
                     h < k /\ gpc'[k] # "waiting" => gpc'[h] \in Started
  BY <1>2, <1>3 DEF CascadeInv, Started
<1>7. QED
  BY <1>2, <1>3, <1>4, <1>5, <1>6 DEF CascadeInv, Started

LEMMA CascadeInvNext == TypeOK /\ CascadeInv /\ [Next]_vars => CascadeInv'
<1> SUFFICES ASSUME TypeOK, CascadeInv, [Next]_vars PROVE CascadeInv'
  OBVIOUS
<1> USE DEF groupVars, workerVars, configVars, coreVars
<1>1. ASSUME NEW g \in Group, GroupStep(g) PROVE CascadeInv'
  <2>1. CASE TakeBaton(g)
    <3>1. \A h \in Group : ~ctxDone /\ h < g => gpc[h] \in Started
      <4> SUFFICES ASSUME NEW h \in Group, ~ctxDone, h < g
                   PROVE  gpc[h] \in Started
        OBVIOUS
      <4>1. g - 1 \in Group /\ (h = g - 1 \/ h < g - 1)
        BY DEF Group
      <4>2. gpc[g - 1] \in Started
        BY <2>1, <4>1 DEF TakeBaton, BatonReceived, CascadeInv, TypeOK, Group
      <4>3. QED
        BY <4>1, <4>2 DEF CascadeInv, Started
    <3>2. QED
      BY <2>1, <3>1 DEF TakeBaton, GroupAt, CascadeInv, StartupCascade,
                        Started, TypeOK
  <2>2. CASE LeavePause(g)
    BY <2>2 DEF LeavePause, GroupAt, CascadeInv, StartupCascade,
                Started, TypeOK
  <2>3. CASE StartFetch(g)
    BY <2>3 DEF StartFetch, GroupAt, CascadeInv, StartupCascade,
                Started, TypeOK
  <2>4. CASE FetchOK(g)
    BY <2>4 DEF FetchOK, GroupAt, CascadeInv, StartupCascade,
                Started, TypeOK
  <2>5. CASE FetchError(g)
    BY <2>5 DEF FetchError, GroupAt, CascadeInv, StartupCascade,
                Started, TypeOK
  <2>6. CASE RetryFetch(g)
    BY <2>6 DEF RetryFetch, GroupAt, CascadeInv, StartupCascade,
                Started, TypeOK
  <2>7. CASE GiveUpWaiting(g) \/ CancelledInPause(g) \/ CancelledBeforeFetch(g)
    BY <2>7, ReturnPreserves DEF GiveUpWaiting, CancelledInPause, CancelledBeforeFetch
  <2>8. CASE FetchFatal(g) \/ CancelledInRetry(g) \/ WorkersFinished(g)
    BY <2>8, ReturnPreserves DEF FetchFatal, CancelledInRetry, WorkersFinished
  <2>9. QED
    BY <1>1, <2>1, <2>2, <2>3, <2>4, <2>5, <2>6, <2>7, <2>8 DEF GroupStep
<1>2. ASSUME NEW g \in Group, TimerFires(g) PROVE CascadeInv'
  <2>1. \A h \in Group : h # g => passed'[h] = passed[h]
    BY <1>2 DEF TimerFires, Released, TypeOK
  <2>2. QED
    BY <1>2, <2>1 DEF TimerFires, CascadeInv, StartupCascade, Started, TypeOK
<1>3. ASSUME NEW w \in Worker, WorkerStep(w) \/ SessionEnds(w) PROVE CascadeInv'
  <2>1. /\ wpc[w] # "unborn"
        /\ \A v \in Worker : v # w => wpc'[v] = wpc[v]
        /\ UNCHANGED <<gpc, timer, passed, ctxDone>>
    BY <1>3 DEF WorkerStep, EndStagger, BeginIteration, ClaimRight, DialFails,
                Handshake, ConfigArrives, ConfigRefused, Settle, BeginRefresh,
                EndRefresh, WakeUp, SessionEnds, WorkerAt, TypeOK
  <2>2. QED
    BY <2>1 DEF CascadeInv, StartupCascade, Started
<1>4. CASE CoreStep \/ Stop \/ PauseOrResume
  <2>1. UNCHANGED <<gpc, timer, passed, wpc>> /\ (ctxDone => ctxDone')
    BY <1>4 DEF CoreStep, ConsumeConfig, ConsumerLeaves, AllGroupsReturned,
                MainReturns, Stop, PauseOrResume
  <2>2. QED
    BY <2>1 DEF CascadeInv, StartupCascade, Started
<1>5. CASE UNCHANGED vars
  BY <1>5 DEF vars, CascadeInv, StartupCascade, Started
<1>6. QED
  BY <1>1, <1>2, <1>3, <1>4, <1>5 DEF Next

\* The start-up cascade holds in every reachable state.
THEOREM Cascade == Spec => []StartupCascade
<1>1. CascadeInv => StartupCascade
  BY DEF CascadeInv
<1>2. QED
  BY CascadeInvInit, CascadeInvNext, TypeCorrect, <1>1, PTL DEF Spec

-----------------------------------------------------------------------------
(* The way down: what BatonPassed and StopCompletes, which are liveness,     *)
(* rest on.                                                                 *)

\* No worker outlives its group and no group the goroutine that waits for all of
\* them and then closes configCh.
NobodyOutlives ==
  /\ \A w \in Worker : gpc[GroupOf[w]] = "done" => wpc[w] \in {"unborn", "done"}
  /\ main # "waiting" => \A g \in Group : gpc[g] = "done"

DownInv == BatonNotLost /\ NobodyOutlives

\* A group that returns passes its baton, and its workers have ended or were
\* never born.
LEMMA ReturnPasses ==
  ASSUME TypeOK, DownInv, NEW g \in Group, Return(g), UNCHANGED <<wpc, ctxDone, main>>,
         gpc[g] # "done",
         \A w \in Worker : GroupOf[w] = g => wpc[w] \in {"unborn", "done"}
  PROVE  DownInv'
<1>1. \A h \in Group : gpc'[h] = IF h = g THEN "done" ELSE gpc[h]
  BY DEF Return, TypeOK
<1>2. \A h \in Group : passed[h] => passed'[h]
  BY DEF Return, Released, TypeOK
<1>3. HasBaton(g) => passed'[g]
  BY DEF Return, Released, TypeOK
<1>4. BatonNotLost'
  BY <1>1, <1>2, <1>3 DEF Return, DownInv, BatonNotLost, HasBaton, TypeOK
<1>5. NobodyOutlives'
  BY <1>1 DEF DownInv, NobodyOutlives
<1>6. QED
  BY <1>4, <1>5 DEF DownInv

\* Every step keeps the way down.
LEMMA DownStep == TypeOK /\ CascadeInv /\ DownInv /\ [Next]_vars => DownInv'
<1> SUFFICES ASSUME TypeOK, CascadeInv, DownInv, [Next]_vars PROVE DownInv'
  OBVIOUS
<1> USE DEF groupVars, workerVars, configVars, coreVars
<1>1. ASSUME NEW g \in Group, GroupStep(g) PROVE DownInv'
  <2>1. CASE TakeBaton(g) \/ LeavePause(g) \/ StartFetch(g) \/ FetchError(g) \/ RetryFetch(g)
    <3>1. UNCHANGED <<timer, passed, wpc, ctxDone, main>>
      BY <2>1 DEF TakeBaton, LeavePause, StartFetch, FetchError, RetryFetch
    <3>2. /\ \A h \in Group : h # g => gpc'[h] = gpc[h]
          /\ gpc[g] # "done" /\ gpc'[g] \notin {"running", "done"}
      BY <2>1 DEF TakeBaton, LeavePause, StartFetch, FetchError, RetryFetch, GroupAt, TypeOK
    <3>3. BatonNotLost' /\ NobodyOutlives'
      BY <3>1, <3>2 DEF DownInv, BatonNotLost, NobodyOutlives, HasBaton
    <3>4. QED
      BY <3>3 DEF DownInv
  <2>2. CASE FetchOK(g)
    <3>1. /\ UNCHANGED <<passed, ctxDone, main>>
          /\ timer' = [timer EXCEPT ![g] = IF HasBaton(g) THEN "armed" ELSE "off"]
      BY <2>2 DEF FetchOK
    <3>2. /\ \A h \in Group : h # g => gpc'[h] = gpc[h]
          /\ gpc[g] = "fetch" /\ gpc'[g] = "running"
          /\ \A w \in Worker : GroupOf[w] # g => wpc'[w] = wpc[w]
      BY <2>2 DEF FetchOK, GroupAt, TypeOK
    <3>3. BatonNotLost'
      BY <3>1, <3>2 DEF DownInv, BatonNotLost, HasBaton, TypeOK
    <3>4. NobodyOutlives'
      BY <3>1, <3>2 DEF DownInv, NobodyOutlives
    <3>5. QED
      BY <3>3, <3>4 DEF DownInv
  <2>3. CASE GiveUpWaiting(g) \/ CancelledInPause(g) \/ CancelledBeforeFetch(g)
             \/ FetchFatal(g) \/ CancelledInRetry(g)
    <3>1. Return(g) /\ UNCHANGED <<wpc, ctxDone, main>> /\ gpc[g] \notin Started
      BY <2>3 DEF GiveUpWaiting, CancelledInPause, CancelledBeforeFetch, FetchFatal,
                  CancelledInRetry, Started
    <3>2. \A w \in Worker : GroupOf[w] = g => wpc[w] = "unborn"
      BY <3>1 DEF CascadeInv
    <3>3. QED
      BY <3>1, <3>2, ReturnPasses DEF Started
  <2>4. CASE WorkersFinished(g)
    BY <2>4, ReturnPasses DEF WorkersFinished, WorkersOf
  <2>5. QED
    BY <1>1, <2>1, <2>2, <2>3, <2>4 DEF GroupStep
<1>2. ASSUME NEW g \in Group, TimerFires(g) PROVE DownInv'
  <2>1. /\ UNCHANGED <<gpc, wpc, ctxDone, main>>
        /\ \A h \in Group : h # g => timer'[h] = timer[h]
    BY <1>2 DEF TimerFires, TypeOK
  <2>2. /\ \A h \in Group : passed[h] => passed'[h]
        /\ HasBaton(g) /\ ~ctxDone => passed'[g]
    BY <1>2 DEF TimerFires, Released, TypeOK
  <2>3. BatonNotLost'
    BY <2>1, <2>2 DEF DownInv, BatonNotLost, HasBaton, TypeOK
  <2>4. QED
    BY <2>1, <2>3 DEF DownInv, NobodyOutlives
<1>3. ASSUME NEW w \in Worker, WorkerStep(w) \/ SessionEnds(w) PROVE DownInv'
  <2>1. /\ wpc[w] \notin {"unborn", "done"}
        /\ \A v \in Worker : v # w => wpc'[v] = wpc[v]
        /\ UNCHANGED <<gpc, timer, passed, ctxDone, main>>
    BY <1>3 DEF WorkerStep, EndStagger, BeginIteration, ClaimRight, DialFails,
                Handshake, ConfigArrives, ConfigRefused, Settle, BeginRefresh,
                EndRefresh, WakeUp, SessionEnds, WorkerAt, TypeOK
  <2>2. QED
    BY <2>1 DEF DownInv, BatonNotLost, NobodyOutlives, HasBaton
<1>4. CASE CoreStep \/ Stop \/ PauseOrResume
  <2>1. /\ UNCHANGED <<gpc, timer, passed, wpc>> /\ (ctxDone => ctxDone')
        /\ main' # "waiting" => main # "waiting" \/ \A g \in Group : gpc[g] = "done"
    BY <1>4 DEF CoreStep, ConsumeConfig, ConsumerLeaves, AllGroupsReturned,
                MainReturns, Stop, PauseOrResume
  <2>2. QED
    BY <2>1 DEF DownInv, BatonNotLost, NobodyOutlives, HasBaton
<1>5. CASE UNCHANGED vars
  BY <1>5 DEF vars, DownInv, BatonNotLost, NobodyOutlives, HasBaton
<1>6. QED
  BY <1>1, <1>2, <1>3, <1>4, <1>5 DEF Next

\* The baton is never lost, whichever of the timer, the deferred release and the
\* cancellation comes first (the comment on releaseBaton in group.go).
THEOREM BatonKept == Spec => []BatonNotLost
<1>1. Init => DownInv
  BY DEF Init, DownInv, BatonNotLost, NobodyOutlives
<1>2. DownInv => BatonNotLost
  BY DEF DownInv
<1>3. QED
  BY <1>1, <1>2, CascadeInvInit, CascadeInvNext, DownStep, TypeCorrect, PTL DEF Spec

\* Core.Start closes configCh when nobody is left to send on it: its waits cover
\* every worker of every group.
THEOREM WaitsForAll == Spec => []NobodyOutlives
<1>1. Init => DownInv
  BY DEF Init, DownInv, BatonNotLost, NobodyOutlives
<1>2. DownInv => NobodyOutlives
  BY DEF DownInv
<1>3. QED
  BY <1>1, <1>2, CascadeInvInit, CascadeInvNext, DownStep, TypeCorrect, PTL DEF Spec

-----------------------------------------------------------------------------
(* The right to ask for the configuration.                                  *)

\* The inductive strengthening of OneAsker, ConfigOnce and RightNotLost.  The
\* right is held only between the claim and the end of the session; and a
\* configuration that arrived keeps it out of the pool for ever, first through
\* the holder whose session brought it, then through configSent.
RightInv ==
  /\ OneAsker
  /\ ConfigOnce
  /\ RightNotLost
  /\ deliveries > 0 \/ configSent = 1 => configInFlight = 1
  /\ configSent = 1 => deliveries > 0
  /\ deliveries > 0 => configSent = 1 \/ \E w \in Worker : delivered[w]
  /\ \A w \in Worker :
       /\ getConf[w] => /\ configInFlight = 1
                        /\ configSent = 0
                        /\ wpc[w] \in {"dial", "ask", "ready", "settle"}
                        /\ ~delivered[w] => deliveries = 0
       /\ delivered[w] => /\ getConf[w]
                          /\ deliveries > 0
                          /\ wpc[w] \in {"ready", "settle"}
       /\ wpc[w] = "ask" => getConf[w]

\* A step that leaves the flags, the history and the workers' claims alone, and
\* moves a worker only within the phases its claim allows, preserves RightInv.
FlagsUntouched ==
  UNCHANGED <<configSent, configInFlight, deliveries, getConf, delivered>>

LEMMA FlagsUntouchedPreserves ==
  ASSUME RightInv, FlagsUntouched,
         \A w \in Worker :
           \/ wpc'[w] = wpc[w]
           \/ ~getConf[w] /\ wpc'[w] # "ask"
           \/ getConf[w] /\ delivered[w] /\ wpc'[w] \in {"ready", "settle"}
           \/ getConf[w] /\ ~delivered[w] /\ wpc'[w] \in {"dial", "ask", "ready", "settle"}
  PROVE  RightInv'
BY DEF RightInv, FlagsUntouched, OneAsker, ConfigOnce, RightNotLost

LEMMA RightInvInit == Init => RightInv
BY DEF Init, RightInv, OneAsker, ConfigOnce, RightNotLost

LEMMA RightInvNext == TypeOK /\ CascadeInv /\ RightInv /\ [Next]_vars => RightInv'
<1> SUFFICES ASSUME TypeOK, CascadeInv, RightInv, [Next]_vars PROVE RightInv'
  OBVIOUS
<1> USE DEF groupVars, workerVars, configVars, coreVars
<1>1. ASSUME NEW g \in Group, GroupStep(g) PROVE RightInv'
  <2>1. FlagsUntouched
    BY <1>1 DEF GroupStep, TakeBaton, GiveUpWaiting, LeavePause, CancelledInPause,
                StartFetch, CancelledBeforeFetch, FetchOK, FetchFatal, FetchError,
                RetryFetch, CancelledInRetry, WorkersFinished, FlagsUntouched
  <2>2. \A w \in Worker : wpc'[w] = wpc[w] \/ (~getConf[w] /\ wpc'[w] # "ask")
    <3>1. CASE FetchOK(g)
      \* A worker that is started now was not running, so it holds nothing.
      <4> SUFFICES ASSUME NEW w \in Worker
                   PROVE  wpc'[w] = wpc[w] \/ (~getConf[w] /\ wpc'[w] # "ask")
        OBVIOUS
      <4>0. wpc'[w] = IF GroupOf[w] = g THEN "stagger" ELSE wpc[w]
        BY <3>1 DEF FetchOK
      <4>1. CASE GroupOf[w] = g
        <5>1. wpc[w] = "unborn"
          BY <3>1, <4>1 DEF FetchOK, GroupAt, CascadeInv, Started
        <5>2. ~getConf[w]
          BY <5>1 DEF RightInv
        <5>3. QED
          BY <4>0, <4>1, <5>2
      <4>2. CASE GroupOf[w] # g
        BY <4>0, <4>2
      <4>3. QED
        BY <4>1, <4>2
    <3>2. FetchOK(g) \/ UNCHANGED wpc
      BY <1>1 DEF GroupStep, TakeBaton, GiveUpWaiting, LeavePause,
           CancelledInPause, StartFetch, CancelledBeforeFetch, FetchFatal,
           FetchError, RetryFetch, CancelledInRetry, WorkersFinished
    <3>3. CASE UNCHANGED wpc
      BY <3>3
    <3>4. QED
      BY <3>1, <3>2, <3>3
  <2>3. QED
    BY <2>1, <2>2, FlagsUntouchedPreserves
<1>2. ASSUME NEW g \in Group, TimerFires(g) PROVE RightInv'
  BY <1>2, FlagsUntouchedPreserves DEF TimerFires, FlagsUntouched
<1>3. ASSUME NEW w \in Worker, WorkerStep(w) \/ SessionEnds(w) PROVE RightInv'
  <2> USE DEF WorkerAt
  <2>1. CASE EndStagger(w) \/ BeginIteration(w) \/ BeginRefresh(w)
             \/ EndRefresh(w) \/ WakeUp(w)
    <3>1. FlagsUntouched /\ wpc[w] \notin {"dial", "ask", "ready", "settle"}
      BY <2>1 DEF EndStagger, BeginIteration, BeginRefresh, EndRefresh, WakeUp,
                  FlagsUntouched
    <3>2. wpc'[w] # "ask" /\ \A v \in Worker : v # w => wpc'[v] = wpc[v]
      BY <2>1 DEF EndStagger, BeginIteration, BeginRefresh, EndRefresh, WakeUp, TypeOK
    <3>3. ~getConf[w]
      BY <3>1 DEF RightInv
    <3>4. QED
      BY <3>1, <3>2, <3>3, FlagsUntouchedPreserves
  <2>2. CASE DialFails(w) \/ ConfigRefused(w) \/ SessionEnds(w) \/ Handshake(w)
    <3>1. FlagsUntouched
      BY <2>2 DEF DialFails, ConfigRefused, SessionEnds, Handshake, FlagsUntouched
    <3>2. \A v \in Worker : v # w => wpc'[v] = wpc[v]
      BY <2>2 DEF DialFails, ConfigRefused, SessionEnds, Handshake, TypeOK
    <3>3. \/ wpc'[w] = "settle"
          \/ wpc[w] = "dial" /\ wpc'[w] = (IF getConf[w] THEN "ask" ELSE "ready")
      BY <2>2 DEF DialFails, ConfigRefused, SessionEnds, Handshake, TypeOK
    <3>4. wpc[w] = "dial" => ~delivered[w]
      BY DEF RightInv
    <3>5. getConf[w] \in BOOLEAN /\ delivered[w] \in BOOLEAN
      BY DEF TypeOK
    <3>6. QED
      BY <3>1, <3>2, <3>3, <3>4, <3>5, FlagsUntouchedPreserves
  <2>3. CASE ClaimRight(w)
    <3>1. ~getConf[w] /\ ~delivered[w]
      BY <2>3 DEF ClaimRight, RightInv
    <3>2. CASE configInFlight = 0
      \* The right is free: nobody holds it and nothing has arrived.
      <4>1. /\ \A v \in Worker : ~getConf[v] /\ ~delivered[v]
            /\ configSent = 0 /\ deliveries = 0
        BY <3>2 DEF RightInv, TypeOK
      <4>2. \A v \in Worker : /\ getConf'[v] <=> v = w
                              /\ wpc'[v] = IF v = w THEN "dial" ELSE wpc[v]
        BY <2>3, <3>2, <4>1 DEF ClaimRight, TypeOK
      <4>3. /\ UNCHANGED <<delivered, configSent, deliveries>>
            /\ configInFlight' = 1
        BY <2>3 DEF ClaimRight
      <4>4. QED
        BY <4>1, <4>2, <4>3 DEF RightInv, OneAsker, ConfigOnce, RightNotLost
    <3>3. CASE configInFlight = 1
      BY <2>3, <3>1, <3>3 DEF ClaimRight, RightInv, OneAsker, ConfigOnce,
                              RightNotLost, TypeOK
    <3>4. QED
      BY <3>2, <3>3 DEF TypeOK
  <2>4. CASE ConfigArrives(w)
    <3>1. getConf[w] /\ ~delivered[w] /\ deliveries = 0
      BY <2>4 DEF ConfigArrives, RightInv
    <3>2. QED
      BY <2>4, <3>1 DEF ConfigArrives, RightInv, OneAsker, ConfigOnce,
                        RightNotLost, TypeOK
  <2>5. CASE Settle(w)
    <3>1. /\ \A v \in Worker : v # w => wpc'[v] = wpc[v]
          /\ wpc'[w] # "ask"
      BY <2>5 DEF Settle, AfterSession, TypeOK, Outcome
    <3>2. CASE getConf[w] /\ delivered[w]
      \* The configuration is recorded; the flag in flight stays set for ever.
      <4>1. /\ configSent' = 1 /\ configInFlight' = 1
            /\ UNCHANGED deliveries /\ deliveries > 0
        BY <2>5, <3>2 DEF Settle, RightInv, TypeOK
      <4>2. \A v \in Worker : ~getConf'[v] /\ ~delivered'[v]
        BY <2>5, <3>2 DEF Settle, RightInv, OneAsker, TypeOK
      <4>3. \A v \in Worker : wpc'[v] # "ask"
        BY <3>1, <3>2 DEF RightInv, OneAsker
      <4>4. QED
        BY <4>1, <4>2, <4>3 DEF RightInv, OneAsker, ConfigOnce, RightNotLost
    <3>3. CASE getConf[w] /\ ~delivered[w]
      BY <2>5, <3>1, <3>3 DEF Settle, RightInv, OneAsker, ConfigOnce,
                              RightNotLost, TypeOK
    <3>4. CASE ~getConf[w]
      BY <2>5, <3>1, <3>4 DEF Settle, RightInv, OneAsker, ConfigOnce,
                              RightNotLost, TypeOK
    <3>5. QED
      BY <3>2, <3>3, <3>4
  <2>6. QED
    BY <1>3, <2>1, <2>2, <2>3, <2>4, <2>5 DEF WorkerStep
<1>4. CASE CoreStep \/ Stop \/ PauseOrResume
  <2>1. FlagsUntouched /\ UNCHANGED wpc
    BY <1>4 DEF CoreStep, ConsumeConfig, ConsumerLeaves, AllGroupsReturned,
                MainReturns, Stop, PauseOrResume, FlagsUntouched
  <2>2. QED
    BY <2>1, FlagsUntouchedPreserves
<1>5. CASE UNCHANGED vars
  BY <1>5, FlagsUntouchedPreserves DEF vars, FlagsUntouched
<1>6. QED
  BY <1>1, <1>2, <1>3, <1>4, <1>5 DEF Next

\* RightInv holds in every reachable state.
LEMMA RightInvariant == Spec => []RightInv
BY RightInvInit, RightInvNext, CascadeInvInit, CascadeInvNext, TypeCorrect,
   PTL DEF Spec

\* Never two workers at once hold the right to ask.
THEOREM ExclusiveAsker == Spec => []OneAsker
<1>1. RightInv => OneAsker
  BY DEF RightInv
<1>2. QED
  BY RightInvariant, <1>1, PTL

\* At most one configuration is ever received.
THEOREM ConfigReceivedOnce == Spec => []ConfigOnce
<1>1. RightInv => ConfigOnce
  BY DEF RightInv
<1>2. QED
  BY RightInvariant, <1>1, PTL

\* The right to ask is never lost.
THEOREM RightKept == Spec => []RightNotLost
<1>1. RightInv => RightNotLost
  BY DEF RightInv
<1>2. QED
  BY RightInvariant, <1>1, PTL

-----------------------------------------------------------------------------
(* The refinement of ConfigRight.                                           *)

\* The abstract holder is the one worker that has the right, until the
\* configuration has arrived.
LEMMA AskerIsHolder ==
  ASSUME RightInv
  PROVE  /\ \A w \in Worker : getConf[w] /\ deliveries = 0 => Asker = w
         /\ (\A w \in Worker : ~getConf[w]) \/ deliveries # 0 => Asker = Nobody
<1>1. ASSUME NEW w \in Worker PROVE Asking(w) <=> getConf[w] /\ deliveries = 0
  BY DEF RightInv, Asking
<1>2. QED
  BY <1>1 DEF RightInv, OneAsker, Asker

\* Every step either leaves the right alone or is one of the three that move it.
LEMMA RightSteps ==
  TypeOK /\ [Next]_vars =>
    \/ UNCHANGED <<deliveries, getConf, delivered>>
    \/ \E w \in Worker : ClaimRight(w) \/ ConfigArrives(w) \/ Settle(w)
<1> SUFFICES ASSUME TypeOK, [Next]_vars
             PROVE  \/ UNCHANGED <<deliveries, getConf, delivered>>
                    \/ \E w \in Worker : ClaimRight(w) \/ ConfigArrives(w) \/ Settle(w)
  OBVIOUS
<1> USE DEF groupVars, workerVars, configVars, coreVars
<1>1. ASSUME NEW g \in Group, GroupStep(g) \/ TimerFires(g)
      PROVE  UNCHANGED <<deliveries, getConf, delivered>>
  BY <1>1 DEF GroupStep, TakeBaton, GiveUpWaiting, LeavePause, CancelledInPause,
              StartFetch, CancelledBeforeFetch, FetchOK, FetchFatal, FetchError,
              RetryFetch, CancelledInRetry, WorkersFinished, TimerFires
<1>2. ASSUME NEW w \in Worker, WorkerStep(w) \/ SessionEnds(w)
      PROVE  \/ UNCHANGED <<deliveries, getConf, delivered>>
             \/ ClaimRight(w) \/ ConfigArrives(w) \/ Settle(w)
  BY <1>2 DEF WorkerStep, EndStagger, BeginIteration, DialFails, Handshake,
              ConfigRefused, BeginRefresh, EndRefresh, WakeUp, SessionEnds
<1>3. CASE CoreStep \/ Stop \/ PauseOrResume
  BY <1>3 DEF CoreStep, ConsumeConfig, ConsumerLeaves, AllGroupsReturned,
              MainReturns, Stop, PauseOrResume
<1>4. CASE UNCHANGED vars
  BY <1>4 DEF vars
<1>5. QED
  BY <1>1, <1>2, <1>3, <1>4 DEF Next

\* The two flags of Core.Start implement the abstract right to ask: every step
\* of the workers is a step of ConfigRight or leaves it unchanged.
THEOREM Refinement == Spec => ImplementsConfigRight
<1>1. Init => Right!Init
  BY DEF Init, Right!Init, Asker, Asking
<1>2. /\ TypeOK /\ RightInv /\ RightInv' /\ [Next]_vars
      => [Right!Next]_<<Asker, deliveries > 0>>
  <2> SUFFICES ASSUME TypeOK, RightInv, RightInv', [Next]_vars
               PROVE  Right!Next \/ UNCHANGED <<Asker, deliveries > 0>>
    OBVIOUS
  <2>1. /\ \A w \in Worker : getConf'[w] /\ deliveries' = 0 => Asker' = w
        /\ (\A w \in Worker : ~getConf'[w]) \/ deliveries' # 0 => Asker' = Nobody
    <3>1. ASSUME NEW w \in Worker PROVE Asking(w)' <=> getConf'[w] /\ deliveries' = 0
      BY DEF RightInv, Asking
    <3>2. QED
      BY <3>1 DEF RightInv, OneAsker, Asker
  <2>2. CASE UNCHANGED <<deliveries, getConf, delivered>>
    BY <2>2 DEF Asker, Asking
  <2>3. ASSUME NEW w \in Worker, ClaimRight(w)
        PROVE  Right!Next \/ UNCHANGED <<Asker, deliveries > 0>>
    <3>1. ~getConf[w] /\ getConf' = [getConf EXCEPT ![w] = (configInFlight = 0)]
          /\ UNCHANGED <<deliveries, delivered>>
      BY <2>3 DEF ClaimRight, WorkerAt, RightInv
    <3>2. CASE configInFlight = 0
      <4>0. getConf'[w]
        BY <3>1, <3>2, Zenon DEF TypeOK
      <4>1. deliveries = 0 /\ (\A v \in Worker : ~getConf[v]) /\ getConf'[w]
        BY <3>2, <4>0 DEF RightInv, TypeOK
      <4>2. Asker = Nobody /\ Asker' = w
        BY <2>1, <3>1, <4>1, AskerIsHolder
      <4>3. Right!Take(w)
        BY <3>1, <4>1, <4>2 DEF Right!Take
      <4>4. QED
        BY <4>3 DEF Right!Next
    <3>3. CASE configInFlight # 0
      BY <3>1, <3>3 DEF TypeOK, Asker, Asking
    <3>4. QED
      BY <3>2, <3>3
  <2>4. ASSUME NEW w \in Worker, ConfigArrives(w)
        PROVE  Right!Next \/ UNCHANGED <<Asker, deliveries > 0>>
    <3>1. getConf[w] /\ deliveries = 0 /\ deliveries' = 1
      BY <2>4 DEF ConfigArrives, WorkerAt, RightInv, TypeOK
    <3>2. Asker = w /\ Asker' = Nobody
      BY <2>1, <3>1, AskerIsHolder
    <3>3. Right!Spend(w)
      BY <3>1, <3>2 DEF Right!Spend
    <3>4. QED
      BY <3>3 DEF Right!Next
  <2>5. ASSUME NEW w \in Worker, Settle(w)
        PROVE  Right!Next \/ UNCHANGED <<Asker, deliveries > 0>>
    <3>1. UNCHANGED deliveries /\ getConf' = [getConf EXCEPT ![w] = FALSE]
          /\ delivered' = [delivered EXCEPT ![w] = FALSE]
      BY <2>5 DEF Settle
    <3>2. CASE ~getConf[w]
      <4>1. getConf' = getConf
        BY <3>1, <3>2 DEF TypeOK
      <4>2. delivered' = delivered
        BY <3>1, <3>2 DEF TypeOK, RightInv
      <4>3. QED
        BY <3>1, <4>1, <4>2 DEF Asker, Asking
    <3>3. CASE deliveries # 0
      BY <2>1, <3>1, <3>3, AskerIsHolder
    <3>4. CASE getConf[w] /\ deliveries = 0
      <4>1. \A v \in Worker : ~getConf'[v]
        BY <3>1, <3>4 DEF RightInv, OneAsker, TypeOK
      <4>2. Asker = w /\ Asker' = Nobody
        BY <2>1, <3>4, <4>1, AskerIsHolder
      <4>3. Right!GiveBack(w)
        BY <3>1, <3>4, <4>2 DEF Right!GiveBack
      <4>4. QED
        BY <4>3 DEF Right!Next
    <3>5. QED
      BY <3>2, <3>3, <3>4
  <2>6. QED
    BY <2>2, <2>3, <2>4, <2>5, RightSteps
<1>3. QED
  BY <1>1, <1>2, TypeCorrect, RightInvariant, PTL
     DEF Spec, ImplementsConfigRight, Right!Spec, Right!rightVars
=============================================================================
