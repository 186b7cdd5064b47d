---------------------------- MODULE SessionProofs ----------------------------
(***************************************************************************)
(* Proofs about the way a session ends, for both modes and any capacity of  *)
(* the semaphore of handshakes.                                             *)
(***************************************************************************)
EXTENDS Session, TLAPS

\* The semaphore counts the handshakes under way.
TokenInv ==
  /\ sem \in Nat
  /\ others \in Nat
  /\ TokenBalanced

Before == {"dial", "semaphore", "handshake", "config"}

\* Where RunSession is, which of its goroutines may exist: no slot and no proxy
\* before it is ready, all three while it waits for them, none once it has.
StageInv ==
  /\ main \in Before \cup {"proxy", "relays", "returned"}
  /\ main \in Before => slot = "none"
  /\ main = "proxy" => slot = "registered"
  /\ main = "relays" => slot = "registered" /\ cancelled
  /\ main = "returned" => slot \in {"none", "removed"} /\ active = 0 /\ cancelled
  /\ slot = "removed" => main = "returned"

ProxyInv ==
  /\ slot = "none" => reader = "none" /\ writer = "none" /\ keepalive = "none"
  /\ slot # "none" /\ main # "proxy"
       => reader = "done" /\ writer = "done" /\ keepalive = "done"

RelayInv ==
  /\ main \notin {"dial", "returned"} => binding # "none"
  /\ binding \in Goroutine /\ relayIn \in Goroutine /\ relayOut \in Goroutine
  /\ slot # "none" => binding # "none"
  /\ slot = "removed" => binding = "done" /\ relayIn # "running" /\ relayOut # "running"

\* An error is in the channel from the first failure of a transport on, and
\* RunSession returns what it finds there.
ErrorInv ==
  /\ broke => errCh # "empty" /\ slot # "none"
  /\ main = "returned" /\ slot = "removed" /\ errCh # "empty" => result = "error"

EndInv == StageInv /\ ProxyInv /\ RelayInv /\ ErrorInv

\* The initial states, no handshake of this session and none of its goroutines.
LEMMA InitInv == Init => TokenInv /\ EndInv
  BY HandshakeCapAssumption
  DEF Init, TokenInv, TokenBalanced, EndInv, StageInv, ProxyInv, RelayInv,
      ErrorInv, Before, Goroutine

\* Taking and giving back a token keeps the balance, on every path.
LEMMA TokenStep == TokenInv /\ [Next]_vars => TokenInv'
<1> SUFFICES ASSUME TokenInv, [Next]_vars PROVE TokenInv'
  OBVIOUS
<1> USE DEF TokenInv, TokenBalanced
<1>1. CASE MainStep
  BY <1>1, HandshakeCapAssumption
  DEF MainStep, DialFails, SetupFails, Dialled, AcquireToken, CancelledAtToken,
      HandshakeFails, HandshakeDone, ConfigRefused, Ready, ProxiesEnded,
      SessionOver, Return
<1>2. CASE OthersHandshake
  BY <1>2, HandshakeCapAssumption DEF OthersHandshake
<1>3. CASE UNCHANGED mainVars
  BY <1>3 DEF mainVars
<1>4. CASE UNCHANGED vars
  BY <1>4 DEF vars
<1>5. CASE ParentCancelled \/ BindingLeaves \/ RelayAfterFunc \/ RelayInEnds
           \/ RelayOutEnds \/ ConnAfterFunc \/ PacketArrives
  BY <1>3, <1>5 DEF ParentCancelled, BindingLeaves, RelayAfterFunc, RelayInEnds,
     RelayOutEnds, ConnAfterFunc, PacketArrives
<1>6. CASE ReaderStep \/ LongTimeout \/ ReaderFails
  BY <1>3, <1>6 DEF ReaderStep, ReaderArms, ReaderReads, ReaderDelivers,
     ReaderLeaves, PromptTimeout, LongTimeout, ReaderTimesOut, ReaderFails
<1>7. CASE WriterFails \/ WriterLeaves \/ KeepaliveFails
  BY <1>3, <1>7 DEF WriterFails, WriterLeaves, KeepaliveFails
<1>8. QED
  BY <1>1, <1>2, <1>4, <1>5, <1>6, <1>7 DEF Next

\* RunSession's own steps.
LEMMA MainKeeps == EndInv /\ MainStep => EndInv'
<1> SUFFICES ASSUME EndInv, MainStep PROVE EndInv'
  OBVIOUS
<1> USE DEF EndInv, StageInv, ProxyInv, RelayInv, ErrorInv, Before, Goroutine
<1>1. CASE DialFails
  BY <1>1 DEF DialFails, Return, relayVars, proxyVars
<1>2. CASE SetupFails \/ Dialled
  BY <1>2 DEF SetupFails, Dialled, Return, proxyVars
<1>3. CASE AcquireToken
  BY <1>3 DEF AcquireToken, relayVars, proxyVars
<1>4. CASE CancelledAtToken
  BY <1>4 DEF CancelledAtToken, Return, relayVars, proxyVars
<1>5. CASE HandshakeFails
  BY <1>5 DEF HandshakeFails, Return, relayVars, proxyVars
<1>6. CASE HandshakeDone
  BY <1>6 DEF HandshakeDone, relayVars, proxyVars
<1>7. CASE ConfigRefused
  BY <1>7 DEF ConfigRefused, Return, relayVars, proxyVars
<1>8. CASE Ready
  BY <1>8 DEF Ready, relayVars
<1>9. CASE ProxiesEnded
  <2>1. reader = "done" /\ writer = "done" /\ keepalive = "done"
    BY <1>9 DEF ProxiesEnded
  <2>2. QED
    BY <1>9, <2>1 DEF ProxiesEnded, relayVars, proxyVars
<1>10. CASE SessionOver
  <2>1. binding # "running" /\ relayIn # "running" /\ relayOut # "running"
    BY <1>10 DEF SessionOver
  <2>2. QED
    BY <1>10, <2>1 DEF SessionOver, Return, relayVars, proxyVars
<1>11. QED
  BY <1>1, <1>2, <1>3, <1>4, <1>5, <1>6, <1>7, <1>8, <1>9, <1>10 DEF MainStep

\* The goroutines' steps leave RunSession alone.
LEMMA GoroutinesKeep ==
  ASSUME EndInv,
         \/ ParentCancelled \/ OthersHandshake \/ BindingLeaves \/ RelayAfterFunc
         \/ RelayInEnds \/ RelayOutEnds \/ ConnAfterFunc \/ PacketArrives
         \/ ReaderStep \/ LongTimeout \/ ReaderFails
         \/ WriterFails \/ WriterLeaves \/ KeepaliveFails
  PROVE  EndInv'
<1> USE DEF EndInv, StageInv, ProxyInv, RelayInv, ErrorInv, Before, Goroutine
<1>1. CASE ParentCancelled
  BY <1>1 DEF ParentCancelled, mainVars, relayVars, proxyVars
<1>2. CASE OthersHandshake
  BY <1>2 DEF OthersHandshake, relayVars, proxyVars
<1>3. CASE BindingLeaves \/ RelayAfterFunc
  BY <1>3 DEF BindingLeaves, RelayAfterFunc, mainVars, proxyVars
<1>4. CASE RelayInEnds \/ RelayOutEnds
  BY <1>4 DEF RelayInEnds, RelayOutEnds, mainVars, proxyVars
<1>5. CASE ConnAfterFunc \/ PacketArrives
  BY <1>5 DEF ConnAfterFunc, PacketArrives, mainVars, relayVars
<1>6. CASE ReaderArms \/ ReaderReads \/ ReaderDelivers \/ ReaderLeaves
  BY <1>6 DEF ReaderArms, ReaderReads, ReaderDelivers, ReaderLeaves, mainVars, relayVars
<1>7. CASE ReaderTimesOut
  BY <1>7 DEF ReaderTimesOut, mainVars, relayVars
<1>8. CASE ReaderFails
  BY <1>8 DEF ReaderFails, TransportError, mainVars, relayVars
<1>9. CASE WriterFails
  BY <1>9 DEF WriterFails, TransportError, mainVars, relayVars
<1>10. CASE WriterLeaves \/ KeepaliveFails
  BY <1>10 DEF WriterLeaves, KeepaliveFails, mainVars, relayVars
<1>11. QED
  BY <1>1, <1>2, <1>3, <1>4, <1>5, <1>6, <1>7, <1>8, <1>9, <1>10
  DEF ReaderStep, PromptTimeout, LongTimeout

\* Every step keeps the invariant of the session's end.
LEMMA EndStep == EndInv /\ [Next]_vars => EndInv'
<1> SUFFICES ASSUME EndInv, [Next]_vars PROVE EndInv'
  OBVIOUS
<1>1. CASE UNCHANGED vars
  BY <1>1 DEF vars, EndInv, StageInv, ProxyInv, RelayInv, ErrorInv
<1>2. CASE MainStep
  BY <1>2, MainKeeps
<1>3. CASE Next /\ ~MainStep
  BY <1>3, GoroutinesKeep DEF Next
<1>4. QED
  BY <1>1, <1>2, <1>3

\* No path through RunSession leaks a token of the semaphore, or releases one
\* that another session holds.
THEOREM TokensBalanced == Spec => []TokenBalanced
<1>1. TokenInv => TokenBalanced
  BY DEF TokenInv
<1>2. QED
  BY <1>1, InitInv, TokenStep, PTL DEF Spec

\* A session that was ready returns after all its goroutines.
THEOREM GoroutinesEnd == Spec => []NobodyLeftBehind
<1>1. EndInv => NobodyLeftBehind
  BY DEF EndInv, StageInv, ProxyInv, RelayInv, NobodyLeftBehind, Goroutine
<1>2. QED
  BY <1>1, InitInv, EndStep, PTL DEF Spec

\* A transport's failure is never turned into a return without error.
THEOREM FailuresReported == Spec => []FailureReported
<1>1. EndInv => FailureReported
  BY DEF EndInv, StageInv, ErrorInv, FailureReported
<1>2. QED
  BY <1>1, InitInv, EndStep, PTL DEF Spec

-----------------------------------------------------------------------------
(* The types.                                                               *)

\* The balance keeps the tokens of the other sessions within the capacity.
TypeInv == TypeOK /\ TokenBalanced

LEMMA TypeInit == Init => TypeInv
<1> SUFFICES ASSUME Init PROVE TypeInv
  OBVIOUS
<1>1. /\ main = "dial" /\ getConfig \in BOOLEAN /\ cancelled = FALSE /\ relayPast = FALSE
      /\ connPast = FALSE /\ delivered = FALSE /\ broke = FALSE
  BY DEF Init
<1>2. {getConfig, cancelled, relayPast, connPast, delivered, broke} \subseteq BOOLEAN
  BY <1>1, Zenon
<1>3. others \in 0 .. HandshakeCap /\ sem = others /\ TokenBalanced
  BY HandshakeCapAssumption DEF Init, TokenBalanced
<1>4. /\ buffered \in 0 .. MaxBuffered
      /\ {binding, relayIn, relayOut, writer, keepalive} \subseteq Goroutine
  BY MaxBufferedAssumption DEF Init, Goroutine
<1>5. QED
  BY <1>1, <1>2, <1>3, <1>4 DEF Init, TypeInv, TypeOK

\* RunSession's steps, and the other sessions', keep the types.
LEMMA MainTypes == TypeInv /\ (MainStep \/ OthersHandshake) => TypeInv'
<1> SUFFICES ASSUME TypeInv, MainStep \/ OthersHandshake PROVE TypeInv'
  OBVIOUS
<1> USE HandshakeCapAssumption DEF TypeInv, TypeOK, TokenBalanced, Goroutine, relayVars, proxyVars
<1>1. CASE DialFails \/ CancelledAtToken \/ ConfigRefused
  <2>1. CASE DialFails
    BY <2>1 DEF DialFails, Return
  <2>2. CASE CancelledAtToken
    BY <2>2 DEF CancelledAtToken, Return
  <2>3. CASE ConfigRefused
    BY <2>3 DEF ConfigRefused, Return
  <2>4. QED
    BY <1>1, <2>1, <2>2, <2>3
<1>2. CASE SetupFails
  BY <1>2 DEF SetupFails, Return
<1>3. CASE Dialled
  BY <1>3 DEF Dialled
<1>4. CASE AcquireToken
  BY <1>4 DEF AcquireToken
<1>5. CASE HandshakeFails
  BY <1>5 DEF HandshakeFails, Return
<1>6. CASE HandshakeDone
  BY <1>6 DEF HandshakeDone
<1>7. CASE Ready
  BY <1>7 DEF Ready
<1>8. CASE ProxiesEnded
  BY <1>8 DEF ProxiesEnded
<1>9. CASE SessionOver
  BY <1>9 DEF SessionOver, Return
<1>10. CASE OthersHandshake
  BY <1>10 DEF OthersHandshake
<1>11. QED
  BY <1>1, <1>2, <1>3, <1>4, <1>5, <1>6, <1>7, <1>8, <1>9, <1>10 DEF MainStep

\* So do the steps of the goroutines and the parent's cancellation.
LEMMA GoroutineTypes ==
  ASSUME TypeInv,
         \/ ParentCancelled \/ BindingLeaves \/ RelayAfterFunc
         \/ RelayInEnds \/ RelayOutEnds \/ ConnAfterFunc \/ PacketArrives
         \/ ReaderStep \/ LongTimeout \/ ReaderFails
         \/ WriterFails \/ WriterLeaves \/ KeepaliveFails
  PROVE  TypeInv'
<1> USE DEF TypeInv, TypeOK, TokenBalanced, Goroutine, mainVars
<1>1. CASE ParentCancelled \/ BindingLeaves \/ RelayAfterFunc
  <2>1. CASE ParentCancelled
    BY <2>1 DEF ParentCancelled, relayVars, proxyVars
  <2>2. CASE BindingLeaves
    BY <2>2 DEF BindingLeaves, proxyVars
  <2>3. CASE RelayAfterFunc
    BY <2>3 DEF RelayAfterFunc, proxyVars
  <2>4. QED
    BY <1>1, <2>1, <2>2, <2>3
<1>2. CASE RelayInEnds \/ RelayOutEnds
  BY <1>2 DEF RelayInEnds, RelayOutEnds, proxyVars
<1>3. CASE ConnAfterFunc
  BY <1>3 DEF ConnAfterFunc, relayVars
<1>4. CASE PacketArrives
  BY <1>4, MaxBufferedAssumption DEF PacketArrives, relayVars
<1>5. CASE ReaderArms \/ ReaderReads \/ ReaderDelivers \/ ReaderLeaves
  BY <1>5, MaxBufferedAssumption
  DEF ReaderArms, ReaderReads, ReaderDelivers, ReaderLeaves, relayVars
<1>6. CASE ReaderTimesOut
  BY <1>6 DEF ReaderTimesOut, relayVars
<1>7. CASE ReaderFails
  BY <1>7 DEF ReaderFails, TransportError, relayVars
<1>8. CASE WriterFails
  BY <1>8 DEF WriterFails, TransportError, relayVars
<1>9. CASE WriterLeaves \/ KeepaliveFails
  BY <1>9 DEF WriterLeaves, KeepaliveFails, relayVars
<1>10. QED
  BY <1>1, <1>2, <1>3, <1>4, <1>5, <1>6, <1>7, <1>8, <1>9
  DEF ReaderStep, PromptTimeout, LongTimeout

\* Every goroutine is where RunSession knows it, the semaphore and the buffer
\* of received packets keep within their capacities.
THEOREM TypeCorrect == Spec => []TypeOK
<1>1. TypeInv /\ [Next]_vars => TypeInv'
  <2> SUFFICES ASSUME TypeInv, [Next]_vars PROVE TypeInv'
    OBVIOUS
  <2>1. CASE UNCHANGED vars
    BY <2>1 DEF vars, TypeInv, TypeOK, TokenBalanced, Goroutine
  <2>2. CASE MainStep \/ OthersHandshake
    BY <2>2, MainTypes
  <2>3. CASE Next /\ ~(MainStep \/ OthersHandshake)
    BY <2>3, GoroutineTypes DEF Next
  <2>4. QED
    BY <2>1, <2>2, <2>3
<1>2. TypeInv => TypeOK
  BY DEF TypeInv
<1>3. QED
  BY <1>1, <1>2, TypeInit, PTL DEF Spec

-----------------------------------------------------------------------------
(* The contract.  What a session holds follows from where it is; its steps  *)
(* are the contract's, or of no concern to its worker.                      *)

Dialling == {"dial", "semaphore", "handshake"}

\* A connection counts from the end of its handshake to the return, and nothing
\* is delivered before the session is ready.
CountInv ==
  /\ main \in Dialling => active = 0
  /\ main \in {"config", "proxy", "relays"} => active = 1
  /\ main \in Before => delivered = FALSE
  /\ getConfig \in BOOLEAN

ContractInv == TokenInv /\ EndInv /\ CountInv

LEMMA CountStep == EndInv /\ CountInv /\ [Next]_vars => CountInv'
<1> SUFFICES ASSUME EndInv, CountInv, [Next]_vars PROVE CountInv'
  OBVIOUS
<1> USE DEF CountInv, Before, Dialling
<1>1. CASE MainStep
  BY <1>1
  DEF MainStep, DialFails, SetupFails, Dialled, AcquireToken, CancelledAtToken,
      HandshakeFails, HandshakeDone, ConfigRefused, Ready, ProxiesEnded,
      SessionOver, Return
<1>2. CASE UNCHANGED <<main, getConfig, active, delivered>>
  BY <1>2
<1>3. CASE ParentCancelled \/ OthersHandshake \/ BindingLeaves \/ RelayAfterFunc
           \/ RelayInEnds \/ RelayOutEnds \/ ConnAfterFunc \/ PacketArrives
  BY <1>2, <1>3 DEF ParentCancelled, OthersHandshake, BindingLeaves, RelayAfterFunc,
     RelayInEnds, RelayOutEnds, ConnAfterFunc, PacketArrives, mainVars
<1>4. CASE ReaderStep \/ LongTimeout \/ ReaderFails
  BY <1>2, <1>4 DEF ReaderStep, ReaderArms, ReaderReads, ReaderDelivers, ReaderLeaves,
     PromptTimeout, LongTimeout, ReaderTimesOut, ReaderFails, mainVars
<1>5. CASE WriterFails \/ WriterLeaves \/ KeepaliveFails \/ UNCHANGED vars
  BY <1>2, <1>5 DEF WriterFails, WriterLeaves, KeepaliveFails, mainVars, vars
<1>6. QED
  BY <1>1, <1>3, <1>4, <1>5 DEF Next

\* In every stage the session holds what the stage needs and nothing else.
HoldsItsOwn ==
  Stage \in DOMAIN Contract!MayHold /\ Holds \in Contract!MayHold[Stage]

LEMMA HoldsInStage == ContractInv => HoldsItsOwn
<1> SUFFICES ASSUME ContractInv PROVE HoldsItsOwn
  OBVIOUS
<1> USE DEF HoldsItsOwn
<1>1. /\ "token" \in Holds <=> main = "handshake"
      /\ "count" \in Holds <=> active = 1
      /\ "slot" \in Holds <=> slot = "registered"
      /\ Holds \subseteq {"token", "count", "slot", "context"}
  BY DEF ContractInv, TokenInv, TokenBalanced, Holds
<1>2. CASE main \in Dialling \/ (main = "config" /\ ~getConfig)
  <2>1. Stage = "dial"
    BY <1>2 DEF Dialling, Stage
  <2>2. "slot" \notin Holds /\ ~({"token", "count"} \subseteq Holds)
    BY <1>1, <1>2 DEF ContractInv, CountInv, EndInv, StageInv, Before, Dialling
  <2>3. QED
    BY <1>1, <2>1, <2>2 DEF Contract!MayHold
<1>3. CASE main = "config" /\ getConfig
  <2>1. Stage = "ask"
    BY <1>3 DEF Stage
  <2>2. "token" \notin Holds /\ "slot" \notin Holds /\ "count" \in Holds
    BY <1>1, <1>3 DEF ContractInv, CountInv, EndInv, StageInv, Before
  <2>3. Holds = {"count"} \/ Holds = {"count", "context"}
    BY <1>1, <2>2
  <2>4. QED
    BY <2>1, <2>3 DEF Contract!MayHold
<1>4. CASE main \in {"proxy", "relays"}
  <2>1. Stage = "ready"
    BY <1>4 DEF Stage
  <2>2. "token" \notin Holds /\ "slot" \in Holds /\ "count" \in Holds
    BY <1>1, <1>4 DEF ContractInv, CountInv, EndInv, StageInv
  <2>3. Holds = {"count", "slot"} \/ Holds = {"count", "slot", "context"}
    BY <1>1, <2>2
  <2>4. QED
    BY <2>1, <2>3 DEF Contract!MayHold
<1>5. CASE main = "returned"
  <2>1. Stage = "settle"
    BY <1>5 DEF Stage
  <2>2. Holds = {}
    BY <1>1, <1>5 DEF ContractInv, EndInv, StageInv, Holds
  <2>3. QED
    BY <2>1, <2>2 DEF Contract!MayHold
<1>6. QED
  BY <1>2, <1>3, <1>4, <1>5 DEF ContractInv, EndInv, StageInv, Before, Dialling

\* So it does after a step.
LEMMA HoldsAfter == ContractInv' => HoldsItsOwn'
  BY HoldsInStage, PTL

\* A step from stage to stage, or within one.
LEMMA MovesBetween ==
  ASSUME ContractInv, ContractInv', UNCHANGED getConfig
  PROVE  Contract!Moves(Stage, Stage')
BY HoldsInStage, HoldsAfter DEF HoldsItsOwn, Contract!Moves

\* What a step takes or gives back without leaving its stage.
LEMMA WorksInStage ==
  ASSUME ContractInv, ContractInv', Stage' = Stage, UNCHANGED <<getConfig, delivered, result>>
  PROVE  Contract!Works
BY MovesBetween, HoldsInStage DEF HoldsItsOwn, Contract!Works

\* RunSession's steps, one by one: where they come from, where they lead, and
\* what they tell the worker.
LEMMA MainRefines ==
  ASSUME ContractInv, ContractInv', MainStep
  PROVE  Contract!Next
<1> USE DEF Stage, Contract!Next
<1>1. CASE DialFails \/ SetupFails \/ CancelledAtToken \/ HandshakeFails \/ ConfigRefused
  <2>1. /\ UNCHANGED <<getConfig, delivered>> /\ main' = "returned" /\ result' = "error"
        /\ main \in Before /\ (main = "config" => getConfig)
    BY <1>1 DEF DialFails, SetupFails, CancelledAtToken, HandshakeFails, ConfigRefused,
                Return, Before
  <2>2. Stage \in {"dial", "ask"} /\ Stage' = "settle"
    BY <2>1 DEF Before
  <2>3. QED
    BY <2>1, <2>2, MovesBetween DEF Contract!Fails
<1>2. CASE Dialled \/ HandshakeDone
  <2>1. /\ UNCHANGED <<getConfig, delivered, result>> /\ main \in Dialling
        /\ main' \in {"semaphore", "config"}
    BY <1>2 DEF Dialled, HandshakeDone, Dialling
  <2>2. Stage = "dial"
    BY <2>1 DEF Dialling
  <2>3. CASE main' = "config" /\ getConfig
    <3>1. Stage' = "ask"
      BY <2>1, <2>3
    <3>2. QED
      BY <2>1, <2>2, <2>3, <3>1, MovesBetween DEF Contract!Connects
  <2>4. CASE ~(main' = "config" /\ getConfig)
    <3>1. Stage' = "dial"
      BY <2>1, <2>4
    <3>2. QED
      BY <2>1, <2>2, <3>1, WorksInStage
  <2>5. QED
    BY <2>3, <2>4
<1>3. CASE AcquireToken
  <2>1. Stage' = Stage /\ UNCHANGED <<getConfig, delivered, result>>
    BY <1>3 DEF AcquireToken
  <2>2. QED
    BY <2>1, WorksInStage
<1>4. CASE Ready
  <2>1. /\ UNCHANGED <<getConfig, result>> /\ main = "config" /\ delivered' = getConfig
        /\ Stage' = "ready"
    BY <1>4 DEF Ready
  <2>2. CASE getConfig
    <3>1. Stage = "ask" /\ delivered' = TRUE
      BY <2>1, <2>2 DEF ContractInv, CountInv
    <3>2. QED
      BY <2>1, <3>1, MovesBetween DEF Contract!ConfigArrives
  <2>3. CASE ~getConfig
    <3>1. Stage = "dial" /\ delivered' = delivered
      BY <2>1, <2>3 DEF ContractInv, CountInv, Before
    <3>2. QED
      BY <2>1, <2>3, <3>1, MovesBetween DEF Contract!Connects
  <2>4. QED
    BY <2>2, <2>3
<1>5. CASE ProxiesEnded
  <2>1. Stage' = Stage /\ UNCHANGED <<getConfig, delivered, result>>
    BY <1>5 DEF ProxiesEnded
  <2>2. QED
    BY <2>1, WorksInStage
<1>6. CASE SessionOver
  <2>1. /\ UNCHANGED <<getConfig, delivered>> /\ Stage = "ready" /\ Stage' = "settle"
        /\ result' \in {"nil", "error"}
    BY <1>6 DEF SessionOver, Return
  <2>2. QED
    BY <2>1, MovesBetween DEF Contract!Ends
<1>7. QED
  BY <1>1, <1>2, <1>3, <1>4, <1>5, <1>6 DEF MainStep

\* Every other step leaves RunSession where it is.
LEMMA StepRefines ==
  ASSUME ContractInv, ContractInv', [Next]_vars
  PROVE  [Contract!Next]_Contract!vars
<1>1. CASE MainStep
  BY <1>1, MainRefines
<1>2. CASE UNCHANGED <<main, getConfig, delivered, result>>
  <2>1. Stage' = Stage
    BY <1>2 DEF Stage
  <2>2. QED
    BY <1>2, <2>1, WorksInStage DEF Contract!Next
<1>3. CASE ParentCancelled \/ OthersHandshake \/ BindingLeaves \/ RelayAfterFunc
           \/ RelayInEnds \/ RelayOutEnds \/ ConnAfterFunc \/ PacketArrives
  BY <1>2, <1>3 DEF ParentCancelled, OthersHandshake, BindingLeaves, RelayAfterFunc,
     RelayInEnds, RelayOutEnds, ConnAfterFunc, PacketArrives, mainVars
<1>4. CASE ReaderStep \/ LongTimeout \/ ReaderFails
  BY <1>2, <1>4 DEF ReaderStep, ReaderArms, ReaderReads, ReaderDelivers, ReaderLeaves,
     PromptTimeout, LongTimeout, ReaderTimesOut, ReaderFails, mainVars
<1>5. CASE WriterFails \/ WriterLeaves \/ KeepaliveFails \/ UNCHANGED vars
  BY <1>2, <1>5 DEF WriterFails, WriterLeaves, KeepaliveFails, mainVars, vars
<1>6. QED
  BY <1>1, <1>3, <1>4, <1>5 DEF Next

\* In both modes, and however its goroutines, its parent and the other sessions
\* interleave, a session keeps the contract its worker relies on.
THEOREM Implements == Spec => ImplementsSession
<1>1. Init => ContractInv /\ Contract!Init
  <2> SUFFICES ASSUME Init PROVE ContractInv /\ Contract!Init
    OBVIOUS
  <2>1. ContractInv
    BY InitInv DEF Init, ContractInv, CountInv, Before, Dialling
  <2>2. Holds = {"context"}
    BY DEF Init, Holds
  <2>3. Stage = "dial" /\ delivered = FALSE /\ result = "none"
    BY DEF Init, Stage
  <2>4. getConfig \in BOOLEAN
    BY DEF Init
  <2>5. QED
    BY <2>1, <2>2, <2>3, <2>4 DEF Contract!Init
<1>2. ContractInv /\ [Next]_vars => ContractInv'
  BY TokenStep, EndStep, CountStep DEF ContractInv
<1>3. ContractInv /\ ContractInv' /\ [Next]_vars => [Contract!Next]_Contract!vars
  BY StepRefines
<1>4. QED
  BY <1>1, <1>2, <1>3, PTL DEF Spec, ImplementsSession, Contract!Spec
=============================================================================
