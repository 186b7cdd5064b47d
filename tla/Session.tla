------------------------------ MODULE Session ------------------------------
(***************************************************************************)
(* One session of a worker (wdtt-client/src/core/session.go, RunSession):   *)
(* the goroutine that brings it up and waits for its end, the goroutines    *)
(* that carry its packets, and what they share: the context sessCtx, the    *)
(* deadline of the tunnel connection, the error channel, the semaphore of   *)
(* handshakes (shared with all other sessions) and the dispatcher's slot.   *)
(*                                                                         *)
(* Abstracted: TURN, DTLS and the packets (a call succeeds or fails), and   *)
(* durations: a deadline lies in the past or 30 minutes ahead.              *)
(***************************************************************************)
EXTENDS Naturals

CONSTANTS RawMode,       \* tp.RawMode: no DTLS, hence no handshake and no relay pipes
          HandshakeCap,  \* capacity of handshakeSem (3)
          MaxBuffered    \* bound: packets received and not yet read

ASSUME RawModeAssumption      == RawMode \in BOOLEAN
ASSUME HandshakeCapAssumption == HandshakeCap \in Nat \ {0}
ASSUME MaxBufferedAssumption  == MaxBuffered \in Nat \ {0}

VARIABLES
  main,        \* RunSession itself
  getConfig,   \* the argument: this worker holds the right to ask
  cancelled,   \* sessCtx is done, by itself or by its parent
  others,      \* tokens of handshakeSem other sessions hold
  sem,         \* tokens in handshakeSem
  binding,     \* the goroutine that sends TURN binding requests
  relayIn,     \* relay -> pipe
  relayOut,    \* pipe -> relay
  relayPast,   \* AfterFunc set the relay's and the pipe's deadlines to now
  connPast,    \* AfterFunc set the connection's deadline to now
  buffered,    \* packets activeConn has received and the reader has not read
  readDeadline,\* the read deadline of activeConn
  reader,      \* tunnel -> dispatcher
  writer,      \* dispatcher -> tunnel
  keepalive,   \* the goroutine that sends a ping every 15 s
  slot,        \* the slot in the dispatcher
  active,      \* this session's share of stats.ActiveConnections
  errCh,       \* sessionErrCh, capacity 1
  result,      \* the error RunSession returned
  delivered,   \* configDelivered
  broke        \* history: a transport failed before the session was cancelled

vars == <<main, getConfig, cancelled, others, sem, binding, relayIn, relayOut,
          relayPast, connPast, buffered, readDeadline, reader, writer, keepalive, slot,
          active, errCh, result, delivered, broke>>

mainVars  == <<main, getConfig, others, sem, slot, active, result, delivered>>
relayVars == <<binding, relayIn, relayOut, relayPast>>
proxyVars == <<connPast, buffered, readDeadline, reader, writer, keepalive, errCh, broke>>

Init ==
  /\ main = "dial"
  /\ getConfig \in BOOLEAN
  /\ cancelled = FALSE
  /\ others \in 0 .. HandshakeCap
  /\ sem = others
  /\ binding = "none"
  /\ relayIn = "none"
  /\ relayOut = "none"
  /\ relayPast = FALSE
  /\ connPast = FALSE
  /\ buffered = 0
  /\ readDeadline = "none"
  /\ reader = "none"
  /\ writer = "none"
  /\ keepalive = "none"
  /\ slot = "none"
  /\ active = 0
  /\ errCh = "empty"
  /\ result = "none"
  /\ delivered = FALSE
  /\ broke = FALSE

-----------------------------------------------------------------------------
(* RunSession.                                                              *)

\* Broken variant of Return: the slot is not taken out of the dispatcher.
ReturnKeepsSlot(err) ==
  /\ main' = "returned"
  /\ result' = err
  /\ cancelled' = TRUE
  /\ slot' = slot
  /\ active' = 0

\* Leave with this error: the deferred calls cancel sessCtx, remove the slot,
\* take back the count and close relay and pipes.
Return(err) ==
  /\ main' = "returned"
  /\ result' = err
  /\ cancelled' = TRUE
  /\ slot' = IF slot = "registered" THEN "removed" ELSE slot
  /\ active' = 0

\* Blacklist, TURN dial, allocate gate and Allocate, up to a relay.
DialFails ==
  /\ main = "dial"
  /\ Return("error")
  /\ UNCHANGED <<getConfig, others, sem, delivered, relayVars, proxyVars>>

Dialled ==
  /\ main = "dial"
  /\ binding' = "running"
  /\ IF RawMode
     THEN /\ main' = "config"
          /\ active' = 1
          /\ UNCHANGED <<relayIn, relayOut>>
     ELSE /\ main' = "semaphore"
          /\ relayIn' = "running"
          /\ relayOut' = "running"
          /\ UNCHANGED active
  /\ UNCHANGED <<getConfig, cancelled, others, sem, slot, result, delivered,
                 relayPast, proxyVars>>

\* No obfuscation key or no certificate: with the relay pipes running or not yet.
SetupFails ==
  /\ main = "dial"
  /\ binding' = "running"
  /\ \E pipes \in IF RawMode THEN {"none"} ELSE {"none", "running"} :
        relayIn' = pipes /\ relayOut' = pipes
  /\ Return("error")
  /\ UNCHANGED <<getConfig, others, sem, delivered, relayPast, proxyVars>>

\* Broken variant of AcquireToken: the semaphore's capacity is ignored.
AcquireTokenAlways ==
  /\ main = "semaphore"
  /\ sem' = sem + 1
  /\ main' = "handshake"
  /\ UNCHANGED <<getConfig, cancelled, others, slot, active, result, delivered,
                 relayVars, proxyVars>>

\* The token of the handshake, or the end of the session.
AcquireToken ==
  /\ main = "semaphore"
  /\ sem < HandshakeCap
  /\ sem' = sem + 1
  /\ main' = "handshake"
  /\ UNCHANGED <<getConfig, cancelled, others, slot, active, result, delivered,
                 relayVars, proxyVars>>

CancelledAtToken ==
  /\ main = "semaphore"
  /\ cancelled
  /\ Return("error")
  /\ UNCHANGED <<getConfig, others, sem, delivered, relayVars, proxyVars>>

\* Broken variant of HandshakeFails: the early return keeps the token.
HandshakeFailsWithToken ==
  /\ main = "handshake"
  /\ Return("error")
  /\ UNCHANGED <<getConfig, others, sem, delivered, relayVars, proxyVars>>

\* dtls.Client or HandshakeContext (50 s) fails; either releases the token.
HandshakeFails ==
  /\ main = "handshake"
  /\ sem' = sem - 1
  /\ Return("error")
  /\ UNCHANGED <<getConfig, others, delivered, relayVars, proxyVars>>

\* HandshakeContext runs under a child of sessCtx, over pipes whose deadline the
\* cancellation sets to now: a session cancelled before it succeeds fails.
HandshakeDone ==
  /\ main = "handshake"
  /\ ~cancelled
  /\ sem' = sem - 1
  /\ main' = "config"
  /\ active' = 1
  /\ UNCHANGED <<getConfig, cancelled, others, slot, result, delivered,
                 relayVars, proxyVars>>

\* No configuration within 15 s, NOCONF or DENIED: the session ends.
ConfigRefused ==
  /\ main = "config"
  /\ getConfig
  /\ Return("error")
  /\ UNCHANGED <<getConfig, others, sem, delivered, relayVars, proxyVars>>

\* The configuration, or AUTH whose failure is ignored: the slot is registered
\* and the three proxy goroutines start.  A connection whose context is done
\* already gets its deadline from the AfterFunc just the same.
Ready ==
  /\ main = "config"
  /\ delivered' = getConfig
  /\ main' = "proxy"
  /\ slot' = "registered"
  /\ reader' = "arm"
  /\ writer' = "running"
  /\ keepalive' = "running"
  /\ UNCHANGED <<getConfig, cancelled, others, sem, active, result, relayVars,
                 connPast, buffered, readDeadline, errCh, broke>>

\* proxyWg.Wait(); sessCancel().
ProxiesEnded ==
  /\ main = "proxy"
  /\ {reader, writer, keepalive} = {"done"}
  /\ main' = "relays"
  /\ cancelled' = TRUE
  /\ UNCHANGED <<getConfig, others, sem, slot, active, result, delivered,
                 relayVars, proxyVars>>

\* Broken variant of SessionOver: relayWg.Wait() is missing.
SessionOverHasty ==
  /\ main = "relays"
  /\ binding = "done"
  /\ Return(IF errCh = "empty" THEN "nil" ELSE "error")
  /\ UNCHANGED <<getConfig, others, sem, delivered, relayVars, proxyVars>>

\* relayWg.Wait(), sessionWg.Wait(), and the first error or none.
SessionOver ==
  /\ main = "relays"
  /\ {binding, relayIn, relayOut} \subseteq {"done", "none"}
  /\ Return(IF errCh = "empty" THEN "nil" ELSE "error")
  /\ UNCHANGED <<getConfig, others, sem, delivered, relayVars, proxyVars>>

MainStep ==
  \/ DialFails \/ SetupFails \/ Dialled
  \/ AcquireToken \/ CancelledAtToken
  \/ HandshakeFails \/ HandshakeDone
  \/ ConfigRefused \/ Ready
  \/ ProxiesEnded \/ SessionOver

\* The parent's context is cancelled: Core.Stop, or every group ended.
ParentCancelled ==
  /\ ~cancelled
  /\ cancelled' = TRUE
  /\ UNCHANGED <<mainVars, relayVars, proxyVars>>

\* Other sessions take and release tokens.
OthersHandshake ==
  /\ \/ sem < HandshakeCap /\ others' = others + 1 /\ sem' = sem + 1
     \/ others > 0 /\ others' = others - 1 /\ sem' = sem - 1
  /\ UNCHANGED <<main, getConfig, cancelled, slot, active, result, delivered,
                 relayVars, proxyVars>>

-----------------------------------------------------------------------------
(* The relay goroutines and the binding requests.                           *)

BindingLeaves ==
  /\ binding = "running"
  /\ cancelled
  /\ binding' = "done"
  /\ UNCHANGED <<mainVars, cancelled, relayIn, relayOut, relayPast, proxyVars>>

RelayAfterFunc ==
  /\ cancelled
  /\ ~RawMode
  /\ relayIn # "none"
  /\ ~relayPast
  /\ relayPast' = TRUE
  /\ UNCHANGED <<mainVars, cancelled, binding, relayIn, relayOut, proxyVars>>

\* A relay goroutine ends when its connection fails, or because its deadline
\* has passed or the connection was closed by RunSession's return.
RelayInEnds ==
  /\ relayIn = "running"
  /\ relayIn' = "done"
  /\ cancelled' = TRUE
  /\ UNCHANGED <<mainVars, binding, relayOut, relayPast, proxyVars>>

RelayOutEnds ==
  /\ relayOut = "running"
  /\ relayOut' = "done"
  /\ cancelled' = TRUE
  /\ UNCHANGED <<mainVars, binding, relayIn, relayPast, proxyVars>>

RelayUnblocked == relayPast \/ main = "returned"

-----------------------------------------------------------------------------
(* The tunnel connection.                                                   *)

\* SetDeadline(now), once, in a goroutine of its own.
ConnAfterFunc ==
  /\ cancelled
  /\ slot # "none"
  /\ ~connPast
  /\ connPast' = TRUE
  /\ readDeadline' = "past"
  /\ UNCHANGED <<mainVars, cancelled, relayVars, buffered, reader, writer, keepalive, errCh, broke>>

\* Broken variant of TransportError: sessionErrCh without a buffer, so that the
\* non-blocking send finds nobody to receive it.
TransportErrorDropped(who) ==
  /\ errCh' = errCh
  /\ broke' = (broke \/ ~cancelled)
  /\ cancelled' = TRUE

\* A transport's error goes into the channel unless one is there already, and
\* the goroutine's deferred sessCancel ends the session.
TransportError(who) ==
  /\ errCh' = IF errCh = "empty" THEN who ELSE errCh
  /\ broke' = (broke \/ ~cancelled)
  /\ cancelled' = TRUE

\* Packets come through the relay, in RAW mode as long as it is open.
PacketArrives ==
  /\ IF RawMode THEN main # "returned" ELSE relayIn = "running"
  /\ slot # "none"
  /\ buffered < MaxBuffered
  /\ buffered' = buffered + 1
  /\ UNCHANGED <<mainVars, cancelled, relayVars, connPast, readDeadline, reader,
                 writer, keepalive, errCh, broke>>

\* Reader: SetReadDeadline(now + sessionReadTimeout) before every Read.
ReaderArms ==
  /\ reader = "arm"
  /\ reader' = "read"
  /\ readDeadline' = "long"
  /\ UNCHANGED <<mainVars, cancelled, relayVars, connPast, buffered, writer, keepalive, errCh, broke>>

\* A keepalive's echo is skipped, any other packet goes to the dispatcher.
ReaderReads ==
  /\ reader = "read"
  /\ buffered > 0
  /\ buffered' = buffered - 1
  /\ reader' \in {"arm", "deliver"}
  /\ UNCHANGED <<mainVars, cancelled, relayVars, connPast, readDeadline, writer,
                 keepalive, errCh, broke>>

\* The select on ReturnCh and sessCtx.Done().
ReaderDelivers ==
  /\ reader = "deliver"
  /\ reader' = "arm"
  /\ UNCHANGED <<mainVars, cancelled, relayVars, connPast, buffered, readDeadline, writer,
                 keepalive, errCh, broke>>

ReaderLeaves ==
  /\ reader = "deliver"
  /\ cancelled
  /\ reader' = "done"
  /\ UNCHANGED <<mainVars, cancelled, relayVars, connPast, buffered, readDeadline, writer,
                 keepalive, errCh, broke>>

\* Broken variant of ReaderTimesOut: every timeout is taken for an idle line.
ReaderAlwaysRetries ==
  /\ reader = "read"
  /\ reader' = "arm"
  /\ UNCHANGED <<mainVars, cancelled, relayVars, connPast, buffered, readDeadline, writer,
                 keepalive, errCh, broke>>

\* A timeout ends the reader of a cancelled session; any other reads on.
ReaderTimesOut ==
  /\ reader = "read"
  /\ reader' = IF cancelled THEN "done" ELSE "arm"
  /\ UNCHANGED <<mainVars, cancelled, relayVars, connPast, buffered, readDeadline, writer,
                 keepalive, errCh, broke>>

PromptTimeout == readDeadline = "past" /\ ReaderTimesOut
LongTimeout   == readDeadline = "long" /\ ReaderTimesOut

\* EOF, close_notify, a dead relay: silent if the session was cancelled.
ReaderFails ==
  /\ reader = "read"
  /\ reader' = "done"
  /\ IF cancelled THEN UNCHANGED <<errCh, broke, cancelled>> ELSE TransportError("reader")
  /\ UNCHANGED <<mainVars, relayVars, connPast, buffered, readDeadline, writer, keepalive>>

ReaderStep ==
  ReaderArms \/ ReaderReads \/ ReaderDelivers \/ ReaderLeaves \/ PromptTimeout

\* Writer: a packet it cannot write ends the session.
WriterFails ==
  /\ writer = "running"
  /\ writer' = "done"
  /\ TransportError("writer")
  /\ UNCHANGED <<mainVars, relayVars, connPast, buffered, readDeadline, reader, keepalive>>

WriterLeaves ==
  /\ writer = "running"
  /\ cancelled
  /\ writer' = "done"
  /\ UNCHANGED <<mainVars, cancelled, relayVars, connPast, buffered, readDeadline, reader,
                 keepalive, errCh, broke>>

\* Keepalive: a ping that cannot be written ends this goroutine only.
KeepaliveFails ==
  /\ keepalive = "running"
  /\ keepalive' = "done"
  /\ UNCHANGED <<mainVars, cancelled, relayVars, connPast, buffered, readDeadline, reader,
                 writer, errCh, broke>>

KeepaliveLeaves == cancelled /\ KeepaliveFails

-----------------------------------------------------------------------------
Next ==
  \/ MainStep \/ ParentCancelled \/ OthersHandshake
  \/ BindingLeaves \/ RelayAfterFunc \/ RelayInEnds \/ RelayOutEnds
  \/ ConnAfterFunc
  \/ PacketArrives
  \/ ReaderStep \/ LongTimeout \/ ReaderFails
  \/ WriterFails \/ WriterLeaves
  \/ KeepaliveFails

Spec == Init /\ [][Next]_vars

\* Every goroutine that can move does; the dial, the handshake and the request
\* of the configuration have deadlines; a select that is again and again ready
\* on sessCtx.Done() takes it some day.  No packet, failure or cancellation is
\* promised, and nobody waits for the 30 minutes of the read deadline.
PromptFairness ==
  /\ WF_vars(MainStep)
  /\ WF_vars(BindingLeaves)
  /\ WF_vars(RelayAfterFunc)
  /\ WF_vars(RelayUnblocked /\ RelayInEnds)
  /\ WF_vars(RelayUnblocked /\ RelayOutEnds)
  /\ WF_vars(ConnAfterFunc)
  /\ WF_vars(ReaderStep)
  /\ SF_vars(ReaderLeaves)
  /\ WF_vars(WriterLeaves)
  /\ WF_vars(KeepaliveLeaves)

PromptSpec == Spec /\ PromptFairness

\* As PromptSpec, and 30 minutes do pass.
PatientSpec == PromptSpec /\ SF_vars(LongTimeout)

-----------------------------------------------------------------------------
(* Properties.                                                              *)

Goroutine == {"none", "running", "done"}

\* Type invariant; handshakeSem holds between 0 and its capacity.
TypeOK ==
  /\ main \in {"dial", "semaphore", "handshake", "config", "proxy", "relays", "returned"}
  /\ {getConfig, cancelled, relayPast, connPast, delivered, broke} \subseteq BOOLEAN
  /\ others \in 0 .. HandshakeCap
  /\ sem \in 0 .. HandshakeCap
  /\ buffered \in 0 .. MaxBuffered
  /\ {binding, relayIn, relayOut, writer, keepalive} \subseteq Goroutine
  /\ readDeadline \in {"none", "long", "past"}
  /\ reader \in {"none", "arm", "read", "deliver", "done"}
  /\ slot \in {"none", "registered", "removed"}
  /\ active \in {0, 1}
  /\ errCh \in {"empty", "reader", "writer"}
  /\ result \in {"none", "nil", "error"}

\* Whatever path it takes, a session releases its handshake token exactly once:
\* the tokens in the semaphore are those of the handshakes under way.
TokenBalanced == sem = others + (IF main = "handshake" THEN 1 ELSE 0)

\* What the worker sees of a session: a connection that is up without a right to
\* ask is not ready before its slot is registered.
Stage ==
  CASE main \in {"dial", "semaphore", "handshake"} -> "dial"
    [] main = "config"                             -> IF getConfig THEN "ask" ELSE "dial"
    [] main \in {"proxy", "relays"}                -> "ready"
    [] main = "returned"                           -> "settle"

Holds ==
  {h \in {"token", "count", "slot", "context"} :
     \/ h = "token" /\ sem # others
     \/ h = "count" /\ active = 1
     \/ h = "slot" /\ slot = "registered"
     \/ h = "context" /\ ~cancelled}

\* A session does what its worker relies on, whatever fails and whoever cancels
\* it meanwhile: no end without an error before it was ready, the configuration
\* exactly if it asked, and no way out of RunSession that leaves a token taken,
\* a slot the dispatcher would go on feeding, a connection counted as active or
\* a live context.
Contract == INSTANCE SessionContract
  WITH asks <- getConfig, stage <- Stage, brought <- delivered, ended <- result,
       holds <- Holds
ImplementsSession == Contract!Spec

\* Once the session has been ready, RunSession returns only after all six of
\* its goroutines ended: nobody uses the TURN client after tc.Close.
NobodyLeftBehind ==
  slot = "removed" =>
     /\ {reader, writer, keepalive, binding} = {"done"}
     /\ {relayIn, relayOut} \subseteq {"done", "none"}

\* A transport that fails first makes the session return an error, whichever of
\* reader, writer and parent ends it meanwhile: the worker's retry classes
\* depend on it (group.go).
FailureReported == main = "returned" /\ broke => result = "error"

\* A cancelled session ends, so that its worker can go on or leave.
EndsAfterCancel == cancelled ~> main = "returned"
=============================================================================
