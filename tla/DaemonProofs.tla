---------------------------- MODULE DaemonProofs ----------------------------
(***************************************************************************)
(* Proofs about the daemon on the router, for any number of TURN servers:   *)
(* what a life that ends in order leaves behind, what the word "applied"    *)
(* stands for, and that the overlay never meets an interface of its name.   *)
(***************************************************************************)
EXTENDS Daemon, TLAPS

Applying == {"linkadd", "setconf", "address", "routes", "ensure"}

\* The overlay is built once in a life and step by step.
Order ==
  /\ proc \in {"linkadd", "setconf", "address"} => tunnel = "wg"
  /\ proc = "linkadd" => link = "none"
  /\ proc = "boot" => config = "off" /\ ~applied
  /\ proc \in Applying => config = "applied" /\ ~applied
  /\ proc = "loop" /\ applied => config = "applied"

\* The interface is there when its routes are, unless the stop script took it or
\* the core, shut down, its RAW tunnel.
LinkThere ==
  script = "off" /\ ~RawCoreOver =>
    /\ proc \in {"routes", "ensure"} \/ (proc = "loop" /\ applied) => link = "up"
    /\ tunnel = "raw" /\ config \in {"pending", "applied"}
         /\ proc \in {"loop", "routes", "ensure"} => link = "up"

\* Every route past the tunnel is on record, is being added, or is a killed
\* predecessor's.
RoutesKnown ==
  /\ routes \subseteq bypass
  /\ proc \in {"boot", "linkadd", "setconf", "address", "routes", "torn"} => routes = {}
  /\ proc \in {"linkadd", "setconf", "address"} => adding = {}
  /\ proc = "routes" => adding \subseteq bypass
  /\ bypass \subseteq orphan \cup routes \cup (IF proc = "routes" THEN adding ELSE {})
  /\ proc = "dead" => bypass \subseteq orphan

\* What a life that ends in order has taken down so far.
TakenDown ==
  /\ proc = "unrouted" => policy # "up"
  /\ proc = "torn" => policy # "up" /\ ~dev /\ (tunnel = "wg" => link = "none")
  /\ proc = "dead" /\ ~killed => link = "none" /\ ~dev /\ policy # "up" /\ status = "stopped"

DaemonInv ==
  /\ tunnel \in {"wg", "raw"}
  /\ Order
  /\ LinkThere
  /\ RoutesKnown
  /\ TakenDown

-----------------------------------------------------------------------------
\* The order of the steps, and what each finds, after any step.
LEMMA OrderStep == DaemonInv /\ [Next]_vars => tunnel' \in {"wg", "raw"} /\ Order'
<1> SUFFICES ASSUME DaemonInv, [Next]_vars PROVE tunnel' \in {"wg", "raw"} /\ Order'
  OBVIOUS
<1> USE DEF DaemonInv, Order, Applying, setVars, kernelVars, goVars, coreVars, statusVars
<1>1. CASE Boot
  BY <1>1 DEF Boot, Start, LoadFails, Refused, Begin, StartFails
<1>2. CASE Core \/ HandleOther \/ Persist
  BY <1>2 DEF Core, AddTurnIP, CoreConfigures, CoreShutsDown, LinkDeleted, Running, HandleOther, Persist
<1>3. CASE BeginApply \/ LinkAdd
  BY <1>3 DEF BeginApply, LinkAdd, Proceed, ApplyFails, LinkDeleted
<1>4. CASE SetConf \/ AddressUp
  BY <1>4 DEF SetConf, AddressUp, Proceed, ApplyFails, LinkDeleted
<1>5. CASE (\E d \in Dest : AddBypassRoute(d)) \/ RoutesDone \/ Ensure
  BY <1>5 DEF AddBypassRoute, RoutesDone, Ensure, Proceed
<1>6. CASE End \/ Kill
  BY <1>6 DEF End, LeaveLoop, StopRouting, Teardown, Exit, Kill, Dies, LinkDeleted
<1>7. CASE Script
  BY <1>7
  DEF Script, ScriptAt, ScriptUnroutes, ScriptKills, ScriptWritesStatus, ScriptDeletesLink,
      ScriptEnds, Reload, LinkDeleted
<1>8. CASE UNCHANGED vars
  BY <1>8 DEF vars
<1>9. QED
  BY <1>1, <1>2, <1>3, <1>4, <1>5, <1>6, <1>7, <1>8 DEF Next, Apply

\* The interface stays for as long as it is used.
LEMMA LinkStep == DaemonInv /\ [Next]_vars => LinkThere'
<1> SUFFICES ASSUME DaemonInv, [Next]_vars PROVE LinkThere'
  OBVIOUS
<1> USE DEF DaemonInv, Order, Applying, LinkThere, RawCoreOver, setVars, kernelVars, goVars, coreVars, statusVars
<1>1. CASE Boot
  BY <1>1 DEF Boot, Start, LoadFails, Refused, Begin, StartFails
<1>2. CASE Core \/ HandleOther \/ Persist
  BY <1>2 DEF Core, AddTurnIP, CoreConfigures, CoreShutsDown, LinkDeleted, Running, HandleOther, Persist
<1>3. CASE BeginApply \/ LinkAdd
  BY <1>3 DEF BeginApply, LinkAdd, Proceed, ApplyFails, LinkDeleted
<1>4. CASE SetConf \/ AddressUp
  BY <1>4 DEF SetConf, AddressUp, Proceed, ApplyFails, LinkDeleted
<1>5. CASE (\E d \in Dest : AddBypassRoute(d)) \/ RoutesDone \/ Ensure
  BY <1>5 DEF AddBypassRoute, RoutesDone, Ensure, Proceed
<1>6. CASE End \/ Kill
  BY <1>6 DEF End, LeaveLoop, StopRouting, Teardown, Exit, Kill, Dies, LinkDeleted
<1>7. CASE Script
  BY <1>7
  DEF Script, ScriptAt, ScriptUnroutes, ScriptKills, ScriptWritesStatus, ScriptDeletesLink,
      ScriptEnds, Reload, LinkDeleted
<1>8. CASE UNCHANGED vars
  BY <1>8 DEF vars
<1>9. QED
  BY <1>1, <1>2, <1>3, <1>4, <1>5, <1>6, <1>7, <1>8 DEF Next, Apply

\* No route gets into the kernel without a record, and a record goes with its route.
LEMMA RoutesStep == DaemonInv /\ [Next]_vars => RoutesKnown'
<1> SUFFICES ASSUME DaemonInv, [Next]_vars PROVE RoutesKnown'
  OBVIOUS
<1> USE DEF DaemonInv, RoutesKnown, setVars, kernelVars, goVars, coreVars, statusVars
<1>1. CASE Boot
  BY <1>1 DEF Boot, Start, LoadFails, Refused, Begin, StartFails
<1>2. CASE Core \/ HandleOther \/ Persist
  BY <1>2 DEF Core, AddTurnIP, CoreConfigures, CoreShutsDown, HandleOther, Persist
<1>3. CASE BeginApply \/ LinkAdd
  <2>1. CASE BeginApply
    <3>1. bypass' = bypass \ routes /\ routes' = {} /\ adding' = {} /\ orphan' = orphan
      BY <2>1 DEF BeginApply
    <3>2. bypass \subseteq orphan \cup routes /\ proc' # "dead"
      BY <2>1 DEF BeginApply, Proceed, ApplyFails
    <3>3. QED
      BY <3>1, <3>2
  <2>2. CASE LinkAdd
    <3>1. UNCHANGED <<bypass, orphan, routes, adding>> /\ proc = "linkadd"
      BY <2>2 DEF LinkAdd
    <3>2. proc' \in {"setconf", "loop"}
      BY <2>2 DEF LinkAdd, Proceed, ApplyFails
    <3>3. QED
      BY <3>1, <3>2
  <2>3. QED
    BY <1>3, <2>1, <2>2
<1>4. CASE SetConf \/ AddressUp
  BY <1>4 DEF SetConf, AddressUp, Proceed, ApplyFails
<1>5. CASE (\E d \in Dest : AddBypassRoute(d)) \/ RoutesDone \/ Ensure
  BY <1>5 DEF AddBypassRoute, RoutesDone, Ensure, Proceed
<1>6. CASE End \/ Kill
  BY <1>6 DEF End, LeaveLoop, StopRouting, Teardown, Exit, Kill
<1>7. CASE Script
  BY <1>7
  DEF Script, ScriptUnroutes, ScriptKills, ScriptWritesStatus, ScriptDeletesLink, ScriptEnds,
      Reload
<1>8. CASE UNCHANGED vars
  BY <1>8 DEF vars
<1>9. QED
  BY <1>1, <1>2, <1>3, <1>4, <1>5, <1>6, <1>7, <1>8 DEF Next, Apply

\* The teardown is not undone: neither by the core, which lives on, nor by the
\* init script, whose reload is told apart.
LEMMA DownStep == DaemonInv /\ [Next]_vars => TakenDown'
<1> SUFFICES ASSUME DaemonInv, [Next]_vars PROVE TakenDown'
  OBVIOUS
<1> USE DEF DaemonInv, TakenDown, setVars, kernelVars, goVars, coreVars, statusVars
<1>1. CASE Boot
  BY <1>1 DEF Boot, Start, LoadFails, Refused, Begin, StartFails
<1>2. CASE Core \/ HandleOther \/ Persist
  BY <1>2 DEF Core, AddTurnIP, CoreConfigures, CoreShutsDown, LinkDeleted, Running, HandleOther, Persist
<1>3. CASE BeginApply \/ LinkAdd
  BY <1>3 DEF BeginApply, LinkAdd, Proceed, ApplyFails
<1>4. CASE SetConf \/ AddressUp
  BY <1>4 DEF SetConf, AddressUp, Proceed, ApplyFails
<1>5. CASE (\E d \in Dest : AddBypassRoute(d)) \/ RoutesDone \/ Ensure
  BY <1>5 DEF AddBypassRoute, RoutesDone, Ensure, Proceed
<1>6. CASE End \/ Kill
  BY <1>6
  DEF End, LeaveLoop, StopRouting, Teardown, Exit, Kill, Dies, LinkDeleted, SetStatus
<1>7. CASE Script
  BY <1>7
  DEF Script, ScriptAt, ScriptUnroutes, ScriptKills, ScriptWritesStatus, ScriptDeletesLink,
      ScriptEnds, Reload, LinkDeleted
<1>8. CASE UNCHANGED vars
  BY <1>8 DEF vars
<1>9. QED
  BY <1>1, <1>2, <1>3, <1>4, <1>5, <1>6, <1>7, <1>8 DEF Next, Apply

\* The inductive invariant of the daemon's lives.
THEOREM Lives == Spec => []DaemonInv
<1>1. ASSUME Init PROVE DaemonInv
  <2>1. Order /\ LinkThere
    BY <1>1 DEF Init, Order, Applying, LinkThere, RawCoreOver
  <2>2. RoutesKnown
    BY <1>1 DEF Init, RoutesKnown
  <2>3. TakenDown
    BY <1>1 DEF Init, TakenDown
  <2>4. tunnel \in {"wg", "raw"}
    BY <1>1 DEF Init
  <2>5. QED
    BY <2>1, <2>2, <2>3, <2>4 DEF DaemonInv
<1>2. DaemonInv /\ [Next]_vars => DaemonInv'
  BY OrderStep, LinkStep, RoutesStep, DownStep DEF DaemonInv
<1>3. QED
  BY <1>1, <1>2, PTL DEF Spec

-----------------------------------------------------------------------------
\* A daemon that ends by itself leaves no interface, policy or route of its own.
THEOREM LeavesNothing == Spec => []CleanExit
<1>1. DaemonInv => CleanExit
  BY DEF DaemonInv, RoutesKnown, TakenDown, CleanExit
<1>2. QED
  BY <1>1, Lives, PTL

\* A tunnel shown as set up has its recorded routes, and its interface unless the
\* stop script or a RAW core's own shutdown has taken it.
THEOREM AppliedMeansUp == Spec => []AppliedIsUp
<1>1. DaemonInv => AppliedIsUp
  BY DEF DaemonInv, LinkThere, RoutesKnown, AppliedIsUp
<1>2. QED
  BY <1>1, Lives, PTL

\* ip link add finds the name free in every life, whatever the one before left.
THEOREM NameIsFree == Spec => []FreshLink
<1>1. DaemonInv => FreshLink
  BY DEF DaemonInv, Order, FreshLink
<1>2. QED
  BY <1>1, Lives, PTL
=============================================================================
