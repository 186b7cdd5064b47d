------------------------------- MODULE Daemon -------------------------------
(***************************************************************************)
(* The daemon as a process on the router, life after life: start and its    *)
(* failures, the overlay it builds out of ip and wg commands                *)
(* (internal/wg/openwrt.go), the policy routing it calls scripts for        *)
(* (internal/routing/exec.go), the status file (internal/status/status.go), *)
(* an orderly end, a sudden one and procd's respawn, next to the stop       *)
(* script of the service (luci-app-wdtt, etc/init.d/wdtt).                  *)
(*                                                                         *)
(* The core (CoreLifecycle.tla) is the source of at most one configuration, *)
(* of other events, and of its own end.  Abstracted: addresses, the text of *)
(* commands; the VK networks, DNS servers and the peer are one destination. *)
(***************************************************************************)
EXTENDS Naturals, FiniteSets

CONSTANTS Relay,  \* the TURN servers' addresses
          Fixed   \* everything else that must bypass the tunnel

ASSUME DestAssumption == Fixed \notin Relay

Dest == Relay \cup {Fixed}

VARIABLES
  mode,     \* Settings.RoutingMode
  tunnel,   \* Settings.TunnelMode
  link,     \* the tunnel's interface in the kernel
  bypass,   \* routes to destinations past the tunnel, in the kernel
  dev,      \* the routes of everything into the tunnel are in the kernel
  policy,   \* the policy routing of the datapath scripts: "down", "up", or "late",
            \* set up again by a reload that came after the daemon's own stop
  proc,     \* the daemon's main goroutine
  config,   \* the core's configuration event; "off" without a core
  turnIPs,  \* Core.turnIPs
  coreOver, \* the core's Dispatcher.Shutdown is done; its events may not have ended yet
  todo,     \* destinations ApplyWithMode has still to route
  adding,   \* its local routes
  routes,   \* Manager.routes
  state,    \* Snapshot.State
  applied,  \* Snapshot.WGApplied
  status,   \* the state in status.json
  script,   \* the stop script
  orphan,   \* history: routes in the kernel left by a killed daemon
  killed    \* history: the last life ended without its deferred calls

kernelVars == <<link, bypass, dev, policy, orphan>>
coreVars   == <<turnIPs, coreOver>>
goVars     == <<config, coreVars, todo, adding, routes>>
statusVars == <<state, applied, status>>
setVars    == <<mode, tunnel>>
vars == <<setVars, kernelVars, proc, goVars, statusVars, script, killed>>

\* uci.go: routing_mode, and the older option full_tunnel, which wins except
\* that its "0" leaves the external mode alone.
RoutingModeOf(routing_mode, full_tunnel) ==
  IF full_tunnel = "1" THEN "full"
  ELSE IF full_tunnel = "0" /\ routing_mode # "external" THEN "selective"
  ELSE routing_mode

RoutingModes == {RoutingModeOf(r, f) : r \in {"selective", "full", "external"},
                                       f \in {"", "0", "1"}}

\* The kernel after the interface is gone: routes through it go with it.
LinkDeleted == link' = "none" /\ dev' = FALSE

\* SetState, SetError, SetWGApplied, SetRunning: memory, then the file.
SetStatus(s) == state' = s /\ status' = s

Init ==
  /\ mode \in RoutingModes
  /\ tunnel \in {"wg", "raw"}
  /\ link = "none" /\ bypass = {} /\ dev = FALSE /\ policy = "down"
  /\ proc = "dead"
  /\ config = "off" /\ turnIPs = {} /\ coreOver = FALSE /\ todo = {} /\ adding = {} /\ routes = {}
  /\ state = "stopped" /\ applied = FALSE /\ status = "stopped"
  /\ script = "off"
  /\ orphan = {} /\ killed = FALSE

-----------------------------------------------------------------------------
(* Start.                                                                   *)

\* procd starts or respawns the daemon, a new process with an empty memory: at any
\* time, the stop script's included until it has procd stop the service.
Start ==
  /\ proc = "dead"
  /\ script # "procd"
  /\ proc' = "boot"
  /\ config' = "off" /\ turnIPs' = {} /\ coreOver' = FALSE /\ todo' = {} /\ adding' = {} /\ routes' = {}
  /\ state' = "stopped" /\ applied' = FALSE
  /\ killed' = FALSE
  /\ UNCHANGED <<setVars, kernelVars, status, script>>

\* The configuration does not load; the status is not touched.
LoadFails ==
  /\ proc = "boot"
  /\ proc' = "dead"
  /\ killed' = TRUE
  /\ UNCHANGED <<setVars, kernelVars, goVars, statusVars, script>>

\* Disabled in UCI, or Validate refuses: the process ends before it has begun.
Refused ==
  /\ proc = "boot"
  /\ proc' = "dead"
  /\ SetStatus("stopped") \/ SetStatus("error")
  /\ killed' = TRUE
  /\ UNCHANGED <<setVars, kernelVars, goVars, applied, script>>

\* runWithConfig: SetRunning(true), the signal handler, the core.
Begin ==
  /\ proc = "boot"
  /\ proc' = "loop"
  /\ config' = "none"
  /\ SetStatus("starting")
  /\ UNCHANGED <<setVars, kernelVars, coreVars, todo, adding, routes, applied, script, killed>>

\* Core.Start fails: the deferred calls run without a loop.
StartFails ==
  /\ proc = "boot"
  /\ proc' = "stopping"
  /\ SetStatus("error")
  /\ UNCHANGED <<setVars, kernelVars, goVars, applied, script, killed>>

-----------------------------------------------------------------------------
(* The core's goroutines, next to the daemon's and even after stopCore,      *)
(* which waits for nobody.                                                  *)

Running == proc \notin {"dead", "boot"}

\* A group got credentials: AddTurnIPs, from its own goroutine.
AddTurnIP(r) ==
  /\ Running /\ config # "off"
  /\ r \notin turnIPs
  /\ turnIPs' = turnIPs \cup {r}
  /\ UNCHANGED <<setVars, kernelVars, proc, config, coreOver, todo, adding, routes, statusVars,
                 script, killed>>

\* The one configuration; in RAW mode the core has opened the interface.  The
\* goroutine may find it in the channel after the core's own end.
CoreConfigures ==
  /\ Running
  /\ config = "none"
  /\ config' = "pending"
  /\ link' = IF tunnel = "raw" THEN "up" ELSE link
  /\ UNCHANGED <<setVars, bypass, dev, policy, orphan, proc, coreVars, todo, adding, routes,
                 statusVars, script, killed>>

\* The core's groups have ended, for whatever reason: Dispatcher.Shutdown closes
\* the RAW tunnel's descriptor, and its interface goes with that.  close(c.events),
\* which the daemon's loop leaves upon, is a later step.
CoreShutsDown ==
  /\ Running /\ config # "off"
  /\ ~coreOver
  /\ coreOver' = TRUE
  /\ IF tunnel = "raw" THEN LinkDeleted ELSE UNCHANGED <<link, dev>>
  /\ UNCHANGED <<setVars, bypass, policy, orphan, proc, config, turnIPs, todo, adding, routes,
                 statusVars, script, killed>>

\* handleEvent of a state, a captcha or an error.
HandleOther ==
  /\ proc = "loop"
  /\ SetStatus("busy") \/ SetStatus("error")
  /\ UNCHANGED <<setVars, kernelVars, proc, goVars, applied, script, killed>>

\* Statistics and steps: the snapshot goes to the file again.
Persist ==
  /\ Running
  /\ status # state
  /\ status' = state
  /\ UNCHANGED <<setVars, kernelVars, proc, goVars, state, applied, script, killed>>

-----------------------------------------------------------------------------
(* The configuration is applied inside the event loop: no signal is noticed *)
(* before it is done.                                                       *)

\* SetError, and back to the loop.
ApplyFails == proc' = "loop" /\ SetStatus("error")

Proceed(label) == proc' = label /\ UNCHANGED <<state, status>>

\* Broken variant of BeginApply: nothing is torn down first.
BeginApplyOver ==
  /\ proc = "loop"
  /\ config = "pending"
  /\ config' = "applied"
  /\ todo' = turnIPs \cup {Fixed}
  /\ adding' = {}
  /\ IF tunnel = "wg" THEN Proceed("linkadd") \/ ApplyFails ELSE Proceed("routes")
  /\ UNCHANGED <<setVars, kernelVars, coreVars, routes, applied, script, killed>>

\* ApplyWithMode tears down what there is, an interface left by a killed
\* predecessor included, and may find no address; ApplyRawOverlay only takes
\* back its routes.
BeginApply ==
  /\ proc = "loop"
  /\ config = "pending"
  /\ config' = "applied"
  /\ todo' = turnIPs \cup {Fixed}
  /\ adding' = {}
  /\ bypass' = bypass \ routes
  /\ routes' = {}
  /\ IF tunnel = "wg"
     THEN LinkDeleted /\ (Proceed("linkadd") \/ ApplyFails)
     ELSE UNCHANGED <<link, dev>> /\ Proceed("routes")
  /\ UNCHANGED <<setVars, policy, orphan, coreVars, applied, script, killed>>

LinkAdd ==
  /\ proc = "linkadd"
  /\ \/ link = "none" /\ link' = "added" /\ Proceed("setconf")
     \/ UNCHANGED link /\ ApplyFails
  /\ UNCHANGED <<setVars, bypass, dev, policy, orphan, goVars, applied, script, killed>>

SetConf ==
  /\ proc = "setconf"
  /\ \/ link = "added" /\ Proceed("address") /\ UNCHANGED <<link, dev>>
     \/ LinkDeleted /\ ApplyFails
  /\ UNCHANGED <<setVars, bypass, policy, orphan, goVars, applied, script, killed>>

\* Broken variant of AddressUp: a failure is reported and the rest is done.
AddressUpCarriesOn ==
  /\ proc = "address"
  /\ \/ link = "added" /\ link' = "up" /\ UNCHANGED dev
     \/ LinkDeleted
  /\ Proceed("routes")
  /\ UNCHANGED <<setVars, bypass, policy, orphan, goVars, applied, script, killed>>

\* ip addr add and ip link set up; a failure of either tears down.
AddressUp ==
  /\ proc = "address"
  /\ \/ link = "added" /\ link' = "up" /\ Proceed("routes") /\ UNCHANGED dev
     \/ LinkDeleted /\ ApplyFails
  /\ UNCHANGED <<setVars, bypass, policy, orphan, goVars, applied, script, killed>>

\* addBypassRoute: replaces a route to the same destination, a predecessor's
\* too; a failure is passed over.
AddBypassRoute(d) ==
  /\ proc = "routes"
  /\ d \in todo
  /\ todo' = todo \ {d}
  /\ \/ /\ bypass' = bypass \cup {d}
        /\ adding' = adding \cup {d}
        /\ orphan' = orphan \ {d}
     \/ UNCHANGED <<bypass, adding, orphan>>
  /\ UNCHANGED <<setVars, link, dev, policy, proc, config, coreVars, routes, statusVars, script, killed>>

\* Broken variant of RoutesDone: only what a full tunnel needs is recorded.
RoutesDoneFullOnly ==
  /\ proc = "routes"
  /\ todo = {}
  /\ dev' \in {dev, mode = "full" /\ link = "up"}
  /\ routes' = IF mode = "full" THEN adding ELSE {}
  /\ Proceed("ensure")
  /\ UNCHANGED <<setVars, link, bypass, policy, orphan, config, coreVars, todo, adding, applied, script, killed>>

\* In full mode everything else goes into the tunnel, if ip can do it; then the
\* routes are recorded for the teardown.
RoutesDone ==
  /\ proc = "routes"
  /\ todo = {}
  /\ dev' \in {dev, mode = "full" /\ link = "up"}
  /\ routes' = adding
  /\ Proceed("ensure")
  /\ UNCHANGED <<setVars, link, bypass, policy, orphan, config, coreVars, todo, adding, applied, script, killed>>

\* EnsureWithConfig: the datapath script, or what stands in for it.
Ensure ==
  /\ proc = "ensure"
  /\ \/ policy' = "up" /\ SetStatus("connected")
     \/ policy' \in {policy, "up", "down"} /\ SetStatus("error")
  /\ applied' = TRUE
  /\ proc' = "loop"
  /\ UNCHANGED <<setVars, link, bypass, dev, orphan, goVars, script, killed>>

Apply == \/ BeginApply \/ LinkAdd \/ SetConf \/ AddressUp
         \/ \E d \in Dest : AddBypassRoute(d)
         \/ RoutesDone \/ Ensure

-----------------------------------------------------------------------------
(* The end of a life.                                                       *)

\* The loop sees runCtx cancelled by SIGTERM or SIGINT, from whomever and
\* whenever, or the end of the core's events.
LeaveLoop ==
  /\ proc = "loop"
  /\ proc' = "stopping"
  /\ UNCHANGED <<setVars, kernelVars, goVars, statusVars, script, killed>>

\* routing.Stop, whose error is ignored; the scripts are taken to work here.
StopRouting ==
  /\ proc = "stopping"
  /\ proc' = "unrouted"
  /\ policy' = "down"
  /\ UNCHANGED <<setVars, link, bypass, dev, orphan, goVars, statusVars, script, killed>>

\* Manager.Teardown: the recorded routes and the interface.
Teardown ==
  /\ proc = "unrouted"
  /\ proc' = "torn"
  /\ bypass' = bypass \ routes
  /\ routes' = {}
  /\ LinkDeleted
  /\ UNCHANGED <<setVars, policy, orphan, config, coreVars, todo, adding, statusVars, script, killed>>

\* The end of a process closes the RAW tunnel's descriptor, if its core has not.
Dies == IF tunnel = "raw" THEN LinkDeleted ELSE UNCHANGED <<link, dev>>

\* SetRunning(false), and the process is gone.
Exit ==
  /\ proc = "torn"
  /\ proc' = "dead"
  /\ Dies
  /\ SetStatus("stopped")
  /\ applied' = FALSE
  /\ UNCHANGED <<setVars, bypass, policy, orphan, goVars, script, killed>>

\* SIGKILL, a panic, no memory: no deferred call runs, the kernel keeps the rest.
Kill ==
  /\ proc # "dead"
  /\ proc' = "dead"
  /\ killed' = TRUE
  /\ orphan' = bypass
  /\ Dies
  /\ UNCHANGED <<setVars, bypass, policy, goVars, statusVars, script>>

-----------------------------------------------------------------------------
(* The stop script, one command after the other.                            *)

ScriptAt(from, to) == script = from /\ script' = to

ScriptUnroutes ==
  /\ ScriptAt("off", "kill")
  /\ policy' = "down"
  /\ UNCHANGED <<setVars, link, bypass, dev, orphan, proc, goVars, statusVars, killed>>

\* killall: the signal, which ends a process that has no handler yet.
ScriptKills ==
  /\ ScriptAt("kill", "status")
  /\ IF proc = "boot" THEN proc' = "dead" /\ killed' = TRUE ELSE UNCHANGED <<proc, killed>>
  /\ UNCHANGED <<setVars, kernelVars, goVars, statusVars>>

ScriptWritesStatus ==
  /\ ScriptAt("status", "link")
  /\ status' = "stopped"
  /\ UNCHANGED <<setVars, kernelVars, proc, goVars, state, applied, killed>>

\* The interface of globals.iface: in RAW mode the default is not the tunnel's.
ScriptDeletesLink ==
  /\ ScriptAt("link", "procd")
  /\ LinkDeleted \/ (tunnel = "raw" /\ UNCHANGED <<link, dev>>)
  /\ UNCHANGED <<setVars, bypass, policy, orphan, proc, goVars, statusVars, killed>>

\* procd waits for the process to end, and kills it after five seconds (Kill).
ScriptEnds ==
  /\ ScriptAt("procd", "off")
  /\ proc = "dead"
  /\ UNCHANGED <<setVars, kernelVars, proc, goVars, statusVars, killed>>

\* reload_service: with an interface the datapath is set up once more, also by the
\* side of a daemon on its way out (the lock of the init script keeps it only
\* from running beside stop_service).
Reload ==
  /\ script \in {"off", "procd"}
  /\ link # "none"
  /\ policy' = IF proc \in {"unrouted", "torn"} THEN "late" ELSE "up"
  /\ UNCHANGED <<setVars, link, bypass, dev, orphan, proc, goVars, statusVars, script, killed>>

Script == ScriptUnroutes \/ ScriptKills \/ ScriptWritesStatus \/ ScriptDeletesLink \/ ScriptEnds
          \/ Reload

-----------------------------------------------------------------------------
Boot == Start \/ LoadFails \/ Refused \/ Begin \/ StartFails

Core == (\E r \in Relay : AddTurnIP(r)) \/ CoreConfigures \/ CoreShutsDown

End == LeaveLoop \/ StopRouting \/ Teardown \/ Exit

Next == Boot \/ Core \/ HandleOther \/ Persist \/ Apply \/ End \/ Kill \/ Script

Spec == Init /\ [][Next]_vars

-----------------------------------------------------------------------------
(* Properties.                                                              *)

\* Type invariant.
TypeOK ==
  /\ mode \in {"selective", "full", "external"}
  /\ tunnel \in {"wg", "raw"}
  /\ link \in {"none", "added", "up"}
  /\ bypass \subseteq Dest /\ orphan \subseteq Dest
  /\ {coreOver, dev, applied, killed} \subseteq BOOLEAN
  /\ policy \in {"down", "up", "late"}
  /\ proc \in {"dead", "boot", "loop", "linkadd", "setconf", "address", "routes",
               "ensure", "stopping", "unrouted", "torn"}
  /\ config \in {"off", "none", "pending", "applied"}
  /\ turnIPs \subseteq Relay
  /\ todo \subseteq Dest /\ adding \subseteq Dest /\ routes \subseteq Dest
  /\ {state, status} \subseteq {"stopped", "starting", "busy", "connected", "error"}
  /\ script \in {"off", "kill", "status", "link", "procd"}

\* A daemon that ends by itself, whenever its configuration, its end and the
\* stop script come, leaves nothing: no interface, no policy unless a reload came
\* late, no route but those a killed predecessor had left, and a status file that
\* says so.
CleanExit ==
  proc = "dead" /\ ~killed =>
    link = "none" /\ ~dev /\ policy # "up" /\ bypass \subseteq orphan /\ status = "stopped"

\* The core has closed the tunnel that it held open.
RawCoreOver == tunnel = "raw" /\ coreOver

\* While the daemon shows its tunnel as set up, every route it has recorded is
\* there, and so is the interface, unless the stop script is at work or a RAW core
\* has shut down and taken it along: the status says "connected" until the loop
\* sees the end of the events.
AppliedIsUp ==
  proc = "loop" /\ applied =>
    /\ routes \subseteq bypass
    /\ script = "off" /\ ~RawCoreOver => link = "up"

\* ip link add never meets an interface of that name, not after a crash either.
FreshLink == proc = "linkadd" => link = "none"
=============================================================================
