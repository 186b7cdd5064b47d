-------------------------- MODULE SessionContract --------------------------
(***************************************************************************)
(* What a session (RunSession, wdtt-client/src/core/session.go) promises to *)
(* the worker that starts it (group.go), and what WorkerGroup.tla assumes   *)
(* of it: it ends without an error only after it has been ready, it brings  *)
(* the configuration exactly when it asked for it and became ready, and     *)
(* what it holds of the things sessions share is what its stage needs.      *)
(***************************************************************************)
VARIABLES asks,     \* its worker gave it the right to ask for the configuration
          stage,    \* where the worker sees it
          brought,  \* the configuration has come: configDelivered
          ended,    \* the error it returned
          holds     \* of what sessions share, the things it has not given back: a
                    \* token of handshakeSem, a place among ActiveConnections, a
                    \* slot in the dispatcher, a context under the core's

vars == <<asks, stage, brought, ended, holds>>

\* The context may have been cancelled in every stage; a handshake is over before
\* the connection counts.
MayHold ==
  [dial   |-> {h \in SUBSET {"token", "count", "context"} : ~({"token", "count"} \subseteq h)},
   ask    |-> {{"count"}, {"count", "context"}},
   ready  |-> {{"count", "slot"}, {"count", "slot", "context"}},
   settle |-> {{}}]

Init ==
  /\ asks \in BOOLEAN
  /\ stage = "dial"
  /\ brought = FALSE
  /\ ended = "none"
  /\ holds = {"context"}

Moves(from, to) ==
  /\ stage = from /\ stage' = to
  /\ holds' \in MayHold[to]
  /\ UNCHANGED asks

\* Something is taken or given back within a stage.
Works ==
  /\ \E s \in DOMAIN MayHold : Moves(s, s)
  /\ UNCHANGED <<brought, ended>>

\* The connection is up: the session asks, or registers at once.
Connects ==
  /\ Moves("dial", IF asks THEN "ask" ELSE "ready")
  /\ UNCHANGED <<brought, ended>>

ConfigArrives ==
  /\ Moves("ask", "ready")
  /\ brought' = TRUE
  /\ UNCHANGED ended

\* No connection, or no configuration.
Fails ==
  /\ Moves("dial", "settle") \/ Moves("ask", "settle")
  /\ ended' = "error"
  /\ UNCHANGED brought

Ends ==
  /\ Moves("ready", "settle")
  /\ ended' \in {"nil", "error"}
  /\ UNCHANGED brought

Next == Works \/ Connects \/ ConfigArrives \/ Fails \/ Ends

Spec == Init /\ [][Next]_vars
=============================================================================
