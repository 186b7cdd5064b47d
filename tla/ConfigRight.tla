---------------------------- MODULE ConfigRight ----------------------------
(***************************************************************************)
(* What the client promises about asking the server for its configuration  *)
(* (wdtt-client/src/core/core.go: "exactly one worker at a time and exactly *)
(* once in all").  The permission to ask is one token.  A worker takes it,  *)
(* and either gives it back because its attempt failed, or spends it: the   *)
(* configuration arrived and nobody ever asks again.                       *)
(*                                                                         *)
(* WorkerGroup.tla implements this module with two atomic flags shared by   *)
(* every group (configSent, configInFlight).                               *)
(***************************************************************************)

CONSTANTS Worker,   \* who may ask
          Nobody    \* the holder when the right is free: no worker

VARIABLES holder,   \* the worker that holds the right, or Nobody
          spent     \* TRUE once a configuration has arrived

rightVars == <<holder, spent>>

Init == holder = Nobody /\ spent = FALSE

Take(w) ==
  /\ holder = Nobody
  /\ ~spent
  /\ holder' = w
  /\ UNCHANGED spent

GiveBack(w) ==
  /\ holder = w
  /\ ~spent
  /\ holder' = Nobody
  /\ UNCHANGED spent

\* The answer ends the matter for good: nobody holds the right any more and
\* nobody can take it.
Spend(w) ==
  /\ holder = w
  /\ ~spent
  /\ spent' = TRUE
  /\ holder' = Nobody

Next == \E w \in Worker : Take(w) \/ GiveBack(w) \/ Spend(w)

Spec == Init /\ [][Next]_rightVars
=============================================================================
