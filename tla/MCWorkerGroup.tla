--------------------------- MODULE MCWorkerGroup ---------------------------
(***************************************************************************)
(* TLC instance of WorkerGroup: the workers are model values, the first     *)
(* ones belong to group 1 and so on.  The program runs nine workers in a    *)
(* group; two are enough for every race between workers of one group, and   *)
(* two groups for every race between groups.                                *)
(***************************************************************************)
EXTENDS WorkerGroup

CONSTANTS a1, a2, b1

\* Group 1 of the workers a*, group 2 of b1.
MCGroupOf ==
  [w \in Worker |-> IF w = b1 THEN 2 ELSE 1]

\* ConfigOnce bounds the counter; this only keeps a broken variant finite.
MCBound == deliveries <= 2
=============================================================================
