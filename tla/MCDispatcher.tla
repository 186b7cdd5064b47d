---------------------------- MODULE MCDispatcher ----------------------------
(***************************************************************************)
(* TLC instance of Dispatcher.  The sizes stand for the classes the code    *)
(* tells apart: 64 takes the priority path and has chunks of one packet,    *)
(* 200 is data with chunks of three.  A tick of 8 ms makes the ages 0, 8    *)
(* and 15: on both sides of the 10 ms pause and of the 15 ms dwell.         *)
(***************************************************************************)
EXTENDS Dispatcher, TLC

\* Slots are interchangeable.
MCSymmetry == Permutations(Slot)

\* The code's chunks and overtakings stay below the first two bounds, which only
\* keep a broken variant finite.  The third ends a history in which the workers
\* change a third time between two data packets; the fourth leaves out the states
\* in which two slots at once lie between their Writer's end and their removal.
\* Four slots are there for the removal that leaves three, with data packets only.
MCBound == /\ runLen <= 5
           /\ \A s \in Slot : overtook[s] <= 2
           /\ moved <= 2
           /\ \A s, t \in Slot : writer[s] = "gone" /\ writer[t] = "gone" => s = t
           /\ Len(workers) = 4 => \A s \in Slot : prioQ[s] = 0
=============================================================================
