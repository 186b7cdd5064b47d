------------------------------ MODULE MCCreds ------------------------------
(***************************************************************************)
(* TLC instance of Creds: workers a* belong to group 1, b* to group 2.      *)
(***************************************************************************)
EXTENDS Creds

CONSTANTS a1, a2, b1

MCGroupOf == [w \in Worker |-> IF w = b1 THEN 2 ELSE 1]
=============================================================================
