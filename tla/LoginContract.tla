--------------------------- MODULE LoginContract ---------------------------
(***************************************************************************)
(* What one conversation with VK (fetchVkCreds, creds.go) promises to the   *)
(* code that asks for credentials, and what Creds.tla assumes of it: it     *)
(* starts only outside a lockout, ends in one of four ways, and a lockout   *)
(* is declared exactly when the caller is told to wait.                     *)
(***************************************************************************)
VARIABLES talking,  \* a conversation is going on
          outcome,  \* how the last one ended
          lockout   \* globalCaptchaLockout lies ahead

vars == <<talking, outcome, lockout>>

Outcome == {"none", "ok", "dead", "wait", "failed"}

Init == talking = FALSE /\ outcome = "none" /\ lockout = FALSE

Begin ==
  /\ ~talking /\ ~lockout
  /\ talking' = TRUE
  /\ outcome' = "none"
  /\ UNCHANGED lockout

\* Credentials, a call that is dead for good, or an error to retry after.
End ==
  /\ talking
  /\ talking' = FALSE
  /\ outcome' \in {"ok", "dead", "failed"}
  /\ UNCHANGED lockout

\* A captcha nobody solved: everyone has to wait, and the caller knows.
GiveUp ==
  /\ talking
  /\ talking' = FALSE
  /\ outcome' = "wait"
  /\ lockout' = TRUE

LockoutEnds == lockout' = FALSE /\ UNCHANGED <<talking, outcome>>

Next == Begin \/ End \/ GiveUp \/ LockoutEnds

Spec == Init /\ [][Next]_vars
=============================================================================
