---------------------------- MODULE PayoutPromise ----------------------------
(***************************************************************************)
(* What the gateway promises of a payout, without requests, ticks or the   *)
(* chain's delays: it is paid at most once, it is shown as completed only  *)
(* if it was paid, it is not reopened once it has ended, and no two        *)
(* payouts carry the same client reference.  A payout an admin has patched *)
(* is in the admin's hands.                                                *)
(***************************************************************************)
EXTENDS Naturals

CONSTANTS Rows, None

VARIABLES
  phase,     (* row -> "none", "open", "completed", "failed" or "manual"     *)
  reference, (* row -> its client reference, or None                         *)
  payments   (* row -> transfers that moved its amount                       *)

vars == <<phase, reference, payments>>

Init ==
  /\ phase = [r \in Rows |-> "none"]
  /\ payments = [r \in Rows |-> 0]

Ask(r) ==
  /\ phase[r] = "none"
  /\ reference[r] # None =>
       \A q \in Rows : phase[q] # "none" => reference[q] # reference[r]
  /\ \E f \in {"open", "failed"} : phase' = [phase EXCEPT ![r] = f]
  /\ UNCHANGED <<reference, payments>>

\* The money may move after the payout was given up as failed.
Pay(r) ==
  /\ phase[r] # "none"
  /\ phase[r] # "manual" => payments[r] = 0
  /\ payments' = [payments EXCEPT ![r] = @ + 1]
  /\ UNCHANGED <<phase, reference>>

Complete(r) ==
  /\ phase[r] \in {"open", "failed"} /\ payments[r] = 1
  /\ phase' = [phase EXCEPT ![r] = "completed"]
  /\ UNCHANGED <<reference, payments>>

\* A late verdict may also fail what was completed.
Fail(r) ==
  /\ phase[r] \in {"open", "completed"}
  /\ phase' = [phase EXCEPT ![r] = "failed"]
  /\ UNCHANGED <<reference, payments>>

Patch(r) ==
  /\ phase[r] # "none"
  /\ phase' = [phase EXCEPT ![r] = "manual"]
  /\ UNCHANGED <<reference, payments>>

Next == \E r \in Rows : Ask(r) \/ Pay(r) \/ Complete(r) \/ Fail(r) \/ Patch(r)

Spec == Init /\ [][Next]_vars
=============================================================================
