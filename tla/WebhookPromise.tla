--------------------------- MODULE WebhookPromise ---------------------------
(***************************************************************************)
(* What the gateway promises of the webhook of a row, without claims,      *)
(* retry lists or processes: automatic calls come one at a time, at most   *)
(* MaxCalls of them, none once the row is marked delivered, and it is      *)
(* marked only when the merchant has accepted a call.                      *)
(***************************************************************************)
EXTENDS Naturals

CONSTANTS Rows, MaxCalls

VARIABLES
  calls,     (* row -> automatic calls begun                                 *)
  calling,   (* rows with an automatic call in flight                        *)
  accepted,  (* rows of which the merchant accepted some call                *)
  done       (* rows marked delivered                                        *)

vars == <<calls, calling, accepted, done>>

Init ==
  /\ calls = [r \in Rows |-> 0]
  /\ calling = {} /\ accepted = {} /\ done = {}

Call(r) ==
  /\ r \notin calling \cup done /\ calls[r] < MaxCalls
  /\ calls' = [calls EXCEPT ![r] = @ + 1]
  /\ calling' = calling \cup {r}
  /\ UNCHANGED <<accepted, done>>

\* The call ends, and the merchant has accepted it or not.
Return(r) ==
  /\ r \in calling
  /\ calling' = calling \ {r}
  /\ accepted' \in {accepted, accepted \cup {r}}
  /\ UNCHANGED <<calls, done>>

\* The merchant accepts a resend that somebody asked for by hand.
AcceptResend(r) ==
  /\ accepted' = accepted \cup {r}
  /\ UNCHANGED <<calls, calling, done>>

Settle(r) ==
  /\ r \in accepted
  /\ done' = done \cup {r}
  /\ UNCHANGED <<calls, calling, accepted>>

Next == \E r \in Rows : Call(r) \/ Return(r) \/ AcceptResend(r) \/ Settle(r)

Spec == Init /\ [][Next]_vars
=============================================================================
