--------------------------- MODULE DepositLedger ---------------------------
(***************************************************************************)
(* What the deposit ledger promises a merchant, without scanners, awaits   *)
(* or crons: a credit is recorded once and stays where it was recorded, it *)
(* is judged once, and a checkout is settled by at most one credit.        *)
(***************************************************************************)
CONSTANTS Sessions, Transfers, None

VARIABLES
  checkout,  (* session -> none, open, settled or lapsed                     *)
  credit,    (* transfer -> unseen, pending, success or underpaid            *)
  home       (* transfer -> the checkout it settled, or itself as an orphan  *)

vars == <<checkout, credit, home>>

Judged == {"success", "underpaid"}

Init ==
  /\ checkout = [s \in Sessions |-> "none"]
  /\ credit = [c \in Transfers |-> "unseen"]
  /\ home = [c \in Transfers |-> None]

Open(s) ==
  /\ checkout[s] = "none"
  /\ checkout' = [checkout EXCEPT ![s] = "open"]
  /\ UNCHANGED <<credit, home>>

Lapse(s) ==
  /\ checkout[s] = "open"
  /\ checkout' = [checkout EXCEPT ![s] = "lapsed"]
  /\ UNCHANGED <<credit, home>>

Recorded(c, at) ==
  \E st \in Judged \cup {"pending"} :
    /\ credit' = [credit EXCEPT ![c] = st]
    /\ home' = [home EXCEPT ![c] = at]

\* A credit settles an open checkout; one that lapsed meanwhile is revived.
Settle(c, s) ==
  /\ credit[c] = "unseen" /\ checkout[s] \in {"open", "lapsed"}
  /\ checkout' = [checkout EXCEPT ![s] = "settled"]
  /\ Recorded(c, s)

Orphan(c) ==
  /\ credit[c] = "unseen"
  /\ UNCHANGED checkout
  /\ Recorded(c, c)

Confirm(c) ==
  /\ credit[c] = "pending"
  /\ \E st \in Judged : credit' = [credit EXCEPT ![c] = st]
  /\ UNCHANGED <<checkout, home>>

Next ==
  \/ \E s \in Sessions : Open(s) \/ Lapse(s)
  \/ \E c \in Transfers :
       /\ credit'[c] # credit[c]
       /\ Orphan(c) \/ Confirm(c) \/ \E s \in Sessions : Settle(c, s)

Spec == Init /\ [][Next]_vars
=============================================================================
