----------------------------- MODULE AddressBook -----------------------------
(***************************************************************************)
(* What the gateway promises of deposit addresses, without calls, locks or *)
(* savepoints: an address a merchant's user has been given stays that      *)
(* user's for good, a checkout is opened only on an address of the user it *)
(* is for, and while it is open no other asks the same of the same address *)
(* under one reference.                                                    *)
(***************************************************************************)
VARIABLES
  owned,  (* set of [merchant, index, user]: the addresses that were given   *)
  due     (* checkouts that are open: [user, merchant, index, ref, amount]   *)

vars == <<owned, due>>

SameAddress(a, b) == a.merchant = b.merchant /\ a.index = b.index

Init == owned = {} /\ due = {}

Give(a) ==
  /\ \A o \in owned : ~SameAddress(o, a)
  /\ owned' = owned \cup {a}

Bill(s) ==
  /\ \E o \in owned' : SameAddress(o, s) /\ o.user = s.user
  /\ \A t \in due : SameAddress(s, t) /\ s.user = t.user /\ s.amount = t.amount => s.ref # t.ref
  /\ due' = due \cup {s}

\* A call that finds the address of its user, and an open checkout that
\* serves, has nothing to add.
Answer ==
  /\ owned' = owned \/ \E a \in owned' : Give(a)
  /\ due' = due \/ \E s \in due' : Bill(s)

Close(s) == due' = due \ {s} /\ UNCHANGED owned

Next == Answer \/ \E s \in due : Close(s)

Spec == Init /\ [][Next]_vars
=============================================================================
