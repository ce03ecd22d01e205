---------------------------- MODULE MCBackOffice ----------------------------
(* An instance of each of Settlement and TokenSweep, checked in one run:   *)
(* the first state says which of the two moves, the other stays as it is.  *)
EXTENDS Settlement, TokenSweep, TLC

CONSTANTS d1, d2, r1, r2

\* Either deposit alone is short of the payout, or of the minimum that the
\* terms without a hold period ask for; both cover one payout or one
\* settlement, not two debits.
MCReceived == (d1 :> 15) @@ (d2 :> 24)
MCGross == [p \in Payouts |-> 20]
MCTerms == {[mdr |-> 100000, settlement |-> 50000, min |-> 0, hold |-> 1],  \* 10 and 5 percent
            [mdr |-> 0, settlement |-> 0, min |-> 240, hold |-> 0]}         \* 24.0
MCPayoutLimits == [min |-> 10, max |-> 0]             \* 1.0, none

MCKinds == {[r \in Runs |-> "swap"], (r1 :> "all") @@ (r2 :> "auto")}

VARIABLES
  part,    (* which of the two moves                                         *)
  agreed   (* terms that the portals give the merchant                       *)

vars == <<part, agreed, settlementVars, sweepVars>>

\* The part that stays as it is starts in one state only.
Init ==
  /\ part \in {"settle", "sweep", "funder"} /\ SettlementInit /\ SweepInit
  /\ part # "sweep" => kind = [r \in Runs |-> "swap"]
  /\ agreed \in IF part = "settle" THEN {Terms} \cup {{t} : t \in Terms} ELSE {{}}

\* Nobody asks for a payout while the terms change.
Settling ==
  /\ part = "settle" /\ SettlementNext /\ UNCHANGED <<part, agreed, sweepVars>>
  /\ agreed = Terms => \A p \in Payouts : at'[p] = "idle"
  /\ \A s \in Settlers :
       /\ at'[s] \in {"idle", "done"} \/ holdShown'[s] \in {t.hold : t \in agreed}
       /\ at'[s] \in {"idle", "merchant", "done"} \/ terms'[s] \in agreed

\* Transfers out of the funder come with swap runs, of a deposit each.
Sweep ==
  /\ part # "settle" /\ SweepNext /\ UNCHANGED <<part, agreed, settlementVars>>
  /\ IF part = "sweep" THEN ownFees' = 0 ELSE \A w \in SweepWallets : usdt'[w] <= 1

Next == Settling \/ Sweep

Spec == Init /\ [][Next]_vars /\ SweepFairness
=============================================================================
