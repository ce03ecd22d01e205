------------------------------ MODULE Settlement ------------------------------
(***************************************************************************)
(* One asset of one merchant: deposits credited by the ledger, batch       *)
(* settlements (settlement-batch.js, posted by an admin or a reseller) and *)
(* payout requests, which all draw on one balance.  Nothing stores the     *)
(* balance: merchant-balance.js adds it up in three queries, outside any   *)
(* transaction, and the decision is taken on what they returned.           *)
(*                                                                         *)
(* A settlement is named by the request that makes it, a payout likewise.  *)
(* The transaction of a settlement writes its row and its marks last, so   *)
(* what others can see of it happens in one step, Settle.                  *)
(***************************************************************************)
EXTENDS FeeMath, FiniteSets, FiniteSetsExt

CONSTANTS
  Deposits,        (* on-chain credits of the asset                         *)
  Received,        (* deposit -> amount received, atomic                    *)
  Settlers,        (* POST .../settlements/batch requests                   *)
  Payouts,         (* POST .../payout requests                              *)
  Gross,           (* payout -> amount asked for                            *)
  Terms,           (* what the portals may agree with the merchant          *)
  PayoutLimits,    (* payout_min_amount and payout_max_amount, human        *)
  Decimals,        (* of the token                                          *)
  MaxDays,         (* the longest hold period, and where an age is capped   *)
  NotYet           (* no settlement                                         *)

ASSUME SettlementConstants ==
  /\ Received \in [Deposits -> Nat] /\ Gross \in [Payouts -> Nat \ {0}]
  /\ Terms \subseteq [mdr : Percents, settlement : Percents,
                      min : Nat,          \* min_settlement_amount, human
                      hold : 0 .. MaxDays] \* settlement_period_days
  /\ Terms # {} /\ MaxDays \in Nat /\ Decimals \in Nat
  /\ PayoutLimits \in [min : Nat, max : Nat]
  /\ Settlers \cap Payouts = {} /\ NotYet \notin Settlers

(* A row of merchant_settlements: gross = mdr + fee + net. *)
Row == [gross : Nat, mdr : Nat, fee : Nat, net : Nat]

Total(amount, S) == MapThenSumSet(LAMBDA x : amount[x], S)

ASSUME RowsAreRows == NotYet \notin Row

Requests == Settlers \cup Payouts

Absent == -1
Ages   == Absent .. MaxDays

VARIABLES
  deposit,    (* deposit -> days since it was credited, or Absent            *)
  mark,       (* deposit -> its merchant_settlement_id                       *)
  entry,      (* settler -> its settlement row, or NotYet                    *)
  payout,     (* payout -> its status                                        *)
  at,         (* request -> the await it is suspended at                     *)
  terms,      (* settler -> the merchant's terms as it read them             *)
  batch,      (* settler -> deposits its transaction loaded                  *)
  previewed,  (* settler -> deposits the operator saw as pending             *)
  holdShown,  (* settler -> hold period they were picked with (history)      *)
  seenIn,     (* request -> deposits in the balance it read                  *)
  seenOut,    (* request -> debits in the balance it read                    *)
  before      (* settler -> settlements there were when it loaded (history)  *)

books == <<deposit, mark, entry, payout>>
settlementVars ==
  <<books, at, terms, batch, previewed, holdShown, seenIn, seenOut, before>>

Credited  == {d \in Deposits : deposit[d] # Absent}
Settled   == {s \in Settlers : entry[s] # NotYet}
Completed == {p \in Payouts : payout[p] = "completed"}

NetOf(S) == Total([s \in S |-> entry[s].net], S)

(* computeMerchantBalances over the deposits and debits its queries saw:   *)
(* a settlement is debited by its net, so the fees stay in the balance.    *)
BalanceOf(ins, outs) ==
  Total(Received, ins) - Total(Gross, outs \cap Payouts) - NetOf(outs \cap Settlers)

\* Fault: the marks are not looked at.
UnsettledOrNot(hold) == {d \in Credited : deposit[d] >= hold}

(* loadUnsettledSuccessTransactions. *)
Unsettled(hold) == {d \in Credited : mark[d] = NotYet /\ deposit[d] >= hold}

Fees(s, ds) == Split(Total(Received, ds), terms[s].mdr, terms[s].settlement)

SomeTerms == CHOOSE t \in Terms : TRUE

SettlementTypeOK ==
  /\ deposit \in [Deposits -> Ages]
  /\ mark \in [Deposits -> Settlers \cup {NotYet}]
  /\ entry \in [Settlers -> Row \cup {NotYet}]
  /\ payout \in [Payouts -> {"none", "processing", "completed", "failed"}]
  /\ at \in [Requests -> {"idle", "merchant", "load", "inbound", "outbound",
                          "settled", "decide", "accepted", "done"}]
  /\ terms \in [Settlers -> Terms]
  /\ holdShown \in [Settlers -> 0 .. MaxDays]
  /\ batch \in [Settlers -> SUBSET Deposits]
  /\ previewed \in [Settlers -> SUBSET Deposits]
  /\ seenIn \in [Requests -> SUBSET Deposits]
  /\ seenOut \in [Requests -> SUBSET Requests]
  /\ before \in [Settlers -> SUBSET Settlers]

SettlementInit ==
  /\ deposit = [d \in Deposits |-> Absent]
  /\ mark = [d \in Deposits |-> NotYet]
  /\ entry = [s \in Settlers |-> NotYet]
  /\ payout = [p \in Payouts |-> "none"]
  /\ at = [r \in Requests |-> "idle"]
  /\ terms = [s \in Settlers |-> SomeTerms]
  /\ holdShown = [s \in Settlers |-> 0]
  /\ batch = [s \in Settlers |-> {}] /\ previewed = [s \in Settlers |-> {}]
  /\ seenIn = [r \in Requests |-> {}] /\ seenOut = [r \in Requests |-> {}]
  /\ before = [s \in Settlers |-> {}]

Await(r, from, to) == at[r] = from /\ at' = [at EXCEPT ![r] = to]

(* A request that comes to nothing leaves nothing behind. *)
Drop(r) ==
  /\ at' = [at EXCEPT ![r] = "done"]
  /\ terms' = [s \in Settlers |-> IF s = r THEN SomeTerms ELSE terms[s]]
  /\ batch' = [s \in Settlers |-> IF s = r THEN {} ELSE batch[s]]
  /\ previewed' = [s \in Settlers |-> IF s = r THEN {} ELSE previewed[s]]
  /\ holdShown' = [s \in Settlers |-> IF s = r THEN 0 ELSE holdShown[s]]
  /\ before' = [s \in Settlers |-> IF s = r THEN {} ELSE before[s]]
  /\ seenIn' = [seenIn EXCEPT ![r] = {}] /\ seenOut' = [seenOut EXCEPT ![r] = {}]
  /\ UNCHANGED books

-----------------------------------------------------------------------------
(* The ledger credits a deposit, and the days of its hold period pass. *)
Credit(d) ==
  /\ deposit[d] = Absent /\ deposit' = [deposit EXCEPT ![d] = 0]
  /\ UNCHANGED <<mark, entry, payout, at, terms, batch, previewed, holdShown, seenIn, seenOut,
                 before>>

Mature(d) ==
  /\ deposit[d] \in 0 .. MaxDays - 1 /\ deposit' = [deposit EXCEPT ![d] = @ + 1]
  /\ UNCHANGED <<mark, entry, payout, at, terms, batch, previewed, holdShown, seenIn, seenOut,
                 before>>

\* Fault: the preview takes no notice of the hold period.
PreviewYoungToo(s) ==
  /\ Await(s, "idle", "merchant")
  /\ previewed' = [previewed EXCEPT ![s] = Unsettled(0)]
  /\ \E now \in Terms : holdShown' = [holdShown EXCEPT ![s] = now.hold]
  /\ UNCHANGED <<books, terms, batch, seenIn, seenOut, before>>

(* GET .../settlements/pending-preview, under the hold period of its time; *)
(* the operator pays what it shows and posts the proof.                    *)
Preview(s) ==
  /\ Await(s, "idle", "merchant")
  /\ \E now \in Terms : /\ holdShown' = [holdShown EXCEPT ![s] = now.hold]
                         /\ previewed' = [previewed EXCEPT ![s] = Unsettled(now.hold)]
  /\ UNCHANGED <<books, terms, batch, seenIn, seenOut, before>>

(* executeBatchSettlement reads the merchant before its transaction: rates, *)
(* minimum and hold period as they are now.  The portals may have changed   *)
(* any of them since the preview, or change them next.                      *)
ReadMerchant(s) ==
  /\ Await(s, "merchant", "load")
  /\ \E now \in Terms : terms' = [terms EXCEPT ![s] = now]
  /\ UNCHANGED <<books, batch, previewed, holdShown, seenIn, seenOut, before>>

(* Whether there is something to settle, and not too little. *)
Worthwhile(s, ds) == ds # {} /\ NetAboveMin(Fees(s, ds).net, terms[s].min, Decimals)

LoadUnsettled(s) ==
  LET found == Unsettled(terms[s].hold) IN
  /\ Worthwhile(s, found)
  /\ Await(s, "load", "inbound")
  /\ batch' = [batch EXCEPT ![s] = found]
  /\ before' = [before EXCEPT ![s] = Settled]
  /\ UNCHANGED <<books, terms, previewed, holdShown, seenIn, seenOut>>

(* no_eligible_transactions and below_min_settlement_amount. *)
RefuseBatch(s) ==
  /\ at[s] = "load" /\ ~Worthwhile(s, Unsettled(terms[s].hold))
  /\ Drop(s)

(* merchantHasPendingPayout: a payout request waits for none. *)
CheckOpenPayout(p) ==
  /\ Await(p, "idle", IF \E q \in Payouts : payout[q] = "processing"
                      THEN "done" ELSE "inbound")
  /\ UNCHANGED <<books, terms, batch, previewed, holdShown, seenIn, seenOut, before>>

-----------------------------------------------------------------------------
(* computeMerchantBalances: three queries, each on the tables of its time. *)
ReadInbound(r) ==
  /\ Await(r, "inbound", "outbound")
  /\ seenIn' = [seenIn EXCEPT ![r] = Credited]
  /\ UNCHANGED <<books, terms, batch, previewed, holdShown, seenOut, before>>

ReadOutbound(r) ==
  /\ Await(r, "outbound", "settled")
  /\ seenOut' = [seenOut EXCEPT ![r] = Completed]
  /\ UNCHANGED <<books, terms, batch, previewed, holdShown, seenIn, before>>

ReadSettled(r) ==
  /\ Await(r, "settled", "decide")
  /\ seenOut' = [seenOut EXCEPT ![r] = @ \cup Settled]
  /\ UNCHANGED <<books, terms, batch, previewed, holdShown, seenIn, before>>

-----------------------------------------------------------------------------
\* Fault: what has been debited before is forgotten.
AffordsOfInbound(r, amount) == Total(Received, seenIn[r]) >= amount

Affords(r, amount) == BalanceOf(seenIn[r], seenOut[r]) >= amount

\* Fault: the row without the marks.
SettleUnmarked(s) ==
  LET fees == Fees(s, batch[s]) IN
  /\ Affords(s, fees.net)
  /\ Await(s, "decide", "done")
  /\ entry' = [entry EXCEPT ![s] = [gross |-> Total(Received, batch[s]),
                                    mdr |-> fees.mdr, fee |-> fees.fee, net |-> fees.net]]
  /\ UNCHANGED <<deposit, mark, payout, terms, batch, previewed, holdShown, seenIn, seenOut, before>>

(* The row, the marks by id, and the commit.  The marks are written over   *)
(* whatever another settlement has written since this one loaded.          *)
Settle(s) ==
  LET fees == Fees(s, batch[s]) IN
  /\ Affords(s, fees.net)
  /\ Await(s, "decide", "done")
  /\ entry' = [entry EXCEPT ![s] = [gross |-> Total(Received, batch[s]),
                                    mdr |-> fees.mdr, fee |-> fees.fee, net |-> fees.net]]
  /\ mark' = [d \in Deposits |-> IF d \in batch[s] THEN s ELSE mark[d]]
  /\ UNCHANGED <<deposit, payout, terms, batch, previewed, holdShown, seenIn, seenOut, before>>

(* insufficient_balance. *)
RefuseSettlement(s) ==
  /\ at[s] = "decide" /\ ~Affords(s, Fees(s, batch[s]).net)
  /\ Drop(s)

\* Fault: the status is the column's default.
InsertPayoutPending(p) ==
  /\ Await(p, "decide", "done")
  /\ payout' = [payout EXCEPT ![p] = IF Affords(p, Gross[p]) THEN "pending" ELSE "failed"]
  /\ UNCHANGED <<deposit, mark, entry, terms, batch, previewed, holdShown, seenIn, seenOut, before>>

(* createMerchantWithdrawalRequest inserts the row, failed at once when    *)
(* it is outside the limits or the balance it read is too low.             *)
InsertPayout(p) ==
  LET fits == /\ WithinPayoutLimits(Gross[p], PayoutLimits.min, PayoutLimits.max, Decimals)
              /\ Affords(p, Gross[p]) IN
  /\ Await(p, "decide", IF fits THEN "accepted" ELSE "done")
  /\ payout' = [payout EXCEPT ![p] = IF fits THEN "processing" ELSE "failed"]
  /\ UNCHANGED <<deposit, mark, entry, terms, batch, previewed, holdShown, seenIn, seenOut, before>>

(* executeAutoPayout, its catch block and the drain write the end of an    *)
(* accepted payout by id, whatever end it has been given before.  Only     *)
(* "completed" is debited.                                                 *)
EndPayout(p) ==
  /\ at[p] = "accepted"
  /\ \E status \in {"completed", "failed"} : payout' = [payout EXCEPT ![p] = status]
  /\ UNCHANGED <<deposit, mark, entry, at, terms, batch, previewed, holdShown, seenIn, seenOut,
                 before>>

(* A request that dies, or whose transaction the database ends (5 s, lock  *)
(* cycle), leaves nothing behind.                                          *)
AbortRequest(r) == at[r] \notin {"idle", "accepted", "done"} /\ Drop(r)

SettlementNext ==
  \/ \E d \in Deposits : Credit(d) \/ Mature(d)
  \/ \E s \in Settlers : \/ Preview(s) \/ ReadMerchant(s) \/ LoadUnsettled(s)
                         \/ RefuseBatch(s) \/ Settle(s) \/ RefuseSettlement(s)
  \/ \E p \in Payouts : CheckOpenPayout(p) \/ InsertPayout(p) \/ EndPayout(p)
  \/ \E r \in Requests : ReadInbound(r) \/ ReadOutbound(r) \/ ReadSettled(r) \/ AbortRequest(r)

SettlementSpec == SettlementInit /\ [][SettlementNext]_settlementVars

-----------------------------------------------------------------------------
(* A deposit enters two settlements only if neither was there when the     *)
(* other loaded: settling one after the other never pays a deposit twice.  *)
SettledTwiceOnlyByOverlap ==
  \A s, t \in Settled :
    s # t /\ batch[s] \cap batch[t] # {} => s \notin before[t] /\ t \notin before[s]

InSequence == \A s, t \in Settled : s # t => s \in before[t] \/ t \in before[s]

(* What a settlement pays out and what it withholds is what its deposits   *)
(* brought in; so that, when no two settlements overlapped, the balance    *)
(* they leave is what no settlement has marked and the fees withheld.  And *)
(* the net is more than the minimum the merchant then had: the code takes  *)
(* min_settlement_amount in token units and compares it with the net, and  *)
(* asks for a positive net where there is none (schema.prisma calls it a   *)
(* minimum of the gross in atomic units).                                  *)
RowsAddUp ==
  /\ \A s \in Settled : /\ entry[s].gross = entry[s].mdr + entry[s].fee + entry[s].net
                        /\ entry[s].gross = Total(Received, batch[s])
                        /\ NetAboveMin(entry[s].net, terms[s].min, Decimals)
  /\ InSequence =>
       BalanceOf(Credited, Settled) =
         Total(Received, {d \in Credited : mark[d] = NotYet})
           + Total([s \in Settled |-> entry[s].mdr + entry[s].fee], Settled)

(* The marks account for every settlement row: each deposit a row was      *)
(* computed from is marked, by that row or by one that overlapped it, and  *)
(* a mark names a row that paid for the deposit.                           *)
MarksMatchRows ==
  /\ \A d \in Deposits : mark[d] # NotYet => mark[d] \in Settled /\ d \in batch[mark[d]]
  /\ \A s \in Settled : \A d \in batch[s] :
       mark[d] \notin {NotYet, s} => s \notin before[mark[d]] /\ mark[d] \notin before[s]
  /\ \A s \in Settled : \A d \in batch[s] : mark[d] # NotYet

Debits == Settled \cup Completed

(* Debits decided on while another was, neither seeing the other: the      *)
(* other was not written yet, or was a payout then marked as failed.       *)
Overlapping ==
  {y \in Debits : \E x \in Debits \ {y} : x \notin seenOut[y] /\ y \notin seenOut[x]}

(* The merchant is never overdrawn, though nothing is reserved, unless two *)
(* debits were decided on without either seeing the other; and then by no  *)
(* more than all but one of the debits that overlapped another.            *)
OverdrawnOnlyByOverlap ==
  \/ BalanceOf(Credited, Debits) >= 0
  \/ \E x \in Overlapping : BalanceOf(Credited, Debits \ (Overlapping \ {x})) >= 0

(* What the operator saw as pending, paid and posted the proof for is      *)
(* settled once the request has made its row, whatever came in between,    *)
(* unless the portals had meanwhile given the merchant a longer hold       *)
(* period than the preview went by.                                        *)
PreviewIsSettled ==
  \A s \in Settled : terms[s].hold <= holdShown[s] =>
    \A d \in previewed[s] : mark[d] # NotYet
=============================================================================
