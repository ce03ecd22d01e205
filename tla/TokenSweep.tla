----------------------------- MODULE TokenSweep -----------------------------
(***************************************************************************)
(* Sweeping one merchant's TRC20 deposit wallets: the swap runs a reseller *)
(* starts (rp-merchant-swap-run.js), the rounds of the sweep cron          *)
(* (tron-usdt-automated-sweep.js) and an admin's sweep of all wallets      *)
(* (tron-usdt-sweep.js).  Each takes its wallets one by one: reads the     *)
(* balance, has TRX for the fee sent from the funder while the wallet has  *)
(* too little, and transfers all of the token.  Nothing but an in-memory   *)
(* entry for swap runs keeps two of them off the same wallets; balances    *)
(* are read, and acted on after later awaits.                              *)
(*                                                                         *)
(* The chain executes a transaction that was sent some time later or not   *)
(* at all.  A sender waits 12 seconds for a top-up and polls a minute for  *)
(* a transfer: either may land after that.                                 *)
(*                                                                         *)
(* The funder is the merchant's TRX funder key, or the swap main wallet:   *)
(* payouts are sent from that one too, and the cron may sweep it.          *)
(***************************************************************************)
EXTENDS Integers, FiniteSets, FiniteSetsExt

CONSTANTS
  NumWallets,   (* deposit wallets, in the order of their ids               *)
  Runs,         (* runs, rounds and sweeps                                  *)
  Kinds,        (* functions: run -> "swap", "auto" or "all"                *)
  TrxFees,      (* TRX that a transfer may take                             *)
  SendCosts,    (* TRX that sending a top-up may take, beside its amount    *)
  SendBuffer,   (* TRX_TOPUP_SEND_BUFFER_SUN                                *)
  FunderReserve, (* TRX_FUNDER_RESERVE_SUN                                  *)
  FunderTrx,    (* what the funder has at first                             *)
  MinAmount,    (* a wallet must hold more than this                        *)
  MaxAmount,    (* the model deposits no more than this on a wallet         *)
  MaxTopUps,    (* attempts per transfer (4)                                *)
  MaxOwnFees,   (* bound on the fees of the funder's own transfers          *)
  NoRun

SweepWallets == 1 .. NumWallets

ASSUME SweepConstants ==
  /\ NumWallets \in Nat \ {0} /\ NoRun \notin Runs
  /\ Kinds \subseteq [Runs -> {"swap", "auto", "all"}]
  /\ TrxFees \subseteq Nat \ {0} /\ \E most \in TrxFees : \A fee \in TrxFees : fee <= most
  /\ SendCosts \subseteq Nat /\ \E most \in SendCosts : \A cost \in SendCosts : cost <= most
  /\ {SendBuffer, FunderReserve, FunderTrx, MinAmount, MaxAmount, MaxTopUps, MaxOwnFees}
       \subseteq Nat
  /\ FunderReserve <= FunderTrx

(* A transaction, named by the run that sent it, the wallet it is for and  *)
(* the number of the attempt.                                              *)
Tx == [type : {"topup", "transfer"}, by : Runs, wallet : SweepWallets,
       amount : Nat, attempt : Nat]

(* Where a run is suspended; the first three are before it has a job. *)
Starting == {"idle", "preview", "signer"}
Sweeping == {"usdt", "amount", "trx", "funder", "topup", "transfer", "poll"}

Local == [amount : Nat, need : Nat, have : Nat, funds : Nat, attempt : Nat, inner : BOOLEAN]

VARIABLES
  kind,      (* run -> what it is                                           *)
  usdt,      (* wallet -> its tokens                                        *)
  trx,       (* wallet -> its TRX                                           *)
  funder,    (* TRX of the funder                                           *)
  mempool,   (* transactions sent, neither executed nor dropped             *)
  arrived,   (* transfers that were executed (history)                      *)
  runAt,     (* run -> where it is                                          *)
  local,     (* run -> what it read for the wallet it is at                 *)
  rows,      (* run -> wallet -> its row in the run                         *)
  shown,     (* jobsByRpId: the reseller's swap run, or NoRun               *)
  known,     (* swap run -> those registered when it checked (history)      *)
  stale,     (* balances that were out of date when TRX was sent (history)  *)
  ownFees    (* fees of the funder's transfers since a top-up was last sent *)
             (* (history)                                                   *)

chainVars == <<usdt, trx, funder, mempool, arrived>>
sweepVars == <<kind, chainVars, runAt, local, rows, shown, known, stale, ownFees>>

SweepTypeOK ==
  /\ kind \in [Runs -> {"swap", "auto", "all"}]
  /\ usdt \in [SweepWallets -> Nat] /\ trx \in [SweepWallets -> Nat] /\ funder \in Nat
  /\ mempool \subseteq Tx /\ arrived \subseteq Tx
  /\ runAt \in [Runs -> Starting \cup Sweeping \cup {"refused", "done", "dead"}]
  /\ local \in [Runs -> Local]
  /\ rows \in [Runs -> [SweepWallets -> {"none", "left", "queued", "completed",
                                         "failed", "skipped"}]]
  /\ shown \in Runs \cup {NoRun}
  /\ known \in [Runs -> SUBSET Runs] /\ stale \subseteq {"funder", "wallet"}
  /\ ownFees \in Nat

SweepInit ==
  /\ kind \in Kinds
  /\ usdt = [w \in SweepWallets |-> 0] /\ trx = [w \in SweepWallets |-> 0]
  /\ funder = FunderTrx /\ mempool = {} /\ arrived = {}
  /\ runAt = [r \in Runs |-> "idle"]
  /\ local = [r \in Runs |-> [amount |-> 0, need |-> 0, have |-> 0, funds |-> 0,
                              attempt |-> 0, inner |-> FALSE]]
  /\ rows = [r \in Runs |-> [w \in SweepWallets |-> "none"]]
  /\ shown = NoRun /\ known = [r \in Runs |-> {}] /\ stale = {} /\ ownFees = 0

TopUps        == {t \in mempool : t.type = "topup"}
With(r, what) == {w \in SweepWallets : rows[r][w] = what}
Current(r)    == Min(With(r, "queued"))

(* A cron round looks at the wallet before sweepTronUsdtTransferFull...    *)
FirstAwait(r) == IF kind[r] = "auto" THEN "usdt" ELSE "amount"

RunGoes(r, from, to) == runAt[r] = from /\ runAt' = [runAt EXCEPT ![r] = to]

\* Fault: a wallet that failed stays in the queue.
CloseAndRetry(r, from, status) ==
  /\ RunGoes(r, from, IF With(r, "queued") = {Current(r)} /\ status # "failed" THEN "done"
                      ELSE FirstAwait(r))
  /\ rows' = [rows EXCEPT ![r][Current(r)] = IF status = "failed" THEN "queued" ELSE status]
  /\ local' = [local EXCEPT ![r] = [amount |-> 0, need |-> 0, have |-> 0, funds |-> 0,
                                    attempt |-> 0, inner |-> FALSE]]
  /\ UNCHANGED <<kind, chainVars, shown, known, stale, ownFees>>

(* The row of the wallet at hand is closed and the next wallet taken. *)
Close(r, from, status) ==
  /\ RunGoes(r, from, IF With(r, "queued") = {Current(r)} THEN "done" ELSE FirstAwait(r))
  /\ rows' = [rows EXCEPT ![r][Current(r)] = status]
  /\ local' = [local EXCEPT ![r] = [amount |-> 0, need |-> 0, have |-> 0, funds |-> 0,
                                    attempt |-> 0, inner |-> FALSE]]
  /\ UNCHANGED <<kind, chainVars, shown, known, stale, ownFees>>

Set(r, values) == local' = [local EXCEPT ![r] = values]

-----------------------------------------------------------------------------
(* startRpMerchantSwapRun looks for a job that is running... *)
Registered == {r \in Runs : kind[r] = "swap" /\ runAt[r] \notin Starting \cup {"refused"}}

\* Fault: no look at the job in memory.
StartSwapAnyway(r) ==
  /\ kind[r] = "swap" /\ RunGoes(r, "idle", "preview")
  /\ known' = [known EXCEPT ![r] = Registered]
  /\ UNCHANGED <<kind, chainVars, local, rows, shown, stale, ownFees>>

StartSwap(r) ==
  /\ kind[r] = "swap"
  /\ RunGoes(r, "idle", IF shown # NoRun /\ runAt[shown] \in Sweeping THEN "refused"
                        ELSE "preview")
  /\ known' = [known EXCEPT ![r] = Registered]
  /\ UNCHANGED <<kind, chainVars, local, rows, shown, stale, ownFees>>

(* ... reads the balance of every wallet (one that cannot be read is left  *)
(* out) ...                                                                *)
PreviewWallet(r) ==
  LET w == Min(With(r, "none")) IN
  /\ runAt[r] = "preview"
  /\ \E row \in {"left"} \cup (IF usdt[w] > MinAmount THEN {"queued"} ELSE {}) :
       /\ rows' = [rows EXCEPT ![r][w] = row]
       /\ RunGoes(r, "preview",
            IF With(r, "none") # {w} THEN "preview"
            ELSE IF row = "queued" \/ With(r, "queued") # {} THEN "signer" ELSE "refused")
  /\ UNCHANGED <<kind, chainVars, local, shown, known, stale, ownFees>>

(* ... finds the main wallet's key, and enters its job. *)
Register(r) ==
  /\ RunGoes(r, "signer", FirstAwait(r))
  /\ shown' = r
  /\ UNCHANGED <<kind, chainVars, local, rows, known, stale, ownFees>>

(* A round of the cron, or an admin's sweep, takes every wallet. *)
LoadTargets(r) ==
  /\ kind[r] # "swap" /\ RunGoes(r, "idle", FirstAwait(r))
  /\ rows' = [rows EXCEPT ![r] = [w \in SweepWallets |-> "queued"]]
  /\ UNCHANGED <<kind, chainVars, local, shown, known, stale, ownFees>>

-----------------------------------------------------------------------------
(* sweepTronUsdtOneWithAutoTopUp: too little to sweep, or a failed read.   *)
ReadUsdt(r) ==
  /\ runAt[r] = "usdt"
  /\ \/ /\ usdt[Current(r)] > MinAmount /\ RunGoes(r, "usdt", "trx")
        /\ UNCHANGED <<kind, chainVars, local, rows, shown, known, stale, ownFees>>
     \/ usdt[Current(r)] <= MinAmount /\ Close(r, "usdt", "skipped")
     \/ Close(r, "usdt", "failed")

(* sweepTronUsdtTransferFullBalanceFromDepositWallet reads it (again). *)
ReadAmount(r) ==
  LET amount == usdt[Current(r)] IN
  /\ runAt[r] = "amount"
  /\ \/ amount = 0 /\ Close(r, "amount", "skipped")
     \/ /\ amount > 0 /\ RunGoes(r, "amount", "trx")
        /\ Set(r, [local[r] EXCEPT !.amount = amount, !.attempt = 0, !.inner = TRUE])
        /\ UNCHANGED <<kind, chainVars, rows, shown, known, stale, ownFees>>

(* The estimated fee and the wallet's TRX, at first and after a top-up: a  *)
(* round tops up once and goes on whatever came of it, a transfer tries    *)
(* until its attempts are used up.                                         *)
ReadTrx(r) ==
  LET have == trx[Current(r)] IN
  /\ runAt[r] = "trx"
  /\ \E need \in TrxFees :
    \/ /\ have >= need \/ (~local[r].inner /\ local[r].attempt = 1)
       /\ RunGoes(r, "trx", IF local[r].inner THEN "transfer" ELSE "amount")
       /\ Set(r, [local[r] EXCEPT !.need = 0, !.have = 0])
       /\ UNCHANGED <<kind, chainVars, rows, shown, known, stale, ownFees>>
    \/ /\ have < need
       /\ local[r].attempt < IF local[r].inner THEN MaxTopUps ELSE 1
       /\ RunGoes(r, "trx", "funder")
       /\ Set(r, [local[r] EXCEPT !.need = need, !.have = have])
       /\ UNCHANGED <<kind, chainVars, rows, shown, known, stale, ownFees>>
    \/ /\ have < need /\ local[r].inner /\ local[r].attempt = MaxTopUps
       /\ Close(r, "trx", "failed")

\* Fault: the shortfall the wrong way round.
GapReversed(r) == local[r].have - local[r].need + SendBuffer

\* Fault: the whole fee, whatever the wallet has.
GapWhole(r) == local[r].need + SendBuffer

(* ensureTrxForMerchantWallet: the shortfall and a small cushion. *)
Gap(r) == local[r].need - local[r].have + SendBuffer

\* Fault: the reserve is left out of the check.
CheckFunderToTheLast(r) ==
  \/ /\ funder >= Gap(r)
     /\ RunGoes(r, "funder", "topup")
     /\ Set(r, [local[r] EXCEPT !.funds = funder])
     /\ UNCHANGED <<kind, chainVars, rows, shown, known, stale, ownFees>>
  \/ funder < Gap(r) /\ Close(r, "funder", "failed")

CheckFunder(r) ==
  \/ /\ funder >= Gap(r) + FunderReserve
     /\ RunGoes(r, "funder", "topup")
     /\ Set(r, [local[r] EXCEPT !.funds = funder])
     /\ UNCHANGED <<kind, chainVars, rows, shown, known, stale, ownFees>>
  \/ funder < Gap(r) + FunderReserve /\ Close(r, "funder", "failed")

TxOf(r, type, amount) ==
  [type |-> type, by |-> r, wallet |-> Current(r), amount |-> amount,
   attempt |-> local[r].attempt + (IF local[r].inner THEN 1 ELSE 0)]

(* sendTrxNativeTopUpFromPrivateKey after its check, and the 12 seconds.   *)
SendTopUp(r) ==
  /\ RunGoes(r, "topup", "trx")
  /\ mempool' = mempool \cup {TxOf(r, "topup", Gap(r))}
  /\ stale' = stale
       \cup (IF TopUps # {} \/ funder # local[r].funds THEN {"funder"} ELSE {})
       \cup (IF \/ \E t \in TopUps : t.wallet = Current(r)
                \/ trx[Current(r)] # local[r].have THEN {"wallet"} ELSE {})
  /\ ownFees' = 0
  /\ Set(r, [local[r] EXCEPT !.attempt = @ + 1, !.need = 0, !.have = 0, !.funds = 0])
  /\ UNCHANGED <<kind, usdt, trx, funder, arrived, rows, shown, known>>

(* The amount was read before the top-ups. *)
SendTransfer(r) ==
  /\ RunGoes(r, "transfer", "poll")
  /\ mempool' = mempool \cup {TxOf(r, "transfer", local[r].amount)}
  /\ UNCHANGED <<kind, usdt, trx, funder, arrived, local, rows, shown, known, stale, ownFees>>

(* A node that refuses a transaction. *)
NotBroadcast(r) == Close(r, "topup", "failed") \/ Close(r, "transfer", "failed")

Sent(r) == TxOf(r, "transfer", local[r].amount)

\* Fault: the hash is taken for the receipt.
PollNothing(r) == runAt[r] = "poll" /\ Close(r, "poll", "completed")

(* shouldPollResponse: answered by the receipt, or given up on. *)
Poll(r) ==
  /\ runAt[r] = "poll"
  /\ Close(r, "poll", IF Sent(r) \in arrived THEN "completed" ELSE "failed")

(* An RPC call throws: a swap run closes the row, other runs end there.    *)
RpcThrows(r) ==
  \E from \in {"amount", "trx", "funder", "topup"} :
    \/ kind[r] = "swap" /\ Close(r, from, "failed")
    \/ /\ kind[r] # "swap" /\ RunGoes(r, from, "dead")
       /\ UNCHANGED <<kind, chainVars, local, rows, shown, known, stale, ownFees>>

-----------------------------------------------------------------------------
(* The chain. *)
Deposit(w) ==
  /\ usdt[w] < MaxAmount /\ usdt' = [usdt EXCEPT ![w] = @ + 1]
  /\ UNCHANGED <<kind, trx, funder, mempool, arrived, runAt, local, rows,
                 shown, known, stale, ownFees>>

ExecuteTopUp(t) ==
  /\ t.type = "topup" /\ mempool' = mempool \ {t}
  /\ \E cost \in SendCosts :
       /\ t.amount + cost <= funder
       /\ funder' = funder - t.amount - cost
  /\ trx' = [trx EXCEPT ![t.wallet] = @ + t.amount]
  /\ UNCHANGED <<kind, usdt, arrived, runAt, local, rows, shown, known, stale, ownFees>>

(* A transfer out of the funder: a payout, or a sweep of the main wallet.  *)
(* Nothing looks at the reserve.                                           *)
FunderTransfers(fee) ==
  /\ ownFees + fee <= MaxOwnFees
  /\ funder' = (IF fee <= funder THEN funder - fee ELSE 0) /\ ownFees' = ownFees + fee
  /\ UNCHANGED <<kind, usdt, trx, mempool, arrived, runAt, local, rows, shown, known, stale>>

(* The fee is taken also when the balance is gone, or the fee itself is    *)
(* more than there is.                                                     *)
ExecuteTransfer(t) ==
  /\ t.type = "transfer" /\ mempool' = mempool \ {t}
  /\ \E fee \in TrxFees :
       LET paid == fee <= trx[t.wallet] /\ t.amount <= usdt[t.wallet] IN
       /\ trx' = [trx EXCEPT ![t.wallet] = IF fee <= @ THEN @ - fee ELSE 0]
       /\ usdt' = [usdt EXCEPT ![t.wallet] = IF paid THEN @ - t.amount ELSE @]
       /\ arrived' = IF paid THEN arrived \cup {t} ELSE arrived
  /\ UNCHANGED <<kind, funder, runAt, local, rows, shown, known, stale, ownFees>>

DropTx(t) ==
  /\ mempool' = mempool \ {t}
  /\ UNCHANGED <<kind, usdt, trx, funder, arrived, runAt, local, rows, shown,
                 known, stale, ownFees>>

(* The API process dies with its swap runs and sweeps, or the cron does.   *)
RunsDie(kinds) ==
  /\ runAt' = [r \in Runs |-> IF kind[r] \notin kinds THEN runAt[r]
                              ELSE IF runAt[r] \in Sweeping THEN "dead"
                              ELSE IF runAt[r] \in {"preview", "signer"} THEN "refused"
                              ELSE runAt[r]]
  /\ shown' = IF "swap" \in kinds THEN NoRun ELSE shown
  /\ UNCHANGED <<kind, chainVars, local, rows, known, stale, ownFees>>

RunStep(r) ==
  \/ PreviewWallet(r) \/ Register(r) \/ ReadUsdt(r) \/ ReadAmount(r) \/ ReadTrx(r)
  \/ CheckFunder(r) \/ SendTopUp(r) \/ SendTransfer(r) \/ NotBroadcast(r) \/ Poll(r)
  \/ RpcThrows(r)

SweepNext ==
  \/ \E r \in Runs : StartSwap(r) \/ LoadTargets(r) \/ RunStep(r)
  \/ \E w \in SweepWallets : Deposit(w)
  \/ \E t \in mempool : ExecuteTopUp(t) \/ ExecuteTransfer(t) \/ DropTx(t)
  \/ \E fee \in TrxFees : FunderTransfers(fee)
  \/ RunsDie({"swap", "all"}) \/ RunsDie({"auto"})

(* The process goes on with a run: RPC calls and polls time out.           *)
SweepFairness == \A r \in Runs : WF_sweepVars(RunStep(r))

SweepSpec == SweepInit /\ [][SweepNext]_sweepVars /\ SweepFairness

-----------------------------------------------------------------------------
(* Top-ups leave the funder its reserve, less what sending one costs it    *)
(* and what transfers of its own took since, unless a top-up was sent on a *)
(* balance that another had changed or was about to change.                *)
ReserveKeptUnlessStale ==
  "funder" \in stale \/ funder + Max(SendCosts) + ownFees >= FunderReserve

(* However often a wallet is topped up, it ends with what one transfer     *)
(* needs and the cushion, unless a top-up was sent on a balance that       *)
(* another had changed or was about to change.                             *)
NoExcessTrxUnlessStale ==
  "wallet" \in stale \/ \A w \in SweepWallets : trx[w] <= Max(TrxFees) + SendBuffer

(* A reseller has one swap run at a time, unless two starts overlapped:    *)
(* then also a third may join the first once the second has ended.         *)
StartsOverlapped == \E x, y \in Registered : x # y /\ x \notin known[y] /\ y \notin known[x]

OneSwapRunUnlessOverlapped ==
  (\E r, q \in Registered : r # q /\ {runAt[r], runAt[q]} \subseteq Sweeping) => StartsOverlapped

(* A row that says "completed" stands for a transfer that arrived, and a   *)
(* wallet the preview listed is skipped only if another run emptied it.    *)
RowsTellTheTruth ==
  \A r \in Runs : \A w \in SweepWallets :
    /\ rows[r][w] = "completed" => \E t \in arrived : t.by = r /\ t.wallet = w
    /\ rows[r][w] = "skipped" /\ kind[r] = "swap" =>
         \E t \in arrived : t.by # r /\ t.wallet = w

(* Top-ups that never land and fees that keep rising do not hold a run up: *)
(* each run, started once, comes to an end or dies.                        *)
EveryRunEnds == []<>(\A r \in Runs : runAt[r] \notin Sweeping \cup {"preview", "signer"})
=============================================================================
