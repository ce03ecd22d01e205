-------------------------- MODULE TokenSweepProofs --------------------------
(***************************************************************************)
(* Theorems about TokenSweep, for any runs and wallets, fees, cushions,    *)
(* reserves and numbers of attempts.                                       *)
(*                                                                         *)
(* FunderInv and WalletInv add to the two balances what is on its way (and *)
(* to the funder's, what its own transfers took since): as long as no      *)
(* top-up was sent on an outdated balance there is one at most per funder, *)
(* or per wallet.  SwapInv and StartInv say that without two overlapping   *)
(* starts the run that is going on is the one in the job map.  SentInv and *)
(* SeenInv tell which transfers may have emptied a wallet that the preview *)
(* found full.                                                             *)
(***************************************************************************)
EXTENDS TokenSweep, WellFoundedInduction, TLAPS

LEMMA LessIsWellFounded == IsWellFoundedOn({ss \in Nat \X Nat : ss[1] < ss[2]}, Nat)
  BY NatLessThanWellFounded DEF OpToRel

LEMMA MinOfWallets ==
  ASSUME NEW S \in SUBSET SweepWallets, S # {}
  PROVE  Min(S) \in S
  <1> DEFINE Less == {ss \in Nat \X Nat : ss[1] < ss[2]}
             P(x) == x \in S /\ \A y \in S : x =< y
  <1>1. S \subseteq Nat BY SweepConstants DEF SweepWallets
  <1>2. PICK b \in S : \A c \in S : ~(<<c, b>> \in Less)
    BY <1>1, LessIsWellFounded, WFMin, Zenon
  <1>3. ASSUME NEW c \in S PROVE b =< c
    <2>1. c \in Nat /\ b \in Nat /\ <<c, b>> \notin Less BY <1>1, <1>2
    <2> QED BY <2>1
  <1>4. P(CHOOSE x : P(x)) BY <1>2, <1>3
  <1>5. Min(S) = CHOOSE x : P(x) BY Zenon DEF Min
  <1> QED BY <1>4, <1>5

LEMMA MaxFee == Max(TrxFees) \in Nat /\ \A fee \in TrxFees : fee \in Nat /\ fee <= Max(TrxFees)
  <1> DEFINE P(x) == x \in TrxFees /\ \A y \in TrxFees : x >= y
  <1>1. TrxFees \subseteq Nat BY SweepConstants
  <1>2. PICK most \in TrxFees : \A fee \in TrxFees : fee <= most BY SweepConstants
  <1>3. P(most) BY <1>1, <1>2
  <1>4. P(CHOOSE x : P(x)) BY <1>3
  <1>5. Max(TrxFees) = CHOOSE x : P(x) BY Zenon DEF Max
  <1> QED BY <1>1, <1>4, <1>5

LEMMA MaxCost ==
  Max(SendCosts) \in Nat /\ \A cost \in SendCosts : cost \in Nat /\ cost <= Max(SendCosts)
  <1> DEFINE P(x) == x \in SendCosts /\ \A y \in SendCosts : x >= y
  <1>1. SendCosts \subseteq Nat BY SweepConstants
  <1>2. PICK most \in SendCosts : \A cost \in SendCosts : cost <= most BY SweepConstants
  <1>3. P(most) BY <1>1, <1>2
  <1>4. P(CHOOSE x : P(x)) BY <1>3
  <1>5. Max(SendCosts) = CHOOSE x : P(x) BY Zenon DEF Max
  <1> QED BY <1>1, <1>4, <1>5

-----------------------------------------------------------------------------
QueueInv ==
  \A r \in Runs :
    /\ runAt[r] \in Sweeping \cup {"signer"} => With(r, "queued") # {}
    /\ runAt[r] = "preview"                  => With(r, "none") # {}
    /\ runAt[r] = "idle"                     => \A w \in SweepWallets : rows[r][w] = "none"
    /\ runAt[r] \in {"preview", "signer"}    => kind[r] = "swap"
    /\ runAt[r] = "usdt"                     => kind[r] = "auto"

NeedInv ==
  \A r \in Runs :
    /\ runAt[r] \in {"funder", "topup"} => local[r].need \in TrxFees /\ local[r].have < local[r].need
    /\ runAt[r] = "topup"               => local[r].funds >= Gap(r) + FunderReserve

FunderInv ==
  "funder" \notin stale =>
    /\ funder + Max(SendCosts) + ownFees >= FunderReserve
    /\ \A t \in TopUps : /\ funder + ownFees >= t.amount + FunderReserve
                         /\ \A u \in TopUps : u = t

MostTrx == Max(TrxFees) + SendBuffer

WalletInv ==
  "wallet" \notin stale =>
    /\ \A w \in SweepWallets : trx[w] <= MostTrx
    /\ \A t \in TopUps : /\ trx[t.wallet] + t.amount <= MostTrx
                         /\ \A u \in TopUps : u.wallet = t.wallet => u = t

(* The swap runs' entry is of the only run that is going on. *)
SwapInv == StartsOverlapped \/ \A r \in Registered : runAt[r] \in Sweeping => shown = r

StartInv ==
  /\ \A r \in Runs : known[r] \subseteq Registered
  /\ StartsOverlapped \/ \A r \in Runs : runAt[r] \in {"preview", "signer"} =>
       \A q \in known[r] : runAt[q] \notin Sweeping

Transfers == {t \in mempool : t.type = "transfer"} \cup arrived

SentInv ==
  \A t \in Transfers :
    /\ rows[t.by][t.wallet] \notin {"none", "left"}
    /\ rows[t.by][t.wallet] = "queued" =>
         runAt[t.by] \in {"poll", "dead"} /\ t.wallet = Current(t.by)

SeenInv ==
  \A r \in Runs : \A w \in SweepWallets :
    kind[r] = "swap" /\ rows[r][w] = "queued" =>
      \/ usdt[w] > 0
      \/ \E t \in arrived : t.wallet = w /\ (t.by # r \/ runAt[r] \in {"poll", "dead"})

IInv ==
  /\ SweepTypeOK /\ QueueInv /\ NeedInv /\ FunderInv /\ WalletInv
  /\ SwapInv /\ StartInv /\ SentInv /\ SeenInv /\ RowsTellTheTruth

LEMMA IInvHoldsAtFirst == SweepInit => IInv
  <1> SUFFICES ASSUME SweepInit PROVE IInv OBVIOUS
  <1> USE SweepConstants, MaxFee, MaxCost
  <1>1. SweepTypeOK
    BY DEF SweepInit, SweepTypeOK, Local, Starting
  <1>2. QueueInv /\ NeedInv
    BY DEF SweepInit, QueueInv, NeedInv, Sweeping
  <1>3. FunderInv /\ WalletInv
    BY DEF SweepInit, FunderInv, WalletInv, TopUps, MostTrx
  <1>4. SwapInv /\ StartInv
    BY DEF SweepInit, SwapInv, StartInv, Registered, Sweeping, Starting
  <1>5. SentInv /\ SeenInv /\ RowsTellTheTruth
    BY DEF SweepInit, SentInv, SeenInv, RowsTellTheTruth, Transfers
  <1> QED BY <1>1, <1>2, <1>3, <1>4, <1>5 DEF IInv

LEMMA CurrentIsQueued ==
  ASSUME IInv, NEW r \in Runs, runAt[r] \in Sweeping
  PROVE  Current(r) \in SweepWallets /\ rows[r][Current(r)] = "queued"
  <1>1. With(r, "queued") \in SUBSET SweepWallets /\ With(r, "queued") # {}
    BY DEF IInv, QueueInv, With
  <1>2. Current(r) \in With(r, "queued")
    BY <1>1, MinOfWallets DEF Current
  <1> QED BY <1>2 DEF With

(* A step that leaves every balance, transaction and swap run alone. *)
LEMMA SameBalances ==
  ASSUME IInv, UNCHANGED <<chainVars, stale, ownFees>>
  PROVE  FunderInv' /\ WalletInv'
  BY DEF IInv, FunderInv, WalletInv, TopUps, chainVars, MostTrx

LEMMA SameRegister ==
  ASSUME IInv, UNCHANGED <<kind, shown, known>>, NEW r \in Runs,
         \A q \in Runs \ {r} : runAt'[q] = runAt[q],
         runAt[r] \in Sweeping, runAt'[r] \in Sweeping \cup {"done", "dead"}
  PROVE  SwapInv' /\ StartInv'
  <1>1. Registered' = Registered
    BY DEF Registered, Starting, Sweeping
  <1>2. StartsOverlapped' <=> StartsOverlapped
    BY <1>1 DEF StartsOverlapped
  <1>3. SwapInv'
    BY <1>1, <1>2 DEF IInv, SwapInv, Registered
  <1>4. StartInv'
    <2>1. \A q \in Runs : known[q] \subseteq Runs BY DEF IInv, SweepTypeOK
    <2>2. \A q \in Runs : runAt'[q] \in Sweeping => runAt[q] \in Sweeping
      OBVIOUS
    <2>3. \A q \in Runs : runAt'[q] \in {"preview", "signer"} => runAt'[q] = runAt[q]
      BY DEF Sweeping
    <2> QED BY <1>1, <1>2, <2>1, <2>2, <2>3 DEF IInv, StartInv
  <1> QED BY <1>3, <1>4

LEMMA SameRows ==
  ASSUME IInv, UNCHANGED <<kind, usdt, arrived, rows>>,
         Transfers' = Transfers,
         \A q \in Runs : runAt[q] \in {"poll", "dead"} => runAt'[q] \in {"poll", "dead"}
  PROVE  SentInv' /\ SeenInv' /\ RowsTellTheTruth'
  <1> USE DEF IInv
  <1>1. \A q \in Runs : Current(q)' = Current(q) BY DEF Current, With
  <1>2. \A t \in Transfers : t.by \in Runs BY DEF Transfers, SweepTypeOK, Tx
  <1>3. SentInv' BY <1>1, <1>2 DEF SentInv
  <1>4. SeenInv' BY DEF SeenInv
  <1>5. RowsTellTheTruth' BY DEF RowsTellTheTruth
  <1> QED BY <1>3, <1>4, <1>5

LEMMA GapAmount ==
  ASSUME IInv, NEW r \in Runs, runAt[r] \in {"funder", "topup"}
  PROVE  /\ Gap(r) \in Nat /\ local[r].need \in Nat /\ local[r].have \in Nat
         /\ local[r].have + Gap(r) <= MostTrx
  <1>1. local[r].need \in TrxFees /\ local[r].have < local[r].need BY DEF IInv, NeedInv
  <1>2. local[r].have \in Nat BY DEF IInv, SweepTypeOK, Local
  <1>3. local[r].need \in Nat /\ local[r].need <= Max(TrxFees) /\ Max(TrxFees) \in Nat
    BY <1>1, MaxFee
  <1> QED BY <1>1, <1>2, <1>3, SweepConstants DEF Gap, MostTrx

(* A run goes on with the wallet it is at, or ends there. *)
LEMMA GoesOn ==
  ASSUME IInv, NEW r \in Runs, NEW from \in Sweeping \ {"poll"},
         NEW to \in {"amount", "trx", "funder", "topup", "transfer", "dead"},
         RunGoes(r, from, to), NEW values \in Local, Set(r, values),
         to \in {"funder", "topup"} => values.need \in TrxFees /\ values.have < values.need,
         to = "topup" =>
           values.funds >= values.need - values.have + SendBuffer + FunderReserve,
         UNCHANGED <<kind, chainVars, rows, shown, known, stale, ownFees>>
  PROVE  IInv'
  <1> USE SweepConstants DEF IInv, RunGoes, Set
  <1>1. SweepTypeOK' BY DEF SweepTypeOK, Sweeping, Starting, chainVars
  <1>2. QueueInv'
    <2>1. \A q \in Runs : runAt'[q] = IF q = r THEN to ELSE runAt[q]
      BY DEF SweepTypeOK
    <2>2. \A q \in Runs : With(q, "queued")' = With(q, "queued") /\ With(q, "none")' = With(q, "none")
      BY DEF With
    <2> QED BY <2>1, <2>2 DEF QueueInv, Sweeping
  <1>3. NeedInv'
    <2>1. \A q \in Runs : runAt'[q] = IF q = r THEN to ELSE runAt[q]
      BY DEF SweepTypeOK
    <2>2. \A q \in Runs : local'[q] = IF q = r THEN values ELSE local[q]
      BY DEF SweepTypeOK
    <2> SUFFICES ASSUME NEW q \in Runs
                 PROVE  /\ runAt'[q] \in {"funder", "topup"} =>
                             local'[q].need \in TrxFees /\ local'[q].have < local'[q].need
                        /\ runAt'[q] = "topup" => local'[q].funds >=
                             local'[q].need - local'[q].have + SendBuffer + FunderReserve
      BY DEF NeedInv, Gap
    <2>3. CASE q = r BY <2>1, <2>2, <2>3
    <2>4. CASE q # r BY <2>1, <2>2, <2>4 DEF NeedInv, Gap
    <2> QED BY <2>3, <2>4
  <1>4. FunderInv' /\ WalletInv' BY SameBalances
  <1>5. SwapInv' /\ StartInv'
    <2>1. \A q \in Runs \ {r} : runAt'[q] = runAt[q] BY DEF SweepTypeOK
    <2>2. runAt[r] \in Sweeping /\ runAt'[r] \in Sweeping \cup {"done", "dead"}
      BY DEF SweepTypeOK, Sweeping
    <2> QED BY <2>1, <2>2, SameRegister
  <1>6. SentInv' /\ SeenInv' /\ RowsTellTheTruth'
    <2>1. \A q \in Runs : runAt[q] \in {"poll", "dead"} => runAt'[q] \in {"poll", "dead"}
      BY DEF SweepTypeOK, Sweeping
    <2>2. Transfers' = Transfers BY DEF Transfers, chainVars
    <2> QED BY <2>1, <2>2, SameRows DEF chainVars
  <1> QED BY <1>1, <1>2, <1>3, <1>4, <1>5, <1>6

(* A row is closed for a reason, and the next wallet taken. *)
LEMMA Closes ==
  ASSUME IInv, NEW r \in Runs, NEW from \in Sweeping,
         NEW status \in {"completed", "failed", "skipped"}, Close(r, from, status),
         status = "completed" => \E t \in arrived : t.by = r /\ t.wallet = Current(r),
         status = "skipped" /\ kind[r] = "swap" => from = "amount" /\ usdt[Current(r)] = 0
  PROVE  IInv'
  <1> USE SweepConstants DEF IInv
  <1> DEFINE w == Current(r)
             next == IF With(r, "queued") = {w} THEN "done" ELSE FirstAwait(r)
  <1>1. w \in SweepWallets /\ rows[r][w] = "queued" /\ runAt[r] = from
    BY CurrentIsQueued DEF Close, RunGoes
  <1>2. /\ runAt' = [runAt EXCEPT ![r] = next] /\ rows' = [rows EXCEPT ![r][w] = status]
        /\ UNCHANGED <<kind, chainVars, shown, known, stale, ownFees>>
    BY DEF Close, RunGoes
  <1>3. next \in {"done", "usdt", "amount"} /\ (next = "usdt" => kind[r] = "auto")
    BY DEF FirstAwait
  <1>4. \A q \in Runs : runAt'[q] = IF q = r THEN next ELSE runAt[q]
    BY <1>2 DEF SweepTypeOK
  <1>5. \A q \in Runs, v \in SweepWallets :
          rows'[q][v] = IF q = r /\ v = w THEN status ELSE rows[q][v]
    BY <1>1, <1>2 DEF SweepTypeOK
  <1>6. \A q \in Runs : /\ With(q, "queued")' = With(q, "queued") \ (IF q = r THEN {w} ELSE {})
                         /\ With(q, "none")' = With(q, "none")
    BY <1>1, <1>5 DEF With
  <1>7. usdt' = usdt /\ arrived' = arrived /\ Transfers' = Transfers
    BY <1>2 DEF chainVars, Transfers
  <1>8. \A q \in Runs \ {r} : Current(q)' = Current(q)
    BY <1>6 DEF Current
  <1> HIDE DEF next
  <1>a. SweepTypeOK'
    <2>1. local' \in [Runs -> Local]
      BY DEF Close, SweepTypeOK, Local
    <2>2. rows' \in [Runs -> [SweepWallets -> {"none", "left", "queued", "completed",
                                                "failed", "skipped"}]]
      BY <1>1, <1>2 DEF SweepTypeOK
    <2>3. runAt' \in [Runs -> Starting \cup Sweeping \cup {"refused", "done", "dead"}]
      BY <1>2, <1>3 DEF SweepTypeOK, Sweeping
    <2> QED BY <1>2, <2>1, <2>2, <2>3 DEF SweepTypeOK, chainVars
  <1>b. QueueInv'
    <2>1. next # "done" => With(r, "queued")' # {}
      <3>1. With(r, "queued") # {} BY <1>1 DEF With
      <3> QED BY <1>6, <3>1 DEF next
    <2>2. \A q \in Runs \ {r} : \A v \in SweepWallets : rows'[q][v] = rows[q][v]
      BY <1>5
    <2> QED BY <1>2, <1>3, <1>4, <1>6, <2>1, <2>2 DEF QueueInv, Sweeping
  <1>c. NeedInv'
    <2>1. \A q \in Runs \ {r} : local'[q] = local[q]
      BY DEF Close, SweepTypeOK
    <2> QED BY <1>3, <1>4, <2>1 DEF NeedInv, Gap
  <1>d. FunderInv' /\ WalletInv' BY <1>2, SameBalances
  <1>e. SwapInv' /\ StartInv'
    <2>1. runAt'[r] \in Sweeping \cup {"done", "dead"} BY <1>3, <1>4 DEF Sweeping
    <2> QED BY <1>1, <1>2, <1>4, <2>1, SameRegister
  <1>f. SentInv'
    <2> SUFFICES ASSUME NEW t \in Transfers
                 PROVE  /\ rows'[t.by][t.wallet] \notin {"none", "left"}
                        /\ rows'[t.by][t.wallet] = "queued" =>
                             runAt'[t.by] \in {"poll", "dead"} /\ t.wallet = Current(t.by)'
      BY <1>7 DEF SentInv
    <2>1. t.by \in Runs /\ t.wallet \in SweepWallets BY DEF Transfers, SweepTypeOK, Tx
    <2>2. CASE t.by = r
      <3>1. rows[r][t.wallet] = "queued" => t.wallet = w BY <2>2 DEF SentInv
      <3>2. rows'[r][t.wallet] # "queued" BY <1>5, <2>1, <3>1
      <3>3. rows'[r][t.wallet] \notin {"none", "left"} BY <1>5, <2>1, <2>2 DEF SentInv
      <3> QED BY <2>2, <3>2, <3>3
    <2>3. CASE t.by # r
      BY <1>4, <1>5, <1>8, <2>1, <2>3 DEF SentInv
    <2> QED BY <2>2, <2>3
  <1>g. SeenInv'
    <2> SUFFICES ASSUME NEW q \in Runs, NEW v \in SweepWallets,
                        kind[q] = "swap", rows'[q][v] = "queued", ~(usdt[v] > 0)
                 PROVE  \E t \in arrived : t.wallet = v /\ (t.by # q \/ runAt'[q] \in {"poll", "dead"})
      BY <1>2, <1>7 DEF SeenInv
    <2>1. rows[q][v] = "queued" /\ ~(q = r /\ v = w) BY <1>5
    <2>2. PICK t \in arrived : t.wallet = v /\ (t.by # q \/ runAt[q] \in {"poll", "dead"})
      BY <2>1 DEF SeenInv
    <2>3. q = r => t.by # q
      BY <2>1, <2>2 DEF SentInv, Transfers
    <2> QED BY <1>4, <2>2, <2>3
  <1>h. RowsTellTheTruth'
    <2> SUFFICES ASSUME NEW q \in Runs, NEW v \in SweepWallets
                 PROVE  /\ rows'[q][v] = "completed" => \E t \in arrived : t.by = q /\ t.wallet = v
                        /\ rows'[q][v] = "skipped" /\ kind[q] = "swap" =>
                             \E t \in arrived : t.by # q /\ t.wallet = v
      BY <1>2, <1>7 DEF RowsTellTheTruth
    <2>1. CASE q = r /\ v = w
      <3>1. status = "skipped" /\ kind[r] = "swap" => \E t \in arrived : t.by # r /\ t.wallet = w
        BY <1>1 DEF SeenInv
      <3> QED BY <1>1, <1>5, <2>1, <3>1
    <2>2. CASE ~(q = r /\ v = w)
      BY <1>5, <2>2 DEF RowsTellTheTruth
    <2> QED BY <2>1, <2>2
  <1> QED BY <1>a, <1>b, <1>c, <1>d, <1>e, <1>f, <1>g, <1>h

-----------------------------------------------------------------------------
LEMMA ReadUsdtKeeps ==
  ASSUME IInv, NEW r \in Runs, ReadUsdt(r)
  PROVE  IInv'
  <1> USE SweepConstants DEF ReadUsdt
  <1>1. CASE RunGoes(r, "usdt", "trx") /\ UNCHANGED <<kind, chainVars, local, rows, shown, known, stale, ownFees>>
    <2>1. local[r] \in Local /\ local' = [local EXCEPT ![r] = local[r]]
      BY <1>1 DEF IInv, SweepTypeOK
    <2>2. PICK values \in Local : local' = [local EXCEPT ![r] = values] BY <2>1
    <2> QED BY <1>1, <2>2, GoesOn DEF Sweeping, Set
  <1>2. CASE Close(r, "usdt", "skipped")
    <2>1. kind[r] # "swap" BY DEF IInv, QueueInv
    <2> QED BY <1>2, <2>1, Closes DEF Sweeping
  <1>3. CASE Close(r, "usdt", "failed")
    BY <1>3, Closes DEF Sweeping
  <1> QED BY <1>1, <1>2, <1>3

LEMMA ReadAmountKeeps ==
  ASSUME IInv, NEW r \in Runs, ReadAmount(r)
  PROVE  IInv'
  <1> DEFINE amount == usdt[Current(r)]
  <1>1. runAt[r] = "amount" /\ Current(r) \in SweepWallets
    BY CurrentIsQueued DEF ReadAmount, Sweeping
  <1>2. CASE amount = 0 /\ Close(r, "amount", "skipped")
    BY <1>2, Closes DEF Sweeping
  <1>3. CASE /\ amount > 0 /\ RunGoes(r, "amount", "trx")
             /\ Set(r, [local[r] EXCEPT !.amount = amount, !.attempt = 0, !.inner = TRUE])
             /\ UNCHANGED <<kind, chainVars, rows, shown, known, stale, ownFees>>
    <2>1. amount \in Nat BY <1>1 DEF IInv, SweepTypeOK
    <2>2. [local[r] EXCEPT !.amount = amount, !.attempt = 0, !.inner = TRUE] \in Local
      BY <2>1 DEF IInv, SweepTypeOK, Local
    <2>3. PICK values \in Local : Set(r, values) BY <1>3, <2>2
    <2> QED BY <1>3, <2>3, GoesOn DEF Sweeping
  <1> QED BY <1>2, <1>3 DEF ReadAmount

LEMMA ReadTrxKeeps ==
  ASSUME IInv, NEW r \in Runs, ReadTrx(r)
  PROVE  IInv'
  <1>1. Current(r) \in SweepWallets BY CurrentIsQueued DEF ReadTrx, Sweeping
  <1> DEFINE have == trx[Current(r)]
  <1>2. PICK need \in TrxFees :
    \/ /\ RunGoes(r, "trx", IF local[r].inner THEN "transfer" ELSE "amount")
       /\ Set(r, [local[r] EXCEPT !.need = 0, !.have = 0])
       /\ UNCHANGED <<kind, chainVars, rows, shown, known, stale, ownFees>>
    \/ /\ have < need /\ RunGoes(r, "trx", "funder")
       /\ Set(r, [local[r] EXCEPT !.need = need, !.have = have])
       /\ UNCHANGED <<kind, chainVars, rows, shown, known, stale, ownFees>>
    \/ Close(r, "trx", "failed")
    BY DEF ReadTrx
  <1>3. have \in Nat BY <1>1 DEF IInv, SweepTypeOK
  <1>4. need \in Nat BY MaxFee
  <1>5. CASE /\ RunGoes(r, "trx", IF local[r].inner THEN "transfer" ELSE "amount")
             /\ Set(r, [local[r] EXCEPT !.need = 0, !.have = 0])
             /\ UNCHANGED <<kind, chainVars, rows, shown, known, stale, ownFees>>
    <2>1. [local[r] EXCEPT !.need = 0, !.have = 0] \in Local
      BY DEF IInv, SweepTypeOK, Local
    <2>2. PICK values \in Local : Set(r, values) BY <1>5, <2>1
    <2>3. CASE local[r].inner
      <3>1. RunGoes(r, "trx", "transfer") BY <1>5, <2>3
      <3> QED BY <1>5, <2>2, <3>1, GoesOn DEF Sweeping
    <2>4. CASE ~local[r].inner
      <3>1. RunGoes(r, "trx", "amount") BY <1>5, <2>4
      <3> QED BY <1>5, <2>2, <3>1, GoesOn DEF Sweeping
    <2> QED BY <2>3, <2>4
  <1>6. CASE /\ have < need /\ RunGoes(r, "trx", "funder")
             /\ Set(r, [local[r] EXCEPT !.need = need, !.have = have])
             /\ UNCHANGED <<kind, chainVars, rows, shown, known, stale, ownFees>>
    <2>1. [local[r] EXCEPT !.need = need, !.have = have] \in Local
      BY <1>3, <1>4 DEF IInv, SweepTypeOK, Local
    <2>2. /\ [local[r] EXCEPT !.need = need, !.have = have].need = need
          /\ [local[r] EXCEPT !.need = need, !.have = have].have = have
      BY DEF IInv, SweepTypeOK, Local
    <2>3. PICK values \in Local :
            Set(r, values) /\ values.need \in TrxFees /\ values.have < values.need
      BY <1>6, <2>1, <2>2
    <2> QED BY <1>6, <2>3, GoesOn DEF Sweeping
  <1>7. CASE Close(r, "trx", "failed")
    BY <1>7, Closes DEF Sweeping
  <1> QED BY <1>2, <1>5, <1>6, <1>7

LEMMA CheckFunderKeeps ==
  ASSUME IInv, NEW r \in Runs, CheckFunder(r)
  PROVE  IInv'
  <1>1. CASE /\ funder >= Gap(r) + FunderReserve /\ RunGoes(r, "funder", "topup")
             /\ Set(r, [local[r] EXCEPT !.funds = funder])
             /\ UNCHANGED <<kind, chainVars, rows, shown, known, stale, ownFees>>
    <2> DEFINE to == [local[r] EXCEPT !.funds = funder]
    <2>1. runAt[r] = "funder" BY <1>1 DEF RunGoes
    <2>2. to \in Local /\ to.funds = funder /\ to.need = local[r].need /\ to.have = local[r].have
      BY DEF IInv, SweepTypeOK, Local
    <2>3. to.need \in TrxFees /\ to.have < to.need
      BY <2>1, <2>2 DEF IInv, NeedInv
    <2>4. to.funds >= to.need - to.have + SendBuffer + FunderReserve
      BY <1>1, <2>2 DEF Gap
    <2> HIDE DEF to
    <2>5. PICK values \in Local : values = to BY <2>2
    <2>6. Set(r, values) BY <1>1, <2>5 DEF to
    <2> QED BY <1>1, <2>3, <2>4, <2>5, <2>6, GoesOn DEF Sweeping
  <1>2. CASE Close(r, "funder", "failed")
    BY <1>2, Closes DEF Sweeping
  <1> QED BY <1>1, <1>2 DEF CheckFunder

LEMMA PollKeeps ==
  ASSUME IInv, NEW r \in Runs, Poll(r)
  PROVE  IInv'
  <1>1. CASE Sent(r) \in arrived /\ Close(r, "poll", "completed")
    <2>1. Sent(r).by = r /\ Sent(r).wallet = Current(r) BY DEF Sent, TxOf
    <2> QED BY <1>1, <2>1, Closes DEF Sweeping
  <1>2. CASE Close(r, "poll", "failed")
    BY <1>2, Closes DEF Sweeping
  <1> QED BY <1>1, <1>2 DEF Poll

LEMMA NotBroadcastKeeps ==
  ASSUME IInv, NEW r \in Runs, NotBroadcast(r)
  PROVE  IInv'
  BY Closes DEF NotBroadcast, Sweeping

LEMMA RpcThrowsKeeps ==
  ASSUME IInv, NEW r \in Runs, RpcThrows(r)
  PROVE  IInv'
  <1>1. PICK from \in {"amount", "trx", "funder", "topup"} :
          \/ Close(r, from, "failed")
          \/ /\ RunGoes(r, from, "dead")
             /\ UNCHANGED <<kind, chainVars, local, rows, shown, known, stale, ownFees>>
    BY DEF RpcThrows
  <1>2. from \in Sweeping \ {"poll"} BY DEF Sweeping
  <1>3. CASE Close(r, from, "failed") BY <1>2, <1>3, Closes
  <1>4. CASE /\ RunGoes(r, from, "dead")
             /\ UNCHANGED <<kind, chainVars, local, rows, shown, known, stale, ownFees>>
    <2>1. local[r] \in Local /\ local' = [local EXCEPT ![r] = local[r]]
      BY <1>4 DEF IInv, SweepTypeOK
    <2>2. PICK values \in Local : Set(r, values) BY <2>1 DEF Set
    <2> QED BY <1>2, <1>4, <2>2, GoesOn
  <1> QED BY <1>1, <1>3, <1>4

LEMMA SendTopUpKeeps ==
  ASSUME IInv, NEW r \in Runs, SendTopUp(r)
  PROVE  IInv'
  <1> USE SweepConstants DEF IInv
  <1> DEFINE w == Current(r)
             t == TxOf(r, "topup", Gap(r))
  <1>1. w \in SweepWallets /\ rows[r][w] = "queued" /\ runAt[r] = "topup"
    BY CurrentIsQueued DEF SendTopUp, RunGoes, Sweeping
  <1>2. Gap(r) \in Nat /\ local[r].have \in Nat /\ local[r].have + Gap(r) <= MostTrx
    BY <1>1, GapAmount
  <1>3. t \in Tx /\ t.type = "topup" /\ t.wallet = w /\ t.amount = Gap(r)
    <2>1. local[r].attempt \in Nat BY DEF SweepTypeOK, Local
    <2>2. local[r].attempt + (IF local[r].inner THEN 1 ELSE 0) \in Nat BY <2>1
    <2> QED BY <1>1, <1>2, <2>2 DEF TxOf, Tx
  <1>4. /\ UNCHANGED <<kind, usdt, trx, funder, arrived, rows, shown, known>>
        /\ mempool' = mempool \cup {t} /\ TopUps' = TopUps \cup {t} /\ ownFees' = 0
    BY <1>3 DEF SendTopUp, TopUps
  <1>5. \A q \in Runs : runAt'[q] = IF q = r THEN "trx" ELSE runAt[q]
    BY DEF SendTopUp, RunGoes, SweepTypeOK
  <1> HIDE DEF t
  <1>a. SweepTypeOK'
    <2>1. local' \in [Runs -> Local]
      <3>0. local[r] \in Local /\ local[r].attempt + 1 \in Nat
        BY DEF SweepTypeOK, Local
      <3>1. [local[r] EXCEPT !.attempt = local[r].attempt + 1, !.need = 0, !.have = 0, !.funds = 0]
              \in Local
        BY <3>0 DEF Local
      <3> QED BY <3>1 DEF SendTopUp, Set, SweepTypeOK
    <2>2. runAt' \in [Runs -> Starting \cup Sweeping \cup {"refused", "done", "dead"}]
      BY DEF SendTopUp, RunGoes, SweepTypeOK, Sweeping
    <2>3. stale' \subseteq {"funder", "wallet"}
      BY DEF SendTopUp, SweepTypeOK
    <2>4. mempool' \subseteq Tx BY <1>3, <1>4 DEF SweepTypeOK
    <2> QED BY <1>4, <2>1, <2>2, <2>3, <2>4 DEF SweepTypeOK
  <1>b. QueueInv'
    <2>1. \A q \in Runs : With(q, "queued")' = With(q, "queued") /\ With(q, "none")' = With(q, "none")
      BY <1>4 DEF With
    <2> QED BY <1>1, <1>4, <1>5, <2>1 DEF QueueInv, Sweeping
  <1>c. NeedInv'
    <2>1. \A q \in Runs \ {r} : local'[q] = local[q]
      BY DEF SendTopUp, Set, SweepTypeOK
    <2> QED BY <1>5, <2>1 DEF NeedInv, Gap
  <1>d. FunderInv'
    <2> SUFFICES ASSUME "funder" \notin stale'
                 PROVE  /\ funder + Max(SendCosts) + 0 >= FunderReserve
                        /\ \A u \in TopUps \cup {t} : /\ funder + 0 >= u.amount + FunderReserve
                                                     /\ \A v \in TopUps \cup {t} : v = u
      BY <1>4 DEF FunderInv
    <2>1. TopUps = {} /\ funder = local[r].funds /\ funder \in Nat
      BY DEF SendTopUp, SweepTypeOK
    <2>2. local[r].funds >= Gap(r) + FunderReserve BY <1>1 DEF NeedInv
    <2>3. funder >= FunderReserve /\ funder >= t.amount + FunderReserve
      BY <1>2, <1>3, <2>1, <2>2
    <2> QED BY <2>1, <2>3, MaxCost
  <1>e. WalletInv'
    <2> SUFFICES ASSUME "wallet" \notin stale'
                 PROVE  /\ \A v \in SweepWallets : trx[v] <= MostTrx
                        /\ \A u \in TopUps \cup {t} :
                             /\ trx[u.wallet] + u.amount <= MostTrx
                             /\ \A x \in TopUps \cup {t} : x.wallet = u.wallet => x = u
      BY <1>4 DEF WalletInv, MostTrx
    <2>1. /\ "wallet" \notin stale /\ trx[w] = local[r].have
          /\ \A u \in TopUps : u.wallet # w
      BY DEF SendTopUp
    <2>2. trx[t.wallet] + t.amount <= MostTrx BY <1>2, <1>3, <2>1
    <2> QED BY <1>3, <2>1, <2>2 DEF WalletInv
  <1>f. SwapInv' /\ StartInv'
    <2>1. runAt[r] \in Sweeping /\ runAt'[r] \in Sweeping \cup {"done", "dead"}
      BY <1>1, <1>5 DEF Sweeping
    <2> QED BY <1>4, <1>5, <2>1, SameRegister
  <1>g. SentInv' /\ SeenInv' /\ RowsTellTheTruth'
    <2>1. Transfers' = Transfers BY <1>3, <1>4 DEF Transfers
    <2>2. \A q \in Runs : runAt[q] \in {"poll", "dead"} => runAt'[q] \in {"poll", "dead"}
      BY <1>1, <1>5
    <2> QED BY <1>4, <2>1, <2>2, SameRows
  <1> QED BY <1>a, <1>b, <1>c, <1>d, <1>e, <1>f, <1>g

LEMMA SendTransferKeeps ==
  ASSUME IInv, NEW r \in Runs, SendTransfer(r)
  PROVE  IInv'
  <1> USE SweepConstants DEF IInv
  <1> DEFINE w == Current(r)
  <1>1. w \in SweepWallets /\ rows[r][w] = "queued" /\ runAt[r] = "transfer"
    BY CurrentIsQueued DEF SendTransfer, RunGoes, Sweeping
  <1>0. PICK t : t = TxOf(r, "transfer", local[r].amount) OBVIOUS
  <1>2. t \in Tx /\ t.type = "transfer" /\ t.wallet = w /\ t.by = r
    <2>1. local[r].attempt \in Nat /\ local[r].amount \in Nat BY DEF SweepTypeOK, Local
    <2>2. local[r].attempt + (IF local[r].inner THEN 1 ELSE 0) \in Nat BY <2>1
    <2> QED BY <1>0, <1>1, <2>1, <2>2 DEF TxOf, Tx
  <1>3. /\ UNCHANGED <<kind, usdt, trx, funder, arrived, local, rows, shown, known, stale, ownFees>>
        /\ mempool' = mempool \cup {t} /\ TopUps' = TopUps
        /\ Transfers' = Transfers \cup {t}
    BY <1>0, <1>2 DEF SendTransfer, TopUps, Transfers
  <1>4. \A q \in Runs : runAt'[q] = IF q = r THEN "poll" ELSE runAt[q]
    BY DEF SendTransfer, RunGoes, SweepTypeOK
  <1>a. SweepTypeOK'
    <2>1. runAt' \in [Runs -> Starting \cup Sweeping \cup {"refused", "done", "dead"}]
      BY DEF SendTransfer, RunGoes, SweepTypeOK, Sweeping
    <2> QED BY <1>2, <1>3, <2>1 DEF SweepTypeOK
  <1>b. QueueInv'
    <2>1. \A q \in Runs : With(q, "queued")' = With(q, "queued") /\ With(q, "none")' = With(q, "none")
      BY <1>3 DEF With
    <2> QED BY <1>1, <1>3, <1>4, <2>1 DEF QueueInv, Sweeping
  <1>c. NeedInv' BY <1>3, <1>4 DEF NeedInv, Gap
  <1>d. FunderInv' /\ WalletInv' BY <1>3 DEF FunderInv, WalletInv, MostTrx
  <1>e. SwapInv' /\ StartInv'
    <2>1. runAt[r] \in Sweeping /\ runAt'[r] \in Sweeping \cup {"done", "dead"}
      BY <1>1, <1>4 DEF Sweeping
    <2> QED BY <1>3, <1>4, <2>1, SameRegister
  <1>f. SentInv'
    <2>1. \A q \in Runs : Current(q)' = Current(q) BY <1>3 DEF Current, With
    <2>2. \A u \in Transfers : u.by \in Runs BY DEF Transfers, SweepTypeOK, Tx
    <2>3. \A u \in Transfers : /\ rows'[u.by][u.wallet] \notin {"none", "left"}
                               /\ rows'[u.by][u.wallet] = "queued" =>
                                    runAt'[u.by] \in {"poll", "dead"} /\ u.wallet = Current(u.by)'
      BY <1>3, <1>4, <2>1, <2>2 DEF SentInv
    <2>4. /\ rows'[t.by][t.wallet] = "queued" /\ runAt'[t.by] = "poll"
          /\ t.wallet = Current(t.by)'
      BY <1>1, <1>2, <1>3, <1>4, <2>1
    <2> QED BY <1>3, <2>3, <2>4 DEF SentInv
  <1>g. SeenInv'
    <2>1. \A q \in Runs : runAt[q] \in {"poll", "dead"} => runAt'[q] \in {"poll", "dead"}
      BY <1>1, <1>4
    <2> QED BY <1>3, <2>1 DEF SeenInv
  <1>h. RowsTellTheTruth' BY <1>3 DEF RowsTellTheTruth
  <1> QED BY <1>a, <1>b, <1>c, <1>d, <1>e, <1>f, <1>g, <1>h

-----------------------------------------------------------------------------
(* Steps of the chain leave the runs where they are. *)
LEMMA SameRuns ==
  ASSUME IInv, UNCHANGED <<kind, runAt, local, rows, shown, known>>
  PROVE  QueueInv' /\ NeedInv' /\ SwapInv' /\ StartInv'
  <1> USE DEF IInv
  <1>1. QueueInv' BY DEF QueueInv, With
  <1>2. NeedInv' BY DEF NeedInv, Gap
  <1>3. Registered' = Registered BY DEF Registered
  <1>4. StartsOverlapped' <=> StartsOverlapped BY <1>3 DEF StartsOverlapped
  <1>5. SwapInv' BY <1>3, <1>4 DEF SwapInv
  <1>6. StartInv' BY <1>3, <1>4 DEF StartInv
  <1> QED BY <1>1, <1>2, <1>5, <1>6

LEMMA DepositKeeps ==
  ASSUME IInv, NEW w \in SweepWallets, Deposit(w)
  PROVE  IInv'
  <1> USE DEF IInv, Deposit
  <1>1. \A v \in SweepWallets : usdt[v] \in Nat /\ usdt'[v] \in Nat /\ usdt'[v] >= usdt[v]
    BY DEF SweepTypeOK
  <1>2. SweepTypeOK' BY DEF SweepTypeOK
  <1>3. FunderInv' /\ WalletInv' BY DEF FunderInv, WalletInv, TopUps, MostTrx
  <1>4. SentInv' BY DEF SentInv, Transfers, Current, With
  <1>5. SeenInv' BY <1>1 DEF SeenInv
  <1>6. RowsTellTheTruth' BY DEF RowsTellTheTruth
  <1> QED BY <1>2, <1>3, <1>4, <1>5, <1>6, SameRuns

LEMMA ExecuteTopUpKeeps ==
  ASSUME IInv, NEW t \in mempool, ExecuteTopUp(t)
  PROVE  IInv'
  <1> USE SweepConstants DEF IInv
  <1>1. t \in TopUps /\ t.wallet \in SweepWallets /\ t.amount \in Nat
    BY DEF ExecuteTopUp, TopUps, SweepTypeOK, Tx
  <1>2. UNCHANGED <<kind, usdt, arrived, runAt, local, rows, shown, known, stale, ownFees>>
    BY DEF ExecuteTopUp
  <1>c. PICK cost \in SendCosts : t.amount + cost <= funder /\ funder' = funder - t.amount - cost
    BY DEF ExecuteTopUp
  <1>3. TopUps' = TopUps \ {t} BY DEF ExecuteTopUp, TopUps
  <1>4. Transfers' = Transfers BY DEF ExecuteTopUp, Transfers
  <1>5. \A w \in SweepWallets : trx'[w] = IF w = t.wallet THEN trx[w] + t.amount ELSE trx[w]
    BY <1>1 DEF ExecuteTopUp, SweepTypeOK
  <1>6. SweepTypeOK'
    <2>1. trx' \in [SweepWallets -> Nat] BY <1>1 DEF ExecuteTopUp, SweepTypeOK
    <2>2. funder' \in Nat
      <3>1. cost \in Nat /\ funder \in Nat BY MaxCost DEF SweepTypeOK
      <3> QED BY <1>1, <1>c, <3>1
    <2>3. mempool' \subseteq Tx BY DEF ExecuteTopUp, SweepTypeOK
    <2> QED BY <1>2, <2>1, <2>2, <2>3 DEF SweepTypeOK
  <1>7. FunderInv'
    <2> SUFFICES ASSUME "funder" \notin stale
                 PROVE  /\ funder' + Max(SendCosts) + ownFees >= FunderReserve
                        /\ \A u \in TopUps \ {t} : FALSE
      BY <1>2, <1>3 DEF FunderInv
    <2>1. funder + ownFees >= t.amount + FunderReserve /\ \A u \in TopUps : u = t
      BY <1>1 DEF FunderInv
    <2>2. funder \in Nat /\ ownFees \in Nat BY DEF SweepTypeOK
    <2>3. cost \in Nat /\ Max(SendCosts) \in Nat /\ cost <= Max(SendCosts) BY MaxCost
    <2>4. funder' + Max(SendCosts) + ownFees >= FunderReserve
      BY <1>1, <1>c, <2>1, <2>2, <2>3
    <2> QED BY <2>1, <2>4
  <1>8. WalletInv'
    <2> SUFFICES ASSUME "wallet" \notin stale
                 PROVE  /\ \A w \in SweepWallets : trx'[w] <= MostTrx
                        /\ \A u \in TopUps \ {t} :
                             /\ trx'[u.wallet] + u.amount <= MostTrx
                             /\ \A v \in TopUps \ {t} : v.wallet = u.wallet => v = u
      BY <1>2, <1>3 DEF WalletInv, MostTrx
    <2>1. trx[t.wallet] + t.amount <= MostTrx BY <1>1 DEF WalletInv
    <2>2. \A w \in SweepWallets : trx'[w] <= MostTrx BY <1>5, <2>1 DEF WalletInv
    <2>3. \A u \in TopUps \ {t} : u.wallet # t.wallet /\ u.wallet \in SweepWallets
      BY <1>1 DEF WalletInv, TopUps, SweepTypeOK, Tx
    <2> QED BY <1>5, <2>2, <2>3 DEF WalletInv
  <1>9. SentInv' /\ SeenInv' /\ RowsTellTheTruth' BY <1>2, <1>4, SameRows
  <1> QED BY <1>2, <1>6, <1>7, <1>8, <1>9, SameRuns

LEMMA FunderTransfersKeeps ==
  ASSUME IInv, NEW fee \in TrxFees, FunderTransfers(fee)
  PROVE  IInv'
  <1> USE DEF IInv
  <1>1. fee \in Nat /\ funder \in Nat /\ ownFees \in Nat BY MaxFee DEF SweepTypeOK
  <1>2. funder' \in Nat /\ ownFees' \in Nat /\ funder' + ownFees' >= funder + ownFees
    BY <1>1 DEF FunderTransfers
  <1>3. UNCHANGED <<kind, usdt, trx, mempool, arrived, runAt, local, rows, shown, known, stale>>
    BY DEF FunderTransfers
  <1>4. SweepTypeOK' BY <1>2, <1>3 DEF SweepTypeOK
  <1>5. TopUps' = TopUps /\ Transfers' = Transfers BY <1>3 DEF TopUps, Transfers
  <1>6. FunderInv'
    <2> SUFFICES ASSUME "funder" \notin stale
                 PROVE  /\ funder' + Max(SendCosts) + ownFees' >= FunderReserve
                        /\ \A t \in TopUps : /\ funder' + ownFees' >= t.amount + FunderReserve
                                             /\ \A u \in TopUps : u = t
      BY <1>3, <1>5 DEF FunderInv
    <2>1. \A t \in TopUps : t.amount \in Nat BY DEF TopUps, SweepTypeOK, Tx
    <2> QED BY <1>1, <1>2, <2>1, MaxCost, SweepConstants DEF FunderInv
  <1>7. WalletInv' BY <1>3, <1>5 DEF WalletInv, MostTrx
  <1>8. SentInv' /\ SeenInv' /\ RowsTellTheTruth' BY <1>3, <1>5, SameRows
  <1> QED BY <1>3, <1>4, <1>6, <1>7, <1>8, SameRuns

LEMMA ExecuteTransferKeeps ==
  ASSUME IInv, NEW t \in mempool, ExecuteTransfer(t)
  PROVE  IInv'
  <1> USE SweepConstants DEF IInv
  <1>1. t \in Transfers /\ t.type = "transfer" /\ t.wallet \in SweepWallets
        /\ t.amount \in Nat /\ t.by \in Runs
    BY DEF ExecuteTransfer, Transfers, SweepTypeOK, Tx
  <1>2. UNCHANGED <<kind, funder, runAt, local, rows, shown, known, stale, ownFees>>
        /\ mempool' = mempool \ {t}
    BY DEF ExecuteTransfer
  <1>3. PICK fee \in TrxFees :
          LET paid == fee <= trx[t.wallet] /\ t.amount <= usdt[t.wallet] IN
          /\ trx' = [trx EXCEPT ![t.wallet] = IF fee <= @ THEN @ - fee ELSE 0]
          /\ usdt' = [usdt EXCEPT ![t.wallet] = IF paid THEN @ - t.amount ELSE @]
          /\ arrived' = IF paid THEN arrived \cup {t} ELSE arrived
    BY DEF ExecuteTransfer
  <1>4. fee \in Nat BY MaxFee
  <1>5. TopUps' = TopUps BY <1>1, <1>2 DEF TopUps
  <1>6. Transfers' \subseteq Transfers /\ arrived \subseteq arrived'
    BY <1>1, <1>2, <1>3 DEF Transfers
  <1>7. trx' \in [SweepWallets -> Nat] /\ \A w \in SweepWallets : trx'[w] <= trx[w]
    BY <1>1, <1>3, <1>4 DEF SweepTypeOK
  <1>8. /\ usdt' \in [SweepWallets -> Nat]
        /\ \A w \in SweepWallets : usdt'[w] # usdt[w] => t \in arrived' /\ w = t.wallet
    BY <1>1, <1>3, <1>4 DEF SweepTypeOK
  <1>a. SweepTypeOK'
    <2>1. arrived' \subseteq Tx /\ mempool' \subseteq Tx BY <1>2, <1>3 DEF SweepTypeOK
    <2> QED BY <1>2, <1>7, <1>8, <2>1 DEF SweepTypeOK
  <1>b. FunderInv' BY <1>2, <1>5 DEF FunderInv
  <1>c. WalletInv'
    <2> SUFFICES ASSUME "wallet" \notin stale
                 PROVE  /\ \A w \in SweepWallets : trx'[w] <= MostTrx
                        /\ \A u \in TopUps :
                             /\ trx'[u.wallet] + u.amount <= MostTrx
                             /\ \A v \in TopUps : v.wallet = u.wallet => v = u
      BY <1>2, <1>5 DEF WalletInv, MostTrx
    <2>1. MostTrx \in Nat BY MaxFee DEF MostTrx
    <2>2. \A w \in SweepWallets : trx[w] \in Nat /\ trx'[w] \in Nat BY <1>7 DEF SweepTypeOK
    <2>3. \A w \in SweepWallets : trx'[w] <= MostTrx
      BY <1>7, <2>1, <2>2 DEF WalletInv
    <2>4. \A u \in TopUps : u.wallet \in SweepWallets /\ u.amount \in Nat
      BY DEF TopUps, SweepTypeOK, Tx
    <2>5. \A u \in TopUps : trx'[u.wallet] + u.amount <= MostTrx
      <3> TAKE u \in TopUps
      <3>1. trx[u.wallet] + u.amount <= MostTrx BY DEF WalletInv
      <3> QED BY <1>7, <2>1, <2>2, <2>4, <3>1
    <2> QED BY <2>3, <2>5 DEF WalletInv
  <1>d. SentInv'
    <2>1. \A q \in Runs : Current(q)' = Current(q) BY <1>2 DEF Current, With
    <2>2. \A u \in Transfers : u.by \in Runs BY DEF Transfers, SweepTypeOK, Tx
    <2> QED BY <1>2, <1>6, <2>1, <2>2 DEF SentInv
  <1>e. SeenInv'
    <2> SUFFICES ASSUME NEW q \in Runs, NEW v \in SweepWallets,
                        kind[q] = "swap", rows[q][v] = "queued", ~(usdt'[v] > 0)
                 PROVE  \E u \in arrived' : u.wallet = v /\ (u.by # q \/ runAt[q] \in {"poll", "dead"})
      BY <1>2 DEF SeenInv
    <2>1. CASE usdt'[v] = usdt[v] BY <1>6, <2>1 DEF SeenInv
    <2>2. CASE usdt'[v] # usdt[v]
      <3>1. t \in arrived' /\ v = t.wallet BY <1>8, <2>2
      <3>2. t.by # q \/ runAt[q] \in {"poll", "dead"} BY <1>1, <3>1 DEF SentInv
      <3> QED BY <3>1, <3>2
    <2> QED BY <2>1, <2>2
  <1>f. RowsTellTheTruth' BY <1>2, <1>6 DEF RowsTellTheTruth
  <1> QED BY <1>2, <1>a, <1>b, <1>c, <1>d, <1>e, <1>f, SameRuns

LEMMA DropTxKeeps ==
  ASSUME IInv, NEW t \in mempool, DropTx(t)
  PROVE  IInv'
  <1> USE DEF IInv, DropTx
  <1>1. SweepTypeOK' BY DEF SweepTypeOK
  <1>2. TopUps' \subseteq TopUps /\ Transfers' \subseteq Transfers BY DEF TopUps, Transfers
  <1>3. FunderInv' /\ WalletInv' BY <1>2 DEF FunderInv, WalletInv, MostTrx
  <1>4. SentInv' BY <1>2 DEF SentInv, Current, With
  <1>5. SeenInv' BY DEF SeenInv
  <1>6. RowsTellTheTruth' BY DEF RowsTellTheTruth
  <1> QED BY <1>1, <1>3, <1>4, <1>5, <1>6, SameRuns

-----------------------------------------------------------------------------
LEMMA SomeWallet == 1 \in SweepWallets
  BY SweepConstants DEF SweepWallets

LEMMA StartSwapKeeps ==
  ASSUME IInv, NEW r \in Runs, StartSwap(r)
  PROVE  IInv'
  <1> USE SweepConstants DEF IInv
  <1>1. PICK to \in {"preview", "refused"} :
          /\ runAt[r] = "idle" /\ runAt' = [runAt EXCEPT ![r] = to]
          /\ to = "preview" => ~(shown # NoRun /\ runAt[shown] \in Sweeping)
    BY DEF StartSwap, RunGoes
  <1>2. /\ kind[r] = "swap" /\ known' = [known EXCEPT ![r] = Registered]
        /\ UNCHANGED <<kind, chainVars, local, rows, shown, stale, ownFees>>
    BY DEF StartSwap
  <1>3. \A q \in Runs : runAt'[q] = IF q = r THEN to ELSE runAt[q]
    BY <1>1 DEF SweepTypeOK
  <1>4. \A q \in Runs : known'[q] = IF q = r THEN Registered ELSE known[q]
    BY <1>2 DEF SweepTypeOK
  <1>5. Registered' = Registered /\ r \notin Registered
    BY <1>1, <1>2, <1>3 DEF Registered, Starting
  <1>6. StartsOverlapped' <=> StartsOverlapped
    BY <1>4, <1>5 DEF StartsOverlapped, Registered
  <1>7. \A q \in Runs : With(q, "queued")' = With(q, "queued") /\ With(q, "none")' = With(q, "none")
    BY <1>2 DEF With
  <1>a. SweepTypeOK'
    <2>1. runAt' \in [Runs -> Starting \cup Sweeping \cup {"refused", "done", "dead"}]
      BY <1>1 DEF SweepTypeOK, Starting
    <2>2. known' \in [Runs -> SUBSET Runs]
      BY <1>2 DEF SweepTypeOK, Registered
    <2> QED BY <1>2, <2>1, <2>2 DEF SweepTypeOK, chainVars
  <1>b. QueueInv'
    <2>1. \A w \in SweepWallets : rows[r][w] = "none" BY <1>1 DEF QueueInv
    <2>2. With(r, "none") # {} BY <2>1, SomeWallet DEF With
    <2> QED BY <1>2, <1>3, <1>7, <2>2 DEF QueueInv, Sweeping
  <1>c. NeedInv' BY <1>2, <1>3 DEF NeedInv, Gap
  <1>d. FunderInv' /\ WalletInv' BY <1>2, SameBalances
  <1>e. SwapInv'
    BY <1>2, <1>3, <1>5, <1>6 DEF SwapInv, Registered
  <1>f. StartInv'
    <2>1. \A q \in Runs : known'[q] \subseteq Registered' BY <1>4, <1>5 DEF StartInv
    <2>2. SUFFICES ASSUME ~StartsOverlapped, NEW q \in Runs, runAt'[q] \in {"preview", "signer"},
                          NEW x \in known'[q]
                   PROVE  runAt'[x] \notin Sweeping
      BY <1>6, <2>1 DEF StartInv
    <2>3. x \in Registered /\ x \in Runs /\ runAt'[x] = runAt[x]
      BY <1>3, <1>5, <2>1 DEF Registered
    <2>4. CASE q = r
      <3>1. ~(shown # NoRun /\ runAt[shown] \in Sweeping) BY <1>1, <1>3, <2>2, <2>4
      <3>2. runAt[x] \in Sweeping => shown = x BY <2>2, <2>3 DEF SwapInv
      <3> QED BY <2>3, <3>1, <3>2
    <2>5. CASE q # r
      BY <1>3, <1>4, <2>2, <2>3, <2>5 DEF StartInv
    <2> QED BY <2>4, <2>5
  <1>g. SentInv' /\ SeenInv' /\ RowsTellTheTruth'
    <2>1. Transfers' = Transfers BY <1>2 DEF Transfers, chainVars
    <2>2. \A q \in Runs : runAt[q] \in {"poll", "dead"} => runAt'[q] \in {"poll", "dead"}
      BY <1>1, <1>3
    <2> QED BY <1>2, <2>1, <2>2, SameRows DEF chainVars
  <1> QED BY <1>a, <1>b, <1>c, <1>d, <1>e, <1>f, <1>g

(* Rows of a run that has sent nothing are entered. *)
LEMMA EnterRows ==
  ASSUME IInv, NEW r \in Runs, runAt[r] \notin {"poll", "dead"},
         UNCHANGED <<kind, chainVars>>,
         \A q \in Runs \ {r} : rows'[q] = rows[q] /\ runAt'[q] = runAt[q],
         \A w \in SweepWallets :
           \/ rows'[r][w] = rows[r][w]
           \/ /\ rows[r][w] = "none" /\ rows'[r][w] \in {"left", "queued"}
              /\ rows'[r][w] = "queued" /\ kind[r] = "swap" => usdt[w] > 0
  PROVE  SentInv' /\ SeenInv' /\ RowsTellTheTruth'
  <1> USE DEF IInv, chainVars
  <1>1. \A t \in Transfers : t.by \in Runs /\ t.wallet \in SweepWallets
    BY DEF Transfers, SweepTypeOK, Tx
  <1>2. SentInv'
    <2> SUFFICES ASSUME NEW t \in Transfers
                 PROVE  /\ rows'[t.by][t.wallet] \notin {"none", "left"}
                        /\ rows'[t.by][t.wallet] = "queued" =>
                             runAt'[t.by] \in {"poll", "dead"} /\ t.wallet = Current(t.by)'
      BY DEF SentInv, Transfers
    <2>1. CASE t.by = r
      <3>1. rows[r][t.wallet] \notin {"none", "left", "queued"} BY <2>1 DEF SentInv
      <3>2. rows'[r][t.wallet] = rows[r][t.wallet] BY <1>1, <3>1
      <3> QED BY <2>1, <3>1, <3>2
    <2>2. CASE t.by # r
      <3>1. rows'[t.by] = rows[t.by] /\ runAt'[t.by] = runAt[t.by] BY <1>1, <2>2
      <3>2. Current(t.by)' = Current(t.by) BY <3>1 DEF Current, With
      <3> QED BY <3>1, <3>2 DEF SentInv
    <2> QED BY <2>1, <2>2
  <1>3. SeenInv'
    <2> SUFFICES ASSUME NEW q \in Runs, NEW v \in SweepWallets,
                        kind[q] = "swap", rows'[q][v] = "queued", ~(usdt[v] > 0)
                 PROVE  \E t \in arrived : t.wallet = v /\ (t.by # q \/ runAt'[q] \in {"poll", "dead"})
      BY DEF SeenInv
    <2>1. rows[q][v] = "queued" OBVIOUS
    <2>2. PICK t \in arrived : t.wallet = v /\ (t.by # q \/ runAt[q] \in {"poll", "dead"})
      BY <2>1 DEF SeenInv
    <2> QED BY <2>2
  <1>4. RowsTellTheTruth' BY DEF RowsTellTheTruth
  <1> QED BY <1>2, <1>3, <1>4

LEMMA PreviewWalletKeeps ==
  ASSUME IInv, NEW r \in Runs, PreviewWallet(r)
  PROVE  IInv'
  <1> USE SweepConstants DEF IInv
  <1>1. runAt[r] = "preview" /\ kind[r] = "swap" /\ With(r, "none") # {}
    BY DEF PreviewWallet, QueueInv
  <1>2. PICK w : w = Min(With(r, "none")) OBVIOUS
  <1>3. w \in SweepWallets /\ rows[r][w] = "none" /\ w \in With(r, "none")
    <2>1. With(r, "none") \in SUBSET SweepWallets BY DEF With
    <2> QED BY <1>1, <1>2, <2>1, MinOfWallets DEF With
  <1>4. PICK row \in {"left", "queued"}, to \in {"preview", "signer", "refused"} :
          /\ row = "queued" => usdt[w] > MinAmount
          /\ rows' = [rows EXCEPT ![r][w] = row]
          /\ runAt' = [runAt EXCEPT ![r] = to]
          /\ to = "preview" => With(r, "none") # {w}
          /\ to = "signer" => row = "queued" \/ With(r, "queued") # {}
    BY <1>2 DEF PreviewWallet, RunGoes
  <1>5. UNCHANGED <<kind, chainVars, local, shown, known, stale, ownFees>> BY DEF PreviewWallet
  <1>6. \A q \in Runs : runAt'[q] = IF q = r THEN to ELSE runAt[q]
    BY <1>4 DEF SweepTypeOK
  <1>7. \A q \in Runs, v \in SweepWallets :
          rows'[q][v] = IF q = r /\ v = w THEN row ELSE rows[q][v]
    BY <1>3, <1>4 DEF SweepTypeOK
  <1>8. \A q \in Runs \ {r} : rows'[q] = rows[q] BY <1>4 DEF SweepTypeOK
  <1>9. Registered' = Registered /\ (StartsOverlapped' <=> StartsOverlapped)
    <2>1. Registered' = Registered BY <1>1, <1>5, <1>6 DEF Registered, Starting
    <2> QED BY <1>5, <2>1 DEF StartsOverlapped
  <1>a. SweepTypeOK'
    <2>1. runAt' \in [Runs -> Starting \cup Sweeping \cup {"refused", "done", "dead"}]
      BY <1>4 DEF SweepTypeOK, Starting
    <2>2. rows' \in [Runs -> [SweepWallets -> {"none", "left", "queued", "completed",
                                                "failed", "skipped"}]]
      BY <1>3, <1>4 DEF SweepTypeOK
    <2> QED BY <1>5, <2>1, <2>2 DEF SweepTypeOK, chainVars
  <1>b. QueueInv'
    <2>1. \A q \in Runs \ {r} : With(q, "queued")' = With(q, "queued") /\ With(q, "none")' = With(q, "none")
      BY <1>8 DEF With
    <2>2. to = "preview" => With(r, "none")' # {}
      <3>1. With(r, "none")' = With(r, "none") \ {w} BY <1>7 DEF With
      <3> QED BY <1>3, <1>4, <3>1
    <2>3. to = "signer" => With(r, "queued")' # {}
      <3>1. row = "queued" => w \in With(r, "queued")' BY <1>3, <1>7 DEF With
      <3>2. With(r, "queued") \subseteq With(r, "queued")' BY <1>3, <1>7 DEF With
      <3> QED BY <1>4, <3>1, <3>2
    <2> QED BY <1>1, <1>5, <1>6, <1>8, <2>1, <2>2, <2>3 DEF QueueInv, Sweeping
  <1>c. NeedInv' BY <1>4, <1>5, <1>6 DEF NeedInv, Gap
  <1>d. FunderInv' /\ WalletInv' BY <1>5, SameBalances
  <1>e. SwapInv'
    <2>1. \A q \in Registered : q \in Runs /\ (runAt'[q] \in Sweeping => runAt[q] \in Sweeping)
      BY <1>4, <1>6 DEF Registered, Sweeping
    <2> QED BY <1>5, <1>9, <2>1 DEF SwapInv
  <1>f. StartInv'
    <2>1. \A q \in Runs : known[q] \subseteq Runs BY DEF SweepTypeOK
    <2>2. \A q \in Runs : runAt'[q] \in Sweeping => runAt[q] \in Sweeping BY <1>4, <1>6 DEF Sweeping
    <2>3. \A q \in Runs : runAt'[q] \in {"preview", "signer"} => runAt[q] \in {"preview", "signer"}
      BY <1>1, <1>6
    <2> QED BY <1>5, <1>9, <2>1, <2>2, <2>3 DEF StartInv
  <1>g. SentInv' /\ SeenInv' /\ RowsTellTheTruth'
    <2>1. row = "queued" => usdt[w] > 0
      <3>1. usdt[w] \in Nat BY <1>3 DEF SweepTypeOK
      <3> QED BY <1>4, <3>1
    <2>2. \A v \in SweepWallets :
            \/ rows'[r][v] = rows[r][v]
            \/ /\ rows[r][v] = "none" /\ rows'[r][v] \in {"left", "queued"}
               /\ rows'[r][v] = "queued" /\ kind[r] = "swap" => usdt[v] > 0
      BY <1>3, <1>4, <1>7, <2>1
    <2> QED BY <1>1, <1>5, <1>6, <1>8, <2>2, EnterRows
  <1> QED BY <1>a, <1>b, <1>c, <1>d, <1>e, <1>f, <1>g

LEMMA RegisterKeeps ==
  ASSUME IInv, NEW r \in Runs, Register(r)
  PROVE  IInv'
  <1> USE SweepConstants DEF IInv
  <1>1. runAt[r] = "signer" /\ kind[r] = "swap" BY DEF Register, RunGoes, QueueInv
  <1>2. /\ runAt' = [runAt EXCEPT ![r] = "amount"] /\ shown' = r
        /\ UNCHANGED <<kind, chainVars, local, rows, known, stale, ownFees>>
    BY <1>1 DEF Register, RunGoes, FirstAwait
  <1>3. \A q \in Runs : runAt'[q] = IF q = r THEN "amount" ELSE runAt[q]
    BY <1>2 DEF SweepTypeOK
  <1>4. Registered' = Registered \cup {r} /\ r \notin Registered
    BY <1>1, <1>2, <1>3 DEF Registered, Starting
  <1>5. StartsOverlapped => StartsOverlapped'
    BY <1>2, <1>4 DEF StartsOverlapped
  <1>6. \A q \in Runs : known[q] \subseteq Registered BY DEF StartInv
  <1>7. ~StartsOverlapped' => \A q \in Registered : runAt[q] \notin Sweeping
    <2> SUFFICES ASSUME ~StartsOverlapped', NEW q \in Registered PROVE runAt[q] \notin Sweeping
      OBVIOUS
    <2>1. q \in Runs /\ q # r BY <1>4 DEF Registered
    <2>2. r \notin known[q] BY <1>4, <1>6, <2>1
    <2>3. q \in known[r] BY <1>2, <1>4, <2>1, <2>2 DEF StartsOverlapped
    <2> QED BY <1>1, <1>5, <2>3 DEF StartInv
  <1>a. SweepTypeOK'
    <2>1. runAt' \in [Runs -> Starting \cup Sweeping \cup {"refused", "done", "dead"}]
      BY <1>2 DEF SweepTypeOK, Sweeping
    <2> QED BY <1>2, <2>1 DEF SweepTypeOK, chainVars
  <1>b. QueueInv'
    <2>1. \A q \in Runs : With(q, "queued")' = With(q, "queued") /\ With(q, "none")' = With(q, "none")
      BY <1>2 DEF With
    <2> QED BY <1>1, <1>2, <1>3, <2>1 DEF QueueInv, Sweeping
  <1>c. NeedInv' BY <1>2, <1>3 DEF NeedInv, Gap
  <1>d. FunderInv' /\ WalletInv' BY <1>2, SameBalances
  <1>e. SwapInv'
    <2>1. \A q \in Registered : q \in Runs BY DEF Registered
    <2> QED BY <1>2, <1>3, <1>4, <1>7, <2>1 DEF SwapInv
  <1>f. StartInv'
    <2>1. \A q \in Runs : known'[q] \subseteq Registered' BY <1>2, <1>4, <1>6
    <2>2. SUFFICES ASSUME ~StartsOverlapped', NEW q \in Runs, NEW x \in known[q]
                   PROVE  runAt'[x] \notin Sweeping
      BY <1>2, <2>1 DEF StartInv
    <2>3. x \in Registered BY <1>6
    <2>4. x \in Runs /\ x # r BY <1>4, <2>3 DEF Registered
    <2> QED BY <1>3, <1>7, <2>2, <2>3, <2>4
  <1>g. SentInv' /\ SeenInv' /\ RowsTellTheTruth'
    <2>1. Transfers' = Transfers BY <1>2 DEF Transfers, chainVars
    <2>2. \A q \in Runs : runAt[q] \in {"poll", "dead"} => runAt'[q] \in {"poll", "dead"}
      BY <1>1, <1>3
    <2> QED BY <1>2, <2>1, <2>2, SameRows DEF chainVars
  <1> QED BY <1>a, <1>b, <1>c, <1>d, <1>e, <1>f, <1>g

LEMMA LoadTargetsKeeps ==
  ASSUME IInv, NEW r \in Runs, LoadTargets(r)
  PROVE  IInv'
  <1> USE SweepConstants DEF IInv
  <1>1. PICK to \in {"usdt", "amount"} :
          /\ runAt[r] = "idle" /\ runAt' = [runAt EXCEPT ![r] = to]
          /\ to = "usdt" => kind[r] = "auto"
    BY DEF LoadTargets, RunGoes, FirstAwait
  <1>2. /\ kind[r] # "swap" /\ rows' = [rows EXCEPT ![r] = [w \in SweepWallets |-> "queued"]]
        /\ UNCHANGED <<kind, chainVars, local, shown, known, stale, ownFees>>
    BY DEF LoadTargets
  <1>3. \A q \in Runs : runAt'[q] = IF q = r THEN to ELSE runAt[q]
    BY <1>1 DEF SweepTypeOK
  <1>4. \A q \in Runs \ {r} : rows'[q] = rows[q] BY <1>2 DEF SweepTypeOK
  <1>5. \A w \in SweepWallets : rows'[r][w] = "queued" /\ rows[r][w] = "none"
    BY <1>1, <1>2 DEF SweepTypeOK, QueueInv
  <1>6. Registered' = Registered /\ (StartsOverlapped' <=> StartsOverlapped)
    <2>1. Registered' = Registered BY <1>1, <1>2, <1>3 DEF Registered
    <2> QED BY <1>2, <2>1 DEF StartsOverlapped
  <1>a. SweepTypeOK'
    <2>1. runAt' \in [Runs -> Starting \cup Sweeping \cup {"refused", "done", "dead"}]
      BY <1>1 DEF SweepTypeOK, Sweeping
    <2>2. rows' \in [Runs -> [SweepWallets -> {"none", "left", "queued", "completed",
                                                "failed", "skipped"}]]
      BY <1>2 DEF SweepTypeOK
    <2> QED BY <1>2, <2>1, <2>2 DEF SweepTypeOK, chainVars
  <1>b. QueueInv'
    <2>1. \A q \in Runs \ {r} : With(q, "queued")' = With(q, "queued") /\ With(q, "none")' = With(q, "none")
      BY <1>4 DEF With
    <2>2. With(r, "queued")' # {} BY <1>5, SomeWallet DEF With
    <2> QED BY <1>1, <1>2, <1>3, <1>4, <2>1, <2>2 DEF QueueInv, Sweeping
  <1>c. NeedInv' BY <1>1, <1>2, <1>3 DEF NeedInv, Gap
  <1>d. FunderInv' /\ WalletInv' BY <1>2, SameBalances
  <1>e. SwapInv' BY <1>2, <1>3, <1>6 DEF SwapInv, Registered
  <1>f. StartInv'
    <2>1. \A q \in Runs : \A x \in known[q] : x \in Registered BY DEF StartInv
    <2>2. \A x \in Registered : x \in Runs /\ x # r BY <1>2 DEF Registered
    <2>3. \A q \in Runs : runAt'[q] \in {"preview", "signer"} => runAt[q] \in {"preview", "signer"}
      BY <1>1, <1>3
    <2> QED BY <1>2, <1>3, <1>6, <2>1, <2>2, <2>3 DEF StartInv
  <1>g. SentInv' /\ SeenInv' /\ RowsTellTheTruth'
    BY <1>1, <1>2, <1>3, <1>4, <1>5, EnterRows
  <1> QED BY <1>a, <1>b, <1>c, <1>d, <1>e, <1>f, <1>g

LEMMA RunsDieKeeps ==
  ASSUME IInv, NEW kinds \in SUBSET {"swap", "auto", "all"}, RunsDie(kinds)
  PROVE  IInv'
  <1> USE SweepConstants DEF IInv
  <1>1. UNCHANGED <<kind, chainVars, local, rows, known, stale, ownFees>> BY DEF RunsDie
  <1>2. \A q \in Runs : runAt'[q] = IF kind[q] \notin kinds THEN runAt[q]
                                   ELSE IF runAt[q] \in Sweeping THEN "dead"
                                   ELSE IF runAt[q] \in {"preview", "signer"} THEN "refused"
                                   ELSE runAt[q]
    BY DEF RunsDie
  <1>3. ASSUME NEW q \in Runs, runAt'[q] \in Sweeping
        PROVE  runAt'[q] = runAt[q] /\ kind[q] \notin kinds
    <2>1. "dead" \notin Sweeping /\ "refused" \notin Sweeping BY DEF Sweeping
    <2> QED BY <1>2, <1>3, <2>1
  <1>4. Registered' = Registered
    BY <1>1, <1>2 DEF Registered, Starting, Sweeping
  <1>5. StartsOverlapped' <=> StartsOverlapped BY <1>1, <1>4 DEF StartsOverlapped
  <1>a. SweepTypeOK'
    <2>1. runAt' \in [Runs -> Starting \cup Sweeping \cup {"refused", "done", "dead"}]
      BY DEF RunsDie, SweepTypeOK
    <2>2. shown' \in Runs \cup {NoRun} BY DEF RunsDie, SweepTypeOK
    <2> QED BY <1>1, <2>1, <2>2 DEF SweepTypeOK, chainVars
  <1>b. QueueInv'
    <2>1. \A q \in Runs : With(q, "queued")' = With(q, "queued") /\ With(q, "none")' = With(q, "none")
      BY <1>1 DEF With
    <2>2. \A q \in Runs : runAt'[q] = runAt[q] \/ runAt'[q] \in {"dead", "refused"} BY <1>2
    <2> QED BY <1>1, <2>1, <2>2 DEF QueueInv, Sweeping
  <1>c. NeedInv'
    <2>1. \A q \in Runs : runAt'[q] = runAt[q] \/ runAt'[q] \in {"dead", "refused"} BY <1>2
    <2> QED BY <1>1, <2>1 DEF NeedInv, Gap
  <1>d. FunderInv' /\ WalletInv' BY <1>1, SameBalances
  <1>e. SwapInv'
    <2> SUFFICES ASSUME ~StartsOverlapped, NEW q \in Registered, runAt'[q] \in Sweeping
                 PROVE  shown' = q
      BY <1>4, <1>5 DEF SwapInv
    <2>1. q \in Runs /\ kind[q] = "swap" BY DEF Registered
    <2>2. runAt'[q] = runAt[q] /\ kind[q] \notin kinds BY <1>3, <2>1
    <2>3. runAt[q] \in Sweeping BY <2>2
    <2>4. "swap" \notin kinds BY <2>1, <2>2
    <2>5. shown' = shown BY <2>4 DEF RunsDie
    <2>6. shown = q BY <2>3 DEF SwapInv
    <2> QED BY <2>5, <2>6
  <1>f. StartInv'
    <2>1. \A q \in Runs : \A x \in known[q] : x \in Runs BY DEF SweepTypeOK
    <2>2. \A q \in Runs : runAt'[q] \in Sweeping => runAt[q] \in Sweeping
      <3> TAKE q \in Runs
      <3> HAVE runAt'[q] \in Sweeping
      <3>1. runAt'[q] = runAt[q] BY <1>3
      <3> QED BY <3>1
    <2>3. \A q \in Runs : runAt'[q] \in {"preview", "signer"} => runAt[q] \in {"preview", "signer"}
      BY <1>2
    <2>4. \A q \in Runs : known'[q] \subseteq Registered' BY <1>1, <1>4 DEF StartInv
    <2>5. SUFFICES ASSUME ~StartsOverlapped, NEW q \in Runs, runAt'[q] \in {"preview", "signer"},
                          NEW x \in known[q]
                   PROVE  runAt'[x] \notin Sweeping
      BY <1>1, <1>5, <2>4 DEF StartInv
    <2>6. runAt[x] \notin Sweeping BY <2>3, <2>5 DEF StartInv
    <2> QED BY <2>1, <2>2, <2>6
  <1>g. SentInv' /\ SeenInv' /\ RowsTellTheTruth'
    <2>1. Transfers' = Transfers BY <1>1 DEF Transfers, chainVars
    <2>2. \A q \in Runs : runAt[q] \in {"poll", "dead"} => runAt'[q] \in {"poll", "dead"}
      BY <1>2
    <2> QED BY <1>1, <2>1, <2>2, SameRows DEF chainVars
  <1> QED BY <1>a, <1>b, <1>c, <1>d, <1>e, <1>f, <1>g

-----------------------------------------------------------------------------
LEMMA IInvIsKept == IInv /\ [SweepNext]_sweepVars => IInv'
  <1> SUFFICES ASSUME IInv, [SweepNext]_sweepVars PROVE IInv' OBVIOUS
  <1>1. ASSUME NEW r \in Runs, StartSwap(r) \/ LoadTargets(r) \/ RunStep(r) PROVE IInv'
    BY <1>1, StartSwapKeeps, LoadTargetsKeeps, PreviewWalletKeeps, RegisterKeeps, ReadUsdtKeeps,
       ReadAmountKeeps, ReadTrxKeeps, CheckFunderKeeps, SendTopUpKeeps, SendTransferKeeps,
       NotBroadcastKeeps, PollKeeps, RpcThrowsKeeps DEF RunStep
  <1>2. ASSUME NEW w \in SweepWallets, Deposit(w) PROVE IInv' BY <1>2, DepositKeeps
  <1>3. ASSUME NEW t \in mempool, ExecuteTopUp(t) \/ ExecuteTransfer(t) \/ DropTx(t) PROVE IInv'
    BY <1>3, ExecuteTopUpKeeps, ExecuteTransferKeeps, DropTxKeeps
  <1>7. ASSUME NEW fee \in TrxFees, FunderTransfers(fee) PROVE IInv'
    BY <1>7, FunderTransfersKeeps
  <1>4. CASE RunsDie({"swap", "all"}) BY <1>4, RunsDieKeeps
  <1>5. CASE RunsDie({"auto"}) BY <1>5, RunsDieKeeps
  <1>6. CASE UNCHANGED sweepVars
    <2> USE <1>6 DEF sweepVars, chainVars, IInv
    <2>1. SweepTypeOK' BY DEF SweepTypeOK
    <2>2. FunderInv' /\ WalletInv' BY SameBalances
    <2>3. SentInv' /\ SeenInv' /\ RowsTellTheTruth' BY SameRows DEF Transfers
    <2> QED BY <2>1, <2>2, <2>3, SameRuns
  <1> QED BY <1>1, <1>2, <1>3, <1>4, <1>5, <1>6, <1>7 DEF SweepNext

LEMMA IInvAlways == SweepSpec => []IInv
  BY IInvHoldsAtFirst, IInvIsKept, PTL DEF SweepSpec

(* Every balance, transaction, row and place of a run is of its type. *)
THEOREM SweepTypeCorrect == SweepSpec => []SweepTypeOK
  BY IInvAlways, PTL DEF IInv

(* ensureTrxForMerchantWallet: the reserve outlasts every top-up that is   *)
(* not sent on an outdated balance, but for what sending it costs and what *)
(* the funder's own transfers take.                                        *)
THEOREM ReserveAlwaysKept == SweepSpec => []ReserveKeptUnlessStale
  <1>1. IInv => ReserveKeptUnlessStale BY DEF IInv, FunderInv, ReserveKeptUnlessStale
  <1> QED BY <1>1, IInvAlways, PTL

(* ... and a wallet never has more than one transfer needs and a cushion.  *)
THEOREM NoExcessTrxAlways == SweepSpec => []NoExcessTrxUnlessStale
  <1>1. IInv => NoExcessTrxUnlessStale
    BY DEF IInv, WalletInv, NoExcessTrxUnlessStale, MostTrx
  <1> QED BY <1>1, IInvAlways, PTL

(* startRpMerchantSwapRun: the entry in memory keeps a reseller's swap     *)
(* runs apart unless two starts overlapped.                                *)
THEOREM OneSwapRunAtATime == SweepSpec => []OneSwapRunUnlessOverlapped
  <1>1. IInv => OneSwapRunUnlessOverlapped
    BY DEF IInv, SwapInv, OneSwapRunUnlessOverlapped
  <1> QED BY <1>1, IInvAlways, PTL

(* A completed row stands for a transfer that arrived; a skipped one for a *)
(* wallet that another run emptied.                                        *)
THEOREM RowsAlwaysTellTheTruth == SweepSpec => []RowsTellTheTruth
  BY IInvAlways, PTL DEF IInv
=============================================================================
