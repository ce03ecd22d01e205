--------------------------- MODULE DepositIngest ---------------------------
(***************************************************************************)
(* The deposit ledger of one wallet: the rows of the transactions table    *)
(* that carry its address, the scanners that write them, the API calls     *)
(* that open checkouts and the cron that lapses them.                      *)
(*                                                                         *)
(* Every row is a checkout placeholder ("gateway-created:<session>"),      *)
(* named here by its session, or a row inserted for an on-chain transfer,  *)
(* named by that transfer.  upsertIncomingTransaction runs outside any     *)
(* database transaction, so each of its awaits is an action of its own:    *)
(* what an earlier action read may be stale when a later one writes.  The  *)
(* notifyPayment* calls that end an upsert write callback columns only.    *)
(***************************************************************************)
EXTENDS Integers, FiniteSets, FiniteSetsExt

CONSTANTS
  Sessions,     (* deposit_session_key values of the wallet's checkouts      *)
  Transfers,    (* on-chain credits to the address: (chain, txHash, logIndex)*)
  Worker,       (* the erc20 or trc20 worker's scan loop                     *)
  FullScans,    (* runs of the deposit full-scan cron                        *)
  Rescans,      (* admin "rescan deposit" requests                           *)
  Instant,      (* the rail ingests transfers as confirmed at once (TRC20)   *)
  Amount,       (* transfer -> atomic amount                                 *)
  Expected,     (* session -> expected atomic amount, 0 when none was asked  *)
  None

Scanners == {Worker} \cup FullScans \cup Rescans
RowIds   == Sessions \cup Transfers

ASSUME SeparateNames ==
  /\ Sessions \cap Transfers = {}
  /\ None \notin RowIds
  /\ Worker \notin FullScans \cup Rescans
  /\ FullScans \cap Rescans = {}

\* The rescan of one deposit exists for TRC20 only.
ASSUME RailIsKnown ==
  /\ Instant \in BOOLEAN
  /\ Rescans # {} => Instant

ASSUME AmountsAreNat ==
  /\ Amount \in [Transfers -> Nat]
  /\ Expected \in [Sessions -> Nat]

VARIABLES
  row,      (* row id -> its status, transfer, session and soft-delete mark  *)
  newer,    (* pairs <<s, t>>: checkout s has a later created_at than t      *)
  stale,    (* open checkouts older than CHECKOUT_CREATED_EXPIRY_HOURS       *)
  ttl,      (* hold_expires_at / scan_expires_at of the wallet are set       *)
  tick,     (* deposit_scan_single_tick_requested                            *)
  chain,    (* transfer -> unmined, mined, or at the confirmation threshold  *)
  pc,       (* scanner -> the await it is suspended at                       *)
  todo,     (* scanner -> transfers of its explorer response still to ingest *)
  final,    (* scanner -> those the response showed as confirmed             *)
  job,      (* scanner -> locals of the upsert in progress                   *)
  cronpc,   (* the expiry cron's position                                    *)
  batch,    (* its findMany result not yet handled                           *)
  lapsing   (* the row it is releasing the wallet for                        *)

ledger  == <<row, newer, stale>>
wallet  == <<ttl, tick>>
scans   == <<pc, todo, final, job>>
expiry  == <<cronpc, batch, lapsing>>
vars    == <<ledger, wallet, chain, scans, expiry>>

Credited == {"pending", "success", "underpaid"}
Status   == {"absent", "created", "failed"} \cup Credited
Row      == [st : Status, tx : Transfers \cup {None},
             key : Sessions \cup {None}, del : BOOLEAN]
Job      == [tx : Transfers \cup {None}, prior : Status,
             target : Sessions \cup {None}, judge : Sessions \cup {None},
             bind : Sessions \cup {None}, next : Status,
             at : RowIds \cup {None}]
ScannerPc == {"idle", "next", "bind", "judge", "place", "write", "tidy", "release"}

NoJob == [tx |-> None, prior |-> "absent", target |-> None, judge |-> None,
          bind |-> None, next |-> "absent", at |-> None]

TypeOK ==
  /\ row \in [RowIds -> Row]
  /\ newer \subseteq Sessions \X Sessions
  /\ stale \subseteq Sessions
  /\ ttl \in BOOLEAN /\ tick \in BOOLEAN
  /\ chain \in [Transfers -> {"unmined", "mined", "confirmed"}]
  /\ pc \in [Scanners -> ScannerPc]
  /\ todo \in [Scanners -> SUBSET Transfers]
  /\ final \in [Scanners -> SUBSET Transfers]
  /\ job \in [Scanners -> Job]
  /\ cronpc \in {"idle", "mark", "release"}
  /\ batch \subseteq Sessions
  /\ lapsing \in Sessions \cup {None}

Init ==
  /\ row = [r \in RowIds |->
             [st |-> "absent", tx |-> None, key |-> None, del |-> FALSE]]
  /\ newer = {} /\ stale = {}
  /\ ttl = FALSE /\ tick = FALSE
  /\ chain = [c \in Transfers |-> "unmined"]
  /\ pc = [p \in Scanners |-> "idle"]
  /\ todo = [p \in Scanners |-> {}]
  /\ final = [p \in Scanners |-> {}]
  /\ job = [p \in Scanners |-> NoJob]
  /\ cronpc = "idle" /\ batch = {} /\ lapsing = None

-----------------------------------------------------------------------------
(* Queries of the ledger.                                                  *)

\* Fault: the search for open checkouts forgets their status.
OpenOfAnyStatus == {s \in Sessions : row[s].st # "absent" /\ ~row[s].del}

Open == {s \in Sessions : row[s].st = "created" /\ ~row[s].del}

Newest(S) == {s \in S : \A t \in S \ {s} : <<s, t>> \in newer}
Oldest(S) == {s \in S : \A t \in S \ {s} : <<t, s>> \in newer}

Touch(s) == {e \in newer : s # e[1] /\ s # e[2]} \cup ({s} \X (Sessions \ {s}))

RowsOf(c) == {r \in RowIds : row[r].tx = c}

\* sumInboundAtomicForSessionExcluding: inbound rows of the session but c's.
OthersOf(k, c) == {r \in RowIds : /\ row[r].key = k /\ row[r].st \in Credited
                                  /\ ~row[r].del /\ row[r].tx \notin {c, None}}
InboundSum(k, c) == MapThenSumSet(LAMBDA r : Amount[row[r].tx], OthersOf(k, c))

UnderpayTolerance == 1

Short(k, c) == /\ k # None /\ Expected[k] > 0
               /\ InboundSum(k, c) + Amount[c] + UnderpayTolerance < Expected[k]

OnHotPath  == Open # {} \/ ttl \/ tick
PassesGate == ttl \/ tick

-----------------------------------------------------------------------------
(* The chain, the gateway API and the wallet's timers.                     *)

Mine(c) ==
  /\ chain[c] = "unmined"
  /\ chain' = [chain EXCEPT ![c] = "mined"]
  /\ UNCHANGED <<ledger, wallet, scans, expiry>>

Confirm(c) ==
  /\ ~Instant /\ chain[c] = "mined"
  /\ chain' = [chain EXCEPT ![c] = "confirmed"]
  /\ UNCHANGED <<ledger, wallet, scans, expiry>>

\* deposit-address with no matching open checkout: a new placeholder.
OpenCheckout(s) ==
  /\ row[s].st = "absent"
  /\ row' = [row EXCEPT ![s] = [st |-> "created", tx |-> None,
                                key |-> s, del |-> FALSE]]
  /\ newer' = Touch(s)
  /\ ttl' = TRUE
  /\ UNCHANGED <<stale, tick, chain, scans, expiry>>

\* deposit-address that matches an open checkout: its clock restarts.
ReuseCheckout(s) ==
  /\ s \in Open
  /\ newer' = Touch(s)
  /\ stale' = stale \ {s}
  /\ ttl' = TRUE
  /\ UNCHANGED <<row, tick, chain, scans, expiry>>

\* Time: the oldest open checkouts pass the expiry age first.
GrowStale(s) ==
  /\ s \in Oldest(Open \ stale)
  /\ stale' = stale \cup {s}
  /\ UNCHANGED <<row, newer, wallet, chain, scans, expiry>>

RequestRescan ==
  /\ ~tick
  /\ tick' = TRUE
  /\ UNCHANGED <<ledger, ttl, chain, scans, expiry>>

ReleaseExpiredHold ==
  /\ ttl
  /\ ttl' = FALSE /\ tick' = FALSE
  /\ UNCHANGED <<ledger, chain, scans, expiry>>

-----------------------------------------------------------------------------
(* A scan and, for each transfer it found, upsertIncomingTransaction.      *)

Goto(p, at) == pc' = [pc EXCEPT ![p] = at]

\* The explorer answers with some of the mined transfers (a block range, the
\* latest page, or nothing when the call fails) as confirmed as they are now.
Fetch(p, target) ==
  \E found \in SUBSET {c \in Transfers : chain[c] # "unmined"} :
    /\ todo' = [todo EXCEPT ![p] = found]
    /\ final' = [final EXCEPT ![p] = {c \in found : Instant \/ chain[c] = "confirmed"}]
    /\ job' = [job EXCEPT ![p] = [NoJob EXCEPT !.target = target]]
    /\ Goto(p, "next")

StartScan(p) ==
  /\ pc[p] = "idle"
  /\ \/ p = Worker /\ OnHotPath
     \/ p \in FullScans /\ PassesGate
  /\ Fetch(p, None)
  /\ UNCHANGED <<ledger, wallet, chain, expiry>>

\* adminRescanTronDepositForTransaction of the placeholder s.
StartRescan(p, s) ==
  /\ pc[p] = "idle" /\ p \in Rescans
  /\ row[s].st # "absent" /\ ~row[s].del
  /\ tick' = TRUE
  /\ Fetch(p, s)
  /\ UNCHANGED <<ledger, ttl, chain, expiry>>

EndScan(p) ==
  /\ pc[p] = "next" /\ todo[p] = {}
  /\ Goto(p, "idle")
  /\ job' = [job EXCEPT ![p] = NoJob]
  /\ final' = [final EXCEPT ![p] = {}]
  /\ tick' = (tick /\ p \in FullScans)
  /\ UNCHANGED <<ledger, ttl, chain, todo, expiry>>

FreshJob(p) == [NoJob EXCEPT !.target = job[p].target]

\* Back to the loop over the explorer's transfers.
Continue(p) == Goto(p, "next") /\ job' = [job EXCEPT ![p] = FreshJob(p)]

\* The row that already carries the key, if any.
ReadPrior(p, c) ==
  /\ pc[p] = "next" /\ c \in todo[p]
  /\ todo' = [todo EXCEPT ![p] = @ \ {c}]
  /\ \/ /\ RowsOf(c) = {}
        /\ job' = [job EXCEPT ![p] = [FreshJob(p) EXCEPT !.tx = c]]
        /\ Goto(p, "bind")
     \/ \E r \in RowsOf(c) :
          /\ row[r].st # "underpaid"
          /\ job' = [job EXCEPT ![p] = [FreshJob(p) EXCEPT
                             !.tx = c, !.prior = row[r].st, !.judge = row[r].key]]
          /\ Goto(p, "judge")
     \/ \E r \in RowsOf(c) : row[r].st = "underpaid" /\ Continue(p)
  /\ UNCHANGED <<ledger, wallet, chain, final, expiry>>

\* The session of the newest open checkout, for a transfer with no row yet.
BindCheckout(p) ==
  /\ pc[p] = "bind"
  /\ \E s \in IF Open = {} THEN {None} ELSE Newest(Open) :
       job' = [job EXCEPT ![p].judge = s, ![p].bind = s]
  /\ Goto(p, "judge")
  /\ UNCHANGED <<ledger, wallet, chain, todo, final, expiry>>

\* Fault: a transfer that is already a success is judged again.
NextStatusRejudged(p) ==
  LET c == job[p].tx IN
  IF c \notin final[p] THEN "pending"
  ELSE IF Short(job[p].judge, c) THEN "underpaid" ELSE "success"

NextStatus(p) ==
  LET c == job[p].tx IN
  IF job[p].prior = "success" THEN "success"
  ELSE IF c \notin final[p] THEN "pending"
  ELSE IF Short(job[p].judge, c) THEN "underpaid" ELSE "success"

Judge(p) ==
  /\ pc[p] = "judge"
  /\ job' = [job EXCEPT ![p].next = NextStatus(p)]
  /\ Goto(p, IF job[p].prior = "absent" THEN "place" ELSE "write")
  /\ UNCHANGED <<ledger, wallet, chain, todo, final, expiry>>

\* The placeholder to merge into: the rescan's target while it is one, else the
\* bound session's, else the newest open one.
Placeholders(p) ==
  IF job[p].target \in Open THEN {job[p].target}
  ELSE IF job[p].bind \in Open THEN {job[p].bind}
  ELSE IF Open # {} THEN Newest(Open) ELSE {None}

FindPlaceholder(p) ==
  /\ pc[p] = "place"
  /\ \E ph \in Placeholders(p) : job' = [job EXCEPT ![p].at = ph]
  /\ Goto(p, "write")
  /\ UNCHANGED <<ledger, wallet, chain, todo, final, expiry>>

\* Fault: the table has no unique key on chain, hash and log index.
MergeWithoutKey(p, ph) ==
  /\ row' = [row EXCEPT ![ph].tx = job[p].tx, ![ph].st = job[p].next]
  /\ UNCHANGED job

\* update({ where: { id } }): the placeholder read before, whatever it is now.
Merge(p, ph) ==
  /\ RowsOf(job[p].tx) \subseteq {ph}
  /\ row' = [row EXCEPT ![ph].tx = job[p].tx, ![ph].st = job[p].next]
  /\ UNCHANGED job

\* The merge breaks tx_chain_log_unique: the exception ends the scan.
MergeConflict(p, ph) ==
  /\ ~(RowsOf(job[p].tx) \subseteq {ph})
  /\ job' = [job EXCEPT ![p] = NoJob]
  /\ todo' = [todo EXCEPT ![p] = {}] /\ final' = [final EXCEPT ![p] = {}]
  /\ tick' = (tick /\ p \notin Rescans)
  /\ Goto(p, "idle")
  /\ UNCHANGED <<ledger, ttl, chain, expiry>>

\* Fault: the inserted row is filed under its transfer, not its session.
UpsertMisfiled(p) ==
  /\ RowsOf(job[p].tx) = {}
  /\ row' = [row EXCEPT ![job[p].tx] = [st |-> job[p].next, tx |-> job[p].tx,
                                       key |-> job[p].tx, del |-> FALSE]]
  /\ job' = [job EXCEPT ![p].at = job[p].tx]

\* upsert on the unique key.
Upsert(p) ==
  LET c == job[p].tx IN
  \/ /\ RowsOf(c) = {}
     /\ row' = [row EXCEPT ![c] = [st |-> job[p].next, tx |-> c,
                                   key |-> job[p].bind, del |-> FALSE]]
     /\ job' = [job EXCEPT ![p].at = c]
  \/ \E r \in RowsOf(c) :
       /\ row' = [row EXCEPT ![r].st = job[p].next]
       /\ job' = [job EXCEPT ![p].at = r]

WriteRow(p) ==
  /\ pc[p] = "write"
  /\ IF job[p].at # None THEN Merge(p, job[p].at) ELSE Upsert(p)
  /\ Goto(p, "tidy")
  /\ UNCHANGED <<newer, stale, wallet, chain, todo, final, expiry>>

FailWrite(p) ==
  /\ pc[p] = "write" /\ job[p].at # None
  /\ MergeConflict(p, job[p].at)

Became(p) == /\ job[p].next \in {"success", "underpaid"}
             /\ job[p].next # job[p].prior

\* Fault: the tidy-up forgets that only `created` rows go.
TidyWholeSession(p) ==
  /\ pc[p] = "tidy"
  /\ row' = [r \in RowIds |->
       IF row[job[p].at].key # None /\ row[r].key = row[job[p].at].key
       THEN [row[r] EXCEPT !.del = TRUE] ELSE row[r]]
  /\ IF Became(p) THEN Goto(p, "release") /\ UNCHANGED <<job>>
                  ELSE Continue(p)
  /\ UNCHANGED <<newer, stale, wallet, chain, todo, final, expiry>>

\* Soft-delete what is still `created` in the written row's session.
Tidy(p) ==
  /\ pc[p] = "tidy"
  /\ row' = [r \in RowIds |->
       IF row[job[p].at].key # None /\ row[r].key = row[job[p].at].key
          /\ row[r].st = "created"
       THEN [row[r] EXCEPT !.del = TRUE] ELSE row[r]]
  /\ IF Became(p) THEN Goto(p, "release") /\ UNCHANGED <<job>>
                  ELSE Continue(p)
  /\ UNCHANGED <<newer, stale, wallet, chain, todo, final, expiry>>

ReleaseWallet(p) ==
  /\ pc[p] = "release"
  /\ ttl' = FALSE /\ tick' = FALSE
  /\ Continue(p)
  /\ UNCHANGED <<ledger, chain, todo, final, expiry>>

\* The process dies and is restarted: the scan's locals are gone.
Crash(p) ==
  /\ pc[p] # "idle"
  /\ Goto(p, "idle")
  /\ job' = [job EXCEPT ![p] = NoJob]
  /\ todo' = [todo EXCEPT ![p] = {}] /\ final' = [final EXCEPT ![p] = {}]
  /\ UNCHANGED <<ledger, wallet, chain, expiry>>

Ingest(p) ==
  \/ \E c \in Transfers : ReadPrior(p, c)
  \/ BindCheckout(p) \/ Judge(p) \/ FindPlaceholder(p)
  \/ WriteRow(p) \/ FailWrite(p) \/ Tidy(p) \/ ReleaseWallet(p)

-----------------------------------------------------------------------------
(* expireStaleCreatedCheckoutTransactions.                                 *)

\* Fault: the cron passes over wallets that are still on hold.
LoadStaleOffHold ==
  /\ cronpc = "idle" /\ stale \cap Open # {} /\ ~ttl
  /\ batch' = stale \cap Open
  /\ cronpc' = "mark"
  /\ UNCHANGED <<ledger, wallet, chain, scans, lapsing>>

LoadStale ==
  /\ cronpc = "idle" /\ stale \cap Open # {}
  /\ batch' = stale \cap Open
  /\ cronpc' = "mark"
  /\ UNCHANGED <<ledger, wallet, chain, scans, lapsing>>

\* Fault: the update trusts what findMany returned.
StillStaleUnchecked(s) == s \in stale

\* updateMany repeats the stale-placeholder condition at the row.
StillStale(s) == s \in Open /\ s \in stale /\ row[s].tx = None

MarkFailed(s) ==
  /\ cronpc = "mark" /\ s \in Oldest(batch)
  /\ batch' = batch \ {s}
  /\ \/ /\ StillStale(s)
        /\ row' = [row EXCEPT ![s].st = "failed"]
        /\ stale' = stale \ {s}
        /\ lapsing' = s /\ cronpc' = "release"
     \/ ~StillStale(s) /\ UNCHANGED <<row, stale, lapsing, cronpc>>
  /\ UNCHANGED <<newer, wallet, chain, scans>>

ReleaseLapsed ==
  /\ cronpc = "release"
  /\ ttl' = FALSE /\ tick' = FALSE
  /\ lapsing' = None /\ cronpc' = "mark"
  /\ UNCHANGED <<ledger, chain, scans, batch>>

EndExpiry ==
  /\ cronpc = "mark" /\ batch = {}
  /\ cronpc' = "idle"
  /\ UNCHANGED <<ledger, wallet, chain, scans, batch, lapsing>>

CrashExpiry ==
  /\ cronpc # "idle"
  /\ cronpc' = "idle" /\ batch' = {} /\ lapsing' = None
  /\ UNCHANGED <<ledger, wallet, chain, scans>>

Expire == LoadStale \/ (\E s \in Sessions : MarkFailed(s))
            \/ ReleaseLapsed \/ EndExpiry

-----------------------------------------------------------------------------

Next ==
  \/ \E c \in Transfers : Mine(c) \/ Confirm(c)
  \/ \E s \in Sessions : OpenCheckout(s) \/ ReuseCheckout(s) \/ GrowStale(s)
  \/ RequestRescan \/ ReleaseExpiredHold
  \/ \E p \in Scanners :
       StartScan(p) \/ EndScan(p) \/ Ingest(p) \/ Crash(p)
  \/ \E p \in Rescans, s \in Sessions : StartRescan(p, s)
  \/ Expire \/ CrashExpiry

Spec == Init /\ [][Next]_vars

\* A cron process that restarts again and again still gets to its next update.
FairExpiry ==
  /\ WF_vars(Expire)
  /\ SF_vars(\E s \in Sessions : MarkFailed(s))

FairSpec == Spec /\ FairExpiry

-----------------------------------------------------------------------------
(* Safety, whatever runs concurrently.                                     *)

\* No transfer is credited twice: at most one row carries its key, although
\* merge and insert decide on what they read several awaits earlier.
OneRowPerTransfer ==
  \A c \in Transfers : \A q, r \in RowsOf(c) : q = r

\* A checkout the cron failed as unpaid carries no transfer: it may race with a
\* merge into the same placeholder, and must then lose.
FailedMeansUnpaid ==
  \A r \in RowIds : row[r].st = "failed" => row[r].tx = None

\* The tidy-up after an upsert never soft-deletes a row that carries money.
PaidRowsAreKept ==
  \A r \in RowIds : row[r].tx # None => ~row[r].del

\* A checkout past its age does not stay open for ever: it is failed, paid, or
\* asked for again.
StaleCheckoutsLapse ==
  \A s \in Sessions : (s \in stale \cap Open) ~> (s \notin stale \cap Open)

-----------------------------------------------------------------------------
(* What the documentation says of the ledger.                              *)

\* "Rows that are already success are not rewritten for a new chain hash":
\* a row keeps the transfer it was paid by.
PaidRowsKeepTheirTransfer ==
  [][\A r \in RowIds : row[r].tx # None => row'[r].tx = row[r].tx]_vars

\* "success: ... for fixed-amount sessions, session total met."
SuccessMeansSessionTotalMet ==
  \A s \in Sessions : row[s].st = "success" => ~Short(s, row[s].tx)

\* "When later transfers bring a fixed-amount session total to the expected
\* value, you receive another POST with status success": when the wallet has had
\* one checkout and its credits are all recorded and reach the amount asked for,
\* some row of that session is a success.
ToppedUpCheckoutSucceeds ==
  \A s \in Sessions :
    (/\ \A c \in Transfers : \E r \in RowsOf(c) : row[r].st \in {"success", "underpaid"}
     /\ MapThenSumSet(LAMBDA c : Amount[c], Transfers) >= Expected[s]
     /\ \A p \in Scanners : pc[p] = "idle"
     /\ row[s].tx # None /\ Sessions = {s})
    => \E r \in RowIds : row[r].key = s /\ row[r].st = "success"

-----------------------------------------------------------------------------
(* With one scanner the code implements the ledger it promises.            *)

home == [c \in Transfers |->
  LET rows == RowsOf(c) IN IF rows = {} THEN None ELSE CHOOSE r \in rows : TRUE]

credit == [c \in Transfers |-> IF home[c] = None THEN "unseen" ELSE row[home[c]].st]

checkout == [s \in Sessions |->
  CASE row[s].st = "absent" -> "none"
    [] row[s].tx # None     -> "settled"
    [] row[s].st = "failed" -> "lapsed"
    [] OTHER                -> IF row[s].del THEN "removed" ELSE "open"]

Ledger == INSTANCE DepositLedger

\* The rows follow the abstract ledger: each credit is recorded once, stays on
\* its row and is judged once, and a settled checkout is never reopened.
LedgerKept == Ledger!Spec
=============================================================================
