----------------------------- MODULE EvmScanner -----------------------------
(***************************************************************************)
(* The ERC20 deposit scan.  The worker's tick and the maintenance full     *)
(* scan run scanEvmChain in processes of their own, on one block cursor:   *)
(* each loads a list of wallets, reads the chain's tip and the cursor,     *)
(* fetches the transfer logs of the blocks between, and block by block     *)
(* stores what its wallets received and writes the cursor, whatever the    *)
(* cursor has become meanwhile.  A block the explorer fails on counts as a *)
(* block without transfers.                                                *)
(***************************************************************************)
EXTENDS Naturals, FiniteSets, FiniteSetsExt

CONSTANTS
  Wallets,      (* live wallets of the chain                                *)
  Transfers,    (* [block, to]: what the blocks pay to the wallets          *)
  FullScans,    (* passes of the full scan; the worker is Worker            *)
  Worker,
  MaxBlock,     (* the last block the model mines                           *)
  MaxBatch,     (* evmDepositScanMaxBlocksPerTick                           *)
  FirstWarmup,  (* blocks behind the tip a new cursor starts at (12)        *)
  ZeroWarmup,   (* and where a cursor of 0 is moved to (100)                *)
  NoCursor, Off

Heights  == 0 .. MaxBlock
Scanners == FullScans \cup {Worker}

ASSUME ScannerConstants ==
  /\ Worker \notin FullScans /\ MaxBlock \in Nat /\ MaxBatch \in Nat \ {0}
  /\ FirstWarmup \in Nat /\ ZeroWarmup \in Nat /\ NoCursor \notin Heights
  /\ Transfers \subseteq [block : 1 .. MaxBlock, to : Wallets]

(* A scan: the await it is suspended at, the wallets it loaded, the tip it *)
(* read (later the last block of its tick) and the block it is at; and for *)
(* the properties only, the block after the cursor it read, and whether an *)
(* explorer call of it failed.                                             *)
Scan == [at : {"tip", "cursor", "create", "warm", "apply", "advance", "clear"},
         watching : SUBSET Wallets, target : Heights, block : 0 .. MaxBlock + 1,
         first : 0 .. MaxBlock + 1, failed : BOOLEAN]

Begun(list) == [at |-> "tip", watching |-> list, target |-> 0, block |-> 0,
                first |-> 0, failed |-> FALSE]

ASSUME OffIsNoScan == Off \notin Scan

VARIABLES
  tip,        (* latest block                                               *)
  hot,        (* assigned wallets with a hold or scan time or open checkout *)
  flagged,    (* wallets with deposit_scan_single_tick_requested            *)
  cursor,     (* scanner_state.last_block                                   *)
  stored,     (* transfers in the ledger                                    *)
  scan,       (* scanner -> its scan, or Off                                *)
  outage,     (* while TRUE, calls to the explorer and processes may fail   *)
  start,      (* the block the cursor was warmed up to (history)            *)
  missed,     (* transfers a scan went past without storing them (history)  *)
  late        (* wallets flagged since the worker loaded its list (history) *)

scannerVars == <<tip, hot, flagged, cursor, stored, scan, outage, start, missed, late>>

ScannerTypeOK ==
  /\ tip \in Heights /\ hot \subseteq Wallets /\ flagged \subseteq Wallets
  /\ cursor \in Heights \cup {NoCursor} /\ stored \subseteq Transfers
  /\ scan \in [Scanners -> Scan \cup {Off}]
  /\ outage \in BOOLEAN /\ start \in Heights /\ missed \subseteq Transfers /\ late \subseteq Wallets

ScannerInit ==
  /\ tip = 0 /\ hot = {} /\ flagged = {} /\ stored = {}
  /\ cursor \in {0, NoCursor} /\ scan = [s \in Scanners |-> Off]
  /\ outage = TRUE /\ start = 0 /\ missed = {} /\ late = {}

At(s, place) == scan[s] # Off /\ scan[s].at = place

(* What follows a scan that returns: the worker clears the flags.          *)
Ended(s, last) == IF s = Worker THEN [last EXCEPT !.at = "clear"] ELSE Off

-----------------------------------------------------------------------------
(* The chain, the checkouts and the portals' "restart deposit scan". *)
Mine ==
  /\ tip < MaxBlock /\ tip' = tip + 1
  /\ UNCHANGED <<hot, flagged, cursor, stored, scan, start, missed, late, outage>>

Heat(w) ==
  /\ hot' = hot \cup {w}
  /\ UNCHANGED <<tip, flagged, cursor, stored, scan, start, missed, late, outage>>

(* releaseExpiredPoolHolds, releaseWalletAfterDepositSuccess: the one-shot *)
(* flag goes with the hold; another open checkout keeps the wallet hot.    *)
Release(w) ==
  /\ hot' \in {hot, hot \ {w}} /\ flagged' = flagged \ {w}
  /\ UNCHANGED <<tip, cursor, stored, scan, start, missed, late, outage>>

RequestScan(w) ==
  /\ flagged' = flagged \cup {w} /\ late' = late \cup {w}
  /\ UNCHANGED <<tip, hot, cursor, stored, scan, start, missed, outage>>

-----------------------------------------------------------------------------
\* Fault: the flag is no condition, and nobody to watch no end of the tick.
LoadHotWallets(s) ==
  /\ scan[s] = Off
  /\ \E list \in SUBSET hot :
       /\ s = Worker => list = hot
       /\ scan' = [scan EXCEPT ![s] = Begun(list)]
  /\ late' = IF s = Worker THEN {} ELSE late
  /\ UNCHANGED <<tip, hot, flagged, cursor, stored, start, missed, outage>>

(* liveWorkerWalletScanFilter: the hot and the flagged.  The full scan's   *)
(* filter leaves out those hot by an open checkout alone.                  *)
Lists(s) == {list \in SUBSET (hot \cup flagged) :
  flagged \subseteq list /\ (s = Worker => hot \subseteq list)}

(* loadWalletsForChain; nobody to watch ends the tick without a call. *)
LoadWallets(s) ==
  /\ scan[s] = Off
  /\ \E list \in Lists(s) \ {{}} :
       scan' = [scan EXCEPT ![s] = Begun(list)]
  /\ late' = IF s = Worker THEN {} ELSE late
  /\ UNCHANGED <<tip, hot, flagged, cursor, stored, start, missed, outage>>

(* fetchLatestBlockNumberViaEtherscan. *)
ReadTip(s) ==
  /\ At(s, "tip")
  /\ scan' = [scan EXCEPT ![s].at = "cursor", ![s].target = tip]
  /\ UNCHANGED <<tip, hot, flagged, cursor, stored, start, missed, late, outage>>

(* No key, no answer or an answer that does not parse: the scan returns    *)
(* just as one that succeeded.                                             *)
ReadTipFails(s) ==
  /\ At(s, "tip") /\ outage
  /\ scan' = [scan EXCEPT ![s] = Ended(s, [@ EXCEPT !.failed = TRUE])]
  /\ UNCHANGED <<tip, hot, flagged, cursor, stored, start, missed, late, outage>>

AtBlock(tick, b) == [tick EXCEPT !.at = "apply", !.block = b]

\* Fault: the tip's own block is left for later.
StartBelowTip(s, from) ==
  LET last == scan[s].target
      now  == [scan[s] EXCEPT !.first = from + 1]
  IN scan' = [scan EXCEPT ![s] =
       IF from + 1 >= last THEN Ended(s, now)
       ELSE AtBlock([now EXCEPT !.target = Min({last, from + MaxBatch})], from + 1)]

(* The blocks of a tick that starts after a block. *)
StartAfter(s, from) ==
  LET last == scan[s].target
      now  == [scan[s] EXCEPT !.first = from + 1]
  IN scan' = [scan EXCEPT ![s] =
       IF from >= last THEN Ended(s, now)
       ELSE AtBlock([now EXCEPT !.target = Min({last, from + MaxBatch})], from + 1)]

(* getOrInitScannerBlock: the cursor, or the need to make or to warm one. *)
ReadCursor(s) ==
  /\ At(s, "cursor")
  /\ \/ cursor = NoCursor /\ scan' = [scan EXCEPT ![s].at = "create"]
     \/ cursor = 0 /\ scan[s].target > 0 /\ scan' = [scan EXCEPT ![s].at = "warm"]
     \/ cursor # NoCursor /\ (cursor = 0 => scan[s].target = 0) /\ StartAfter(s, cursor)
  /\ UNCHANGED <<tip, hot, flagged, cursor, stored, start, missed, late, outage>>

\* Fault: not held at 0.
BehindTipBelowZero(s, blocks) == scan[s].target - blocks

BehindTip(s, blocks) == IF scan[s].target > blocks THEN scan[s].target - blocks ELSE 0

(* The key (currency, network) is unique: of two scans that make the row,  *)
(* the later throws.  The other reads the rows again.                      *)
CreateCursor(s) ==
  /\ At(s, "create")
  /\ \/ /\ cursor = NoCursor /\ cursor' = BehindTip(s, FirstWarmup) /\ start' = cursor'
        /\ scan' = [scan EXCEPT ![s].at = "cursor"]
     \/ /\ cursor # NoCursor /\ scan' = [scan EXCEPT ![s] = Off]
        /\ UNCHANGED <<cursor, start>>
  /\ UNCHANGED <<tip, hot, flagged, stored, missed, late, outage>>

(* A cursor read as 0 is written over, whatever it has become. *)
WarmCursor(s) ==
  LET warm == BehindTip(s, ZeroWarmup) IN
  /\ At(s, "warm") /\ StartAfter(s, warm)
  /\ cursor' = warm /\ start' = Max({start, warm})
  /\ UNCHANGED <<tip, hot, flagged, stored, missed, late, outage>>

-----------------------------------------------------------------------------
(* The rows of one block, for the wallets the scan loaded; there are none  *)
(* when a page of its logs could not be fetched.                           *)
ApplyBlock(s) ==
  LET block == {t \in Transfers : t.block = scan[s].block} IN
  /\ At(s, "apply")
  /\ \E fails \in {FALSE, outage} :
       LET rows == {t \in block : ~fails /\ t.to \in scan[s].watching} IN
       /\ stored' = stored \cup rows /\ missed' = missed \cup (block \ rows)
       /\ scan' = [scan EXCEPT ![s].at = "advance", ![s].failed = @ \/ fails]
  /\ UNCHANGED <<tip, hot, flagged, cursor, start, late, outage>>

\* Fault: the cursor names the next block.
AdvanceToNext(s) ==
  /\ At(s, "advance")
  /\ cursor' = scan[s].block + 1
  /\ scan' = [scan EXCEPT ![s] = IF @.block = @.target THEN Ended(s, @)
                                 ELSE AtBlock(@, scan[s].block + 1)]
  /\ UNCHANGED <<tip, hot, flagged, stored, start, missed, late, outage>>

(* advanceScanner, whatever another scan has written since. *)
AdvanceScanner(s) ==
  /\ At(s, "advance")
  /\ cursor' = scan[s].block
  /\ scan' = [scan EXCEPT ![s] = IF @.block = @.target THEN Ended(s, @)
                                 ELSE AtBlock(@, scan[s].block + 1)]
  /\ UNCHANGED <<tip, hot, flagged, stored, start, missed, late, outage>>

(* clearDepositSingleTickForChain: every flag of the chain. *)
ClearFlags ==
  /\ At(Worker, "clear") /\ scan' = [scan EXCEPT ![Worker] = Off]
  /\ flagged' = {}
  /\ UNCHANGED <<tip, hot, cursor, stored, start, missed, late, outage>>

(* A throw ends the scan where it is, and so does the end of the process:  *)
(* some rows of the block at hand may have been stored.                    *)
ScanThrows(s) ==
  /\ scan[s] # Off /\ outage /\ scan' = [scan EXCEPT ![s] = Off]
  /\ \E rows \in SUBSET {t \in Transfers : At(s, "apply") /\ t.block = scan[s].block
                                           /\ t.to \in scan[s].watching} :
       stored' = stored \cup rows
  /\ UNCHANGED <<tip, hot, flagged, cursor, start, missed, late, outage>>

(* From some time on nothing fails. *)
EndOutage ==
  /\ outage /\ outage' = FALSE
  /\ UNCHANGED <<tip, hot, flagged, cursor, stored, scan, start, missed, late>>

(* A scan that is going on, but for the failures. *)
ScanGoesOn(s) ==
  \/ ReadTip(s) \/ ReadCursor(s) \/ CreateCursor(s) \/ WarmCursor(s)
  \/ ApplyBlock(s) \/ AdvanceScanner(s)

ScannerNext ==
  \/ Mine \/ EndOutage \/ ClearFlags
  \/ \E w \in Wallets : Heat(w) \/ Release(w) \/ RequestScan(w)
  \/ \E s \in Scanners : LoadWallets(s) \/ ScanGoesOn(s) \/ ReadTipFails(s) \/ ScanThrows(s)

(* Timers start the worker's ticks, and a scan that has begun is carried on. *)
ScannerFairness ==
  /\ WF_scannerVars(LoadWallets(Worker)) /\ WF_scannerVars(ClearFlags)
  /\ \A s \in Scanners : WF_scannerVars(ScanGoesOn(s))

ScannerSpec == ScannerInit /\ [][ScannerNext]_scannerVars /\ ScannerFairness

-----------------------------------------------------------------------------
(* However the scans take turns writing the cursor, no block behind it is  *)
(* passed over (from where it was last warmed up): what a wallet received  *)
(* there is in the ledger, or a scan did go past it without (the explorer  *)
(* failed on the block, or the list was loaded without the wallet).        *)
NoBlockSkippedBehindCursor ==
  \A t \in Transfers :
    cursor # NoCursor /\ start < t.block /\ t.block <= cursor => t \in stored \cup missed

(* A tick drops a "restart deposit scan" only when it has scanned the      *)
(* wallet: what it received in the blocks of the tick is in the ledger,    *)
(* unless an explorer call of the tick failed, or the request was made     *)
(* after the tick had loaded its wallets.  (A step of no scan, the release *)
(* of the wallet's hold, takes the flag as well, read or not.)             *)
FlagServedOrExcused ==
  [][\A w \in flagged \ flagged' :
       LET tick == scan[Worker] IN
       scan' # scan /\ ~tick.failed /\ w \notin late =>
         /\ w \in tick.watching
         /\ \A t \in Transfers :
              t.to = w /\ t.block \in tick.first .. tick.target => t \in stored]_scannerVars

(* "After a successful chain tick, drop one-shot scan flags" and "include  *)
(* on the next worker tick once, then cleared": a tick that drops a flag   *)
(* had the wallet on its list and no explorer call of it failed.           *)
FlagDroppedOnlyBySuccess ==
  [][\A w \in flagged \ flagged' :
       scan' # scan => w \in scan[Worker].watching /\ ~scan[Worker].failed]_scannerVars

(* Once nothing fails any more and there is a wallet to watch, every       *)
(* transfer is met by a scan again and again until none is left, however   *)
(* often the two scans move the cursor back on each other.                 *)
EveryTransferMet ==
  <>[](hot # {} /\ ~outage) =>
    []<>(\A t \in Transfers : t.block \in start + 1 .. tip => t \in stored \cup missed)
=============================================================================
