-------------------------- MODULE EvmScannerProofs --------------------------
(***************************************************************************)
(* Theorems about EvmScanner, for any wallets, transfers, number of full   *)
(* scans, heights, batch sizes and warm-ups.                               *)
(*                                                                         *)
(* That no block behind the cursor is passed over says nothing of what     *)
(* another scan is about to write over it.  CoverInv says that whatever a  *)
(* scan may still write, it has met every block up to there; a scan that   *)
(* falls behind moves the cursor back and never past what was met.         *)
(***************************************************************************)
EXTENDS EvmScanner, TLAPS

LEMMA MinOfTwo ==
  ASSUME NEW a \in Int, NEW b \in Int
  PROVE  Min({a, b}) \in {a, b} /\ Min({a, b}) <= a /\ Min({a, b}) <= b
  <1> DEFINE P(x) == x \in {a, b} /\ \A y \in {a, b} : x <= y
  <1>1. P(a) \/ P(b) OBVIOUS
  <1>2. P(CHOOSE x : P(x)) BY <1>1
  <1>3. Min({a, b}) = CHOOSE x : P(x) BY Zenon DEF Min
  <1> QED BY <1>2, <1>3

LEMMA MaxOfTwo ==
  ASSUME NEW a \in Int, NEW b \in Int
  PROVE  Max({a, b}) \in {a, b} /\ Max({a, b}) >= a /\ Max({a, b}) >= b
  <1> DEFINE P(x) == x \in {a, b} /\ \A y \in {a, b} : x >= y
  <1>1. P(a) \/ P(b) OBVIOUS
  <1>2. P(CHOOSE x : P(x)) BY <1>1
  <1>3. Max({a, b}) = CHOOSE x : P(x) BY Zenon DEF Max
  <1> QED BY <1>2, <1>3

(* Every transfer in the blocks from the warm-up to b has been met. *)
Covered(b) == \A t \in Transfers : start < t.block /\ t.block <= b => t \in stored \cup missed

Reached(s) ==
  /\ At(s, "apply")   => /\ scan[s].block \in 1 .. scan[s].target
                         /\ Covered(scan[s].block - 1)
  /\ At(s, "advance") => /\ scan[s].block \in 1 .. scan[s].target
                         /\ Covered(scan[s].block)

CursorInv == IF cursor = NoCursor THEN start = 0 ELSE Covered(cursor)
CoverInv  == \A s \in Scanners : Reached(s)
FlagInv   == scan[Worker] # Off => flagged \subseteq scan[Worker].watching \cup late

(* What the worker's tick has seen of its wallets' transfers up to a block. *)
Seen(last) ==
  LET tick == scan[Worker] IN
  tick.failed \/ \A t \in Transfers :
    t.to \in tick.watching /\ t.block \in tick.first .. last => t \in stored

ServedInv ==
  /\ At(Worker, "apply")   => Seen(scan[Worker].block - 1)
  /\ At(Worker, "advance") => Seen(scan[Worker].block)
  /\ At(Worker, "clear")   => Seen(scan[Worker].target)

IInv == ScannerTypeOK /\ CursorInv /\ CoverInv /\ FlagInv

LEMMA ServedAtFirst == ScannerInit => ServedInv
  BY DEF ScannerInit, ServedInv, At, Scanners

LEMMA IInvHoldsAtFirst == ScannerInit => IInv
  BY ScannerConstants, OffIsNoScan, SMT
  DEF ScannerInit, IInv, ScannerTypeOK, CursorInv, CoverInv, Reached, Covered, FlagInv, At,
      Heights, Scan

LEMMA AtBlockIsScan ==
  ASSUME NEW tick \in Scan, NEW b \in 0 .. MaxBlock + 1
  PROVE  /\ AtBlock(tick, b) \in Scan
         /\ AtBlock(tick, b).at = "apply" /\ AtBlock(tick, b).block = b
         /\ AtBlock(tick, b).target = tick.target /\ AtBlock(tick, b).watching = tick.watching
         /\ AtBlock(tick, b).first = tick.first /\ AtBlock(tick, b).failed = tick.failed
  <1> DEFINE placed == [tick EXCEPT !.at = "apply"]
  <1>1. /\ placed \in Scan /\ placed.at = "apply"
        /\ placed.target = tick.target /\ placed.watching = tick.watching
        /\ placed.first = tick.first /\ placed.failed = tick.failed
    BY DEF Scan
  <1>2. AtBlock(tick, b) = [placed EXCEPT !.block = b] BY DEF AtBlock, Scan
  <1> HIDE DEF placed
  <1> QED BY <1>1, <1>2 DEF Scan

(* A scan that turns to the blocks after a covered one. *)
LEMMA TurnsToBlocks ==
  ASSUME ScannerTypeOK, NEW s \in Scanners, NEW from \in Heights, scan[s] # Off, StartAfter(s, from)
  PROVE  /\ scan' \in [Scanners -> Scan \cup {Off}]
         /\ \A q \in Scanners \ {s} : scan'[q] = scan[q]
         /\ scan'[s] # Off => scan'[s].watching = scan[s].watching /\ scan'[s].first = from + 1
         /\ scan'[s] # Off /\ scan'[s].at # "clear" =>
              /\ scan'[s].at = "apply" /\ scan'[s].block = from + 1
              /\ from + 1 <= scan'[s].target
         /\ scan'[s] # Off /\ scan'[s].at = "clear" => scan'[s].target < from + 1
  <1> DEFINE last == scan[s].target
             m == Min({last, from + MaxBatch})
  <1>1. scan[s] \in Scan BY DEF ScannerTypeOK
  <1>2. last \in Int /\ from + MaxBatch \in Int
    BY <1>1, ScannerConstants DEF Scan, Heights
  <1>3. m \in {last, from + MaxBatch} /\ m <= last
    BY <1>2, MinOfTwo, Zenon
  <1>4. m \in Heights /\ (from < last => from + 1 <= m)
    BY <1>1, <1>3, ScannerConstants DEF Scan, Heights
  <1> DEFINE now   == [scan[s] EXCEPT !.first = from + 1]
             aimed == [now EXCEPT !.target = m]
  <1>5. scan' = [scan EXCEPT ![s] = IF from >= last THEN Ended(s, now) ELSE AtBlock(aimed, from + 1)]
    BY DEF StartAfter
  <1>6. now \in Scan BY <1>1, ScannerConstants DEF Scan, Heights
  <1> HIDE DEF m
  <1> HIDE DEF now, aimed
  <1>7. /\ now.watching = scan[s].watching /\ now.first = from + 1 /\ now.target = last
    BY <1>1 DEF now, Scan
  <1>8. CASE from >= last
    <2>1. scan' = [scan EXCEPT ![s] = Ended(s, now)]
      BY <1>5, <1>8
    <2>2. Ended(s, now) \in {Off, [now EXCEPT !.at = "clear"]}
      BY DEF Ended
    <2>3. [now EXCEPT !.at = "clear"] \in Scan
      BY <1>6 DEF Scan
    <2> QED BY <1>2, <1>6, <1>7, <1>8, <2>1, <2>2, <2>3 DEF ScannerTypeOK, Scan, Heights
  <1>9. CASE from < last
    <2> DEFINE next == AtBlock(aimed, from + 1)
    <2>1. scan' = [scan EXCEPT ![s] = next]
      <3>1. ~(from >= last) BY <1>2, <1>9, ScannerConstants DEF Heights
      <3> HIDE DEF last
      <3> QED BY <1>5, <3>1, Zenon
    <2>2. /\ aimed \in Scan /\ aimed.target = m
          /\ aimed.watching = scan[s].watching /\ aimed.first = from + 1
      BY <1>4, <1>6, <1>7 DEF aimed, Scan
    <2>3. from + 1 \in 0 .. MaxBlock + 1
      BY ScannerConstants DEF Heights
    <2>4. /\ next \in Scan /\ next.at = "apply" /\ next.block = from + 1 /\ next.target = m
          /\ next.watching = scan[s].watching /\ next.first = from + 1
      BY <2>2, <2>3, AtBlockIsScan
    <2> HIDE DEF next
    <2> QED BY <1>4, <1>9, <2>1, <2>4 DEF ScannerTypeOK
  <1> QED BY <1>1, <1>2, <1>8, <1>9, ScannerConstants DEF Scan, Heights

LEMMA IInvIsKept == IInv /\ [ScannerNext]_scannerVars => IInv'
  <1> SUFFICES ASSUME IInv, [ScannerNext]_scannerVars
               PROVE  IInv'
    OBVIOUS
  <1> USE ScannerConstants, OffIsNoScan
  <1>1. CASE Mine
    BY <1>1 DEF Mine, IInv, ScannerTypeOK, CursorInv, CoverInv, Reached, Covered, FlagInv, At, Heights
  <1>2. CASE EndOutage
    BY <1>2 DEF EndOutage, IInv, ScannerTypeOK, CursorInv, CoverInv, Reached, Covered, FlagInv, At
  <1>3. CASE ClearFlags
    BY <1>3 DEF ClearFlags, IInv, ScannerTypeOK, CursorInv, CoverInv, Reached, Covered, FlagInv, At, Scanners
  <1>4. ASSUME NEW w \in Wallets, Heat(w) \/ Release(w) \/ RequestScan(w)
        PROVE  IInv'
    BY <1>4 DEF Heat, Release, RequestScan, IInv, ScannerTypeOK, CursorInv, CoverInv, Reached, Covered, FlagInv, At
  <1>5. ASSUME NEW s \in Scanners, LoadWallets(s)
        PROVE  IInv'
    BY <1>5 DEF LoadWallets, Lists, Begun, IInv, ScannerTypeOK, CursorInv, CoverInv, Reached, Covered, FlagInv, At, Scan, Scanners, Heights
  <1>moves. ASSUME NEW s \in Scanners,
                UNCHANGED <<tip, hot, flagged, cursor, stored, start, missed, late, outage>>,
                scan' \in [Scanners -> Scan \cup {Off}],
                \A q \in Scanners \ {s} : scan'[q] = scan[q],
                scan'[s] # Off => /\ scan[s] # Off /\ scan'[s].watching = scan[s].watching
                                  /\ scan'[s].at \notin {"apply", "advance"}
         PROVE  IInv'
    <2>1. ScannerTypeOK' /\ CursorInv'
      BY <1>moves DEF IInv, ScannerTypeOK, CursorInv, Covered
    <2>2. FlagInv'
      BY <1>moves DEF IInv, FlagInv, Scanners
    <2>3. ASSUME NEW q \in Scanners PROVE Reached(q)'
      BY <1>moves DEF IInv, CoverInv, Reached, Covered, At
    <2> QED BY <2>1, <2>2, <2>3 DEF IInv, CoverInv
  <1>6. ASSUME NEW s \in Scanners, ReadTip(s)
        PROVE  IInv'
    <2>1. scan[s] \in Scan /\ tip \in Heights
      BY <1>6 DEF ReadTip, At, IInv, ScannerTypeOK
    <2>2. scan' = [scan EXCEPT ![s] = [scan[s] EXCEPT !.at = "cursor", !.target = tip]]
      BY <1>6 DEF ReadTip
    <2> QED BY <1>6, <1>moves, <2>1, <2>2 DEF ReadTip, At, IInv, ScannerTypeOK, Scan
  <1>7. ASSUME NEW s \in Scanners, ReadTipFails(s)
        PROVE  IInv'
    <2> DEFINE failing == [scan[s] EXCEPT !.failed = TRUE]
    <2>1. failing \in Scan /\ failing.watching = scan[s].watching
      BY <1>7 DEF ReadTipFails, At, IInv, ScannerTypeOK, Scan
    <2>2. scan' = [scan EXCEPT ![s] = Ended(s, failing)]
      BY <1>7 DEF ReadTipFails
    <2> HIDE DEF failing
    <2>3. Ended(s, failing) = Off \/ /\ Ended(s, failing) \in Scan
                                     /\ Ended(s, failing).at = "clear"
                                     /\ Ended(s, failing).watching = scan[s].watching
      BY <2>1 DEF Ended, Scan
    <2> QED BY <1>7, <1>moves, <2>2, <2>3 DEF ReadTipFails, At, IInv, ScannerTypeOK
  <1>8. ASSUME NEW s \in Scanners, ReadCursor(s)
        PROVE  IInv'
    <2>0. scan[s] \in Scan
      BY <1>8 DEF ReadCursor, At, IInv, ScannerTypeOK
    <2>1. CASE scan' = [scan EXCEPT ![s].at = "create"]
      BY <1>8, <1>moves, <2>0, <2>1 DEF ReadCursor, IInv, ScannerTypeOK, Scan
    <2>2. CASE scan' = [scan EXCEPT ![s].at = "warm"]
      BY <1>8, <1>moves, <2>0, <2>2 DEF ReadCursor, IInv, ScannerTypeOK, Scan
    <2>3. CASE cursor # NoCursor /\ StartAfter(s, cursor)
      <3>1. cursor \in Heights /\ scan[s] # Off
        BY <1>8, <2>3 DEF ReadCursor, IInv, ScannerTypeOK, At
      <3>3. /\ scan' \in [Scanners -> Scan \cup {Off}]
            /\ \A r \in Scanners \ {s} : scan'[r] = scan[r]
            /\ scan'[s] # Off => scan'[s].watching = scan[s].watching
            /\ scan'[s] # Off /\ scan'[s].at # "clear" =>
                 /\ scan'[s].at = "apply" /\ scan'[s].block = cursor + 1
                 /\ cursor + 1 <= scan'[s].target
        BY <2>3, <3>1, TurnsToBlocks DEF IInv
      <3>4. Reached(s)'
        BY <1>8, <2>3, <3>1, <3>3 DEF ReadCursor, IInv, ScannerTypeOK, CursorInv, Reached, Covered, At, Scan, Heights
      <3> QED
        BY <1>8, <3>1, <3>3, <3>4 DEF ReadCursor, IInv, ScannerTypeOK, CursorInv, CoverInv, Reached, Covered, FlagInv, At, Scanners
    <2> QED BY <1>8, <2>1, <2>2, <2>3 DEF ReadCursor
  <1>9. ASSUME NEW s \in Scanners, CreateCursor(s)
        PROVE  IInv'
    <2>1. BehindTip(s, FirstWarmup) \in Heights
      BY <1>9 DEF CreateCursor, BehindTip, IInv, ScannerTypeOK, At, Scan, Heights
    <2>2. /\ scan' \in [Scanners -> Scan \cup {Off}]
          /\ \A q \in Scanners : scan'[q] # Off => scan[q] # Off /\ scan'[q].watching = scan[q].watching
          /\ \A q \in Scanners : scan'[q] = scan[q] \/ scan'[q] = Off \/ scan'[q].at = "cursor"
      BY <1>9 DEF CreateCursor, IInv, ScannerTypeOK, At, Scan
    <2> QED
      BY <1>9, <2>1, <2>2 DEF CreateCursor, IInv, ScannerTypeOK, CursorInv, CoverInv, Reached, Covered, FlagInv, At, Scanners, Heights
  <1>10. ASSUME NEW s \in Scanners, WarmCursor(s)
         PROVE  IInv'
    <2>1. PICK warm \in Heights : warm = BehindTip(s, ZeroWarmup)
      BY <1>10 DEF WarmCursor, BehindTip, IInv, ScannerTypeOK, At, Scan, Heights
    <2>2. start' = Max({start, warm}) /\ cursor' = warm /\ StartAfter(s, warm) /\ scan[s] # Off
      BY <1>10, <2>1 DEF WarmCursor, At
    <2>3. start' \in {start, warm} /\ start' >= start /\ start' >= warm
      <3>1. start \in Int /\ warm \in Int BY DEF IInv, ScannerTypeOK, Heights
      <3> QED BY <3>1, <2>2, MaxOfTwo, Zenon
    <2>4. UNCHANGED <<tip, hot, flagged, stored, missed, late, outage>>
      BY <1>10 DEF WarmCursor
    <2>5. /\ scan' \in [Scanners -> Scan \cup {Off}]
          /\ \A r \in Scanners \ {s} : scan'[r] = scan[r]
          /\ scan'[s] # Off => scan'[s].watching = scan[s].watching
          /\ scan'[s] # Off /\ scan'[s].at # "clear" =>
               /\ scan'[s].at = "apply" /\ scan'[s].block = warm + 1
               /\ warm + 1 <= scan'[s].target
      BY <2>2, TurnsToBlocks DEF IInv
    <2>6. ScannerTypeOK'
      BY <2>1, <2>2, <2>3, <2>4, <2>5 DEF IInv, ScannerTypeOK, Heights
    <2>7. Covered(warm)'
      BY <2>3, <2>6 DEF Covered, ScannerTypeOK, Heights
    <2>8. \A b \in Int : Covered(b) => Covered(b)'
      BY <2>3, <2>4, <2>6 DEF IInv, Covered, ScannerTypeOK, Heights
    <2>9. CursorInv' /\ FlagInv'
      BY <2>2, <2>4, <2>5, <2>7 DEF IInv, CursorInv, FlagInv, Heights, Scanners
    <2>10. Reached(s)'
      BY <2>5, <2>7 DEF Reached, Covered, At, Heights
    <2>11. ASSUME NEW q \in Scanners \ {s} PROVE Reached(q)'
      BY <2>5, <2>8 DEF IInv, ScannerTypeOK, CoverInv, Reached, At, Scan, Heights
    <2> QED BY <2>6, <2>9, <2>10, <2>11 DEF IInv, CoverInv
  <1>11. ASSUME NEW s \in Scanners, ApplyBlock(s)
         PROVE  IInv'
    BY <1>11 DEF ApplyBlock, IInv, ScannerTypeOK, CursorInv, CoverInv, Reached, Covered, FlagInv, At, Scan, Scanners, Heights
  <1>12. ASSUME NEW s \in Scanners, AdvanceScanner(s)
         PROVE  IInv'
    <2>1. scan[s] \in Scan /\ scan[s].block \in 1 .. scan[s].target /\ Covered(scan[s].block)
      BY <1>12 DEF AdvanceScanner, IInv, ScannerTypeOK, CoverInv, Reached, At
    <2>2. CASE scan[s].block = scan[s].target
      BY <1>12, <2>1, <2>2 DEF AdvanceScanner, Ended, IInv, ScannerTypeOK, CursorInv, CoverInv, Reached, Covered, FlagInv, At, Scan, Scanners, Heights
    <2>3. CASE scan[s].block # scan[s].target
      <3> DEFINE next == AtBlock(scan[s], scan[s].block + 1)
      <3>1. scan' = [scan EXCEPT ![s] = next] /\ cursor' = scan[s].block
        BY <1>12, <2>3 DEF AdvanceScanner
      <3>2. scan[s].block + 1 \in 0 .. MaxBlock + 1
        BY <2>1 DEF Scan, Heights
      <3>3. /\ next \in Scan /\ next.at = "apply" /\ next.block = scan[s].block + 1
            /\ next.target = scan[s].target /\ next.watching = scan[s].watching
        BY <2>1, <3>2, AtBlockIsScan
      <3> HIDE DEF next
      <3> QED BY <1>12, <2>1, <2>3, <3>1, <3>3
          DEF AdvanceScanner, IInv, ScannerTypeOK, CursorInv, CoverInv, Reached, Covered, FlagInv, At, Scan, Scanners, Heights
    <2> QED BY <2>2, <2>3
  <1>13. ASSUME NEW s \in Scanners, ScanThrows(s)
         PROVE  IInv'
    BY <1>13 DEF ScanThrows, IInv, ScannerTypeOK, CursorInv, CoverInv, Reached, Covered, FlagInv, At, Scanners
  <1>14. CASE UNCHANGED scannerVars
    BY <1>14 DEF scannerVars, IInv, ScannerTypeOK, CursorInv, CoverInv, Reached, Covered, FlagInv, At
  <1> QED
    BY <1>1, <1>2, <1>3, <1>4, <1>5, <1>6, <1>7, <1>8, <1>9, <1>10, <1>11, <1>12, <1>13, <1>14
    DEF ScannerNext, ScanGoesOn

LEMMA IInvCorrect == ScannerSpec => []IInv
  <1> QED BY IInvHoldsAtFirst, IInvIsKept, PTL DEF ScannerSpec

(* Cursor, flags and the locals of every scan keep their types; a scan     *)
(* stays on blocks between the first and its target.                       *)
THEOREM ScannerTypeCorrect == ScannerSpec => []ScannerTypeOK
  <1>1. IInv => ScannerTypeOK BY DEF IInv
  <1> QED BY <1>1, IInvCorrect, PTL

(* Any number of scans may write the cursor over each other: no block      *)
(* behind it is passed over.                                               *)
THEOREM NoBlockEverSkipped == ScannerSpec => []NoBlockSkippedBehindCursor
  <1>1. IInv => NoBlockSkippedBehindCursor
    BY DEF IInv, CursorInv, Covered, NoBlockSkippedBehindCursor
  <1> QED BY <1>1, IInvCorrect, PTL

(* A tick reads its blocks one after the other, each for the wallets it    *)
(* loaded: what it has passed without a failed call it has stored.         *)
LEMMA ServedIsKept == IInv /\ ServedInv /\ [ScannerNext]_scannerVars => ServedInv'
  <1> SUFFICES ASSUME IInv, ServedInv, [ScannerNext]_scannerVars
               PROVE  ServedInv'
    OBVIOUS
  <1> USE ScannerConstants, OffIsNoScan
  <1> Worker \in Scanners BY DEF Scanners
  <1> scan \in [Scanners -> Scan \cup {Off}] BY DEF IInv, ScannerTypeOK
  <1>1. ASSUME scan'[Worker] = scan[Worker], stored \subseteq stored'
        PROVE  ServedInv'
    BY <1>1 DEF ServedInv, Seen, At
  <1>2. ASSUME scan'[Worker] = Off \/ scan'[Worker].at \notin {"apply", "advance", "clear"}
        PROVE  ServedInv'
    BY <1>2 DEF ServedInv, At
  <1>3. CASE LoadWallets(Worker)
    BY <1>2, <1>3 DEF LoadWallets, Begun
  <1>4. CASE ReadTip(Worker)
    BY <1>2, <1>4 DEF ReadTip, At, Scan
  <1>5. CASE ReadTipFails(Worker)
    BY <1>5 DEF ReadTipFails, At, Ended, ServedInv, Seen, Scan
  <1>6. ASSUME NEW from \in Heights, scan[Worker] # Off, StartAfter(Worker, from)
        PROVE  ServedInv'
    <2> DEFINE next == scan'[Worker]
    <2>1. /\ next # Off => next.first = from + 1
          /\ next # Off /\ next.at # "clear" => next.at = "apply" /\ next.block = from + 1
          /\ next # Off /\ next.at = "clear" => next.target < from + 1
          /\ next \in Scan \cup {Off}
      BY <1>6, TurnsToBlocks DEF IInv
    <2> QED BY <2>1 DEF ServedInv, Seen, At, Scan, Heights
  <1>7. CASE ReadCursor(Worker)
    <2>1. CASE scan' = [scan EXCEPT ![Worker].at = "create"] \/ scan' = [scan EXCEPT ![Worker].at = "warm"]
      BY <1>2, <1>7, <2>1 DEF ReadCursor, At, Scan
    <2>2. CASE cursor # NoCursor /\ StartAfter(Worker, cursor)
      BY <1>6, <1>7, <2>2 DEF ReadCursor, At, IInv, ScannerTypeOK
    <2> QED BY <1>7, <2>1, <2>2 DEF ReadCursor
  <1>8. CASE CreateCursor(Worker)
    BY <1>2, <1>8 DEF CreateCursor, At, Scan
  <1>9. CASE WarmCursor(Worker)
    <2>1. BehindTip(Worker, ZeroWarmup) \in Heights
      BY <1>9 DEF WarmCursor, BehindTip, At, Scan, Heights
    <2> QED BY <1>6, <1>9, <2>1 DEF WarmCursor, At
  <1>10. CASE ApplyBlock(Worker)
    <2>1. scan[Worker] \in Scan /\ scan[Worker].at = "apply" BY <1>10 DEF ApplyBlock, At
    <2>2. PICK fails \in {FALSE, outage} :
            /\ stored' = stored \cup {t \in {u \in Transfers : u.block = scan[Worker].block} :
                                         ~fails /\ t.to \in scan[Worker].watching}
            /\ scan' = [scan EXCEPT ![Worker].at = "advance", ![Worker].failed = @ \/ fails]
      BY <1>10 DEF ApplyBlock
    <2>3. /\ scan'[Worker].at = "advance" /\ scan'[Worker].block = scan[Worker].block
          /\ scan'[Worker].first = scan[Worker].first
          /\ scan'[Worker].watching = scan[Worker].watching
          /\ scan'[Worker].failed = (scan[Worker].failed \/ fails)
      BY <2>1, <2>2 DEF Scan
    <2>4. Seen(scan[Worker].block - 1) BY <2>1 DEF ServedInv, At
    <2>5. Seen(scan[Worker].block)'
      BY <2>1, <2>2, <2>3, <2>4 DEF Seen, Scan, Heights
    <2> QED BY <2>3, <2>5 DEF ServedInv, At
  <1>11. CASE AdvanceScanner(Worker)
    <2>1. scan[Worker] \in Scan /\ Seen(scan[Worker].block)
      BY <1>11 DEF AdvanceScanner, At, ServedInv
    <2>2. CASE scan[Worker].block = scan[Worker].target
      <3>1. scan'[Worker] = [scan[Worker] EXCEPT !.at = "clear"] /\ stored' = stored
        BY <1>11, <2>2 DEF AdvanceScanner, Ended
      <3> QED BY <2>1, <2>2, <3>1 DEF ServedInv, Seen, At, Scan
    <2>3. CASE scan[Worker].block # scan[Worker].target
      <3>1. scan'[Worker] = AtBlock(scan[Worker], scan[Worker].block + 1) /\ stored' = stored
        BY <1>11, <2>3 DEF AdvanceScanner
      <3>2. scan[Worker].block + 1 \in 0 .. MaxBlock + 1
        BY <1>11, <2>1 DEF AdvanceScanner, IInv, CoverInv, Reached, At, Scan, Heights
      <3>3. /\ scan'[Worker].at = "apply" /\ scan'[Worker].block - 1 = scan[Worker].block
            /\ scan'[Worker].first = scan[Worker].first /\ scan'[Worker].failed = scan[Worker].failed
            /\ scan'[Worker].watching = scan[Worker].watching
        BY <2>1, <3>1, <3>2, AtBlockIsScan DEF Scan, Heights
      <3>4. PICK b \in 0 .. MaxBlock + 1 : b = scan[Worker].block
        BY <2>1 DEF Scan
      <3>5. Seen(b)'
        BY <2>1, <3>1, <3>3, <3>4 DEF Seen
      <3> QED BY <3>3, <3>4, <3>5 DEF ServedInv, At
    <2> QED BY <2>2, <2>3
  <1>12. ASSUME NEW s \in Scanners,
                ReadTip(s) \/ ReadTipFails(s) \/ ReadCursor(s) \/ CreateCursor(s) \/ WarmCursor(s)
                  \/ ApplyBlock(s) \/ AdvanceScanner(s) \/ LoadWallets(s)
         PROVE  ServedInv'
    <2>1. CASE s = Worker
      BY <1>3, <1>4, <1>5, <1>7, <1>8, <1>9, <1>10, <1>11, <1>12, <2>1
    <2>2. CASE s # Worker
      <3>1. stored \subseteq stored'
        BY <1>12 DEF ReadTip, ReadTipFails, ReadCursor, CreateCursor, WarmCursor, ApplyBlock,
                     AdvanceScanner, LoadWallets
      <3>2. scan'[Worker] = scan[Worker]
        BY <1>12, <2>2 DEF ReadTip, ReadTipFails, ReadCursor, CreateCursor, WarmCursor, ApplyBlock,
                           AdvanceScanner, LoadWallets, StartAfter
      <3> QED BY <1>1, <3>1, <3>2
    <2> QED BY <2>1, <2>2
  <1>13. ASSUME NEW s \in Scanners, ScanThrows(s) PROVE ServedInv'
    <2>1. stored \subseteq stored' /\ (scan'[Worker] = scan[Worker] \/ scan'[Worker] = Off)
      BY <1>13 DEF ScanThrows
    <2> QED BY <1>1, <1>2, <2>1
  <1>14. CASE ClearFlags
    BY <1>2, <1>14 DEF ClearFlags
  <1>moves. CASE \/ Mine \/ EndOutage \/ UNCHANGED scannerVars
              \/ \E w \in Wallets : Heat(w) \/ Release(w) \/ RequestScan(w)
    BY <1>1, <1>moves DEF Mine, EndOutage, scannerVars, Heat, Release, RequestScan
  <1> QED BY <1>12, <1>13, <1>14, <1>moves DEF ScannerNext, ScanGoesOn

(* The worker's tick drops a request to scan only when it has scanned the  *)
(* wallet, a call of it failed, or the request was made since.             *)
THEOREM FlagAlwaysServedOrExcused == ScannerSpec => FlagServedOrExcused
  <1> DEFINE tick == scan[Worker]
             Served == \A w \in flagged \ flagged' :
                         scan' # scan /\ ~tick.failed /\ w \notin late =>
                           /\ w \in tick.watching
                           /\ \A t \in Transfers :
                                t.to = w /\ t.block \in tick.first .. tick.target => t \in stored
  <1>1. IInv /\ ServedInv /\ [ScannerNext]_scannerVars => [Served]_scannerVars
    <2> SUFFICES ASSUME IInv, ServedInv, ScannerNext PROVE Served
      OBVIOUS
    <2>1. CASE ClearFlags
      BY <2>1 DEF ClearFlags, At, IInv, FlagInv, ServedInv, Seen
    <2>2. ASSUME NEW w \in Wallets, Release(w) PROVE Served
      BY <2>2 DEF Release
    <2>3. CASE flagged \subseteq flagged'
      BY <2>3
    <2> QED
      BY <2>1, <2>2, <2>3 DEF ScannerNext, ScanGoesOn, Mine, EndOutage, Heat, RequestScan,
         LoadWallets, ReadTip, ReadTipFails, ReadCursor, CreateCursor, WarmCursor,
         ApplyBlock, AdvanceScanner, ScanThrows
  <1>2. ScannerInit => ServedInv BY ServedAtFirst
  <1>3. IInv /\ ServedInv /\ [ScannerNext]_scannerVars => ServedInv' BY ServedIsKept
  <1> QED BY <1>1, <1>2, <1>3, IInvCorrect, PTL DEF ScannerSpec, FlagServedOrExcused
=============================================================================
