------------------------ MODULE DepositIngestProofs ------------------------
(***************************************************************************)
(* Theorems about DepositIngest for every set of sessions, transfers and   *)
(* scanners.                                                               *)
(***************************************************************************)
EXTENDS DepositIngest, TLAPS

-----------------------------------------------------------------------------
(* Type correctness.                                                       *)

\* A job that has just started, or just ended, is a job.
LEMMA FreshJobIsAJob ==
  ASSUME TypeOK, NEW p \in Scanners
  PROVE  NoJob \in Job /\ FreshJob(p) \in Job
BY DEF TypeOK, NoJob, FreshJob, Job, Status, Credited

\* What upsertIncomingTransaction decides to store is a status of a credit.
LEMMA NextStatusIsCredited ==
  ASSUME NEW p \in Scanners
  PROVE  NextStatus(p) \in Credited
BY DEF NextStatus, Credited

\* The initial state is well typed.
LEMMA TypeInit == Init => TypeOK
<1>1. [st |-> "absent", tx |-> None, key |-> None, del |-> FALSE] \in Row
  BY DEF Row, Status
<1>2. NoJob \in Job
  BY DEF NoJob, Job, Status
<1>3. Init => row \in [RowIds -> Row]
  BY <1>1 DEF Init
<1>4. Init => job \in [Scanners -> Job]
  BY <1>2 DEF Init
<1> QED BY <1>3, <1>4 DEF Init, TypeOK, ScannerPc

\* The chain, the API calls and the timers keep the types.
LEMMA TypeEnvironment ==
  ASSUME TypeOK,
         \/ \E c \in Transfers : Mine(c) \/ Confirm(c)
         \/ \E s \in Sessions : OpenCheckout(s) \/ ReuseCheckout(s) \/ GrowStale(s)
         \/ RequestRescan \/ ReleaseExpiredHold
  PROVE  TypeOK'
<1>1. ASSUME NEW c \in Transfers, Mine(c) \/ Confirm(c) PROVE TypeOK'
  BY <1>1 DEF TypeOK, Mine, Confirm, ledger, wallet, scans, expiry
<1>2. ASSUME NEW s \in Sessions, OpenCheckout(s) PROVE TypeOK'
  BY <1>2 DEF TypeOK, OpenCheckout, Touch, RowIds, Row, Status, scans, expiry
<1>3. ASSUME NEW s \in Sessions, ReuseCheckout(s) PROVE TypeOK'
  BY <1>3 DEF TypeOK, ReuseCheckout, Touch, scans, expiry
<1>4. ASSUME NEW s \in Sessions, GrowStale(s) PROVE TypeOK'
  BY <1>4 DEF TypeOK, GrowStale, wallet, scans, expiry
<1>5. CASE RequestRescan \/ ReleaseExpiredHold
  BY <1>5 DEF TypeOK, RequestRescan, ReleaseExpiredHold, ledger, scans, expiry
<1> QED BY <1>1, <1>2, <1>3, <1>4, <1>5

\* The start and the end of a scan keep the types.
LEMMA TypeScan ==
  ASSUME TypeOK, NEW p \in Scanners,
         \/ StartScan(p) \/ EndScan(p) \/ Crash(p)
         \/ p \in Rescans /\ \E s \in Sessions : StartRescan(p, s)
  PROVE  TypeOK'
<1>1. ASSUME NEW s \in Sessions \cup {None}, Fetch(p, s)
      PROVE  /\ todo' \in [Scanners -> SUBSET Transfers]
             /\ final' \in [Scanners -> SUBSET Transfers]
             /\ job' \in [Scanners -> Job]
             /\ pc' \in [Scanners -> ScannerPc]
  <2>1. [NoJob EXCEPT !.target = s] \in Job
    BY DEF NoJob, Job, Status, Credited
  <2> QED BY <1>1, <2>1 DEF Fetch, Goto, TypeOK, ScannerPc
<1>2. CASE StartScan(p)
  BY <1>1, <1>2 DEF TypeOK, StartScan, ledger, wallet, expiry
<1>3. ASSUME NEW s \in Sessions, StartRescan(p, s) PROVE TypeOK'
  BY <1>1, <1>3 DEF TypeOK, StartRescan, ledger, expiry
<1>4. CASE EndScan(p) \/ Crash(p)
  BY <1>4, FreshJobIsAJob
     DEF TypeOK, EndScan, Crash, Goto, ScannerPc, ledger, wallet, expiry
<1> QED BY <1>2, <1>3, <1>4

\* The awaits of an upsert keep the types.
LEMMA TypeIngest ==
  ASSUME TypeOK, NEW p \in Scanners, Ingest(p)
  PROVE  TypeOK'
<1>1. ASSUME NEW c \in Transfers, ReadPrior(p, c) PROVE TypeOK'
  <2>1. pc' \in [Scanners -> ScannerPc]
    BY <1>1 DEF ReadPrior, Continue, Goto, TypeOK, ScannerPc
  <2>2. [FreshJob(p) EXCEPT !.tx = c] \in Job
    BY FreshJobIsAJob DEF Job
  <2>3. ASSUME NEW r \in RowIds
        PROVE  [FreshJob(p) EXCEPT !.tx = c, !.prior = row[r].st,
                                   !.judge = row[r].key] \in Job
    BY FreshJobIsAJob DEF Job, TypeOK, Row
  <2>4. job' \in [Scanners -> Job]
    BY <1>1, <2>2, <2>3, FreshJobIsAJob DEF ReadPrior, Continue, TypeOK, RowsOf
  <2> QED BY <1>1, <2>1, <2>4 DEF ReadPrior, TypeOK, ledger, wallet, expiry
<1>2. CASE BindCheckout(p)
  <2>1. PICK s \in Sessions \cup {None} :
          job' = [job EXCEPT ![p].judge = s, ![p].bind = s]
    BY <1>2 DEF BindCheckout, Newest, Open
  <2>2. [job[p] EXCEPT !.judge = s, !.bind = s] \in Job
    BY DEF TypeOK, Job
  <2>3. job' \in [Scanners -> Job]
    BY <2>1, <2>2 DEF TypeOK
  <2> QED BY <1>2, <2>3
             DEF BindCheckout, TypeOK, Goto, ScannerPc, ledger, wallet, expiry
<1>3. CASE Judge(p)
  BY <1>3, NextStatusIsCredited
     DEF Judge, TypeOK, Goto, ScannerPc, Job, Status, ledger, wallet, expiry
<1>4. CASE FindPlaceholder(p)
  <2>1. Placeholders(p) \subseteq RowIds \cup {None}
    BY DEF Placeholders, Newest, Open, RowIds
  <2> QED BY <1>4, <2>1
             DEF FindPlaceholder, TypeOK, Goto, ScannerPc, Job, ledger, wallet, expiry
<1>5. CASE WriteRow(p)
  <2>1. job[p] \in Job
    BY DEF TypeOK
  <2>2. job[p].at # None => row' \in [RowIds -> Row] /\ job' = job
    <3> SUFFICES ASSUME job[p].at # None
                 PROVE  row' \in [RowIds -> Row] /\ job' = job
      OBVIOUS
    <3> DEFINE ph == job[p].at
    <3>1. ph \in RowIds /\ Merge(p, ph)
      BY <1>5, <2>1 DEF WriteRow, Job
    <3>2. row[ph] \in Row
      BY <3>1 DEF TypeOK
    <3>3. job[p].tx \in Transfers \cup {None} /\ job[p].next \in Status
      BY <2>1 DEF Job
    <3> HIDE DEF ph
    <3>4. [row[ph] EXCEPT !.tx = job[p].tx, !.st = job[p].next] \in Row
      BY <3>2, <3>3 DEF Row
    <3> QED BY <3>1, <3>4 DEF Merge, TypeOK
  <2>3. job[p].at = None => row' \in [RowIds -> Row] /\ job' \in [Scanners -> Job]
    <3> SUFFICES ASSUME job[p].at = None
                 PROVE  row' \in [RowIds -> Row] /\ job' \in [Scanners -> Job]
      OBVIOUS
    <3> DEFINE c == job[p].tx
    <3>1. Upsert(p)
      BY <1>5 DEF WriteRow
    <3>2. ASSUME NEW r \in RowIds
          PROVE  [row[r] EXCEPT !.st = job[p].next] \in Row
      <4>1. row[r] \in Row /\ job[p].next \in Status
        BY <2>1 DEF TypeOK, Job
      <4> QED BY <4>1 DEF Row
    <3>5. ASSUME NEW r \in RowIds \cup {None}
          PROVE  [job[p] EXCEPT !.at = r] \in Job
      BY <2>1 DEF Job
    <3>3. CASE c # None
      <4>1. c \in RowIds
        BY <2>1, <3>3 DEF Job, RowIds
      <4>2. [st |-> job[p].next, tx |-> c, key |-> job[p].bind, del |-> FALSE] \in Row
        BY <2>1 DEF Job, Row
      <4> QED BY <3>1, <3>2, <3>5, <4>1, <4>2 DEF Upsert, TypeOK, RowsOf
    <3>4. CASE c = None
      <4>1. [row EXCEPT ![c] = [st |-> job[p].next, tx |-> c, key |-> job[p].bind,
                                del |-> FALSE]] = row
        BY <3>4, SeparateNames DEF TypeOK
      <4> QED BY <3>1, <3>2, <3>4, <3>5, <4>1 DEF Upsert, TypeOK, RowsOf
    <3> QED BY <3>3, <3>4
  <2> QED BY <1>5, <2>2, <2>3 DEF WriteRow, TypeOK, Goto, ScannerPc, wallet, expiry
<1>6. CASE FailWrite(p)
  BY <1>6, FreshJobIsAJob
     DEF FailWrite, MergeConflict, TypeOK, Goto, ScannerPc, ledger, expiry
<1>7. CASE Tidy(p)
  <2>1. ASSUME NEW r \in RowIds PROVE [row[r] EXCEPT !.del = TRUE] \in Row
    BY DEF TypeOK, Row
  <2>2. row' \in [RowIds -> Row]
    BY <1>7, <2>1 DEF Tidy, TypeOK
  <2>3. job' \in [Scanners -> Job] /\ pc' \in [Scanners -> ScannerPc]
    BY <1>7, FreshJobIsAJob DEF Tidy, TypeOK, Continue, Goto, ScannerPc
  <2> QED BY <1>7, <2>2, <2>3 DEF Tidy, TypeOK, wallet, expiry
<1>8. CASE ReleaseWallet(p)
  BY <1>8, FreshJobIsAJob
     DEF ReleaseWallet, TypeOK, Continue, Goto, ScannerPc, ledger, expiry
<1> QED BY <1>1, <1>2, <1>3, <1>4, <1>5, <1>6, <1>7, <1>8 DEF Ingest

\* The expiry cron keeps the types.
LEMMA TypeExpire ==
  ASSUME TypeOK, Expire \/ CrashExpiry
  PROVE  TypeOK'
<1>1. CASE LoadStale
  BY <1>1 DEF LoadStale, Open, TypeOK, ledger, wallet, scans
<1>2. ASSUME NEW s \in Sessions, MarkFailed(s) PROVE TypeOK'
  BY <1>2 DEF MarkFailed, TypeOK, Row, Status, RowIds, wallet, scans
<1>3. CASE ReleaseLapsed
  BY <1>3 DEF ReleaseLapsed, TypeOK, ledger, scans
<1>4. CASE EndExpiry \/ CrashExpiry
  BY <1>4 DEF EndExpiry, CrashExpiry, TypeOK, ledger, wallet, scans
<1> QED BY <1>1, <1>2, <1>3, <1>4 DEF Expire

\* Every state of every behaviour is well typed.
THEOREM TypeCorrect == Spec => []TypeOK
<1>1. TypeOK /\ [Next]_vars => TypeOK'
  <2> SUFFICES ASSUME TypeOK, [Next]_vars PROVE TypeOK'
    OBVIOUS
  <2>1. CASE UNCHANGED vars
    BY <2>1 DEF TypeOK, vars, ledger, wallet, scans, expiry
  <2>2. CASE Next
    BY <2>2, TypeEnvironment, TypeScan, TypeIngest, TypeExpire DEF Next, Scanners
  <2> QED BY <2>1, <2>2
<1> QED BY <1>1, TypeInit, PTL DEF Spec

-----------------------------------------------------------------------------
(* The inductive invariant.  An upsert writes on what it read some awaits   *)
(* earlier, so the invariants about rows need facts about the suspended     *)
(* jobs: which of the things they read can no longer become false.          *)

\* The locals j of one upsert, at each await l.
JobOK(l, j) ==
  /\ l \in {"bind", "judge", "place", "write", "tidy", "release"} => j.tx \in Transfers
  /\ l \in {"bind", "judge", "place"} => j.at = None
  /\ l \in {"place", "write"} => j.next \in Credited
  /\ l = "write" /\ j.at # None => j.at \in Sessions
  /\ l = "tidy" => j.at # None
  /\ j.prior # "absent" => j.bind = None

JobInv == \A p \in Scanners : JobOK(pc[p], job[p])

\* A placeholder keeps its session; nothing is soft-deleted; once a row of a
\* session carries a transfer, the session has no open checkout left.
KeyInv ==
  /\ \A r \in RowIds : ~row[r].del
  /\ \A s \in Sessions : row[s].st # "absent" => row[s].key = s
  /\ \A r \in RowIds : row[r].tx # None /\ row[r].key # None =>
       row[row[r].key].st \notin {"absent", "created"}
  /\ \A r \in RowIds : row[r].st = "absent" => row[r].tx = None
  /\ \A c \in Transfers : row[c].st # "absent" => row[c].tx = c /\ row[c].st \in Credited

\* What a job j read of the rows by await l and relies on when it writes.
ReadOK(l, j) ==
  /\ j.bind # None => row[j.bind].st # "absent"
  /\ l = "write" /\ j.at # None => row[j.at].st # "absent"
  /\ l = "write" /\ j.at = None /\ j.bind # None => row[j.bind].st # "created"
  /\ l = "tidy" => row[j.at].tx # None

ReadInv == \A p \in Scanners : ReadOK(pc[p], job[p])

IInv == JobInv /\ KeyInv /\ ReadInv

\* The actions of scanner p move no other scanner.
LEMMA OneScannerMoves ==
  ASSUME TypeOK, NEW p \in Scanners, NEW q \in Scanners \ {p},
         \/ StartScan(p) \/ EndScan(p) \/ Ingest(p) \/ Crash(p)
         \/ \E s \in Sessions : StartRescan(p, s)
  PROVE  pc'[q] = pc[q] /\ job'[q] = job[q]
BY DEF TypeOK, StartScan, StartRescan, Fetch, EndScan, Ingest, Crash, ReadPrior,
       BindCheckout, Judge, FindPlaceholder, WriteRow, Merge, Upsert, FailWrite,
       MergeConflict, Tidy, ReleaseWallet, Continue, Goto

\* What is not a scanner's step leaves the scans alone.
LEMMA OthersKeepScans ==
  ASSUME Next
  PROVE  \/ \E p \in Scanners :
              \/ StartScan(p) \/ EndScan(p) \/ Ingest(p) \/ Crash(p)
              \/ p \in Rescans /\ \E s \in Sessions : StartRescan(p, s)
         \/ UNCHANGED scans
BY DEF Next, Mine, Confirm, OpenCheckout, ReuseCheckout, GrowStale, RequestRescan,
       ReleaseExpiredHold, Expire, LoadStale, MarkFailed, ReleaseLapsed, EndExpiry,
       CrashExpiry, Scanners

\* A step of scanner p leaves its job as its await needs it.
LEMMA JobStep ==
  ASSUME TypeOK, JobInv, NEW p \in Scanners,
         \/ StartScan(p) \/ EndScan(p) \/ Ingest(p) \/ Crash(p)
         \/ p \in Rescans /\ \E s \in Sessions : StartRescan(p, s)
  PROVE  JobOK(pc'[p], job'[p])
<1> USE DEF JobOK
<1>1. JobOK(pc[p], job[p]) /\ pc[p] \in ScannerPc /\ job[p] \in Job
  BY DEF JobInv, TypeOK
<1>2. CASE \/ StartScan(p) \/ EndScan(p) \/ Crash(p)
           \/ \E s \in Sessions : StartRescan(p, s)
  BY <1>2 DEF TypeOK, StartScan, StartRescan, Fetch, EndScan, Crash, Goto, NoJob
<1>3. ASSUME NEW c \in Transfers, ReadPrior(p, c) PROVE JobOK(pc'[p], job'[p])
  <2> USE DEF TypeOK, FreshJob, NoJob
  <2>1. CASE pc'[p] = "next" /\ job'[p] = FreshJob(p)
    BY <2>1
  <2>2. CASE pc'[p] = "bind" /\ job'[p] = [FreshJob(p) EXCEPT !.tx = c]
    BY <2>2
  <2>3. ASSUME NEW prior, NEW judge, pc'[p] = "judge",
               job'[p] = [FreshJob(p) EXCEPT !.tx = c, !.prior = prior, !.judge = judge]
        PROVE  JobOK(pc'[p], job'[p])
    BY <2>3
  <2>4. CASE RowsOf(c) = {} /\ Goto(p, "bind")
             /\ job' = [job EXCEPT ![p] = [FreshJob(p) EXCEPT !.tx = c]]
    BY <2>2, <2>4 DEF Goto
  <2>5. ASSUME NEW r \in RowsOf(c), Goto(p, "judge"),
               job' = [job EXCEPT ![p] = [FreshJob(p) EXCEPT
                               !.tx = c, !.prior = row[r].st, !.judge = row[r].key]]
        PROVE  JobOK(pc'[p], job'[p])
    BY <2>3, <2>5 DEF Goto
  <2>6. CASE Continue(p)
    BY <2>1, <2>6 DEF Continue, Goto
  <2> QED BY <1>3, <2>4, <2>5, <2>6 DEF ReadPrior
<1>4. CASE BindCheckout(p)
  <2>1. PICK s : job' = [job EXCEPT ![p].judge = s, ![p].bind = s]
    BY <1>4 DEF BindCheckout
  <2> QED BY <1>1, <1>4, <2>1 DEF TypeOK, BindCheckout, Goto, Job
<1>5. CASE Judge(p)
  BY <1>1, <1>5, NextStatusIsCredited DEF TypeOK, Judge, Goto, Job
<1>6. CASE FindPlaceholder(p)
  <2>1. Placeholders(p) \subseteq Sessions \cup {None}
    BY DEF Placeholders, Newest, Open
  <2> QED BY <1>1, <1>6, <2>1 DEF TypeOK, FindPlaceholder, Goto, Job
<1>7. CASE WriteRow(p)
  BY <1>1, <1>7, SeparateNames
     DEF TypeOK, WriteRow, Merge, Upsert, Goto, Job, RowsOf, RowIds
<1>8. CASE FailWrite(p) \/ ReleaseWallet(p)
  BY <1>8 DEF TypeOK, FailWrite, MergeConflict, ReleaseWallet, Continue, Goto,
              FreshJob, NoJob
<1>9. CASE Tidy(p)
  BY <1>1, <1>9 DEF TypeOK, Tidy, Continue, Goto, FreshJob, NoJob
<1> QED BY <1>2, <1>3, <1>4, <1>5, <1>6, <1>7, <1>8, <1>9 DEF Ingest

\* The initial state satisfies the invariant.
LEMMA IInvInit == Init => IInv
BY DEF Init, IInv, JobInv, JobOK, KeyInv, ReadInv, ReadOK, NoJob, RowIds

\* The four actions that write a row.
LEMMA RowWriters ==
  ASSUME Next
  PROVE  \/ UNCHANGED row
         \/ \E s \in Sessions : OpenCheckout(s) \/ MarkFailed(s)
         \/ \E p \in Scanners : WriteRow(p) \/ Tidy(p)
BY DEF Next, Mine, Confirm, ReuseCheckout, GrowStale, RequestRescan,
       ReleaseExpiredHold, StartScan, StartRescan, EndScan, Ingest, Crash, ReadPrior,
       BindCheckout, Judge, FindPlaceholder, FailWrite, MergeConflict, ReleaseWallet,
       Expire, LoadStale, ReleaseLapsed, EndExpiry, CrashExpiry, ledger

\* What WriteRow does to row r: it merges the transfer into a placeholder,
\* inserts a row for a transfer that has none, or updates the row it has.
Writes(p, r) ==
  LET c == job[p].tx  st == job[p].next  key == job[p].bind IN
  /\ job'[p].at = r /\ job'[p].bind = key
  /\ \/ /\ r \in Sessions /\ row[r].st # "absent" /\ RowsOf(c) \subseteq {r}
        /\ row' = [row EXCEPT ![r].tx = c, ![r].st = st]
     \/ /\ r = c /\ RowsOf(c) = {} /\ job[p].at = None
        /\ row' = [row EXCEPT ![r] = [st |-> st, tx |-> c, key |-> key, del |-> FALSE]]
     \/ /\ r \in RowsOf(c)
        /\ row' = [row EXCEPT ![r].st = st]

\* A write is of one of these three kinds.
LEMMA WriteEffect ==
  ASSUME TypeOK, IInv, NEW p \in Scanners, WriteRow(p)
  PROVE  /\ job[p].tx \in Transfers /\ job[p].next \in Credited
         /\ job[p].bind \in Sessions \cup {None}
         /\ \E r \in RowIds : Writes(p, r)
<1>1. /\ pc[p] = "write" /\ job[p] \in Job
      /\ JobOK(pc[p], job[p]) /\ ReadOK(pc[p], job[p])
  BY DEF IInv, JobInv, ReadInv, TypeOK, WriteRow
<1>2. job[p].tx \in Transfers /\ job[p].next \in Credited
      /\ job[p].bind \in Sessions \cup {None}
  BY <1>1 DEF JobOK, Job
<1>3. CASE job[p].at # None
  <2>1. Merge(p, job[p].at) /\ job[p].at \in Sessions /\ row[job[p].at].st # "absent"
    BY <1>1, <1>3 DEF WriteRow, JobOK, ReadOK
  <2> QED BY <1>2, <2>1 DEF Merge, RowIds, Writes
<1>4. CASE job[p].at = None
  <2>1. Upsert(p)
    BY <1>4 DEF WriteRow
  <2>2. CASE /\ RowsOf(job[p].tx) = {}
             /\ row' = [row EXCEPT ![job[p].tx] = [st |-> job[p].next, tx |-> job[p].tx,
                                                 key |-> job[p].bind, del |-> FALSE]]
             /\ job' = [job EXCEPT ![p].at = job[p].tx]
    BY <1>1, <1>2, <1>4, <2>2 DEF TypeOK, Job, RowIds, Writes
  <2>3. ASSUME NEW r \in RowsOf(job[p].tx),
               row' = [row EXCEPT ![r].st = job[p].next],
               job' = [job EXCEPT ![p].at = r]
        PROVE  r \in RowIds /\ Writes(p, r)
    BY <1>1, <2>3 DEF TypeOK, Job, RowsOf, Writes
  <2> QED BY <1>2, <2>1, <2>2, <2>3 DEF Upsert
<1> QED BY <1>2, <1>3, <1>4

\* No row goes back: one that exists stays, keeps its session and its mark,
\* never reopens once closed and never loses its transfer for none.
Advances(r) ==
  /\ row[r].st # "absent" => row'[r].st # "absent" /\ row'[r].key = row[r].key
  /\ row[r].st \notin {"absent", "created"} => row'[r].st \notin {"absent", "created"}
  /\ row[r].tx # None => row'[r].tx # None

\* The write of an upsert only advances rows and keeps KeyInv.
LEMMA WriteKeepsKeys ==
  ASSUME TypeOK, IInv, NEW p \in Scanners, WriteRow(p)
  PROVE  KeyInv' /\ \A r \in RowIds : Advances(r)
<1> DEFINE c == job[p].tx  st == job[p].next  key == job[p].bind
<1>1. PICK r \in RowIds : Writes(p, r)
  BY WriteEffect
<1>2. c \in Transfers /\ st \in Credited /\ key \in Sessions \cup {None} /\ c # None
  BY WriteEffect, SeparateNames DEF RowIds
<1>3. /\ key # None => row[key].st # "absent"
      /\ job[p].at = None /\ key # None => row[key].st # "created"
  BY DEF IInv, ReadInv, ReadOK, WriteRow
<1>4. KeyInv /\ row \in [RowIds -> Row] /\ st \notin {"absent", "created", "failed"}
  BY <1>2 DEF IInv, TypeOK, Credited
<1>5. \A q \in RowIds : row[q].key \in Sessions \cup {None} /\ Sessions \subseteq RowIds
  BY <1>4 DEF Row, RowIds
<1> HIDE DEF c, st, key
<1>6. CASE /\ r \in Sessions /\ row[r].st # "absent" /\ RowsOf(c) \subseteq {r}
           /\ row' = [row EXCEPT ![r].tx = c, ![r].st = st]
  <2>1. /\ row'[r] = [row[r] EXCEPT !.tx = c, !.st = st]
        /\ \A q \in RowIds \ {r} : row'[q] = row[q]
    BY <1>4, <1>6
  <2>2. row'[r].st = st /\ row'[r].tx = c /\ row'[r].key = r /\ ~row'[r].del
    BY <1>4, <1>6, <2>1 DEF Row, KeyInv
  <2>3. \A q \in RowIds : Advances(q)
    BY <1>2, <1>4, <2>1, <2>2, <1>6 DEF Advances, KeyInv
  <2>4. KeyInv'
    BY <1>2, <1>4, <1>5, <1>6, <2>1, <2>2, SeparateNames DEF KeyInv, RowIds
  <2> QED BY <2>3, <2>4
<1>7. CASE /\ r = c /\ RowsOf(c) = {} /\ job[p].at = None
           /\ row' = [row EXCEPT ![r] = [st |-> st, tx |-> c, key |-> key, del |-> FALSE]]
  <2>1. row[c].st = "absent"
    BY <1>2, <1>4, <1>7 DEF KeyInv, RowsOf, RowIds
  <2>2. /\ row'[c] = [st |-> st, tx |-> c, key |-> key, del |-> FALSE]
        /\ \A q \in RowIds \ {c} : row'[q] = row[q]
    BY <1>4, <1>7
  <2>3. \A q \in RowIds : Advances(q)
    BY <1>2, <1>4, <2>1, <2>2 DEF Advances
  <2>4. key # None => key # c /\ row[key].st \notin {"absent", "created"}
    BY <1>2, <1>3, <1>7, SeparateNames
  <2>5. KeyInv'
    BY <1>2, <1>4, <1>5, <2>1, <2>2, <2>4, SeparateNames DEF KeyInv, RowIds
  <2> QED BY <2>3, <2>5
<1>8. CASE r \in RowsOf(c) /\ row' = [row EXCEPT ![r].st = st]
  <2>1. row[r].tx = c
    BY <1>8 DEF RowsOf
  <2>2. /\ row'[r] = [row[r] EXCEPT !.st = st]
        /\ \A q \in RowIds \ {r} : row'[q] = row[q]
    BY <1>4, <1>8
  <2>3. /\ row'[r].st = st /\ row'[r].tx = c /\ row'[r].key = row[r].key
        /\ row'[r].del = row[r].del
    BY <1>4, <2>1, <2>2 DEF Row
  <2>4. \A q \in RowIds : Advances(q)
    BY <1>2, <1>4, <2>1, <2>2, <2>3 DEF Advances
  <2>5. row[r].st # "absent"
    BY <1>2, <1>4, <2>1 DEF KeyInv
  <2>6. \A q \in RowIds : /\ row'[q].key = row[q].key /\ row'[q].tx = row[q].tx
                          /\ row'[q].del = row[q].del
                          /\ q # r => row'[q].st = row[q].st
    <3> TAKE q \in RowIds
    <3>1. CASE q = r
      BY <2>1, <2>3, <3>1
    <3>2. CASE q # r
      BY <2>2, <3>2
    <3> QED BY <3>1, <3>2
  <2>7. KeyInv'
    BY <1>2, <1>4, <1>5, <2>3, <2>5, <2>6 DEF KeyInv, RowIds
  <2> QED BY <2>4, <2>7
<1> QED BY <1>1, <1>6, <1>7, <1>8 DEF Writes, c, st, key

\* The tidy-up finds nothing to remove: a row that carries a transfer leaves no
\* open checkout in its session.
LEMMA TidyIsIdle ==
  ASSUME TypeOK, IInv, NEW p \in Scanners, Tidy(p)
  PROVE  row' = row
<1>1. KeyInv /\ row \in [RowIds -> Row]
  BY DEF IInv, TypeOK
<1>2. job[p].at \in RowIds /\ row[job[p].at].tx # None
  BY DEF IInv, JobInv, JobOK, ReadInv, ReadOK, TypeOK, Job, Tidy
<1>3. \A r \in RowIds : row[job[p].at].key # None /\ row[r].key = row[job[p].at].key
                        => row[r].st # "created"
  BY <1>1, <1>2, SeparateNames DEF KeyInv, RowIds, Row, Credited
<1> QED BY <1>1, <1>3 DEF Tidy

\* So does every other step.
LEMMA StepKeepsKeys ==
  ASSUME TypeOK, IInv, Next
  PROVE  KeyInv' /\ \A r \in RowIds : Advances(r)
<1>1. KeyInv /\ row \in [RowIds -> Row] /\ Sessions \subseteq RowIds
  BY DEF IInv, TypeOK, RowIds
<1>2. \A q \in RowIds : row[q].key \in Sessions \cup {None}
  BY <1>1 DEF Row
<1>3. CASE UNCHANGED row
  BY <1>1, <1>3 DEF KeyInv, Advances
<1>4. ASSUME NEW s \in Sessions, OpenCheckout(s)
      PROVE  KeyInv' /\ \A r \in RowIds : Advances(r)
  <2>1. /\ row[s].st = "absent" /\ row[s].tx = None
        /\ row'[s] = [st |-> "created", tx |-> None, key |-> s, del |-> FALSE]
        /\ \A q \in RowIds \ {s} : row'[q] = row[q]
    BY <1>1, <1>4 DEF OpenCheckout, KeyInv
  <2>2. \A r \in RowIds : Advances(r)
    BY <2>1 DEF Advances
  <2>3. KeyInv'
    BY <1>1, <1>2, <2>1, SeparateNames DEF KeyInv, RowIds
  <2> QED BY <2>2, <2>3
<1>5. ASSUME NEW s \in Sessions, MarkFailed(s)
      PROVE  KeyInv' /\ \A r \in RowIds : Advances(r)
  <2>1. CASE /\ row[s].st = "created" /\ row[s].tx = None
             /\ row' = [row EXCEPT ![s].st = "failed"]
    <3>1. /\ row'[s] = [row[s] EXCEPT !.st = "failed"]
          /\ \A q \in RowIds \ {s} : row'[q] = row[q]
      BY <1>1, <2>1
    <3>2. /\ row'[s].st = "failed" /\ row'[s].tx = None
          /\ row'[s].key = row[s].key /\ row'[s].del = row[s].del
      BY <1>1, <2>1, <3>1 DEF Row
    <3> QED BY <1>1, <1>2, <2>1, <3>1, <3>2, SeparateNames DEF KeyInv, Advances, RowIds
  <2> QED BY <1>3, <1>5, <2>1 DEF MarkFailed, StillStale, Open
<1>6. ASSUME NEW p \in Scanners, Tidy(p)
      PROVE  KeyInv' /\ \A r \in RowIds : Advances(r)
  BY <1>3, <1>6, TidyIsIdle
<1> QED BY <1>3, <1>4, <1>5, <1>6, RowWriters, WriteKeepsKeys

\* What the jobs have read stays good enough for their writes.
LEMMA StepKeepsReads ==
  ASSUME TypeOK, IInv, Next
  PROVE  ReadInv'
<1>1. KeyInv /\ JobInv /\ ReadInv /\ KeyInv' /\ (\A r \in RowIds : Advances(r))
  BY StepKeepsKeys DEF IInv
<1>2. ASSUME NEW q \in Scanners, pc'[q] = pc[q], job'[q] = job[q]
      PROVE  ReadOK(pc[q], job[q])'
  <2>1. ReadOK(pc[q], job[q]) /\ JobOK(pc[q], job[q]) /\ job[q] \in Job
    BY <1>1 DEF ReadInv, JobInv, TypeOK
  <2>2. job[q].bind \in Sessions \cup {None} /\ job[q].at \in RowIds \cup {None}
    BY <2>1 DEF Job
  <2>3. pc[q] = "tidy" => job[q].at \in RowIds
    BY <2>1, <2>2 DEF JobOK
  <2> QED BY <1>1, <1>2, <2>1, <2>2, <2>3 DEF ReadOK, Advances, RowIds
<1>3. ASSUME NEW p \in Scanners,
             \/ StartScan(p) \/ EndScan(p) \/ Ingest(p) \/ Crash(p)
             \/ p \in Rescans /\ \E s \in Sessions : StartRescan(p, s)
      PROVE  ReadOK(pc[p], job[p])'
  <2>1. /\ ReadOK(pc[p], job[p]) /\ JobOK(pc[p], job[p])
        /\ job[p] \in Job /\ pc[p] \in ScannerPc
    BY <1>1 DEF ReadInv, JobInv, TypeOK
  <2>2. CASE job'[p].bind = None /\ pc'[p] \notin {"write", "tidy"}
    BY <2>2 DEF ReadOK
  <2>3. CASE \/ StartScan(p) \/ EndScan(p) \/ Crash(p)
             \/ \E s \in Sessions : StartRescan(p, s)
    BY <2>2, <2>3 DEF TypeOK, StartScan, StartRescan, Fetch, EndScan, Crash, Goto, NoJob
  <2>4. ASSUME NEW c \in Transfers, ReadPrior(p, c) PROVE ReadOK(pc[p], job[p])'
    <3>1. pc'[p] \in {"bind", "judge", "next"}
      BY <2>4 DEF ReadPrior, Continue, Goto, TypeOK
    <3>2. CASE job' = [job EXCEPT ![p] = [FreshJob(p) EXCEPT !.tx = c]]
      BY <2>2, <3>1, <3>2 DEF TypeOK, FreshJob, NoJob
    <3>3. ASSUME NEW r, job' = [job EXCEPT ![p] = [FreshJob(p) EXCEPT
                              !.tx = c, !.prior = row[r].st, !.judge = row[r].key]]
          PROVE  ReadOK(pc[p], job[p])'
      BY <2>2, <3>1, <3>3 DEF TypeOK, FreshJob, NoJob
    <3>4. CASE Continue(p)
      BY <2>2, <3>1, <3>4 DEF TypeOK, Continue, FreshJob, NoJob
    <3> QED BY <2>4, <3>2, <3>3, <3>4 DEF ReadPrior
  <2>5. CASE BindCheckout(p)
    <3>1. PICK s \in IF Open = {} THEN {None} ELSE Newest(Open) :
            job' = [job EXCEPT ![p].judge = s, ![p].bind = s]
      BY <2>5 DEF BindCheckout
    <3>2. job'[p].bind = s /\ pc'[p] = "judge" /\ row' = row
      BY <2>1, <2>5, <3>1 DEF TypeOK, BindCheckout, Goto, Job, ledger
    <3>3. s # None => row[s].st = "created"
      BY <3>1 DEF Newest, Open
    <3> QED BY <3>2, <3>3 DEF ReadOK
  <2>6. CASE Judge(p)
    <3>1. job'[p].bind = job[p].bind /\ job'[p].at = job[p].at /\ row' = row
      BY <2>1, <2>6 DEF TypeOK, Judge, Goto, Job, ledger
    <3>2. job[p].at = None /\ pc'[p] \in {"place", "write"}
          /\ (pc'[p] = "write" => job[p].bind = None)
      BY <2>1, <2>6 DEF JobOK, Judge, Goto, TypeOK
    <3> QED BY <2>1, <3>1, <3>2 DEF ReadOK
  <2>7. CASE FindPlaceholder(p)
    <3>1. PICK ph \in Placeholders(p) : job' = [job EXCEPT ![p].at = ph]
      BY <2>7 DEF FindPlaceholder
    <3>2. /\ job'[p].bind = job[p].bind /\ job'[p].at = ph
          /\ pc'[p] = "write" /\ row' = row
      BY <2>1, <2>7, <3>1 DEF TypeOK, FindPlaceholder, Goto, Job, ledger
    <3>3. ph # None => row[ph].st = "created"
      BY <3>1 DEF Placeholders, Newest, Open
    <3>4. ph = None => \A s \in Sessions : row[s].st # "created"
      BY <1>1, <3>1, SeparateNames DEF Placeholders, Newest, Open, KeyInv, RowIds
    <3>5. job[p].bind \in Sessions \cup {None}
      BY <2>1 DEF Job
    <3> QED BY <2>1, <3>2, <3>3, <3>4, <3>5 DEF ReadOK
  <2>8. CASE WriteRow(p)
    <3>1. PICK r \in RowIds : Writes(p, r)
      BY <2>8, WriteEffect
    <3>2. job[p].tx # None /\ job[p].bind \in Sessions \cup {None}
      BY <2>8, WriteEffect, SeparateNames DEF RowIds
    <3>3. pc'[p] = "tidy" /\ job'[p].bind = job[p].bind /\ job'[p].at = r
      BY <2>8, <3>1 DEF WriteRow, Goto, TypeOK, Writes
    <3>4. row'[r].tx # None
      BY <3>1, <3>2 DEF Writes, TypeOK, Row, RowsOf
    <3> QED BY <1>1, <2>1, <3>2, <3>3, <3>4 DEF ReadOK, Advances, RowIds
  <2>9. CASE FailWrite(p) \/ ReleaseWallet(p)
    BY <2>2, <2>9 DEF TypeOK, FailWrite, MergeConflict, ReleaseWallet, Continue, Goto,
                      FreshJob, NoJob
  <2>10. CASE Tidy(p)
    <3>1. \/ pc'[p] = "release" /\ job'[p] = job[p]
          \/ pc'[p] = "next" /\ job'[p].bind = None
      BY <2>10 DEF Tidy, Continue, Goto, FreshJob, NoJob, TypeOK
    <3>2. job[p].bind \in Sessions \cup {None}
      BY <2>1 DEF Job
    <3> QED BY <1>1, <2>1, <3>1, <3>2 DEF ReadOK, Advances, RowIds
  <2> QED BY <1>3, <2>3, <2>4, <2>5, <2>6, <2>7, <2>8, <2>9, <2>10 DEF Ingest
<1>4. CASE UNCHANGED scans
  BY <1>2, <1>4 DEF scans, ReadInv
<1>5. ASSUME NEW p \in Scanners,
             \/ StartScan(p) \/ EndScan(p) \/ Ingest(p) \/ Crash(p)
             \/ p \in Rescans /\ \E s \in Sessions : StartRescan(p, s)
      PROVE  ReadInv'
  BY <1>2, <1>3, <1>5, OneScannerMoves DEF ReadInv
<1> QED BY <1>4, <1>5, OthersKeepScans

\* The jobs stay in order.
LEMMA StepKeepsJobs ==
  ASSUME TypeOK, IInv, Next
  PROVE  JobInv'
<1>1. JobInv
  BY DEF IInv
<1>2. CASE UNCHANGED scans
  BY <1>1, <1>2 DEF scans, JobInv, JobOK
<1>3. ASSUME NEW p \in Scanners,
             \/ StartScan(p) \/ EndScan(p) \/ Ingest(p) \/ Crash(p)
             \/ p \in Rescans /\ \E s \in Sessions : StartRescan(p, s)
      PROVE  JobInv'
  <2>1. JobOK(pc'[p], job'[p])
    BY <1>1, <1>3, JobStep
  <2>2. ASSUME NEW q \in Scanners \ {p} PROVE JobOK(pc'[q], job'[q])
    BY <1>1, <1>3, <2>2, OneScannerMoves DEF JobInv
  <2> QED BY <2>1, <2>2 DEF JobInv, JobOK
<1> QED BY <1>2, <1>3, OthersKeepScans

\* IInv is an invariant of the specification.
THEOREM IInvCorrect == Spec => []IInv
<1>1. TypeOK /\ IInv /\ [Next]_vars => IInv'
  <2> SUFFICES ASSUME TypeOK, IInv, [Next]_vars PROVE IInv'
    OBVIOUS
  <2>1. CASE UNCHANGED vars
    BY <2>1 DEF IInv, JobInv, JobOK, KeyInv, ReadInv, ReadOK, vars, ledger, scans
  <2>2. CASE Next
    BY <2>2, StepKeepsJobs, StepKeepsKeys, StepKeepsReads DEF IInv
  <2> QED BY <2>1, <2>2
<1> QED BY <1>1, IInvInit, TypeCorrect, PTL DEF Spec

-----------------------------------------------------------------------------
(* The safety properties, with any number of concurrent scanners.          *)

\* The tidy-up after an upsert removes no row that carries a transfer.
THEOREM PaidRowsAreKeptAlways == Spec => []PaidRowsAreKept
<1>1. IInv => PaidRowsAreKept
  BY DEF IInv, KeyInv, PaidRowsAreKept
<1> QED BY <1>1, IInvCorrect, PTL

\* A merge or an insert never gives a transfer a second row.
THEOREM OneRowPerTransferAlways == Spec => []OneRowPerTransfer
<1>1. Init => OneRowPerTransfer
  BY SeparateNames DEF Init, OneRowPerTransfer, RowsOf, RowIds
<1>2. TypeOK /\ IInv /\ OneRowPerTransfer /\ [Next]_vars => OneRowPerTransfer'
  <2> SUFFICES ASSUME TypeOK, IInv, OneRowPerTransfer, [Next]_vars
               PROVE  OneRowPerTransfer'
    OBVIOUS
  <2> USE DEF OneRowPerTransfer
  <2>1. row \in [RowIds -> Row]
    BY DEF TypeOK
  <2>2. CASE \A r \in RowIds : row'[r].tx = row[r].tx
    BY <2>2 DEF RowsOf
  <2>3. ASSUME NEW s \in Sessions, OpenCheckout(s) PROVE OneRowPerTransfer'
    BY <2>1, <2>3, SeparateNames DEF OpenCheckout, RowsOf, RowIds
  <2>4. ASSUME NEW s \in Sessions, MarkFailed(s) PROVE OneRowPerTransfer'
    <3>1. \A r \in RowIds : row'[r].tx = row[r].tx
      BY <2>1, <2>4 DEF MarkFailed, Row
    <3> QED BY <2>2, <3>1
  <2>5. ASSUME NEW p \in Scanners, WriteRow(p) PROVE OneRowPerTransfer'
    <3>1. PICK r \in RowIds : Writes(p, r)
      BY <2>5, WriteEffect
    <3> DEFINE c == job[p].tx
    <3>2. CASE RowsOf(c) \subseteq {r} /\ row'[r].tx = c
               /\ \A q \in RowIds \ {r} : row'[q] = row[q]
      BY <3>2 DEF RowsOf
    <3>3. \/ RowsOf(c) \subseteq {r} /\ row'[r].tx = c
          \/ row'[r].tx = row[r].tx
      BY <2>1, <3>1 DEF Writes, Row, RowsOf
    <3>4. \A q \in RowIds \ {r} : row'[q] = row[q]
      BY <2>1, <3>1 DEF Writes
    <3>5. CASE row'[r].tx = row[r].tx
      <4>1. \A q \in RowIds : row'[q].tx = row[q].tx
        BY <3>4, <3>5
      <4> QED BY <2>2, <4>1
    <3> QED BY <3>2, <3>3, <3>4, <3>5
  <2>6. ASSUME NEW p \in Scanners, Tidy(p) PROVE OneRowPerTransfer'
    <3>1. \A r \in RowIds : row'[r].tx = row[r].tx
      BY <2>1, <2>6 DEF Tidy, Row
    <3> QED BY <2>2, <3>1
  <2>7. CASE UNCHANGED row
    BY <2>2, <2>7
  <2> QED BY <2>3, <2>4, <2>5, <2>6, <2>7, RowWriters DEF vars, ledger
<1> QED BY <1>1, <1>2, TypeCorrect, IInvCorrect, PTL DEF Spec

\* A checkout the expiry cron failed carries no transfer.
THEOREM FailedMeansUnpaidAlways == Spec => []FailedMeansUnpaid
<1>1. Init => FailedMeansUnpaid
  BY DEF Init, FailedMeansUnpaid
<1>2. TypeOK /\ IInv /\ FailedMeansUnpaid /\ [Next]_vars => FailedMeansUnpaid'
  <2> SUFFICES ASSUME TypeOK, IInv, FailedMeansUnpaid, [Next]_vars
               PROVE  FailedMeansUnpaid'
    OBVIOUS
  <2> USE DEF FailedMeansUnpaid
  <2>1. row \in [RowIds -> Row]
    BY DEF TypeOK
  <2>2. ASSUME NEW s \in Sessions, OpenCheckout(s) PROVE FailedMeansUnpaid'
    BY <2>1, <2>2 DEF OpenCheckout
  <2>3. ASSUME NEW s \in Sessions, MarkFailed(s) PROVE FailedMeansUnpaid'
    BY <2>1, <2>3 DEF MarkFailed, StillStale, Row
  <2>4. ASSUME NEW p \in Scanners, WriteRow(p) PROVE FailedMeansUnpaid'
    <3>1. PICK r \in RowIds : Writes(p, r)
      BY <2>4, WriteEffect
    <3>2. row'[r].st = job[p].next /\ job[p].next # "failed"
      BY <2>1, <2>4, <3>1, WriteEffect DEF Writes, Row, Credited, RowsOf
    <3>3. \A q \in RowIds \ {r} : row'[q] = row[q]
      BY <2>1, <3>1 DEF Writes
    <3> QED BY <3>2, <3>3
  <2>5. ASSUME NEW p \in Scanners, Tidy(p) PROVE FailedMeansUnpaid'
    <3>1. \A r \in RowIds : row'[r].tx = row[r].tx /\ row'[r].st = row[r].st
      BY <2>1, <2>5 DEF Tidy, Row
    <3> QED BY <3>1
  <2>6. CASE UNCHANGED row
    BY <2>6
  <2> QED BY <2>2, <2>3, <2>4, <2>5, <2>6, RowWriters DEF vars, ledger
<1> QED BY <1>1, <1>2, TypeCorrect, IInvCorrect, PTL DEF Spec

-----------------------------------------------------------------------------
(* With the worker as the only scanner, nothing invalidates what an upsert  *)
(* read, and the rows follow DepositLedger.                                 *)

SoleScanner == FullScans = {} /\ Rescans = {}

\* What an upsert read of its transfer still holds when it writes.
SoleInv ==
  LET l == pc[Worker]  j == job[Worker] IN
  /\ l \in {"bind", "judge", "place", "write"} /\ j.prior = "absent" => RowsOf(j.tx) = {}
  /\ l \in {"bind", "place"} => j.prior = "absent"
  /\ l \in {"judge", "write"} /\ j.prior # "absent" =>
       /\ j.prior \in {"pending", "success"}
       /\ \E r \in RowsOf(j.tx) : row[r].st = j.prior
  /\ l = "write" /\ j.prior = "success" => j.next = "success"
  /\ l = "write" /\ j.at # None => j.prior = "absent" /\ row[j.at].tx = None

\* A row that carries a transfer is credited.
LEMMA PaidIsCredited ==
  ASSUME TypeOK, IInv, FailedMeansUnpaid, NEW r \in RowIds, row[r].tx # None
  PROVE  row[r].st \in Credited
<1>1. row[r].st \in Status /\ row[r].st \notin {"absent", "failed"}
  BY DEF IInv, KeyInv, FailedMeansUnpaid, TypeOK, Row
<1>2. CASE r \in Transfers
  BY <1>1, <1>2 DEF IInv, KeyInv
<1>3. CASE r \in Sessions
  BY <1>1, <1>3, SeparateNames DEF IInv, KeyInv, Status, RowIds
<1> QED BY <1>2, <1>3 DEF RowIds

\* The API and the expiry cron do not touch what the worker's upsert read.
LEMMA OthersKeepSole ==
  ASSUME TypeOK, IInv, SoleInv, UNCHANGED scans,
         UNCHANGED row \/ \E s \in Sessions : OpenCheckout(s) \/ MarkFailed(s)
  PROVE  SoleInv'
<1>1. row \in [RowIds -> Row] /\ JobOK(pc[Worker], job[Worker])
  BY DEF TypeOK, IInv, JobInv, Scanners
<1>2. pc' = pc /\ job' = job
  BY DEF scans
<1>3. CASE UNCHANGED row
  BY <1>2, <1>3 DEF SoleInv, RowsOf
<1>4. ASSUME NEW s \in Sessions, row[s].tx = None, row'[s].tx = None,
             \A q \in RowIds \ {s} : row'[q] = row[q]
      PROVE  SoleInv'
  <2>1. \A q \in RowIds : row'[q].tx = row[q].tx
    BY <1>4 DEF RowIds
  <2>2. ASSUME NEW c \in Transfers
        PROVE  /\ RowsOf(c)' = RowsOf(c)
               /\ \A r \in RowsOf(c) : row'[r] = row[r]
    BY <1>4, <2>1, SeparateNames DEF RowsOf, RowIds
  <2>3. pc[Worker] \in {"bind", "judge", "place", "write"} => job[Worker].tx \in Transfers
    BY <1>1 DEF JobOK
  <2>4. pc[Worker] = "write" /\ job[Worker].at # None => job[Worker].at \in RowIds
    BY <1>1 DEF JobOK, RowIds
  <2> QED BY <1>2, <2>1, <2>2, <2>3, <2>4 DEF SoleInv
<1>5. ASSUME NEW s \in Sessions, OpenCheckout(s) PROVE SoleInv'
  BY <1>1, <1>4, <1>5 DEF OpenCheckout, IInv, KeyInv, RowIds
<1>6. ASSUME NEW s \in Sessions, MarkFailed(s) PROVE SoleInv'
  <2>1. CASE UNCHANGED row
    BY <1>3, <2>1
  <2>2. CASE row[s].tx = None /\ row' = [row EXCEPT ![s].st = "failed"]
    <3>1. row'[s].tx = None /\ \A q \in RowIds \ {s} : row'[q] = row[q]
      BY <1>1, <2>2 DEF Row, RowIds
    <3> QED BY <1>4, <2>2, <3>1
  <2> QED BY <1>6, <2>1, <2>2 DEF MarkFailed, StillStale
<1> QED BY <1>3, <1>5, <1>6

\* Nor does the worker's own scan.
LEMMA WorkerKeepsSole ==
  ASSUME TypeOK, IInv, FailedMeansUnpaid, SoleInv,
         StartScan(Worker) \/ EndScan(Worker) \/ Ingest(Worker) \/ Crash(Worker)
  PROVE  SoleInv'
<1> DEFINE p == Worker
<1>1. /\ p \in Scanners /\ job[p] \in Job /\ pc[p] \in ScannerPc
      /\ JobOK(pc[p], job[p]) /\ ReadOK(pc[p], job[p])
  BY DEF TypeOK, IInv, JobInv, ReadInv, Scanners
<1>2. CASE pc'[p] \in {"idle", "next", "tidy", "release"}
  BY <1>2 DEF SoleInv
<1>3. CASE StartScan(p) \/ EndScan(p) \/ Crash(p)
  BY <1>1, <1>2, <1>3 DEF TypeOK, StartScan, Fetch, EndScan, Crash, Goto
<1>4. ASSUME NEW c \in Transfers, ReadPrior(p, c) PROVE SoleInv'
  <2>1. row' = row
    BY <1>4 DEF ReadPrior, ledger
  <2>2. CASE /\ RowsOf(c) = {} /\ Goto(p, "bind")
             /\ job' = [job EXCEPT ![p] = [FreshJob(p) EXCEPT !.tx = c]]
    <3>1. pc'[p] = "bind" /\ job'[p].tx = c /\ job'[p].prior = "absent"
      BY <1>1, <2>2 DEF TypeOK, Goto, FreshJob, NoJob
    <3> QED BY <2>1, <2>2, <3>1 DEF SoleInv, RowsOf
  <2>3. ASSUME NEW r \in RowsOf(c), row[r].st # "underpaid", Goto(p, "judge"),
               job' = [job EXCEPT ![p] = [FreshJob(p) EXCEPT
                             !.tx = c, !.prior = row[r].st, !.judge = row[r].key]]
        PROVE  SoleInv'
    <3>1. pc'[p] = "judge" /\ job'[p].tx = c /\ job'[p].prior = row[r].st
      BY <1>1, <2>3 DEF TypeOK, Goto, FreshJob, NoJob
    <3>2. row[r].st \in {"pending", "success"}
      BY <2>3, PaidIsCredited, SeparateNames DEF RowsOf, RowIds, Credited
    <3> QED BY <2>1, <2>3, <3>1, <3>2 DEF SoleInv, RowsOf
  <2>4. CASE Continue(p)
    BY <1>1, <1>2, <2>4 DEF Continue, Goto, TypeOK
  <2> QED BY <1>4, <2>2, <2>3, <2>4 DEF ReadPrior
<1>5. CASE BindCheckout(p)
  <2>1. PICK s : job' = [job EXCEPT ![p].judge = s, ![p].bind = s]
    BY <1>5 DEF BindCheckout
  <2>2. /\ job'[p].tx = job[p].tx /\ job'[p].prior = job[p].prior
        /\ pc[p] = "bind" /\ pc'[p] = "judge" /\ row' = row
    BY <1>1, <1>5, <2>1 DEF TypeOK, Job, BindCheckout, Goto, ledger
  <2> QED BY <2>2 DEF SoleInv, RowsOf
<1>6. CASE Judge(p)
  <2>1. /\ job'[p].tx = job[p].tx /\ job'[p].prior = job[p].prior
        /\ job'[p].at = job[p].at /\ job'[p].next = NextStatus(p)
        /\ pc[p] = "judge" /\ row' = row
        /\ pc'[p] = IF job[p].prior = "absent" THEN "place" ELSE "write"
    BY <1>1, <1>6 DEF TypeOK, Job, Judge, Goto, ledger
  <2>2. job[p].at = None
    BY <1>1, <2>1 DEF JobOK
  <2>3. job[p].prior = "success" => NextStatus(p) = "success"
    BY DEF NextStatus
  <2> QED BY <2>1, <2>2, <2>3 DEF SoleInv, RowsOf
<1>7. CASE FindPlaceholder(p)
  <2>1. PICK ph \in Placeholders(p) : job' = [job EXCEPT ![p].at = ph]
    BY <1>7 DEF FindPlaceholder
  <2>2. /\ job'[p].tx = job[p].tx /\ job'[p].prior = job[p].prior /\ job'[p].at = ph
        /\ job'[p].next = job[p].next /\ pc[p] = "place" /\ pc'[p] = "write" /\ row' = row
    BY <1>1, <1>7, <2>1 DEF TypeOK, Job, FindPlaceholder, Goto, ledger
  <2>3. ph # None => ph \in Sessions /\ row[ph].st = "created"
    BY <2>1 DEF Placeholders, Newest, Open
  <2>4. ph # None => row[ph].tx = None
    BY <2>3, PaidIsCredited DEF RowIds, Credited
  <2> QED BY <2>2, <2>4 DEF SoleInv, RowsOf
<1>8. CASE WriteRow(p) \/ FailWrite(p) \/ Tidy(p) \/ ReleaseWallet(p)
  BY <1>1, <1>2, <1>8
     DEF TypeOK, WriteRow, FailWrite, MergeConflict, Tidy, ReleaseWallet, Continue, Goto
<1> QED BY <1>3, <1>4, <1>5, <1>6, <1>7, <1>8 DEF Ingest

\* With one scanner, an upsert writes on facts that still hold.
LEMMA SoleInvCorrect ==
  ASSUME SoleScanner
  PROVE  Spec => []SoleInv
<1>1. Init => SoleInv
  BY DEF Init, SoleInv, Scanners
<1>2. TypeOK /\ IInv /\ FailedMeansUnpaid /\ SoleInv /\ [Next]_vars => SoleInv'
  <2> SUFFICES ASSUME TypeOK, IInv, FailedMeansUnpaid, SoleInv, [Next]_vars
               PROVE  SoleInv'
    OBVIOUS
  <2>1. CASE UNCHANGED vars
    BY <2>1 DEF SoleInv, RowsOf, vars, ledger, scans
  <2>2. CASE Next /\ UNCHANGED scans
    <3>1. \/ UNCHANGED row
          \/ \E s \in Sessions : OpenCheckout(s) \/ MarkFailed(s)
      <4>1. ASSUME NEW p \in Scanners, WriteRow(p) \/ Tidy(p) PROVE pc' # pc
        BY <4>1 DEF WriteRow, Tidy, Continue, Goto, TypeOK
      <4> QED BY <2>2, <4>1, RowWriters DEF scans
    <3> QED BY <2>2, <3>1, OthersKeepSole
  <2>3. CASE \E p \in Scanners :
               \/ StartScan(p) \/ EndScan(p) \/ Ingest(p) \/ Crash(p)
               \/ p \in Rescans /\ \E s \in Sessions : StartRescan(p, s)
    BY <2>3, WorkerKeepsSole DEF SoleScanner, Scanners
  <2> QED BY <2>1, <2>2, <2>3, OthersKeepScans
<1> QED BY <1>1, <1>2, TypeCorrect, IInvCorrect, FailedMeansUnpaidAlways, PTL DEF Spec

\* Without a second scanner a paid row keeps its transfer.
THEOREM SoleScannerKeepsTransfers ==
  ASSUME SoleScanner
  PROVE  Spec => PaidRowsKeepTheirTransfer
<1> DEFINE Kept == \A r \in RowIds : row[r].tx # None => row'[r].tx = row[r].tx
<1>1. TypeOK /\ IInv /\ SoleInv /\ [Next]_vars => [Kept]_vars
  <2> SUFFICES ASSUME TypeOK, IInv, SoleInv, Next PROVE Kept
    OBVIOUS
  <2>1. row \in [RowIds -> Row]
    BY DEF TypeOK
  <2>2. ASSUME NEW s \in Sessions, OpenCheckout(s) PROVE Kept
    BY <2>1, <2>2 DEF OpenCheckout, IInv, KeyInv, RowIds
  <2>3. ASSUME NEW s \in Sessions, MarkFailed(s) PROVE Kept
    BY <2>1, <2>3 DEF MarkFailed, Row
  <2>4. ASSUME NEW p \in Scanners, WriteRow(p) PROVE Kept
    <3>1. p = Worker /\ pc[p] = "write" /\ job[p].tx \in Transfers
      BY <2>4, WriteEffect DEF SoleScanner, Scanners, WriteRow
    <3>2. CASE job[p].at # None
      <4>1. row[job[p].at].tx = None
        BY <3>1, <3>2 DEF SoleInv
      <4> QED BY <2>1, <2>4, <3>2, <4>1 DEF WriteRow, Merge
    <3>3. CASE job[p].at = None
      <4>1. Upsert(p)
        BY <2>4, <3>3 DEF WriteRow
      <4>2. \A r \in RowIds \ {job[p].tx} : row'[r].tx = row[r].tx
        BY <2>1, <4>1 DEF Upsert, Row, RowsOf
      <4>3. RowsOf(job[p].tx) = {} => row[job[p].tx].tx = None
        BY <3>1 DEF IInv, KeyInv, RowsOf, RowIds
      <4>4. RowsOf(job[p].tx) # {} => row'[job[p].tx].tx = row[job[p].tx].tx
        BY <2>1, <3>1, <4>1 DEF Upsert, Row, RowsOf, RowIds
      <4> QED BY <4>2, <4>3, <4>4
    <3> QED BY <3>2, <3>3
  <2>5. ASSUME NEW p \in Scanners, Tidy(p) PROVE Kept
    BY <2>5, TidyIsIdle
  <2>6. CASE UNCHANGED row
    BY <2>6
  <2> QED BY <2>2, <2>3, <2>4, <2>5, <2>6, RowWriters
<1> QED BY <1>1, TypeCorrect, IInvCorrect, SoleInvCorrect, PTL
           DEF Spec, PaidRowsKeepTheirTransfer

-----------------------------------------------------------------------------
(* The refinement of DepositLedger.                                        *)

\* What the mapping reads of a transfer's row.
LEMMA MappedCredit ==
  ASSUME OneRowPerTransfer, NEW c \in Transfers
  PROVE  /\ RowsOf(c) = {} => home[c] = None /\ credit[c] = "unseen"
         /\ \A r \in RowsOf(c) : home[c] = r /\ credit[c] = row[r].st
<1>1. CASE RowsOf(c) = {}
  BY <1>1 DEF home, credit
<1>2. ASSUME NEW r \in RowsOf(c) PROVE home[c] = r /\ credit[c] = row[r].st
  <2>1. RowsOf(c) = {r}
    BY <1>2 DEF OneRowPerTransfer
  <2>2. home[c] = r
    BY <2>1 DEF home
  <2>3. r # None
    BY <1>2, SeparateNames DEF RowsOf
  <2> QED BY <2>2, <2>3 DEF credit
<1> QED BY <1>1, <1>2

\* A transfer whose rows do not change keeps its credit and its home.
LEMMA SameCredit ==
  ASSUME OneRowPerTransfer, NEW c \in Transfers,
         \A r \in RowIds : row'[r].tx = c <=> row[r].tx = c,
         \A r \in RowsOf(c) : row'[r].st = row[r].st
  PROVE  credit'[c] = credit[c] /\ home'[c] = home[c]
<1>1. {r \in RowIds : row'[r].tx = c} = RowsOf(c)
  BY DEF RowsOf
<1>2. home'[c] = home[c]
  <2>1. CASE RowsOf(c) = {}
    BY <1>1, <2>1 DEF home, RowsOf
  <2>2. ASSUME NEW r \in RowsOf(c) PROVE home'[c] = home[c]
    <3>1. {q \in RowIds : row'[q].tx = c} = {r} /\ home[c] = r
      BY <1>1, <2>2, MappedCredit DEF OneRowPerTransfer
    <3> QED BY <3>1 DEF home, RowsOf
  <2> QED BY <2>1, <2>2
<1>3. home[c] = None \/ home[c] \in RowsOf(c)
  BY MappedCredit
<1> QED BY <1>2, <1>3 DEF credit

\* The functions of the mapping have their domains.
LEMMA MappingDomains ==
  /\ credit = [c \in Transfers |-> credit[c]] /\ home = [c \in Transfers |-> home[c]]
  /\ credit' = [c \in Transfers |-> credit'[c]] /\ home' = [c \in Transfers |-> home'[c]]
  /\ checkout = [s \in Sessions |-> checkout[s]]
  /\ checkout' = [s \in Sessions |-> checkout'[s]]
BY DEF credit, home, checkout

\* A step that leaves the rows alone stutters.
LEMMA SameLedger ==
  ASSUME row' = row
  PROVE  UNCHANGED Ledger!vars
BY DEF Ledger!vars, checkout, credit, home, RowsOf

\* Opening and lapsing a checkout are steps of the ledger.
LEMMA CheckoutSteps ==
  ASSUME TypeOK, IInv, OneRowPerTransfer, NEW s \in Sessions,
         OpenCheckout(s) \/ MarkFailed(s)
  PROVE  [Ledger!Next]_Ledger!vars
<1>1. row \in [RowIds -> Row] /\ s \in RowIds /\ KeyInv
  BY DEF TypeOK, RowIds, IInv
<1>2. ASSUME row[s].tx = None, row'[s].tx = None, \A q \in RowIds \ {s} : row'[q] = row[q]
      PROVE  /\ credit' = credit /\ home' = home
             /\ \A t \in Sessions \ {s} : checkout'[t] = checkout[t]
  <2>1. ASSUME NEW c \in Transfers
        PROVE  credit'[c] = credit[c] /\ home'[c] = home[c]
    <3>1. c # None
      BY SeparateNames DEF RowIds
    <3>2. \A r \in RowIds : row'[r].tx = c <=> row[r].tx = c
      BY <1>2, <3>1
    <3>3. \A r \in RowsOf(c) : row'[r].st = row[r].st
      BY <1>2, <3>1 DEF RowsOf
    <3> QED BY <3>2, <3>3, SameCredit
  <2>2. \A t \in Sessions \ {s} : checkout'[t] = checkout[t]
    BY <1>2 DEF checkout, RowIds
  <2> QED BY <2>1, <2>2, MappingDomains
<1>3. CASE OpenCheckout(s)
  <2>1. row[s].st = "absent" /\ row[s].tx = None
        /\ row'[s] = [st |-> "created", tx |-> None, key |-> s, del |-> FALSE]
        /\ \A q \in RowIds \ {s} : row'[q] = row[q]
    BY <1>1, <1>3 DEF OpenCheckout, KeyInv
  <2>2. checkout[s] = "none" /\ checkout'[s] = "open"
    BY <2>1 DEF checkout
  <2>3. checkout' = [checkout EXCEPT ![s] = "open"] /\ credit' = credit /\ home' = home
    BY <1>2, <2>1, <2>2, MappingDomains
  <2> QED BY <2>2, <2>3 DEF Ledger!Open, Ledger!Next
<1>4. CASE row' = row
  BY <1>4, SameLedger
<1>5. CASE StillStale(s) /\ row' = [row EXCEPT ![s].st = "failed"]
  <2>1. /\ row[s].st = "created" /\ row[s].tx = None /\ ~row[s].del
        /\ row'[s].st = "failed" /\ row'[s].tx = None
        /\ \A q \in RowIds \ {s} : row'[q] = row[q]
    BY <1>1, <1>5 DEF StillStale, Open, Row
  <2>2. checkout[s] = "open" /\ checkout'[s] = "lapsed"
    BY <2>1 DEF checkout
  <2>3. checkout' = [checkout EXCEPT ![s] = "lapsed"] /\ credit' = credit /\ home' = home
    BY <1>2, <2>1, <2>2, MappingDomains
  <2> QED BY <2>2, <2>3 DEF Ledger!Lapse, Ledger!Next
<1> QED BY <1>3, <1>4, <1>5 DEF MarkFailed

\* A write of the sole scanner settles a checkout, records an orphan, confirms a
\* pending credit, or repeats what is recorded.
LEMMA WriteSteps ==
  ASSUME TypeOK, IInv, OneRowPerTransfer, OneRowPerTransfer', SoleInv, WriteRow(Worker)
  PROVE  [Ledger!Next]_Ledger!vars
<1> DEFINE c == job[Worker].tx
           st == job[Worker].next
<1>1. /\ c \in Transfers /\ c # None /\ st \in Credited /\ Worker \in Scanners
      /\ row \in [RowIds -> Row] /\ pc[Worker] = "write" /\ KeyInv
  BY WriteEffect, SeparateNames DEF Scanners, RowIds, TypeOK, WriteRow, IInv
<1>2. PICK r \in RowIds : Writes(Worker, r)
  BY <1>1, WriteEffect
<1>3. /\ job[Worker].prior = "absent" => RowsOf(c) = {}
      /\ job[Worker].prior # "absent" =>
           /\ job[Worker].prior \in {"pending", "success"}
           /\ \E q \in RowsOf(c) : row[q].st = job[Worker].prior
      /\ job[Worker].prior = "success" => st = "success"
      /\ job[Worker].at # None =>
           job[Worker].prior = "absent" /\ row[job[Worker].at].tx = None
  BY <1>1 DEF SoleInv
<1>4. /\ \A q \in RowIds \ {r} : row'[q] = row[q]
      /\ row'[r].st = st /\ row'[r].tx = c
  BY <1>1, <1>2 DEF Writes, Row, RowsOf
<1>5. \/ RowsOf(c) = {} /\ r \in Sessions /\ row[r].st # "absent" /\ row[r].tx = None
      \/ RowsOf(c) = {} /\ r = c
      \/ r \in RowsOf(c)
  <2>1. CASE job[Worker].at # None
    <3>1. r = job[Worker].at /\ RowsOf(c) = {}
      <4>1. Merge(Worker, job[Worker].at)
        BY <2>1 DEF WriteRow
      <4> QED BY <1>2, <1>3, <2>1, <4>1 DEF Writes, Merge
    <3> QED BY <1>2, <1>3, <2>1, <3>1 DEF Writes
  <2>2. CASE job[Worker].at = None
    <3>1. Upsert(Worker)
      BY <2>2 DEF WriteRow
    <3>2. job[Worker] \in Job /\ job \in [Scanners -> Job]
      BY <1>1 DEF TypeOK
    <3>3. RowsOf(c) = {} => r = c
      BY <1>1, <1>2, <3>1, <3>2 DEF Upsert, Writes, Job
    <3>4. RowsOf(c) # {} => r \in RowsOf(c)
      BY <1>1, <1>2, <3>1, <3>2 DEF Upsert, Writes, Job
    <3> QED BY <3>3, <3>4
  <2> QED BY <2>1, <2>2
<1>6. row[r].tx \in {c, None}
  BY <1>1, <1>5 DEF KeyInv, RowsOf, RowIds
<1>7. ASSUME NEW d \in Transfers \ {c}
      PROVE  credit'[d] = credit[d] /\ home'[d] = home[d]
  <2>1. d # None
    BY SeparateNames DEF RowIds
  <2>2. \A q \in RowIds : row'[q].tx = d <=> row[q].tx = d
    BY <1>4, <1>6, <1>7, <2>1
  <2>3. \A q \in RowsOf(d) : row'[q].st = row[q].st
    BY <1>4, <1>6, <1>7, <2>1 DEF RowsOf
  <2> QED BY <2>2, <2>3, SameCredit
<1>8. \A t \in Sessions \ {r} : checkout'[t] = checkout[t]
  BY <1>4 DEF checkout, RowIds
<1>9. credit'[c] = st /\ home'[c] = r
  <2>1. {q \in RowIds : row'[q].tx = c} = {r}
    BY <1>1, <1>4 DEF OneRowPerTransfer, RowsOf
  <2>2. home'[c] = r
    BY <1>1, <2>1 DEF home, RowsOf
  <2>3. r # None
    BY SeparateNames
  <2> QED BY <1>1, <1>4, <2>2, <2>3 DEF credit
<1>10. st \in {"success", "underpaid", "pending"}
  BY <1>1 DEF Credited
<1> HIDE DEF c, st
<1>11. CASE RowsOf(c) = {} /\ r \in Sessions /\ row[r].st # "absent" /\ row[r].tx = None
  <2>1. credit[c] = "unseen" /\ home[c] = None
    BY <1>1, <1>11, MappedCredit
  <2>2. checkout[r] \in {"open", "lapsed"} /\ checkout'[r] = "settled"
    BY <1>1, <1>4, <1>10, <1>11 DEF checkout, KeyInv
  <2>3. /\ checkout' = [checkout EXCEPT ![r] = "settled"]
        /\ credit' = [credit EXCEPT ![c] = st] /\ home' = [home EXCEPT ![c] = r]
    BY <1>7, <1>8, <1>9, <1>11, <2>2, MappingDomains
  <2>4. Ledger!Settle(c, r)
    BY <1>10, <2>1, <2>2, <2>3 DEF Ledger!Settle, Ledger!Recorded, Ledger!Judged
  <2> QED BY <1>1, <1>9, <1>10, <1>11, <2>1, <2>4 DEF Ledger!Next
<1>12. CASE RowsOf(c) = {} /\ r = c
  <2>1. credit[c] = "unseen" /\ home[c] = None
    BY <1>1, <1>12, MappedCredit
  <2>2. r \notin Sessions
    BY <1>1, <1>12, SeparateNames
  <2>3. /\ checkout' = checkout
        /\ credit' = [credit EXCEPT ![c] = st] /\ home' = [home EXCEPT ![c] = c]
    BY <1>7, <1>8, <1>9, <1>12, <2>2, MappingDomains
  <2>4. Ledger!Orphan(c)
    BY <1>10, <2>1, <2>3 DEF Ledger!Orphan, Ledger!Recorded, Ledger!Judged
  <2> QED BY <1>1, <1>9, <1>10, <2>1, <2>4 DEF Ledger!Next
<1>13. CASE r \in RowsOf(c)
  <2>1. credit[c] = row[r].st /\ home[c] = r /\ row[r].tx = c
    BY <1>1, <1>13, MappedCredit DEF RowsOf
  <2>2. row[r].st \in {"pending", "success"} /\ (row[r].st = "success" => st = "success")
    BY <1>1, <1>3, <1>13 DEF OneRowPerTransfer
  <2>3. r \in Sessions => checkout'[r] = checkout[r]
    BY <1>1, <1>4, <1>10, <2>1, <2>2 DEF checkout
  <2>4. checkout' = checkout /\ home' = home
    BY <1>7, <1>8, <1>9, <2>1, <2>3, MappingDomains
  <2>5. credit' = [credit EXCEPT ![c] = st]
    BY <1>7, <1>9, MappingDomains
  <2>6. CASE st = row[r].st
    <3>1. credit' = credit
      BY <2>1, <2>5, <2>6, MappingDomains
    <3> QED BY <2>4, <3>1 DEF Ledger!vars
  <2>7. CASE st # row[r].st
    <3>1. row[r].st = "pending" /\ st \in Ledger!Judged
      BY <1>10, <2>2, <2>7 DEF Ledger!Judged
    <3>2. Ledger!Confirm(c)
      BY <2>1, <2>4, <2>5, <3>1 DEF Ledger!Confirm
    <3> QED BY <1>1, <1>9, <2>1, <2>7, <3>2 DEF Ledger!Next
  <2> QED BY <2>6, <2>7
<1> QED BY <1>5, <1>11, <1>12, <1>13

\* With the worker as the only scanner, the deposit rows implement DepositLedger.
THEOREM SoleScannerKeepsLedger ==
  ASSUME SoleScanner
  PROVE  Spec => LedgerKept
<1>1. Init => Ledger!Init
  <2> SUFFICES ASSUME Init PROVE Ledger!Init
    OBVIOUS
  <2>1. \A c \in Transfers : RowsOf(c) = {}
    BY SeparateNames DEF Init, RowsOf, RowIds
  <2>2. \A c \in Transfers : home[c] = None /\ credit[c] = "unseen"
    BY <2>1 DEF home, credit
  <2>3. \A s \in Sessions : checkout[s] = "none"
    BY DEF Init, checkout, RowIds
  <2> QED BY <2>2, <2>3, MappingDomains DEF Ledger!Init
<1>2. TypeOK /\ IInv /\ OneRowPerTransfer /\ OneRowPerTransfer'
        /\ SoleInv /\ [Next]_vars => [Ledger!Next]_Ledger!vars
  <2> SUFFICES ASSUME TypeOK, IInv, OneRowPerTransfer, OneRowPerTransfer', SoleInv,
                      [Next]_vars
               PROVE  [Ledger!Next]_Ledger!vars
    OBVIOUS
  <2>1. CASE UNCHANGED row
    BY <2>1, SameLedger
  <2>2. ASSUME NEW s \in Sessions, OpenCheckout(s) \/ MarkFailed(s)
        PROVE  [Ledger!Next]_Ledger!vars
    BY <2>2, CheckoutSteps
  <2>3. ASSUME NEW p \in Scanners, WriteRow(p) PROVE [Ledger!Next]_Ledger!vars
    BY <2>3, WriteSteps DEF SoleScanner, Scanners
  <2>4. ASSUME NEW p \in Scanners, Tidy(p) PROVE [Ledger!Next]_Ledger!vars
    BY <2>4, TidyIsIdle, SameLedger
  <2> QED BY <2>1, <2>2, <2>3, <2>4, RowWriters DEF vars, ledger
<1> QED BY <1>1, <1>2, TypeCorrect, IInvCorrect, OneRowPerTransferAlways,
           SoleInvCorrect, PTL DEF Spec, LedgerKept, Ledger!Spec
=============================================================================
