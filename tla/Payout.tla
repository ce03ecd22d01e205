-------------------------------- MODULE Payout --------------------------------
(***************************************************************************)
(* The payouts of one merchant on the live environment: POST               *)
(* /api/v1/gateway/payout, which inserts a row of the withdrawals table    *)
(* and executes it in the same request (createMerchantWithdrawalRequest,   *)
(* executeAutoPayout), the drain cron (processPendingAutoPayouts) and the  *)
(* admin's patch (adminPatchWithdrawal).                                   *)
(*                                                                         *)
(* A request is named by the row it inserts, so Rows are processes too.    *)
(* The amount, the balance and the fees decide whether a row is born       *)
(* failed and whether a transfer can be sent; both are left open here.     *)
(***************************************************************************)
EXTENDS Naturals, FiniteSets

CONSTANTS
  Rows,       (* payouts, and the requests that ask for them                *)
  Ticks,      (* ticks of the drain cron; one does not wait for the last    *)
  Admins,     (* admin requests                                             *)
  References, (* values of client_reference_id                              *)
  MaxPatches, (* bound on the rows admins patch, each one once              *)
  None

Procs == Rows \cup Ticks \cup Admins

ASSUME NamesAreApart ==
  /\ Rows \cap (Ticks \cup Admins) = {} /\ Ticks \cap Admins = {}
  /\ None \notin Rows \cup References

ASSUME PatchesAreCounted == MaxPatches \in Nat

VARIABLES
  st,        (* row -> its status                                            *)
  ref,       (* row -> its client reference, or None                         *)
  hashed,    (* rows with a tx_hash                                          *)
  payments,  (* row -> transfers the chain carried out for it                *)
  aged,      (* rows whose updated_at is over 15 minutes old                 *)
  patched,   (* rows an admin has patched                                    *)
  pc,        (* process -> the await it is suspended at                      *)
  job,       (* process -> the row it has in hand                            *)
  seen,      (* admin -> the status its request has read                     *)
  batch      (* tick -> rows of its last query still to serve                *)

row   == <<st, hashed, aged>>
local == <<pc, job, seen, batch>>
vars  == <<row, ref, payments, patched, local>>

Open     == {"pending", "processing"}
Terminal == {"completed", "failed"}
Status   == Open \cup Terminal

TypeOK ==
  /\ st \in [Rows -> {"absent"} \cup Status]
  /\ ref \in [Rows -> References \cup {None}]
  /\ hashed \subseteq Rows /\ aged \subseteq Rows /\ patched \subseteq Rows
  /\ payments \in [Rows -> Nat]
  /\ pc \in [Procs -> {"idle", "ref", "insert", "load", "claim", "send", "wait",
                       "completed", "failed", "stuck", "drain", "write"}]
  /\ job \in [Procs -> Rows \cup {None}]
  /\ seen \in [Admins -> Status \cup {"absent"}]
  /\ batch \in [Ticks -> SUBSET Rows]

Init ==
  /\ st = [r \in Rows |-> "absent"]
  /\ ref \in [Rows -> References \cup {None}]
  /\ hashed = {} /\ aged = {} /\ patched = {}
  /\ payments = [r \in Rows |-> 0]
  /\ pc = [p \in Procs |-> "idle"]
  /\ job = [p \in Procs |-> None]
  /\ seen = [p \in Admins |-> "absent"]
  /\ batch = [t \in Ticks |-> {}]

-----------------------------------------------------------------------------

\* prisma.withdrawal.update of the status moves updated_at too.
SetStatus(r, s) ==
  /\ st' = [st EXCEPT ![r] = s]
  /\ aged' = aged \ {r}

Goto(p, at) == pc' = [pc EXCEPT ![p] = at]

GrowOld(r) ==
  /\ st[r] # "absent" /\ r \notin aged
  /\ aged' = aged \cup {r}
  /\ UNCHANGED <<st, hashed, ref, payments, patched, local>>

\* The process dies, or waits for an answer that never comes.  A tick that does
\* so is followed by others.
Abandon(p) ==
  /\ pc[p] # "idle"
  /\ Goto(p, "idle")
  /\ job' = [job EXCEPT ![p] = None]
  /\ batch' = [t \in Ticks |-> IF t = p THEN {} ELSE batch[t]]
  /\ seen' = [a \in Admins |-> IF a = p THEN "absent" ELSE seen[a]]
  /\ UNCHANGED <<row, ref, payments, patched>>

-----------------------------------------------------------------------------
(* createMerchantWithdrawalRequest.                                        *)

\* merchantHasPendingPayout; otherwise 409.
CheckPending(r) ==
  /\ pc[r] = "idle" /\ st[r] = "absent"
  /\ \A q \in Rows : st[q] \notin Open
  /\ Goto(r, "ref")
  /\ UNCHANGED <<row, ref, payments, patched, job, seen, batch>>

RefTaken(r) ==
  ref[r] # None /\ \E q \in Rows : st[q] # "absent" /\ ref[q] = ref[r]

\* The reference is looked up; if it is there, 409.
CheckReference(r) ==
  /\ pc[r] = "ref"
  /\ Goto(r, IF RefTaken(r) THEN "idle" ELSE "insert")
  /\ UNCHANGED <<row, ref, payments, patched, job, seen, batch>>

\* Fault: an index that is not unique, as schema.prisma declares it.
KeyNeverTaken(r) == FALSE

\* The unique index on merchant, environment and client_reference_id.
KeyTaken(r) == RefTaken(r)

\* Fault: the column's default.
FirstStatusPending == {"pending", "failed"}

\* What a request inserts: failed when it is out of the merchant's limits or
\* above the balance it has read.
FirstStatus == {"processing", "failed"}

Insert(r) ==
  /\ pc[r] = "insert" /\ ~KeyTaken(r)
  /\ \E s \in FirstStatus : SetStatus(r, s)
  /\ Goto(r, "load")
  /\ job' = [job EXCEPT ![r] = r]
  /\ UNCHANGED <<hashed, ref, payments, patched, seen, batch>>

InsertFails(r) ==
  /\ pc[r] = "insert" /\ KeyTaken(r)
  /\ Goto(r, "idle")
  /\ UNCHANGED <<row, ref, payments, patched, job, seen, batch>>

-----------------------------------------------------------------------------
(* executeAutoPayout, called by the request and by a tick.                 *)

\* Back to the caller.
Finish(p) ==
  /\ Goto(p, IF p \in Ticks THEN "drain" ELSE "idle")
  /\ job' = [job EXCEPT ![p] = None]

Load(p, r) ==
  /\ pc[p] = "load" /\ job[p] = r
  /\ \/ st[r] \in Terminal /\ Finish(p)
     \/ st[r] = "pending" /\ Goto(p, "claim") /\ UNCHANGED job
     \/ st[r] = "processing" /\ Goto(p, "send") /\ UNCHANGED job
  /\ UNCHANGED <<row, ref, payments, patched, seen, batch>>

\* Nobody looks at how many rows the conditional update has changed.
Claim(p, r) ==
  /\ pc[p] = "claim" /\ job[p] = r
  /\ IF st[r] = "pending" THEN SetStatus(r, "processing") ELSE UNCHANGED <<st, aged>>
  /\ Goto(p, "send")
  /\ UNCHANGED <<hashed, ref, payments, patched, job, seen, batch>>

\* A query throws; there is no signer, or not enough for the amount or its fee;
\* the transfer is reverted.
NotSent(p) ==
  /\ pc[p] \in {"load", "claim", "send"}
  /\ Goto(p, "failed")
  /\ UNCHANGED <<row, ref, payments, patched, job, seen, batch>>

\* The transfer is out and the chain will carry it out.
Broadcast(p, r) ==
  /\ pc[p] = "send" /\ job[p] = r
  /\ payments' = [payments EXCEPT ![r] = @ + 1]
  /\ Goto(p, "wait")
  /\ UNCHANGED <<row, ref, patched, job, seen, batch>>

\* The receipt arrives, or the RPC fails while it is awaited (TRANSFER_FAILED).
Receipt(p) ==
  /\ pc[p] = "wait"
  /\ \E s \in Terminal : Goto(p, s)
  /\ UNCHANGED <<row, ref, payments, patched, job, seen, batch>>

\* patchWithdrawal by id.  A read after the update may still throw; the catch
\* block then marks the row failed.
MarkCompleted(p, r) ==
  /\ pc[p] = "completed" /\ job[p] = r
  /\ SetStatus(r, "completed")
  /\ hashed' = hashed \cup {r}
  /\ Finish(p) \/ (Goto(p, "failed") /\ UNCHANGED job)
  /\ UNCHANGED <<ref, payments, patched, seen, batch>>

MarkFailed(p, r) ==
  /\ pc[p] = "failed" /\ job[p] = r
  /\ SetStatus(r, "failed")
  /\ Finish(p)
  /\ UNCHANGED <<hashed, ref, payments, patched, seen, batch>>

\* The update throws: the catch block tries to mark the row failed, and when that
\* throws too it gives up.
MarkThrows(p) ==
  /\ \/ pc[p] = "completed" /\ Goto(p, "failed") /\ UNCHANGED job
     \/ pc[p] = "failed" /\ Finish(p)
  /\ UNCHANGED <<row, ref, payments, patched, seen, batch>>

-----------------------------------------------------------------------------
(* processPendingAutoPayouts.                                              *)

\* Fault: what was never claimed is not looked for.
StuckPending(r) == st[r] = "pending" /\ r \notin hashed /\ r \in aged

Stuck(r) == st[r] = "processing" /\ r \notin hashed /\ r \in aged

FindStuck(t) ==
  /\ pc[t] = "idle"
  /\ batch' = [batch EXCEPT ![t] = {r \in Rows : Stuck(r)}]
  /\ Goto(t, "stuck")
  /\ UNCHANGED <<row, ref, payments, patched, job, seen>>

\* By id, whatever has become of the row since.
MarkStuck(t, r) ==
  /\ pc[t] = "stuck" /\ r \in batch[t]
  /\ SetStatus(r, "failed")
  /\ batch' = [batch EXCEPT ![t] = @ \ {r}]
  /\ UNCHANGED <<hashed, ref, payments, patched, pc, job, seen>>

FindPending(t) ==
  /\ pc[t] = "stuck" /\ batch[t] = {}
  /\ batch' = [batch EXCEPT ![t] = {r \in Rows : st[r] = "pending"}]
  /\ Goto(t, "drain")
  /\ UNCHANGED <<row, ref, payments, patched, job, seen>>

Take(t, r) ==
  /\ pc[t] = "drain" /\ r \in batch[t]
  /\ batch' = [batch EXCEPT ![t] = @ \ {r}]
  /\ job' = [job EXCEPT ![t] = r]
  /\ Goto(t, "load")
  /\ UNCHANGED <<row, ref, payments, patched, seen>>

EndTick(t) ==
  /\ pc[t] = "drain" /\ batch[t] = {}
  /\ Goto(t, "idle")
  /\ UNCHANGED <<row, ref, payments, patched, job, seen, batch>>

-----------------------------------------------------------------------------
(* adminPatchWithdrawal.                                                   *)

ReadForPatch(p, r) ==
  /\ p \in Admins /\ pc[p] = "idle"
  /\ st[r] # "absent" /\ r \notin patched /\ Cardinality(patched) < MaxPatches
  /\ job' = [job EXCEPT ![p] = r]
  /\ seen' = [seen EXCEPT ![p] = st[r]]
  /\ Goto(p, "write")
  /\ UNCHANGED <<row, ref, payments, patched, batch>>

\* Fault: the status is not validated.
AnyText == Status \cup {"other"}

Writable == Status

\* Any status; without one, the status that was read is written again.
WritePatch(p, r) ==
  /\ p \in Admins /\ pc[p] = "write" /\ job[p] = r
  /\ \E s \in Writable \cup {seen[p]} : SetStatus(r, s)
  /\ hashed' \in {hashed, hashed \cup {r}, hashed \ {r}}
  /\ patched' = patched \cup {r}
  /\ seen' = [seen EXCEPT ![p] = "absent"]
  /\ Finish(p)
  /\ UNCHANGED <<ref, payments, batch>>

-----------------------------------------------------------------------------

Request(r) == CheckPending(r) \/ CheckReference(r) \/ Insert(r) \/ InsertFails(r)

Execute(p) ==
  \/ NotSent(p) \/ Receipt(p) \/ MarkThrows(p)
  \/ \E r \in Rows : \/ Load(p, r) \/ Claim(p, r) \/ Broadcast(p, r)
                     \/ MarkCompleted(p, r) \/ MarkFailed(p, r)

Drain(t) ==
  \/ FindStuck(t) \/ FindPending(t) \/ EndTick(t)
  \/ \E r \in Rows : MarkStuck(t, r) \/ Take(t, r)

Next ==
  \/ \E r \in Rows : Request(r) \/ GrowOld(r)
  \/ \E p \in Rows \cup Ticks : Execute(p)
  \/ \E t \in Ticks : Drain(t)
  \/ \E p \in Admins, r \in Rows : ReadForPatch(p, r) \/ WritePatch(p, r)
  \/ \E p \in Procs : Abandon(p)

Spec == Init /\ [][Next]_vars

\* Time passes; a tick starts every minute and goes on, or waits for the chain
\* until it is given up; ticks may be cut short, but not each before its first
\* update.
FairSpec ==
  /\ Spec
  /\ \A r \in Rows : WF_vars(GrowOld(r))
  /\ \A t \in Ticks :
       /\ WF_vars(Drain(t) \/ Execute(t) \/ (pc[t] = "wait" /\ Abandon(t)))
       /\ \A r \in Rows : SF_vars(MarkStuck(t, r))

-----------------------------------------------------------------------------

\* What a merchant is told of a row, or that an admin has it.
Phase == [r \in Rows |->
  CASE st[r] = "absent"                     -> "none"
    [] st[r] # "absent" /\ r \in patched    -> "manual"
    [] st[r] \in Open /\ r \notin patched   -> "open"
    [] OTHER                                -> st[r]]

Promise == INSTANCE PayoutPromise WITH phase <- Phase, reference <- ref

\* Although the stuck marker may fail a payout whose transfer is still under way,
\* and the request complete it afterwards, a payout nobody has patched is paid at
\* most once and never opened again, and one that is completed was paid.
PromiseKept == Promise!Spec

\* client_reference_id is an idempotency key: whatever ticks, timeouts and
\* concurrent requests do, a reference is paid at most once.
OnePaymentPerReference ==
  \A r, q \in Rows \ patched :
    (payments[r] > 0 /\ payments[q] > 0 /\ ref[r] = ref[q] /\ ref[r] # None)
      => r = q /\ payments[r] = 1

\* A payout left in processing without a hash, because its request died or its
\* wait never ends, does not block the merchant for ever.
StuckPayoutsEnd ==
  \A r \in Rows : (st[r] = "processing" /\ r \notin hashed)
                    ~> (st[r] # "processing" \/ r \in hashed)

\* "Only one payout may be pending or processing per merchant + environment at a
\* time."
OneOpenPayout == \A r, q \in Rows : st[r] \in Open /\ st[q] \in Open => r = q
=============================================================================
