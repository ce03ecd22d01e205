--------------------------- MODULE PaymentWebhook ---------------------------
(***************************************************************************)
(* The payment webhooks of the rows of the transactions table: the claim,  *)
(* POST and mark of notifyPaymentSuccess, notifyPaymentUnderpaid and       *)
(* notifyPaymentFailed, the loop that retries them after every TRC20 tick, *)
(* and the resend a merchant or admin asks for.                            *)
(*                                                                         *)
(* The three notify functions differ in the status they serve only: that   *)
(* status is job[p].kind.  Of the ledger's writers no more is modelled     *)
(* than the statuses they read and write (DepositIngest has the rest).     *)
(***************************************************************************)
EXTENDS Naturals, FiniteSets

CONSTANTS
  Rows,
  Ingesters,       (* processes that upsert transfers                        *)
  Cron,            (* the checkout expiry cron                               *)
  Retrier,         (* the retry loop of the TRC20 worker                     *)
  Resends,         (* manual redeliver requests                              *)
  Urls,            (* what merchants store as callback_url                   *)
  MaxAttempts,     (* MAX_AUTO_CALLBACK_ATTEMPTS, 5 in the code              *)
  Limit,           (* rows one retry query takes, 30 in the code             *)
  MaxRestarts,     (* bound on the restarts of the worker that retries       *)
  None

Procs == Ingesters \cup {Cron, Retrier} \cup Resends

ASSUME RolesAreApart ==
  /\ Cron # Retrier
  /\ {Cron, Retrier} \cap (Ingesters \cup Resends) = {}
  /\ Ingesters \cap Resends = {}
  /\ None \notin Rows

ASSUME LimitsArePositive ==
  MaxAttempts \in Nat \ {0} /\ Limit \in Nat \ {0} /\ MaxRestarts \in Nat

\* No URL, the empty string (which `callbackUrl: { not: null }` lets through),
\* or a URL.
ASSUME UrlsAreKnown == Urls \subseteq {"none", "blank", "set"}

VARIABLES
  st,         (* row -> its status                                           *)
  delivered,  (* rows with callback_delivered_at set                         *)
  attempts,   (* row -> callback_attempt_count                               *)
  justTried,  (* rows whose last attempt is under a minute old               *)
  older,      (* pairs <<q, r>>: the updated_at of q is before that of r     *)
  url,        (* row -> callback_url of its merchant                         *)
  told,       (* pairs <<r, k>>: the merchant answered 2xx to r as k         *)
  pc,         (* process -> the await it is suspended at                     *)
  job,        (* process -> the row it serves, as what, and whether it was
                 delivered when a resend loaded it                           *)
  turn,       (* the status whose rows the retrier serves                    *)
  batch,      (* rows of its query still to serve                            *)
  restarts    (* restarts of its worker so far                               *)

columns == <<delivered, attempts, justTried>>
retry   == <<turn, batch, restarts>>
vars    == <<st, columns, older, url, told, pc, job, retry>>

Credited == {"pending", "success", "underpaid"}
Final    == {"success", "underpaid", "failed"}
Status   == {"absent", "created"} \cup Credited \cup Final
NoJob    == [at |-> None, kind |-> "success", seen |-> FALSE]

TypeOK ==
  /\ st \in [Rows -> Status]
  /\ delivered \subseteq Rows /\ justTried \subseteq Rows
  /\ attempts \in [Rows -> 0..MaxAttempts]
  /\ older \subseteq Rows \X Rows
  /\ url \in [Rows -> Urls]
  /\ told \subseteq Rows \X Final
  /\ pc \in [Procs -> {"idle", "write", "loop", "load", "claim", "post",
                     "resend", "mark"}]
  /\ job \in [Procs -> [at : Rows \cup {None}, kind : Credited \cup Final, seen : BOOLEAN]]
  /\ turn \in Final
  /\ batch \subseteq Rows
  /\ restarts \in 0..MaxRestarts

Init ==
  /\ st = [r \in Rows |-> "absent"]
  /\ delivered = {} /\ justTried = {}
  /\ attempts = [r \in Rows |-> 0]
  /\ older = {}
  /\ url \in [Rows -> Urls]
  /\ told = {}
  /\ pc = [p \in Procs |-> "idle"]
  /\ job = [p \in Procs |-> NoJob]
  /\ turn = "success" /\ batch = {} /\ restarts = 0

-----------------------------------------------------------------------------
(* Time, merchants and the ledger.                                         *)

\* updated_at: r becomes the row updated last.
Touch(r) == older' = {e \in older : e[1] # r} \cup ((Rows \ {r}) \X {r})

\* A minute passes.  A POST ends within 15 s, so none started a minute ago is
\* still in flight.
MinutePasses(r) ==
  /\ r \in justTried
  /\ \A p \in Procs : pc[p] = "post" => job[p].at # r
  /\ justTried' = justTried \ {r}
  /\ UNCHANGED <<st, delivered, attempts, older, url, told, pc, job, retry>>

EditUrl(r, u) ==
  /\ u # url[r]
  /\ url' = [url EXCEPT ![r] = u]
  /\ UNCHANGED <<st, columns, older, told, pc, job, retry>>

OpenCheckout(r) ==
  /\ st[r] = "absent"
  /\ st' = [st EXCEPT ![r] = "created"]
  /\ Touch(r)
  /\ UNCHANGED <<columns, url, told, pc, job, retry>>

Serve(p, r, k, at) ==
  /\ job' = [job EXCEPT ![p] = [at |-> r, kind |-> k, seen |-> FALSE]]
  /\ pc' = [pc EXCEPT ![p] = at]

\* Back to the caller.
Finish(p) ==
  /\ pc' = [pc EXCEPT ![p] = IF p = Retrier THEN "loop" ELSE "idle"]
  /\ job' = [job EXCEPT ![p] = NoJob]

\* upsertIncomingTransaction reads the row and decides on a status: underpaid
\* rows are left alone, and a success stays one.
ReadPrior(p, r, k) ==
  /\ p \in Ingesters /\ pc[p] = "idle"
  /\ st[r] \in {"absent", "created", "pending", "success"}
  /\ k \in Credited /\ (st[r] = "success" => k = "success")
  /\ Serve(p, r, k, "write")
  /\ UNCHANGED <<st, columns, older, url, told, retry>>

\* It writes the status, whatever the row's is by now, and ends with the call.
WriteRow(p) ==
  /\ pc[p] = "write"
  /\ st' = [st EXCEPT ![job[p].at] = job[p].kind]
  /\ Touch(job[p].at)
  /\ \/ /\ job[p].kind # "pending" /\ job[p].at \notin delivered
        /\ pc' = [pc EXCEPT ![p] = "load"] /\ UNCHANGED job
     \/ /\ job[p].kind = "pending" \/ job[p].at \in delivered
        /\ Finish(p)
  /\ UNCHANGED <<columns, url, told, retry>>

\* expireStaleCreatedCheckoutTransactions fails a row that is still created.
Lapse(r) ==
  /\ pc[Cron] = "idle" /\ st[r] = "created"
  /\ st' = [st EXCEPT ![r] = "failed"]
  /\ Touch(r)
  /\ Serve(Cron, r, "failed", "load")
  /\ UNCHANGED <<columns, url, told, retry>>

-----------------------------------------------------------------------------
(* notifyPaymentSuccess, notifyPaymentUnderpaid, notifyPaymentFailed.      *)

\* The checks of the row that was read, before any await that follows.
WorthCalling(r, k) == r \notin delivered /\ st[r] = k /\ url[r] = "set"

Load(p, r) ==
  /\ pc[p] = "load" /\ job[p].at = r
  /\ IF WorthCalling(r, job[p].kind)
     THEN pc' = [pc EXCEPT ![p] = "claim"] /\ UNCHANGED job
     ELSE Finish(p)
  /\ UNCHANGED <<st, columns, older, url, told, retry>>

\* Fault: attempts are not limited.
ClaimableForEver(r, k) ==
  /\ st[r] = k /\ r \notin delivered
  /\ attempts[r] = 0 \/ r \notin justTried

\* Fault: no minute need pass between two attempts.
ClaimableAtOnce(r, k) ==
  st[r] = k /\ r \notin delivered /\ attempts[r] < MaxAttempts

\* The where clause of the claim.
Claimable(r, k) ==
  /\ st[r] = k /\ r \notin delivered /\ attempts[r] < MaxAttempts
  /\ attempts[r] = 0 \/ r \notin justTried

Claim(p, r) ==
  /\ pc[p] = "claim" /\ job[p].at = r
  /\ Claimable(r, job[p].kind)
  /\ attempts' = [attempts EXCEPT ![r] = @ + 1]
  /\ justTried' = justTried \cup {r}
  /\ Touch(r)
  /\ pc' = [pc EXCEPT ![p] = "post"]
  /\ UNCHANGED <<st, delivered, url, told, job, retry>>

ClaimNothing(p) ==
  /\ pc[p] = "claim"
  /\ ~Claimable(job[p].at, job[p].kind)
  /\ Finish(p)
  /\ UNCHANGED <<st, columns, older, url, told, retry>>

InFlight(p) == pc[p] \in {"post", "resend"}

\* The merchant answers 2xx in time.  A resend of a row that was delivered when
\* it was loaded has nothing to mark.
Accepted(p) ==
  /\ InFlight(p)
  /\ told' = told \cup {<<job[p].at, job[p].kind>>}
  /\ IF job[p].seen THEN Finish(p)
                    ELSE pc' = [pc EXCEPT ![p] = "mark"] /\ UNCHANGED job
  /\ UNCHANGED <<st, columns, older, url, retry>>

\* Another answer, or none in time: the merchant may have accepted it even so.
Refused(p) ==
  /\ InFlight(p)
  /\ told' \in {told, told \cup {<<job[p].at, job[p].kind>>}}
  /\ Finish(p)
  /\ UNCHANGED <<st, columns, older, url, retry>>

\* By id alone, whatever the row's status is by now.
MarkDelivered(p) ==
  /\ pc[p] = "mark"
  /\ delivered' = delivered \cup {job[p].at}
  /\ Touch(job[p].at)
  /\ Finish(p)
  /\ UNCHANGED <<st, attempts, justTried, url, told, retry>>

\* The update throws and the catch block takes the call for a failed one.
MarkFails(p) ==
  /\ pc[p] = "mark"
  /\ Finish(p)
  /\ UNCHANGED <<st, columns, older, url, told, retry>>

\* The process dies; a POST that is out may still be accepted.
Crash(p) ==
  /\ pc[p] # "idle"
  /\ \/ UNCHANGED told
     \/ InFlight(p) /\ told' = told \cup {<<job[p].at, job[p].kind>>}
  /\ pc' = [pc EXCEPT ![p] = "idle"]
  /\ job' = [job EXCEPT ![p] = NoJob]
  /\ \/ p # Retrier /\ UNCHANGED retry
     \/ /\ p = Retrier /\ restarts < MaxRestarts
        /\ turn' = "success" /\ batch' = {} /\ restarts' = restarts + 1
  /\ UNCHANGED <<st, columns, older, url>>

-----------------------------------------------------------------------------
(* retryStuckSuccessCallbacks, then underpaid, then failed.                *)

\* Fault: only what was tried before is tried again.
DueOnceTried(k) == {r \in Rows : Claimable(r, k) /\ url[r] # "none" /\ attempts[r] > 0}

Due(k) == {r \in Rows : Claimable(r, k) /\ url[r] # "none"}

\* The first Limit rows in the order of updated_at.
FirstOf(S) == {r \in S : Cardinality({q \in S : <<q, r>> \in older}) < Limit}

FindDue ==
  /\ pc[Retrier] = "idle"
  /\ batch' = FirstOf(Due(turn))
  /\ pc' = [pc EXCEPT ![Retrier] = "loop"]
  /\ UNCHANGED <<st, columns, older, url, told, job, turn, restarts>>

RetryRow(r) ==
  /\ pc[Retrier] = "loop" /\ r \in batch
  /\ batch' = batch \ {r}
  /\ Serve(Retrier, r, turn, "load")
  /\ UNCHANGED <<st, columns, older, url, told, turn, restarts>>

EndBatch ==
  /\ pc[Retrier] = "loop" /\ batch = {}
  /\ turn' = CASE turn = "success"   -> "underpaid"
               [] turn = "underpaid" -> "failed"
               [] turn = "failed"    -> "success"
  /\ pc' = [pc EXCEPT ![Retrier] = "idle"]
  /\ UNCHANGED <<st, columns, older, url, told, job, batch, restarts>>

-----------------------------------------------------------------------------
(* executeRedeliverPaymentSuccess.                                         *)

Resend(p, r) ==
  /\ p \in Resends /\ pc[p] = "idle"
  /\ st[r] = "success" /\ url[r] = "set"
  /\ job' = [job EXCEPT ![p] = [at |-> r, kind |-> "success",
                                seen |-> r \in delivered]]
  /\ pc' = [pc EXCEPT ![p] = "resend"]
  /\ UNCHANGED <<st, columns, older, url, told, retry>>

-----------------------------------------------------------------------------

Ledger == \E r \in Rows :
  OpenCheckout(r) \/ Lapse(r) \/ \E p \in Ingesters, k \in Credited : ReadPrior(p, r, k)

Notify(p) ==
  \/ \E r \in Rows : Load(p, r) \/ Claim(p, r)
  \/ ClaimNothing(p) \/ Accepted(p) \/ Refused(p) \/ MarkDelivered(p) \/ MarkFails(p)

Retry == FindDue \/ (\E r \in Rows : RetryRow(r)) \/ EndBatch

Next ==
  \/ Ledger \/ Retry
  \/ \E r \in Rows : MinutePasses(r) \/ \E u \in Urls : EditUrl(r, u)
  \/ \E p \in Procs : WriteRow(p) \/ Notify(p) \/ Crash(p)
  \/ \E p \in Resends, r \in Rows : Resend(p, r)

Spec == Init /\ [][Next]_vars

\* The tick runs every few seconds and its loop goes on; a POST ends, a minute
\* passes; merchants do not edit their URL for ever.
FairSpec ==
  /\ Spec
  /\ WF_vars(Retry \/ Notify(Retrier))
  /\ \A r \in Rows : WF_vars(MinutePasses(r))
  /\ \A p \in Procs : WF_vars(Accepted(p) \/ Refused(p))
  /\ <>[][UNCHANGED url]_vars

-----------------------------------------------------------------------------

Promise == INSTANCE WebhookPromise WITH
  MaxCalls <- MaxAttempts,
  calls    <- attempts,
  calling  <- {job[p].at : p \in {q \in Procs : pc[q] = "post"}},
  accepted <- {e[1] : e \in told},
  done     <- delivered

\* Although several processes may serve a row at once and any may die between a
\* POST and its mark, automatic calls come one at a time and at most
\* MaxAttempts in all, end with delivery, and delivery is never invented.
PromiseKept == Promise!Spec

\* While a row keeps a final status and its merchant a URL, it is delivered or
\* uses up its attempts: no row starves in the retry list, and none is forgotten
\* when the process that should have called dies.
FinalStatusIsAnnounced ==
  \A r \in Rows : []<>(\/ st[r] \notin Final \/ url[r] # "set"
                       \/ r \in delivered \/ attempts[r] = MaxAttempts)

\* "If a payment webhook (status success, underpaid, or failed) has not been
\* acknowledged with 2xx, the gateway still retries": a row is not taken for
\* delivered while the merchant has not accepted it with the status it has.
DeliveredAsIs ==
  \A r \in delivered : st[r] \in Final => <<r, st[r]>> \in told
=============================================================================
