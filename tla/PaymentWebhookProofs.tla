------------------------ MODULE PaymentWebhookProofs ------------------------
(***************************************************************************)
(* Proofs about PaymentWebhook: type correctness, and that it implements   *)
(* WebhookPromise, for any rows, processes, attempts and limits.           *)
(***************************************************************************)
EXTENDS PaymentWebhook, TLAPS

USE DEF Procs, Final, Credited, Status, NoJob

\* What a process that serves a row may rely on at each await.
JobInv ==
  \A p \in Procs :
    /\ pc[p] \notin {"idle", "loop"} => job[p].at \in Rows
    /\ pc[p] \in {"load", "claim", "post", "resend", "mark"} => job[p].kind \in Final

\* An automatic call in flight was claimed less than a minute ago, by nobody else.
CallInv ==
  /\ \A p \in Procs : pc[p] = "post" =>
       job[p].at \in justTried /\ attempts[job[p].at] > 0
  /\ \A p, q \in Procs : pc[p] = "post" /\ pc[q] = "post" /\ job[p].at = job[q].at
       => p = q

\* Whoever is about to mark a row delivered has been answered.
MarkInv ==
  \A p \in Procs : pc[p] = "mark" => <<job[p].at, job[p].kind>> \in told

IInv == TypeOK /\ JobInv /\ CallInv /\ MarkInv

-----------------------------------------------------------------------------

LEMMA InitIInv == ASSUME RolesAreApart, LimitsArePositive, Init PROVE IInv
  BY DEF RolesAreApart, LimitsArePositive, Init, IInv, TypeOK, JobInv, CallInv, MarkInv

\* The type invariant and what a job holds, action by action.
LEMMA TypeStep ==
  ASSUME RolesAreApart, LimitsArePositive, TypeOK, JobInv, [Next]_vars
  PROVE  TypeOK' /\ JobInv'
  <1> USE RolesAreApart, LimitsArePositive DEF RolesAreApart, LimitsArePositive,
          TypeOK, JobInv, columns, retry, Touch, Serve, Finish
  <1>1. ASSUME NEW r \in Rows, OpenCheckout(r) PROVE TypeOK' /\ JobInv'
    BY <1>1 DEF OpenCheckout
  <1>2. ASSUME NEW r \in Rows, Lapse(r) PROVE TypeOK' /\ JobInv'
    BY <1>2 DEF Lapse
  <1>3. ASSUME NEW p \in Ingesters, NEW r \in Rows, NEW k \in Credited, ReadPrior(p, r, k)
        PROVE  TypeOK' /\ JobInv'
    BY <1>3 DEF ReadPrior
  <1>4. ASSUME FindDue PROVE TypeOK' /\ JobInv'
    BY <1>4 DEF FindDue, FirstOf, Due
  <1>5. ASSUME NEW r \in Rows, RetryRow(r) PROVE TypeOK' /\ JobInv'
    BY <1>5 DEF RetryRow
  <1>6. ASSUME EndBatch PROVE TypeOK' /\ JobInv'
    BY <1>6 DEF EndBatch
  <1>7. ASSUME NEW r \in Rows, MinutePasses(r) PROVE TypeOK' /\ JobInv'
    BY <1>7 DEF MinutePasses
  <1>8. ASSUME NEW r \in Rows, NEW u \in Urls, EditUrl(r, u) PROVE TypeOK' /\ JobInv'
    BY <1>8 DEF EditUrl
  <1>9. ASSUME NEW p \in Procs, WriteRow(p) PROVE TypeOK' /\ JobInv'
    <2>1. job[p].at \in Rows /\ job[p].kind \in Credited \cup Final
      BY <1>9 DEF WriteRow
    <2>2. CASE pc' = [pc EXCEPT ![p] = "load"] /\ UNCHANGED job
      <3>1. job[p].kind \in Final
        BY <1>9, <2>1, <2>2 DEF WriteRow
      <3> QED BY <1>9, <2>1, <2>2, <3>1 DEF WriteRow
    <2>3. CASE Finish(p)
      BY <1>9, <2>1, <2>3 DEF WriteRow
    <2> QED BY <1>9, <2>2, <2>3 DEF WriteRow
  <1>10. ASSUME NEW p \in Procs, NEW r \in Rows, Load(p, r) PROVE TypeOK' /\ JobInv'
    <2>1. CASE pc' = [pc EXCEPT ![p] = "claim"] /\ UNCHANGED job
      BY <1>10, <2>1 DEF Load
    <2>2. CASE Finish(p)
      BY <1>10, <2>2 DEF Load
    <2> QED BY <1>10, <2>1, <2>2 DEF Load
  <1>11. ASSUME NEW p \in Procs, NEW r \in Rows, Claim(p, r) PROVE TypeOK' /\ JobInv'
    BY <1>11 DEF Claim, Claimable
  <1>12. ASSUME NEW p \in Procs, ClaimNothing(p) PROVE TypeOK' /\ JobInv'
    BY <1>12 DEF ClaimNothing
  <1>13. ASSUME NEW p \in Procs, Accepted(p) PROVE TypeOK' /\ JobInv'
    <2>1. told' \subseteq Rows \X Final
      BY <1>13 DEF Accepted, InFlight
    <2>2. CASE pc' = [pc EXCEPT ![p] = "mark"] /\ UNCHANGED job
      BY <1>13, <2>1, <2>2 DEF Accepted, InFlight
    <2>3. CASE Finish(p)
      BY <1>13, <2>1, <2>3 DEF Accepted, InFlight
    <2> QED BY <1>13, <2>2, <2>3 DEF Accepted
  <1>14. ASSUME NEW p \in Procs, Refused(p) PROVE TypeOK' /\ JobInv'
    BY <1>14 DEF Refused, InFlight
  <1>15. ASSUME NEW p \in Procs, MarkDelivered(p) PROVE TypeOK' /\ JobInv'
    BY <1>15 DEF MarkDelivered
  <1>16. ASSUME NEW p \in Procs, MarkFails(p) PROVE TypeOK' /\ JobInv'
    BY <1>16 DEF MarkFails
  <1>17. ASSUME NEW p \in Procs, Crash(p) PROVE TypeOK' /\ JobInv'
    BY <1>17 DEF Crash, InFlight
  <1>18. ASSUME NEW p \in Resends, NEW r \in Rows, Resend(p, r) PROVE TypeOK' /\ JobInv'
    BY <1>18 DEF Resend
  <1>19. CASE UNCHANGED vars
    BY <1>19 DEF vars
  <1> HIDE DEF TypeOK, JobInv
  <1> QED
    BY <1>1, <1>2, <1>3, <1>4, <1>5, <1>6, <1>7, <1>8, <1>9, <1>10, <1>11, <1>12,
       <1>13, <1>14, <1>15, <1>16, <1>17, <1>18, <1>19
       DEF Next, Ledger, Retry, Notify

\* Calls and marks, action by action.
LEMMA CallStep ==
  ASSUME RolesAreApart, LimitsArePositive, IInv, [Next]_vars
  PROVE  CallInv' /\ MarkInv'
  <1> USE RolesAreApart, LimitsArePositive DEF RolesAreApart, LimitsArePositive,
          IInv, TypeOK, JobInv, CallInv, MarkInv, columns, retry, Serve, Finish
  <1>1. ASSUME NEW r \in Rows, OpenCheckout(r) PROVE CallInv' /\ MarkInv'
    BY <1>1 DEF OpenCheckout
  <1>2. ASSUME NEW r \in Rows, Lapse(r) PROVE CallInv' /\ MarkInv'
    BY <1>2 DEF Lapse
  <1>3. ASSUME NEW p \in Ingesters, NEW r \in Rows, NEW k \in Credited, ReadPrior(p, r, k)
        PROVE  CallInv' /\ MarkInv'
    BY <1>3 DEF ReadPrior
  <1>4. ASSUME FindDue PROVE CallInv' /\ MarkInv'
    BY <1>4 DEF FindDue
  <1>5. ASSUME NEW r \in Rows, RetryRow(r) PROVE CallInv' /\ MarkInv'
    BY <1>5 DEF RetryRow
  <1>6. ASSUME EndBatch PROVE CallInv' /\ MarkInv'
    BY <1>6 DEF EndBatch
  <1>7. ASSUME NEW r \in Rows, MinutePasses(r) PROVE CallInv' /\ MarkInv'
    BY <1>7 DEF MinutePasses
  <1>8. ASSUME NEW r \in Rows, NEW u \in Urls, EditUrl(r, u)
        PROVE  CallInv' /\ MarkInv'
    BY <1>8 DEF EditUrl
  <1>9. ASSUME NEW p \in Procs, WriteRow(p) PROVE CallInv' /\ MarkInv'
    BY <1>9 DEF WriteRow
  <1>10. ASSUME NEW p \in Procs, NEW r \in Rows, Load(p, r)
        PROVE  CallInv' /\ MarkInv'
    BY <1>10 DEF Load
  <1>11. ASSUME NEW p \in Procs, NEW r \in Rows, Claim(p, r)
        PROVE  CallInv' /\ MarkInv'
    BY <1>11 DEF Claim, Claimable
  <1>12. ASSUME NEW p \in Procs, ClaimNothing(p) PROVE CallInv' /\ MarkInv'
    BY <1>12 DEF ClaimNothing
  <1>13. ASSUME NEW p \in Procs, Accepted(p) PROVE CallInv' /\ MarkInv'
    BY <1>13 DEF Accepted, InFlight
  <1>14. ASSUME NEW p \in Procs, Refused(p) PROVE CallInv' /\ MarkInv'
    BY <1>14 DEF Refused, InFlight
  <1>15. ASSUME NEW p \in Procs, MarkDelivered(p) PROVE CallInv' /\ MarkInv'
    BY <1>15 DEF MarkDelivered
  <1>16. ASSUME NEW p \in Procs, MarkFails(p) PROVE CallInv' /\ MarkInv'
    BY <1>16 DEF MarkFails
  <1>17. ASSUME NEW p \in Procs, Crash(p) PROVE CallInv' /\ MarkInv'
    BY <1>17 DEF Crash, InFlight
  <1>18. ASSUME NEW p \in Resends, NEW r \in Rows, Resend(p, r)
        PROVE  CallInv' /\ MarkInv'
    BY <1>18 DEF Resend
  <1>19. CASE UNCHANGED vars
    BY <1>19 DEF vars
  <1> HIDE DEF IInv, TypeOK, JobInv, CallInv, MarkInv
  <1> QED
    BY <1>1, <1>2, <1>3, <1>4, <1>5, <1>6, <1>7, <1>8, <1>9, <1>10, <1>11, <1>12, <1>13, <1>14, <1>15, <1>16, <1>17, <1>18, <1>19
       DEF Next, Ledger, Retry, Notify

-----------------------------------------------------------------------------
(* The refinement of WebhookPromise.                                       *)

Calling == {job[p].at : p \in {q \in Procs : pc[q] = "post"}}
Heard   == {e[1] : e \in told}

\* No automatic call begins or ends.
Quiet ==
  \A q \in Procs : /\ pc[q] = "post" <=> pc'[q] = "post"
                   /\ pc[q] = "post" => job'[q] = job[q]

LEMMA QuietCalls == ASSUME Quiet PROVE Calling' = Calling
  BY DEF Quiet, Calling

LEMMA HeardGrows ==
  ASSUME NEW r, NEW k, told' = told \cup {<<r, k>>}
  PROVE  Heard' = Heard \cup {r}
  <1>1. \A x : x \in Heard' <=> \E e \in told' : x = e[1]
    BY DEF Heard
  <1>2. \A x : x \in Heard <=> \E e \in told : x = e[1]
    BY DEF Heard
  <1>3. <<r, k>>[1] = r
    OBVIOUS
  <1>4. \A x : x \in Heard' <=> x \in Heard \cup {r}
    BY <1>1, <1>2, <1>3
  <1> QED BY <1>4

LEMMA HeardStays == ASSUME UNCHANGED told PROVE Heard' = Heard
  BY DEF Heard

\* A process whose call ends was the only one that called the row.
LEMMA CallEnds ==
  ASSUME IInv, NEW p \in Procs, pc[p] = "post", pc'[p] # "post",
         \A q \in Procs \ {p} : pc'[q] = pc[q] /\ job'[q] = job[q]
  PROVE  job[p].at \in Calling /\ Calling' = Calling \ {job[p].at}
  BY DEF IInv, CallInv, Calling

LEMMA PromiseInit == ASSUME Init PROVE Promise!Init
  BY DEF Init, Promise!Init

\* The actions that neither call, answer nor mark are quiet.
LEMMA QuietStep ==
  ASSUME RolesAreApart, IInv,
         \/ \E r \in Rows : OpenCheckout(r) \/ Lapse(r) \/ RetryRow(r) \/ MinutePasses(r)
         \/ \E p \in Ingesters, r \in Rows, k \in Credited : ReadPrior(p, r, k)
         \/ \E r \in Rows, u \in Urls : EditUrl(r, u)
         \/ FindDue \/ EndBatch
         \/ \E p \in Procs : WriteRow(p) \/ ClaimNothing(p) \/ MarkFails(p)
         \/ \E p \in Procs, r \in Rows : Load(p, r)
         \/ \E p \in Resends, r \in Rows : Resend(p, r)
         \/ UNCHANGED vars
  PROVE  Quiet /\ UNCHANGED <<attempts, delivered, told>>
  <1> USE RolesAreApart DEF RolesAreApart, IInv, TypeOK, Quiet, columns, retry, Serve,
          Finish
  <1>1. ASSUME NEW r \in Rows, OpenCheckout(r)
        PROVE  Quiet /\ UNCHANGED <<attempts, delivered, told>>
    BY <1>1 DEF OpenCheckout
  <1>2. ASSUME NEW r \in Rows, Lapse(r)
        PROVE  Quiet /\ UNCHANGED <<attempts, delivered, told>>
    BY <1>2 DEF Lapse
  <1>3. ASSUME NEW p \in Ingesters, NEW r \in Rows, NEW k \in Credited, ReadPrior(p, r, k)
        PROVE  Quiet /\ UNCHANGED <<attempts, delivered, told>>
    BY <1>3 DEF ReadPrior
  <1>4. ASSUME FindDue
        PROVE  Quiet /\ UNCHANGED <<attempts, delivered, told>>
    BY <1>4 DEF FindDue
  <1>5. ASSUME NEW r \in Rows, RetryRow(r)
        PROVE  Quiet /\ UNCHANGED <<attempts, delivered, told>>
    BY <1>5 DEF RetryRow
  <1>6. ASSUME EndBatch
        PROVE  Quiet /\ UNCHANGED <<attempts, delivered, told>>
    BY <1>6 DEF EndBatch
  <1>7. ASSUME NEW r \in Rows, MinutePasses(r)
        PROVE  Quiet /\ UNCHANGED <<attempts, delivered, told>>
    BY <1>7 DEF MinutePasses
  <1>8. ASSUME NEW r \in Rows, NEW u \in Urls, EditUrl(r, u)
        PROVE  Quiet /\ UNCHANGED <<attempts, delivered, told>>
    BY <1>8 DEF EditUrl
  <1>9. ASSUME NEW p \in Procs, WriteRow(p)
        PROVE  Quiet /\ UNCHANGED <<attempts, delivered, told>>
    BY <1>9 DEF WriteRow
  <1>10. ASSUME NEW p \in Procs, NEW r \in Rows, Load(p, r)
        PROVE  Quiet /\ UNCHANGED <<attempts, delivered, told>>
    BY <1>10 DEF Load
  <1>11. ASSUME NEW p \in Procs, ClaimNothing(p)
        PROVE  Quiet /\ UNCHANGED <<attempts, delivered, told>>
    BY <1>11 DEF ClaimNothing
  <1>12. ASSUME NEW p \in Procs, MarkFails(p)
        PROVE  Quiet /\ UNCHANGED <<attempts, delivered, told>>
    BY <1>12 DEF MarkFails
  <1>13. ASSUME NEW p \in Resends, NEW r \in Rows, Resend(p, r)
        PROVE  Quiet /\ UNCHANGED <<attempts, delivered, told>>
    BY <1>13 DEF Resend
  <1>14. CASE UNCHANGED vars
    BY <1>14 DEF vars
  <1> HIDE DEF IInv, TypeOK, Quiet
  <1> QED BY <1>1, <1>2, <1>3, <1>4, <1>5, <1>6, <1>7,
             <1>8, <1>9, <1>10, <1>11, <1>12, <1>13, <1>14

\* Every step of the code is a step of the promise or changes nothing it sees.
LEMMA PromiseStep ==
  ASSUME RolesAreApart, LimitsArePositive, IInv, [Next]_vars
  PROVE  [Promise!Next]_(Promise!vars)
  <1> DEFINE Stutter == UNCHANGED <<attempts, delivered>> /\ Calling' = Calling
                          /\ Heard' = Heard
  <1>1. ASSUME Stutter PROVE UNCHANGED Promise!vars
    BY <1>1 DEF Promise!vars, Calling, Heard
  <1>2. ASSUME Quiet, UNCHANGED <<attempts, delivered, told>> PROVE Stutter
    BY <1>2, QuietCalls, HeardStays
  <1>3. ASSUME NEW p \in Procs, NEW r \in Rows, Claim(p, r) PROVE Promise!Call(r)
    <2>1. r \notin Calling
      BY <1>3 DEF Claim, Claimable, IInv, CallInv, Calling
    <2>2. Calling' = Calling \cup {r}
      BY <1>3 DEF Claim, Calling, IInv, TypeOK
    <2>3. Heard' = Heard
      BY <1>3, HeardStays DEF Claim
    <2> QED BY <1>3, <2>1, <2>2, <2>3 DEF Claim, Claimable, Promise!Call, Calling, Heard
  <1>4. ASSUME NEW p \in Procs, NEW r \in Rows, job[p].at = r, InFlight(p), pc'[p] # "post",
               \A q \in Procs \ {p} : pc'[q] = pc[q] /\ job'[q] = job[q],
               told' \in {told, told \cup {<<r, job[p].kind>>}},
               UNCHANGED <<attempts, delivered>>
        PROVE  Promise!Return(r) \/ Promise!AcceptResend(r) \/ Stutter
    <2>1. Heard' \in {Heard, Heard \cup {r}}
      BY <1>4, HeardGrows, HeardStays
    <2>2. CASE pc[p] = "post"
      <3>1. r \in Calling /\ Calling' = Calling \ {r}
        BY <1>4, <2>2, CallEnds
      <3> QED BY <1>4, <2>1, <3>1 DEF Promise!Return, Calling, Heard
    <2>3. CASE pc[p] = "resend"
      <3>1. Calling' = Calling
        BY <1>4, <2>3, QuietCalls DEF Quiet
      <3> QED BY <1>4, <2>1, <3>1 DEF Promise!AcceptResend, Calling, Heard
    <2> QED BY <1>4, <2>2, <2>3 DEF InFlight
  <1>5. ASSUME NEW p \in Procs, NEW r \in Rows, job[p].at = r,
               Accepted(p) \/ Refused(p) \/ (Crash(p) /\ InFlight(p))
        PROVE  Promise!Return(r) \/ Promise!AcceptResend(r) \/ Stutter
    <2>1. /\ InFlight(p) /\ pc'[p] # "post"
          /\ \A q \in Procs \ {p} : pc'[q] = pc[q] /\ job'[q] = job[q]
      BY <1>5 DEF Accepted, Refused, Crash, Finish, InFlight, IInv, TypeOK
    <2>2. /\ told' \in {told, told \cup {<<r, job[p].kind>>}}
          /\ UNCHANGED <<attempts, delivered>>
      BY <1>5 DEF Accepted, Refused, Crash, columns
    <2> QED BY <1>4, <1>5, <2>1, <2>2
  <1>6. ASSUME NEW p \in Procs, Crash(p), ~InFlight(p) PROVE Stutter
    <2>1. Quiet /\ UNCHANGED <<attempts, delivered, told>>
      BY <1>6 DEF Crash, InFlight, Quiet, columns, IInv, TypeOK
    <2> QED BY <2>1, <1>2
  <1>7. ASSUME NEW p \in Procs, MarkDelivered(p) PROVE Promise!Settle(job[p].at)
    <2>1. Calling' = Calling
      BY <1>7, QuietCalls DEF MarkDelivered, Finish, Quiet, IInv, TypeOK
    <2>2. Heard' = Heard
      BY <1>7, HeardStays DEF MarkDelivered
    <2>3. job[p].at \in Heard
      <3>1. <<job[p].at, job[p].kind>> \in told
        BY <1>7 DEF MarkDelivered, IInv, MarkInv
      <3> QED BY <3>1 DEF Heard
    <2> QED BY <1>7, <2>1, <2>2, <2>3 DEF MarkDelivered, Promise!Settle, Calling, Heard
  <1>8. \A p \in Procs : pc[p] \notin {"idle", "loop"} => job[p].at \in Rows
    BY DEF IInv, JobInv
  <1> HIDE DEF Stutter
  <1>9. ASSUME NEW p \in Procs, Accepted(p) \/ Refused(p) \/ Crash(p)
        PROVE  Promise!Next \/ Stutter
    <2>1. CASE InFlight(p)
      <3>1. PICK r \in Rows : job[p].at = r
        BY <1>8, <2>1 DEF InFlight
      <3>2. Promise!Return(r) \/ Promise!AcceptResend(r) \/ Stutter
        BY <1>5, <1>9, <2>1, <3>1
      <3> QED BY <3>2 DEF Promise!Next
    <2>2. CASE ~InFlight(p)
      BY <1>6, <1>9, <2>2 DEF Accepted, Refused
    <2> QED BY <2>1, <2>2
  <1>10. ASSUME NEW p \in Procs, MarkDelivered(p) PROVE Promise!Next
    BY <1>7, <1>8, <1>10 DEF Promise!Next, MarkDelivered
  <1>11. ASSUME NEW p \in Procs, NEW r \in Rows, Claim(p, r) PROVE Promise!Next
    BY <1>3, <1>11 DEF Promise!Next
  <1> QED
    BY <1>1, <1>2, <1>9, <1>10, <1>11, QuietStep DEF Next, Ledger, Retry, Notify

-----------------------------------------------------------------------------

\* TypeOK with the bound on attempts, and what a suspended notifier may rely on.
THEOREM IInvCorrect == Spec => []IInv
  <1>1. Init => IInv
    BY InitIInv, RolesAreApart, LimitsArePositive
  <1>2. IInv /\ [Next]_vars => IInv'
    BY TypeStep, CallStep, RolesAreApart, LimitsArePositive DEF IInv
  <1> QED BY <1>1, <1>2, PTL DEF Spec

\* The webhook columns keep their types, and no row has more than MaxAttempts
\* automatic attempts.
THEOREM TypeCorrect == Spec => []TypeOK
  <1>1. IInv => TypeOK
    BY DEF IInv
  <1> QED BY <1>1, IInvCorrect, PTL

\* notifyPayment*, the retry loop and the manual resend keep the webhook promise,
\* with any number of processes over any number of rows.
THEOREM PromiseAlwaysKept == Spec => PromiseKept
  <1>1. Init => Promise!Init
    BY PromiseInit
  <1>2. IInv /\ [Next]_vars => [Promise!Next]_(Promise!vars)
    BY PromiseStep, RolesAreApart, LimitsArePositive
  <1> QED BY <1>1, <1>2, IInvCorrect, PTL DEF Spec, PromiseKept, Promise!Spec
=============================================================================
