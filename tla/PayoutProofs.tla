----------------------------- MODULE PayoutProofs -----------------------------
(***************************************************************************)
(* Proofs about Payout: type correctness, one payment per reference, and   *)
(* that it implements PayoutPromise, for any rows, ticks and admins.       *)
(***************************************************************************)
EXTENDS Payout, TLAPS

USE DEF Procs, Open, Terminal, Status

Executing == {"load", "claim", "send", "wait", "completed", "failed"}

\* A request asks for its row once, and executes it once.
RowInv ==
  \A r \in Rows :
    /\ pc[r] \in {"idle", "ref", "insert"} \cup Executing
    /\ pc[r] \in {"ref", "insert"} => st[r] = "absent"
    /\ pc[r] \in Executing => job[r] = r /\ st[r] # "absent"
    /\ st[r] = "absent" => payments[r] = 0 /\ r \notin patched

\* While nobody patches a row, only its request can pay it.
PaidInv ==
  \A r \in Rows \ patched :
    /\ st[r] # "pending"
    /\ payments[r] \in {0, 1}
    /\ pc[r] \in {"load", "claim", "send"} => payments[r] = 0
    /\ pc[r] \in {"wait", "completed"} => payments[r] = 1
    /\ st[r] = "completed" => payments[r] = 1

\* Ticks execute patched rows only: nothing else is ever pending.
TickInv ==
  \A t \in Ticks :
    /\ pc[t] \in {"idle", "stuck", "drain"} \cup Executing
    /\ \A r \in batch[t] : st[r] # "absent"
    /\ pc[t] = "drain" \/ pc[t] \in Executing => batch[t] \subseteq patched
    /\ pc[t] \in Executing => job[t] \in patched

AdminInv ==
  \A p \in Admins :
    /\ pc[p] \in {"idle", "write"}
    /\ pc[p] = "write" => job[p] \in Rows /\ st[job[p]] # "absent" /\ seen[p] # "absent"

\* The unique index.
KeyInv ==
  \A r, q \in Rows :
    (st[r] # "absent" /\ st[q] # "absent" /\ ref[r] = ref[q] /\ ref[r] # None) => r = q

IInv == TypeOK /\ RowInv /\ PaidInv /\ TickInv /\ AdminInv /\ KeyInv

-----------------------------------------------------------------------------

LEMMA InitIInv == ASSUME NamesAreApart, Init PROVE IInv
  BY DEF NamesAreApart, Init, IInv, TypeOK, RowInv, PaidInv, TickInv, AdminInv, KeyInv,
         Executing

\* The invariant is kept, action by action.
LEMMA NextIInv ==
  ASSUME NamesAreApart, IInv, [Next]_vars
  PROVE  IInv'
  <1> USE NamesAreApart DEF NamesAreApart, IInv, TypeOK, RowInv, PaidInv, TickInv,
          AdminInv, KeyInv, Executing, row, local, SetStatus, Goto, Finish
  <1>1. ASSUME NEW r \in Rows, CheckPending(r) PROVE IInv'
    BY <1>1 DEF CheckPending
  <1>2. ASSUME NEW r \in Rows, CheckReference(r) PROVE IInv'
    BY <1>2 DEF CheckReference
  <1>3. ASSUME NEW r \in Rows, Insert(r) PROVE IInv'
    BY <1>3 DEF Insert, KeyTaken, RefTaken, FirstStatus
  <1>4. ASSUME NEW r \in Rows, InsertFails(r) PROVE IInv'
    BY <1>4 DEF InsertFails
  <1>5. ASSUME NEW r \in Rows, GrowOld(r) PROVE IInv'
    BY <1>5 DEF GrowOld
  <1>6. ASSUME NEW p \in Rows \cup Ticks, NotSent(p) PROVE IInv'
    BY <1>6 DEF NotSent
  <1>7. ASSUME NEW p \in Rows \cup Ticks, Receipt(p) PROVE IInv'
    BY <1>7 DEF Receipt
  <1>8. ASSUME NEW p \in Rows \cup Ticks, MarkThrows(p) PROVE IInv'
    BY <1>8 DEF MarkThrows
  <1>9. ASSUME NEW p \in Rows \cup Ticks, NEW r \in Rows, Load(p, r) PROVE IInv'
    BY <1>9 DEF Load
  <1>10. ASSUME NEW p \in Rows \cup Ticks, NEW r \in Rows, Claim(p, r) PROVE IInv'
    BY <1>10 DEF Claim
  <1>11. ASSUME NEW p \in Rows \cup Ticks, NEW r \in Rows, Broadcast(p, r) PROVE IInv'
    BY <1>11 DEF Broadcast
  <1>12. ASSUME NEW p \in Rows \cup Ticks, NEW r \in Rows, MarkCompleted(p, r) PROVE IInv'
    BY <1>12 DEF MarkCompleted
  <1>13. ASSUME NEW p \in Rows \cup Ticks, NEW r \in Rows, MarkFailed(p, r) PROVE IInv'
    BY <1>13 DEF MarkFailed
  <1>14. ASSUME NEW t \in Ticks, FindStuck(t) PROVE IInv'
    BY <1>14 DEF FindStuck, Stuck
  <1>15. ASSUME NEW t \in Ticks, FindPending(t) PROVE IInv'
    BY <1>15 DEF FindPending
  <1>16. ASSUME NEW t \in Ticks, EndTick(t) PROVE IInv'
    BY <1>16 DEF EndTick
  <1>17. ASSUME NEW t \in Ticks, NEW r \in Rows, MarkStuck(t, r) PROVE IInv'
    BY <1>17 DEF MarkStuck
  <1>18. ASSUME NEW t \in Ticks, NEW r \in Rows, Take(t, r) PROVE IInv'
    BY <1>18 DEF Take
  <1>19. ASSUME NEW p \in Admins, NEW r \in Rows, ReadForPatch(p, r) PROVE IInv'
    BY <1>19 DEF ReadForPatch
  <1>20. ASSUME NEW p \in Admins, NEW r \in Rows, WritePatch(p, r) PROVE IInv'
    BY <1>20 DEF WritePatch, Writable
  <1>21. ASSUME NEW p \in Procs, Abandon(p) PROVE IInv'
    BY <1>21 DEF Abandon
  <1>22. CASE UNCHANGED vars
    BY <1>22 DEF vars
  <1> HIDE DEF IInv
  <1> QED
    BY <1>1, <1>2, <1>3, <1>4, <1>5, <1>6, <1>7, <1>8, <1>9, <1>10, <1>11, <1>12, <1>13,
       <1>14, <1>15, <1>16, <1>17, <1>18, <1>19, <1>20, <1>21, <1>22
       DEF Next, Request, Execute, Drain

-----------------------------------------------------------------------------
(* The refinement of PayoutPromise.                                        *)

\* What a row's status and its patched mark say together.
PhaseAs(s, manual) ==
  CASE s = "absent"                        -> "none"
    [] s # "absent" /\ manual              -> "manual"
    [] s \in Open /\ ~manual               -> "open"
    [] OTHER                               -> s

LEMMA PhaseOf == \A r \in Rows : Phase[r] = PhaseAs(st[r], r \in patched)
  BY DEF Phase, PhaseAs

\* Only the status of r changes.
LEMMA PhaseSet ==
  ASSUME IInv, NEW r \in Rows, NEW s, st' = [st EXCEPT ![r] = s], UNCHANGED patched
  PROVE  Phase' = [Phase EXCEPT ![r] = PhaseAs(s, r \in patched)]
  BY DEF IInv, TypeOK, Phase, PhaseAs

LEMMA PhaseStays == ASSUME UNCHANGED <<st, patched>> PROVE Phase' = Phase
  BY DEF Phase

\* A status that is written over a patched row, or over itself, changes nothing.
LEMMA PhaseSame ==
  ASSUME IInv, NEW r \in Rows, NEW s \in Status, UNCHANGED patched,
         st' = [st EXCEPT ![r] = s], st[r] # "absent",
         r \in patched \/ st[r] = s
  PROVE  Phase' = Phase
  <1>1. PhaseAs(s, r \in patched) = Phase[r]
    BY PhaseOf DEF PhaseAs
  <1> QED BY <1>1, PhaseSet DEF Phase

\* An unpatched row that was asked for has been told open, completed or failed.
LEMMA PhaseUnpatched ==
  ASSUME IInv, NEW r \in Rows, r \notin patched, st[r] # "absent"
  PROVE  /\ st[r] = "processing" => Phase[r] = "open"
         /\ st[r] \in Terminal => Phase[r] = st[r]
         /\ st[r] \in {"processing", "completed", "failed"}
  BY PhaseOf DEF PhaseAs, IInv, TypeOK, PaidInv

\* A verdict of failure, by the executor, its catch block or the stuck marker.
LEMMA FailStep ==
  ASSUME IInv, NEW r \in Rows, st' = [st EXCEPT ![r] = "failed"], st[r] # "absent",
         UNCHANGED <<ref, payments, patched>>
  PROVE  Promise!Fail(r) \/ UNCHANGED Promise!vars
  <1>1. CASE r \in patched \/ st[r] = "failed"
    BY <1>1, PhaseSame DEF Promise!vars
  <1>2. CASE r \notin patched /\ st[r] # "failed"
    <2>1. Phase[r] \in {"open", "completed"}
      BY <1>2, PhaseUnpatched
    <2>2. Phase' = [Phase EXCEPT ![r] = "failed"]
      BY <1>2, PhaseSet DEF PhaseAs
    <2> QED BY <2>1, <2>2 DEF Promise!Fail
  <1> QED BY <1>1, <1>2

LEMMA PromiseInit == ASSUME Init PROVE Promise!Init
  BY DEF Init, Promise!Init, Phase

\* The steps of the code that the promise does not see.
LEMMA QuietStep ==
  ASSUME \/ \E r \in Rows : CheckPending(r) \/ CheckReference(r) \/ InsertFails(r) \/ GrowOld(r)
         \/ \E p \in Rows \cup Ticks : NotSent(p) \/ Receipt(p) \/ MarkThrows(p)
         \/ \E p \in Rows \cup Ticks, r \in Rows : Load(p, r)
         \/ \E t \in Ticks : FindStuck(t) \/ FindPending(t) \/ EndTick(t)
         \/ \E t \in Ticks, r \in Rows : Take(t, r)
         \/ \E p \in Admins, r \in Rows : ReadForPatch(p, r)
         \/ \E p \in Procs : Abandon(p)
         \/ UNCHANGED vars
  PROVE  UNCHANGED Promise!vars
  <1>1. UNCHANGED <<st, ref, payments, patched>>
    BY DEF CheckPending, CheckReference, InsertFails, GrowOld, NotSent, Receipt,
           MarkThrows, Load, FindStuck, FindPending, EndTick, Take, ReadForPatch,
           Abandon, vars, row
  <1> QED BY <1>1, PhaseStays DEF Promise!vars

\* Every step of the code is a step of the promise or changes nothing it sees.
LEMMA PromiseStep ==
  ASSUME NamesAreApart, IInv, [Next]_vars
  PROVE  [Promise!Next]_(Promise!vars)
  <1>1. ASSUME NEW r \in Rows, Insert(r) PROVE Promise!Ask(r)
    <2>1. /\ st[r] = "absent" /\ UNCHANGED <<ref, payments, patched>>
          /\ r \notin patched
      BY <1>1 DEF Insert, IInv, RowInv
    <2>2. PICK s \in FirstStatus : st' = [st EXCEPT ![r] = s]
      BY <1>1 DEF Insert, SetStatus
    <2>3. PhaseAs(s, r \in patched) \in {"open", "failed"}
      BY <2>1 DEF PhaseAs, FirstStatus
    <2>4. Phase[r] = "none"
      BY <2>1 DEF Phase
    <2>5. \A q \in Rows : Phase[q] # "none" => st[q] # "absent"
      BY DEF Phase
    <2>6. ref[r] # None => \A q \in Rows : Phase[q] # "none" => ref[q] # ref[r]
      BY <1>1, <2>5 DEF Insert, KeyTaken, RefTaken
    <2>7. Phase' = [Phase EXCEPT ![r] = PhaseAs(s, r \in patched)]
      BY <2>1, <2>2, PhaseSet
    <2> QED BY <2>1, <2>3, <2>4, <2>6, <2>7 DEF Promise!Ask
  <1>2. ASSUME NEW p \in Rows \cup Ticks, NEW r \in Rows, job[p] = r, pc[p] \in Executing
        PROVE  st[r] # "absent" /\ (r \notin patched => p = r)
    BY <1>2, NamesAreApart DEF NamesAreApart, IInv, RowInv, TickInv
  <1>3. ASSUME NEW p \in Rows \cup Ticks, NEW r \in Rows, Claim(p, r)
        PROVE  UNCHANGED Promise!vars
    <2>1. st[r] # "absent" /\ UNCHANGED <<ref, payments, patched>>
      BY <1>2, <1>3 DEF Claim, Executing
    <2>2. CASE st[r] = "pending"
      <3>1. r \in patched /\ st' = [st EXCEPT ![r] = "processing"]
        BY <1>3, <2>2 DEF Claim, SetStatus, IInv, PaidInv
      <3> QED BY <2>1, <3>1, PhaseSame DEF Promise!vars
    <2>3. CASE st[r] # "pending"
      BY <1>3, <2>1, <2>3, PhaseStays DEF Claim, Promise!vars
    <2> QED BY <2>2, <2>3
  <1>4. ASSUME NEW p \in Rows \cup Ticks, NEW r \in Rows, Broadcast(p, r)
        PROVE  Promise!Pay(r)
    <2>1. st[r] # "absent" /\ (r \notin patched => p = r)
      BY <1>2, <1>4 DEF Broadcast, Executing
    <2>2. Phase[r] # "none" /\ (Phase[r] # "manual" => r \notin patched)
      BY <2>1, PhaseOf DEF PhaseAs, IInv, TypeOK
    <2>3. r \notin patched => payments[r] = 0
      BY <1>4, <2>1 DEF Broadcast, IInv, PaidInv
    <2>4. UNCHANGED <<st, ref, patched>>
      BY <1>4 DEF Broadcast, row
    <2> QED BY <1>4, <2>2, <2>3, <2>4, PhaseStays DEF Broadcast, Promise!Pay
  <1>5. ASSUME NEW p \in Rows \cup Ticks, NEW r \in Rows, MarkCompleted(p, r)
        PROVE  Promise!Complete(r) \/ UNCHANGED Promise!vars
    <2>1. /\ st[r] # "absent" /\ (r \notin patched => p = r)
          /\ st' = [st EXCEPT ![r] = "completed"] /\ UNCHANGED <<ref, payments, patched>>
      BY <1>2, <1>5 DEF MarkCompleted, SetStatus, Executing
    <2>2. CASE r \in patched \/ st[r] = "completed"
      BY <2>1, <2>2, PhaseSame DEF Promise!vars
    <2>3. CASE r \notin patched /\ st[r] # "completed"
      <3>1. Phase[r] \in {"open", "failed"}
        BY <2>1, <2>3, PhaseUnpatched
      <3>2. payments[r] = 1
        BY <1>5, <2>1, <2>3 DEF MarkCompleted, IInv, PaidInv
      <3>3. Phase' = [Phase EXCEPT ![r] = "completed"]
        BY <2>1, <2>3, PhaseSet DEF PhaseAs
      <3> QED BY <2>1, <3>1, <3>2, <3>3 DEF Promise!Complete
    <2> QED BY <2>2, <2>3
  <1>6. ASSUME NEW p \in Rows \cup Ticks, NEW r \in Rows, MarkFailed(p, r)
        PROVE  Promise!Fail(r) \/ UNCHANGED Promise!vars
    <2>1. /\ st[r] # "absent" /\ st' = [st EXCEPT ![r] = "failed"]
          /\ UNCHANGED <<ref, payments, patched>>
      BY <1>2, <1>6 DEF MarkFailed, SetStatus, Executing
    <2> QED BY <2>1, FailStep
  <1>7. ASSUME NEW t \in Ticks, NEW r \in Rows, MarkStuck(t, r)
        PROVE  Promise!Fail(r) \/ UNCHANGED Promise!vars
    <2>1. /\ st[r] # "absent" /\ st' = [st EXCEPT ![r] = "failed"]
          /\ UNCHANGED <<ref, payments, patched>>
      BY <1>7 DEF MarkStuck, SetStatus, IInv, TickInv
    <2> QED BY <2>1, FailStep
  <1>8. ASSUME NEW p \in Admins, NEW r \in Rows, WritePatch(p, r) PROVE Promise!Patch(r)
    <2>1. st[r] # "absent"
      BY <1>8 DEF WritePatch, IInv, AdminInv
    <2>2. Phase[r] # "none"
      BY <2>1, PhaseOf DEF PhaseAs, IInv, TypeOK
    <2>3. PICK s : s # "absent" /\ st' = [st EXCEPT ![r] = s]
      BY <1>8 DEF WritePatch, SetStatus, Writable, IInv, AdminInv
    <2>4. patched' = patched \cup {r} /\ UNCHANGED <<ref, payments>>
      BY <1>8 DEF WritePatch
    <2>5. Phase' = [Phase EXCEPT ![r] = "manual"]
      BY <2>3, <2>4 DEF Phase, IInv, TypeOK
    <2> QED BY <2>2, <2>4, <2>5 DEF Promise!Patch
  <1> QED
    BY <1>1, <1>3, <1>4, <1>5, <1>6, <1>7, <1>8, QuietStep
       DEF Next, Request, Execute, Drain, Promise!Next

-----------------------------------------------------------------------------

\* The inductive invariant: who may pay a row, and when.
THEOREM IInvCorrect == Spec => []IInv
  <1>1. Init => IInv
    BY InitIInv, NamesAreApart
  <1>2. IInv /\ [Next]_vars => IInv'
    BY NextIInv, NamesAreApart
  <1> QED BY <1>1, <1>2, PTL DEF Spec

\* The withdrawals and the locals of requests, ticks and admins keep their types.
THEOREM TypeCorrect == Spec => []TypeOK
  <1>1. IInv => TypeOK
    BY DEF IInv
  <1> QED BY <1>1, IInvCorrect, PTL

\* A client reference is paid at most once by the request and the drain cron, with
\* any number of requests and of overlapping ticks.
THEOREM OnePaymentPerReferenceAlways == Spec => []OnePaymentPerReference
  <1>1. IInv => OnePaymentPerReference
    BY DEF IInv, TypeOK, RowInv, PaidInv, KeyInv, OnePaymentPerReference
  <1> QED BY <1>1, IInvCorrect, PTL

\* The request, the drain cron and the admin's patch keep the payout promise.
THEOREM PromiseAlwaysKept == Spec => PromiseKept
  <1>1. Init => Promise!Init
    BY PromiseInit
  <1>2. IInv /\ [Next]_vars => [Promise!Next]_(Promise!vars)
    BY PromiseStep, NamesAreApart
  <1> QED BY <1>1, <1>2, IInvCorrect, PTL DEF Spec, PromiseKept, Promise!Spec
=============================================================================
