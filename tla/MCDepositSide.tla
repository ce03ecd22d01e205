---------------------------- MODULE MCDepositSide ----------------------------
(* An instance of each of WalletAssign, EvmScanner, ExplorerKeys and         *)
(* PaymentWebhook (whose Init, Next and vars go without a prefix), checked   *)
(* in one run: the first state says which of the four moves, the others stay *)
(* as they are.                                                              *)
EXTENDS WalletAssign, EvmScanner, ExplorerKeys, PaymentWebhook, TLC

CONSTANTS c1, c2, c3, u1, u2, u3, m1, m2, r1, probe, scanner

\* c1 and c2 ask for the same thing; c3 gives no reference.  u3 belongs to
\* a merchant that shares the seed of the others' and has a free pool row.
MCMerchantOf == (u1 :> m1) @@ (u2 :> m1) @@ (u3 :> m2)
MCSeedOf == [m \in {m1, m2} |-> "env"]
MCPoolRows == (m1 :> {}) @@ (m2 :> {0})
MCAsk == (c1 :> [ref |-> r1, amount |-> 1]) @@ (c2 :> [ref |-> r1, amount |-> 1])
         @@ (c3 :> [ref |-> NoRef, amount |-> 1])
MCCallers == {(c1 :> u1) @@ (c2 :> u1) @@ (c3 :> u1),
              (c1 :> u1) @@ (c2 :> u3) @@ (c3 :> u3),
              (c1 :> u1) @@ (c2 :> u2) @@ (c3 :> u3)}

MCTransfers == [block : 1 .. MaxBlock, to : Wallets]

\* A balance probe in the API, a scanner in the cron process.
MCProcessOf == (probe :> "api") @@ (scanner :> "cron")

VARIABLE part

\* A part that stays as it is starts in one state only.
SideInit ==
  /\ part \in {"assign", "scan", "keys", "notify"}
  /\ AssignInit /\ ScannerInit /\ KeysInit /\ Init
  /\ part # "assign" => caller = [c \in Calls |-> u1]
  /\ part # "scan" => cursor = NoCursor
  /\ part # "keys" => active = {}
  /\ part # "notify" => url = [r \in Rows |-> "none"]

SideNext ==
  \/ part = "assign" /\ AssignNext /\ UNCHANGED <<part, scannerVars, keyVars, vars>>
  \/ part = "scan" /\ ScannerNext /\ UNCHANGED <<part, assignVars, keyVars, vars>>
  \/ part = "keys" /\ KeysNext /\ UNCHANGED <<part, assignVars, scannerVars, vars>>
  \/ part = "notify" /\ Next /\ UNCHANGED <<part, assignVars, scannerVars, keyVars>>

\* The first two are fair to what has begun only; the retry loop of a part
\* that stays as it is is owed no step.
SideSpec ==
  /\ SideInit /\ [][SideNext]_<<part, assignVars, scannerVars, keyVars, vars>>
  /\ AssignFairness /\ ScannerFairness
  /\ WF_vars(part = "notify" /\ (Retry \/ Notify(Retrier)))
  /\ \A r \in Rows : WF_vars(MinutePasses(r))
  /\ \A p \in Procs : WF_vars(Accepted(p) \/ Refused(p))
  /\ <>[][UNCHANGED url]_vars
=============================================================================
