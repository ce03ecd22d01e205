---------------------------- MODULE WalletAssign ----------------------------
(***************************************************************************)
(* POST /api/v1/gateway/deposit-address on one rail: a user is found or    *)
(* created, the cooldown is looked at, and a transaction assigns a wallet  *)
(* row (the user's own, a free one of the merchant's pool, or a newly      *)
(* derived one) and opens a checkout session on it.                        *)
(*                                                                         *)
(* PostgreSQL runs the transaction at READ COMMITTED: a call sees what has *)
(* been committed and what it wrote itself.  The row it updated, locked or *)
(* inserted (its draft) stays locked until it commits; a row of the key    *)
(* (merchant, address) exists once.  A row is derived at an index from the *)
(* merchant's seed, and merchants without a mnemonic share the one of the  *)
(* environment, hence addresses.                                           *)
(***************************************************************************)
EXTENDS Naturals, FiniteSets, FiniteSetsExt

CONSTANTS
  Calls, Users,
  Callers,           (* functions: call -> the user it is made for          *)
  MerchantOf,        (* user -> its merchant                                *)
  SeedOf,            (* merchant -> the seed its addresses derive from      *)
  PoolRows,          (* indices, per merchant, of rows nobody is assigned   *)
  LastPoolRow,
  Ask,               (* call -> [ref, amount] of its request                *)
  NoRef,             (* no transaction_id given: the gateway makes one up   *)
  MaxCreateAttempts,
  HasCooldown,       (* gatewayDepositAddressCooldownSec > 0                *)
  Nobody, NoRow

ASSUME AssignConstants ==
  /\ \A c \in Calls : Ask[c].ref \notin Calls
  /\ Callers \subseteq [Calls -> Users] /\ Nobody \notin Users /\ Nobody \notin Calls
  /\ LastPoolRow \in Nat /\ \A m \in DOMAIN SeedOf : PoolRows[m] \subseteq 0 .. LastPoolRow
  /\ \A u \in Users : MerchantOf[u] \in DOMAIN SeedOf
  /\ DOMAIN PoolRows = DOMAIN SeedOf
  /\ MaxCreateAttempts \in Nat \ {0}

Merchants == DOMAIN SeedOf

(* A row of wallets; "by" is the call that assigned it (history). *)
WalletRow == [merchant : Merchants, index : Nat, user : Users \cup {Nobody},
              by : Calls \cup {Nobody}]

ASSUME NoRowIsNone == NoRow \notin WalletRow

Session == [user : Users, merchant : Merchants, index : Nat,
            ref : {Ask[c].ref : c \in Calls} \cup Calls, amount : {Ask[c].amount : c \in Calls},
            key : Calls]

VARIABLES
  knownUsers,  (* rows of users                                             *)
  wallets,     (* committed rows of wallets                                 *)
  open,        (* committed checkouts still "created"                       *)
  recent,      (* user -> calls answered since the cooldown last ran out    *)
  caller,      (* call -> the user it is for                                *)
  callAt,      (* call -> the await it is suspended at                      *)
  draft,       (* call -> the row it holds, as it will commit it            *)
  index,       (* call -> the index it derives                              *)
  lost,        (* call -> attempts that ended in a unique violation         *)
  session,     (* call -> the checkout it answers with                      *)
  heard        (* call -> calls answered when it began (history)            *)

assignVars == <<knownUsers, wallets, open, recent, caller, callAt, draft, index,
                lost, session, heard>>
committed  == <<knownUsers, wallets, open, recent>>

MyMerchant(c) == MerchantOf[caller[c]]
Answered      == {c \in Calls : callAt[c] = "answered"}
InTransaction == {"dedicated", "pick", "derive", "probe", "insert", "repick", "session", "commit"}

SameKey(v, w)     == v.merchant = w.merchant /\ v.index = w.index
SameAddress(v, w) == SeedOf[v.merchant] = SeedOf[w.merchant] /\ v.index = w.index
Locked(c, w)      == \E d \in Calls \ {c} : draft[d] # NoRow /\ SameKey(draft[d], w)

AssignTypeOK ==
  /\ knownUsers \subseteq Users /\ wallets \subseteq WalletRow /\ open \subseteq Session
  /\ recent \in [Users -> SUBSET Calls] /\ caller \in [Calls -> Users]
  /\ callAt \in [Calls -> {"idle", "create", "answered", "refused", "failed", "exhausted"}
                            \cup InTransaction]
  /\ draft \in [Calls -> WalletRow \cup {NoRow}]
  /\ index \in [Calls -> Nat] /\ lost \in [Calls -> Nat]
  /\ session \in [Calls -> SUBSET Session] /\ heard \in [Calls -> SUBSET Calls]

AssignInit ==
  /\ knownUsers = {}
  /\ wallets = UNION {{[merchant |-> m, index |-> i, user |-> Nobody, by |-> Nobody] :
                         i \in PoolRows[m]} : m \in Merchants}
  /\ open = {} /\ recent = [u \in Users |-> {}]
  /\ caller \in Callers
  /\ callAt = [c \in Calls |-> "idle"] /\ draft = [c \in Calls |-> NoRow]
  /\ index = [c \in Calls |-> 0] /\ lost = [c \in Calls |-> 0]
  /\ session = [c \in Calls |-> {}] /\ heard = [c \in Calls |-> {}]

Goes(c, from, to) == callAt[c] = from /\ callAt' = [callAt EXCEPT ![c] = to]

-----------------------------------------------------------------------------
\* Fault: no cooldown.
FindUserAtOnce(c) ==
  /\ Goes(c, "idle", IF caller[c] \notin knownUsers THEN "create" ELSE "dedicated")
  /\ heard' = [heard EXCEPT ![c] = Answered]
  /\ UNCHANGED <<committed, caller, draft, index, lost, session>>

(* The user, its last call's time with it, is read before the transaction. *)
FindUser(c) ==
  /\ Goes(c, "idle", IF caller[c] \notin knownUsers THEN "create"
                     ELSE IF HasCooldown /\ recent[caller[c]] # {} THEN "refused"
                     ELSE "dedicated")
  /\ heard' = [heard EXCEPT ![c] = Answered]
  /\ UNCHANGED <<committed, caller, draft, index, lost, session>>

(* Two first calls of a user: the later insert fails, answered with 500. *)
CreateUser(c) ==
  /\ Goes(c, "create", IF caller[c] \in knownUsers THEN "failed" ELSE "dedicated")
  /\ knownUsers' = knownUsers \cup {caller[c]}
  /\ UNCHANGED <<wallets, open, recent, caller, draft, index, lost, session, heard>>

\* Fault: a read that does not wait for the row.
UseDedicatedUnlocked(c) ==
  /\ \E w \in wallets : /\ w.merchant = MyMerchant(c) /\ w.user = caller[c]
                        /\ draft' = [draft EXCEPT ![c] = w]
  /\ Goes(c, "dedicated", "session")
  /\ UNCHANGED <<committed, caller, index, lost, session, heard>>

(* The user's own row: its hold and scan times are written, which waits    *)
(* for any call that holds the row.                                        *)
UseDedicated(c) ==
  /\ \E w \in wallets : /\ w.merchant = MyMerchant(c) /\ w.user = caller[c] /\ ~Locked(c, w)
                        /\ draft' = [draft EXCEPT ![c] = w]
  /\ Goes(c, "dedicated", "session")
  /\ UNCHANGED <<committed, caller, index, lost, session, heard>>

\* Fault: the user's own row is not looked for.
NoDedicatedUnchecked(c) ==
  /\ Goes(c, "dedicated", "pick")
  /\ UNCHANGED <<committed, caller, draft, index, lost, session, heard>>

NoDedicated(c) ==
  /\ ~\E w \in wallets : w.merchant = MyMerchant(c) /\ w.user = caller[c]
  /\ Goes(c, "dedicated", "pick")
  /\ UNCHANGED <<committed, caller, draft, index, lost, session, heard>>

\* Fault: FOR UPDATE is left out.
PickableUnlocked(c) == {w \in wallets :
  /\ w.merchant = MyMerchant(c) /\ w.user = Nobody
  /\ ~\E o \in wallets : SameAddress(o, w) /\ o # w /\ o.user # Nobody}

(* tryPickFreePoolWallet: FOR UPDATE SKIP LOCKED, and no row whose address *)
(* is assigned on another row.                                             *)
Pickable(c) == {w \in wallets :
  /\ w.merchant = MyMerchant(c) /\ w.user = Nobody /\ ~Locked(c, w)
  /\ ~\E o \in wallets : SameAddress(o, w) /\ o # w /\ o.user # Nobody}

PickFree(c) ==
  /\ \E from \in {"pick", "repick"} : Goes(c, from, "session")
  /\ \E w \in Pickable(c) : draft' = [draft EXCEPT ![c] = [w EXCEPT !.user = caller[c], !.by = c]]
  /\ UNCHANGED <<committed, caller, index, lost, session, heard>>

\* Fault: one attempt too few.
NonePickableTooSoon(c) ==
  /\ Pickable(c) = {}
  /\ \/ Goes(c, "pick", "derive")
     \/ Goes(c, "repick", IF lost[c] + 1 < MaxCreateAttempts THEN "derive" ELSE "exhausted")
  /\ UNCHANGED <<committed, caller, draft, index, lost, session, heard>>

NonePickable(c) ==
  /\ Pickable(c) = {}
  /\ \/ Goes(c, "pick", "derive")
     \/ Goes(c, "repick", IF lost[c] < MaxCreateAttempts THEN "derive" ELSE "exhausted")
  /\ UNCHANGED <<committed, caller, draft, index, lost, session, heard>>

-----------------------------------------------------------------------------
\* Fault: not one past it.
ReadMaxIndexItself(c) ==
  LET used == {w.index : w \in {v \in wallets : v.merchant = MyMerchant(c)}} IN
  /\ Goes(c, "derive", "probe")
  /\ index' = [index EXCEPT ![c] = IF used = {} THEN 0 - 1 ELSE Max(used)]
  /\ UNCHANGED <<committed, caller, draft, lost, session, heard>>

(* nextDerivationIndex: one past the largest of the merchant. *)
ReadMaxIndex(c) ==
  LET used == {w.index : w \in {v \in wallets : v.merchant = MyMerchant(c)}} IN
  /\ Goes(c, "derive", "probe")
  /\ index' = [index EXCEPT ![c] = IF used = {} THEN 0 ELSE Max(used) + 1]
  /\ UNCHANGED <<committed, caller, draft, lost, session, heard>>

Derived(c) == [merchant |-> MyMerchant(c), index |-> index[c], user |-> caller[c], by |-> c]

\* Fault: only the merchant's own rows are looked at.
ProbeOwnAddress(c) ==
  LET taken == \E w \in wallets : SameKey(w, Derived(c)) /\ w.user # Nobody IN
  /\ Goes(c, "probe", IF taken THEN "probe" ELSE "insert")
  /\ index' = [index EXCEPT ![c] = IF taken THEN @ + 1 ELSE @]
  /\ UNCHANGED <<committed, caller, draft, lost, session, heard>>

\* Fault: the same index is probed again.
ProbeAddressAgain(c) ==
  LET taken == \E w \in wallets : SameAddress(w, Derived(c)) /\ w.user # Nobody IN
  /\ Goes(c, "probe", IF taken THEN "probe" ELSE "insert")
  /\ UNCHANGED <<committed, caller, draft, index, lost, session, heard>>

(* An index whose address is assigned to some row is passed over. *)
ProbeAddress(c) ==
  LET taken == \E w \in wallets : SameAddress(w, Derived(c)) /\ w.user # Nobody IN
  /\ Goes(c, "probe", IF taken THEN "probe" ELSE "insert")
  /\ index' = [index EXCEPT ![c] = IF taken THEN @ + 1 ELSE @]
  /\ UNCHANGED <<committed, caller, draft, lost, session, heard>>

(* The insert waits for a call that holds the same key. *)
InsertWallet(c) ==
  /\ ~Locked(c, Derived(c)) /\ ~\E w \in wallets : SameKey(w, Derived(c))
  /\ Goes(c, "insert", "session")
  /\ draft' = [draft EXCEPT ![c] = Derived(c)]
  /\ UNCHANGED <<committed, caller, index, lost, session, heard>>

(* A unique violation rolls back to the savepoint, and the pool is tried. *)
InsertCollides(c) ==
  /\ ~Locked(c, Derived(c)) /\ \E w \in wallets : SameKey(w, Derived(c))
  /\ Goes(c, "insert", "repick")
  /\ lost' = [lost EXCEPT ![c] = @ + 1]
  /\ UNCHANGED <<committed, caller, draft, index, session, heard>>

-----------------------------------------------------------------------------
(* findReusableCreatedCheckout: the user's open checkouts on the wallet,   *)
(* of the same amount, and of the same reference where one is given.       *)
Reusable(c) == {s \in open :
  /\ s.user = caller[c] /\ SameKey(s, draft[c]) /\ s.amount = Ask[c].amount
  /\ Ask[c].ref # NoRef => s.ref = Ask[c].ref}

FindSession(c) ==
  /\ Goes(c, "session", "commit")
  /\ \/ \E s \in Reusable(c) : session' = [session EXCEPT ![c] = {s}]
     \/ /\ Reusable(c) = {}
        /\ session' = [session EXCEPT ![c] =
             {[user |-> caller[c], merchant |-> draft[c].merchant, index |-> draft[c].index,
               ref |-> IF Ask[c].ref = NoRef THEN c ELSE Ask[c].ref,
               amount |-> Ask[c].amount, key |-> c]}]
  /\ UNCHANGED <<committed, caller, draft, index, lost, heard>>

(* The row, the new checkout and the user's last_gateway_deposit_address_at *)
(* become visible together.                                                 *)
CommitCall(c) ==
  /\ Goes(c, "commit", "answered")
  /\ wallets' = {w \in wallets : ~SameKey(w, draft[c])} \cup {draft[c]}
  /\ open' = open \cup {s \in session[c] : s.key = c}
  /\ recent' = [recent EXCEPT ![caller[c]] = @ \cup {c}]
  /\ draft' = [draft EXCEPT ![c] = NoRow]
  /\ UNCHANGED <<knownUsers, caller, index, lost, session, heard>>

(* The transaction times out, or its process dies: it is rolled back. *)
AbortCall(c) ==
  /\ callAt[c] \in InTransaction /\ callAt' = [callAt EXCEPT ![c] = "failed"]
  /\ draft' = [draft EXCEPT ![c] = NoRow]
  /\ session' = [session EXCEPT ![c] = {}]
  /\ UNCHANGED <<committed, caller, index, lost, heard>>

(* A deposit or the expiry cron takes a checkout out of "created". *)
EndSession(s) ==
  /\ open' = open \ {s}
  /\ UNCHANGED <<knownUsers, wallets, recent, caller, callAt, draft, index, lost, session, heard>>

Cool(u) ==
  /\ recent[u] # {} /\ recent' = [recent EXCEPT ![u] = {}]
  /\ UNCHANGED <<knownUsers, wallets, open, caller, callAt, draft, index, lost, session, heard>>

CallStep(c) ==
  \/ FindUser(c) \/ CreateUser(c) \/ UseDedicated(c) \/ NoDedicated(c)
  \/ PickFree(c) \/ NonePickable(c) \/ ReadMaxIndex(c) \/ ProbeAddress(c)
  \/ InsertWallet(c) \/ InsertCollides(c) \/ FindSession(c) \/ CommitCall(c)

AssignNext ==
  \/ \E c \in Calls : CallStep(c) \/ AbortCall(c)
  \/ \E s \in open : EndSession(s)
  \/ \E u \in Users : Cool(u)

(* A request that has begun is carried on by its process. *)
AssignFairness == \A c \in Calls : WF_assignVars(callAt[c] # "idle" /\ CallStep(c))

AssignSpec == AssignInit /\ [][AssignNext]_assignVars /\ AssignFairness

-----------------------------------------------------------------------------
(* Two calls overlapped if neither was answered when the other began. *)
Overlapped(c, d) == c \notin heard[d] /\ d \notin heard[c]

(* assignPooledWalletForDeposit: a user has one wallet on the rail, unless *)
(* the calls that assigned two overlapped.                                 *)
OneWalletUnlessOverlapped ==
  \A v, w \in wallets : v # w /\ v.user = w.user /\ v.user # Nobody => Overlapped(v.by, w.by)

(* An address is handed to one user at a time, also where merchants share  *)
(* a seed, unless the calls that assigned it overlapped.                   *)
OneUserPerAddressUnlessOverlapped ==
  \A v, w \in wallets :
    v # w /\ SameAddress(v, w) /\ v.user # Nobody /\ w.user # Nobody => Overlapped(v.by, w.by)

(* However calls race for rows and keys, a key has one row, and what a     *)
(* call is about to commit is nobody else's.                               *)
DraftsAreExclusive ==
  /\ \A v, w \in wallets : SameKey(v, w) => v = w
  /\ \A c, d \in Calls : c # d /\ draft[c] # NoRow /\ draft[d] # NoRow => ~SameKey(draft[c], draft[d])
  /\ \A c \in Calls : \A w \in wallets :
       draft[c] # NoRow /\ SameKey(draft[c], w) => w.user \in {Nobody, caller[c]}

(* The row lock orders the calls on a wallet, so that a repeated request   *)
(* never opens a second checkout beside the one that is still open.        *)
OneOpenCheckoutPerRequest ==
  \A s, t \in open :
    s # t /\ s.user = t.user /\ SameKey(s, t) /\ s.amount = t.amount => s.ref # t.ref

(* Two calls of a user answered within one cooldown overlapped. *)
CooldownUnlessOverlapped ==
  HasCooldown => \A u \in Users : \A c, d \in recent[u] : c # d => Overlapped(c, d)

(* A call gives up only if each of its attempts lost its index to a call   *)
(* that was answered while it ran.                                         *)
ExhaustedOnlyByOthers ==
  \A c \in Calls : callAt[c] = "exhausted" =>
    Cardinality({w \in wallets : /\ w.merchant = MyMerchant(c)
                                 /\ w.by \in Calls \ heard[c]}) >= MaxCreateAttempts

(* The rows that are somebody's, and the open checkouts, behave like an    *)
(* AddressBook: whatever calls race for, an address never changes hands    *)
(* and no checkout is opened on one that is not its user's.                *)
Owned == {[merchant |-> w.merchant, index |-> w.index, user |-> w.user] :
            w \in {v \in wallets : v.user # Nobody}}

Book == INSTANCE AddressBook WITH owned <- Owned, due <- open

AddressBookKept == Book!Spec

(* No call waits for ever on rows that others hold, so that there is       *)
(* always a time again at which each call that began has ended.            *)
EveryCallEnds ==
  []<>(\A c \in Calls : callAt[c] \notin InTransaction \cup {"create"})
=============================================================================
