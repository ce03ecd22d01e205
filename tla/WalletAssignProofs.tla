------------------------- MODULE WalletAssignProofs -------------------------
(***************************************************************************)
(* Theorems about WalletAssign, for any calls, users, merchants, seeds and *)
(* pools, and any number of attempts.                                      *)
(*                                                                         *)
(* Who may have been given what is settled before a call commits, on reads *)
(* of what others had committed.  SearchInv and AddressInv say that such a *)
(* read stays true of every call that was answered before the reader       *)
(* began: what is committed later comes from a call it overlaps.  DraftInv *)
(* and LockInv tie a draft to the row, or the free key, it is locked on.   *)
(***************************************************************************)
EXTENDS WalletAssign, FiniteSetTheorems, WellFoundedInduction, TLAPS

LEMMA LessIsWellFounded == IsWellFoundedOn({ss \in Nat \X Nat : ss[1] < ss[2]}, Nat)
  BY NatLessThanWellFounded DEF OpToRel

(* A set of indices that has a bound has a largest one. *)
LEMMA MaxOfBounded ==
  ASSUME NEW S \in SUBSET Nat, S # {}, NEW n \in Nat, \A x \in S : x <= n
  PROVE  Max(S) \in S /\ \A x \in S : x <= Max(S)
  <1> DEFINE Less == {ss \in Nat \X Nat : ss[1] < ss[2]}
             Bounds == {b \in Nat : \A x \in S : x <= b}
             P(x) == x \in S /\ \A y \in S : x >= y
  <1>1. Bounds \subseteq Nat /\ Bounds # {} OBVIOUS
  <1>2. PICK b \in Bounds : \A c \in Bounds : ~(<<c, b>> \in Less)
    BY <1>1, LessIsWellFounded, WFMin, Zenon
  <1>3. \A c \in Bounds : c >= b
    <2>1. SUFFICES ASSUME NEW c \in Bounds PROVE c >= b OBVIOUS
    <2>2. c \in Nat /\ b \in Nat /\ <<c, b>> \notin Less BY <1>2
    <2> QED BY <2>2
  <1>4. b \in S
    <2>1. SUFFICES ASSUME b \notin S PROVE FALSE OBVIOUS
    <2>2. \A x \in S : x <= b - 1 BY <1>2, <2>1
    <2>3. b - 1 \in Nat
      <3>1. PICK x \in S : TRUE OBVIOUS
      <3>2. x \in Nat /\ b \in Nat /\ x <= b - 1 BY <1>2, <2>2, <3>1
      <3> QED BY <3>2
    <2> QED BY <1>3, <2>2, <2>3
  <1>5. P(b) BY <1>4, <1>2
  <1>6. P(CHOOSE x : P(x)) BY <1>5
  <1>7. Max(S) = CHOOSE x : P(x) BY Zenon DEF Max
  <1>8. P(Max(S))
    <2> HIDE DEF P
    <2> QED BY <1>6, <1>7
  <1> QED BY <1>8

Searching == {"pick", "derive", "probe", "insert", "repick"}

(* The row of its own a call is about to commit. *)
IsNew(c) == draft[c] # NoRow /\ draft[c] \notin wallets

KeyInv == \A v, w \in wallets : SameKey(v, w) => v = w

RowInv ==
  \A w \in wallets : w.user # Nobody =>
    w.by \in Answered /\ w.user = caller[w.by] /\ w.merchant = MyMerchant(w.by)

HeardInv == \A c \in Calls : heard[c] \subseteq Answered

LockInv ==
  /\ \A c \in Calls : draft[c] # NoRow <=> callAt[c] \in {"session", "commit"}
  /\ \A c, d \in Calls : c # d /\ draft[c] # NoRow /\ draft[d] # NoRow => ~SameKey(draft[c], draft[d])

DraftInv ==
  \A c \in Calls : draft[c] # NoRow =>
    /\ draft[c].user = caller[c] /\ draft[c].merchant = MyMerchant(c)
    /\ IsNew(c) => /\ draft[c].by = c
                   /\ \A w \in wallets : SameKey(w, draft[c]) => w.user = Nobody

SearchInv ==
  \A c \in Calls : callAt[c] \in Searching \/ IsNew(c) =>
    \A w \in wallets : w.user = caller[c] => w.by \notin heard[c]

AddressInv ==
  \A c \in Calls : \A w \in wallets : w.user # Nobody =>
    /\ callAt[c] = "insert" /\ SameAddress(w, Derived(c)) => w.by \notin heard[c]
    /\ IsNew(c) /\ SameAddress(w, draft[c])               => w.by \notin heard[c]

OpenInv == \A t \in open : t.key \in Answered /\ (t.ref \in Calls => t.ref = t.key)

SessionInv ==
  \A c \in Calls : callAt[c] = "commit" =>
    /\ \A s, t \in session[c] : s = t
    /\ \A s \in session[c] : s.key = c =>
         /\ s.user = caller[c] /\ SameKey(s, draft[c])
         /\ s.ref \in Calls => s.ref = c
         /\ \A t \in open : t.user = s.user /\ SameKey(t, s) /\ t.amount = s.amount => t.ref # s.ref

CoolInv ==
  /\ \A u \in Users : \A d \in recent[u] : d \in Answered /\ u \in knownUsers
  /\ \A c \in Calls :
       /\ callAt[c] \in InTransaction => caller[c] \in knownUsers
       /\ HasCooldown /\ callAt[c] \in InTransaction \cup {"create"} =>
            \A d \in recent[caller[c]] : d \notin heard[c]

BoundInv ==
  \A m \in Merchants : \E n \in Nat : \A w \in wallets : w.merchant = m => w.index <= n

IInv ==
  /\ AssignTypeOK /\ KeyInv /\ RowInv /\ HeardInv /\ LockInv /\ DraftInv /\ SearchInv /\ AddressInv
  /\ OpenInv /\ SessionInv /\ CoolInv /\ BoundInv
  /\ OneWalletUnlessOverlapped /\ OneUserPerAddressUnlessOverlapped
  /\ OneOpenCheckoutPerRequest /\ CooldownUnlessOverlapped

LEMMA IInvHoldsAtFirst == AssignInit => IInv
  <1> SUFFICES ASSUME AssignInit PROVE IInv OBVIOUS
  <1> USE AssignConstants, NoRowIsNone
  <1>1. \A w \in wallets : w \in WalletRow /\ w.user = Nobody /\ w.index \in 0 .. LastPoolRow
    BY DEF AssignInit, Merchants, WalletRow
  <1>2. AssignTypeOK
    BY <1>1 DEF AssignInit, AssignTypeOK, InTransaction
  <1>3. KeyInv
    BY DEF AssignInit, KeyInv, SameKey
  <1>4. RowInv /\ HeardInv /\ LockInv /\ DraftInv /\ SearchInv /\ AddressInv
    BY <1>1, <1>2 DEF AssignInit, RowInv, HeardInv, LockInv, DraftInv, SearchInv, AddressInv, IsNew, Searching, AssignTypeOK
  <1>5. OpenInv /\ SessionInv /\ CoolInv /\ OneOpenCheckoutPerRequest /\ CooldownUnlessOverlapped
    BY DEF AssignInit, OpenInv, SessionInv, CoolInv, InTransaction, OneOpenCheckoutPerRequest, CooldownUnlessOverlapped
  <1>6. BoundInv
    BY <1>1 DEF BoundInv
  <1>7. OneWalletUnlessOverlapped /\ OneUserPerAddressUnlessOverlapped
    BY <1>1 DEF OneWalletUnlessOverlapped, OneUserPerAddressUnlessOverlapped
  <1> QED BY <1>2, <1>3, <1>4, <1>5, <1>6, <1>7 DEF IInv

(* What a step that commits nothing leaves alone. *)
LEMMA QuietSteps ==
  ASSUME IInv, UNCHANGED <<wallets, open, recent, caller, heard>>, UNCHANGED knownUsers, 
         Answered' = Answered
  PROVE  /\ KeyInv' /\ RowInv' /\ HeardInv' /\ OpenInv' /\ BoundInv'
         /\ OneWalletUnlessOverlapped' /\ OneUserPerAddressUnlessOverlapped'
         /\ OneOpenCheckoutPerRequest' /\ CooldownUnlessOverlapped'
  BY DEF IInv, KeyInv, RowInv, HeardInv, OpenInv, BoundInv, SameKey, SameAddress, MyMerchant,
     OneWalletUnlessOverlapped, OneUserPerAddressUnlessOverlapped, Overlapped,
     OneOpenCheckoutPerRequest, CooldownUnlessOverlapped

LEMMA SameDrafts ==
  ASSUME IInv, UNCHANGED <<wallets, caller, draft>>,
         \A d \in Calls : callAt'[d] \in {"session", "commit"} <=> callAt[d] \in {"session", "commit"}
  PROVE  LockInv' /\ DraftInv'
  <1>1. LockInv'
    BY DEF IInv, LockInv, SameKey
  <1>2. DraftInv'
    BY DEF IInv, DraftInv, IsNew, MyMerchant, SameKey
  <1> QED BY <1>1, <1>2

LEMMA ReadersKeepIInv ==
  ASSUME IInv, NEW c \in Calls,
         NoDedicated(c) \/ NonePickable(c) \/ ReadMaxIndex(c) \/ ProbeAddress(c) \/ InsertCollides(c)
  PROVE  IInv'
  <1> USE AssignConstants, NoRowIsNone
  <1>1. /\ UNCHANGED <<committed, caller, draft, session, heard>>
        /\ callAt[c] \in Searching \cup {"dedicated"}
        /\ callAt' = [callAt EXCEPT ![c] = callAt'[c]]
        /\ callAt'[c] \in Searching \cup {"exhausted"}
    BY DEF NoDedicated, NonePickable, ReadMaxIndex, ProbeAddress, InsertCollides, Goes, Searching,
           IInv, AssignTypeOK
  <1>2. Answered' = Answered
    BY <1>1 DEF Answered, Searching, IInv, AssignTypeOK
  <1>3. index' \in [Calls -> Nat]
    <2>1. CASE ReadMaxIndex(c)
      <3> DEFINE used == {w.index : w \in {v \in wallets : v.merchant = MyMerchant(c)}}
      <3>1. used \subseteq Nat
        BY DEF IInv, AssignTypeOK, WalletRow
      <3>2. MyMerchant(c) \in Merchants
        BY DEF IInv, AssignTypeOK, MyMerchant, Merchants
      <3>3. PICK n \in Nat : \A i \in used : i <= n
        BY <3>2 DEF IInv, BoundInv
      <3>4. used # {} => Max(used) \in Nat
        BY <3>1, <3>3, MaxOfBounded
      <3>5. index' = [index EXCEPT ![c] = IF used = {} THEN 0 ELSE Max(used) + 1]
        BY <2>1 DEF ReadMaxIndex
      <3> HIDE DEF used
      <3> QED BY <3>4, <3>5 DEF IInv, AssignTypeOK
    <2>2. CASE ProbeAddress(c)
      BY <2>2 DEF ProbeAddress, IInv, AssignTypeOK
    <2> QED BY <2>1, <2>2 DEF NoDedicated, NonePickable, InsertCollides, IInv, AssignTypeOK
  <1>4. lost' \in [Calls -> Nat]
    <2>1. lost \in [Calls -> Nat] BY DEF IInv, AssignTypeOK
    <2>2. lost' = lost \/ lost' = [lost EXCEPT ![c] = lost[c] + 1]
      BY DEF NoDedicated, NonePickable, ReadMaxIndex, ProbeAddress, InsertCollides
    <2> QED BY <2>1, <2>2
  <1>5. AssignTypeOK'
    <2>1. callAt' \in [Calls -> {"idle", "create", "answered", "refused", "failed", "exhausted"}
                                \cup InTransaction]
      BY <1>1 DEF IInv, AssignTypeOK, Searching, InTransaction
    <2> QED BY <1>1, <1>3, <1>4, <2>1 DEF committed, IInv, AssignTypeOK
  <1>6. LockInv' /\ DraftInv'
    <2>1. \A d \in Calls : callAt'[d] \in {"session", "commit"} <=> callAt[d] \in {"session", "commit"}
      BY <1>1 DEF IInv, AssignTypeOK, Searching
    <2> QED BY <1>1, <2>1, SameDrafts DEF committed
  <1>7. SearchInv'
    <2>1. callAt[c] = "dedicated" => \A w \in wallets : w.user # caller[c]
      BY <1>1 DEF Searching, NoDedicated, NonePickable, ReadMaxIndex, ProbeAddress, InsertCollides, Goes,
                  IInv, RowInv, AssignTypeOK, MyMerchant
    <2> QED
      BY <1>1, <2>1 DEF committed, IInv, AssignTypeOK, SearchInv, IsNew
  <1>8. AddressInv'
    <2>1. \A d \in Calls \ {c} : callAt'[d] = callAt[d] /\ Derived(d)' = Derived(d)
      BY <1>1 DEF NoDedicated, NonePickable, ReadMaxIndex, ProbeAddress, InsertCollides, Derived, MyMerchant,
                  IInv, AssignTypeOK
    <2>2. callAt'[c] = "insert" =>
            \A w \in wallets : w.user # Nobody => ~SameAddress(w, Derived(c)) /\ Derived(c)' = Derived(c)
      BY <1>1 DEF NoDedicated, NonePickable, ReadMaxIndex, ProbeAddress, InsertCollides, Goes, Derived, MyMerchant,
                  IInv, AssignTypeOK
    <2> QED
      BY <1>1, <2>1, <2>2 DEF committed, IInv, AddressInv, IsNew, SameAddress
  <1>9. SessionInv' /\ CoolInv'
    BY <1>1, <1>2 DEF committed, IInv, AssignTypeOK, SessionInv, CoolInv, SameKey, Searching, InTransaction
  <1> QED
    BY <1>1, <1>2, <1>5, <1>6, <1>7, <1>8, <1>9, QuietSteps DEF committed, IInv

(* FindUser and CreateUser, before the transaction. *)
LEMMA UserStepsKeepIInv ==
  ASSUME IInv, NEW c \in Calls, FindUser(c) \/ CreateUser(c)
  PROVE  IInv'
  <1> USE AssignConstants, NoRowIsNone
  <1>1. /\ UNCHANGED <<wallets, open, recent, caller, draft, index, lost, session>>
        /\ callAt[c] \in {"idle", "create"}
        /\ callAt' = [callAt EXCEPT ![c] = callAt'[c]]
        /\ callAt'[c] \in {"create", "refused", "failed", "dedicated"}
        /\ knownUsers \subseteq knownUsers' /\ knownUsers' \subseteq Users
    BY DEF FindUser, CreateUser, Goes, committed, IInv, AssignTypeOK
  <1>2. Answered' = Answered
    BY <1>1 DEF Answered, IInv, AssignTypeOK
  <1>3. /\ heard' \in [Calls -> SUBSET Calls]
        /\ \A d \in Calls \ {c} : heard'[d] = heard[d]
        /\ heard'[c] = heard[c] \/ heard'[c] = Answered
    BY DEF FindUser, CreateUser, Answered, IInv, AssignTypeOK
  <1>4. AssignTypeOK'
    <2>1. callAt' \in [Calls -> {"idle", "create", "answered", "refused", "failed", "exhausted"}
                                \cup InTransaction]
      BY <1>1 DEF IInv, AssignTypeOK, InTransaction
    <2> QED BY <1>1, <1>3, <2>1 DEF IInv, AssignTypeOK
  <1>5. LockInv' /\ DraftInv'
    <2>1. \A d \in Calls : callAt'[d] \in {"session", "commit"} <=> callAt[d] \in {"session", "commit"}
      BY <1>1 DEF IInv, AssignTypeOK
    <2> QED BY <1>1, <2>1, SameDrafts
  <1>6. c \notin Answered /\ draft[c] = NoRow /\ \A d \in Calls \ {c} : callAt'[d] = callAt[d]
    BY <1>1 DEF Answered, IInv, AssignTypeOK, LockInv
  <1>7. KeyInv' /\ RowInv' /\ HeardInv' /\ OpenInv' /\ BoundInv'
    BY <1>1, <1>2, <1>3 DEF IInv, KeyInv, RowInv, HeardInv, OpenInv, BoundInv, SameKey, MyMerchant
  <1>8. SearchInv' /\ AddressInv'
    BY <1>1, <1>3, <1>6 DEF IInv, SearchInv, AddressInv, IsNew, SameAddress, Derived, MyMerchant, Searching
  <1>9. SessionInv'
    BY <1>1, <1>6 DEF IInv, SessionInv, SameKey
  <1>10. CoolInv'
    <2>1. \A d \in Calls \ {c} :
            /\ callAt'[d] \in InTransaction => caller'[d] \in knownUsers'
            /\ HasCooldown /\ callAt'[d] \in InTransaction \cup {"create"} =>
                 \A e \in recent'[caller'[d]] : e \notin heard'[d]
      BY <1>1, <1>3, <1>6 DEF IInv, CoolInv
    <2>2. callAt'[c] = "dedicated" => caller[c] \in knownUsers'
      <3>1. CASE FindUser(c)
        BY <3>1 DEF FindUser, Goes, committed, IInv, AssignTypeOK
      <3>2. CASE CreateUser(c)
        BY <3>2 DEF CreateUser, Goes, IInv, AssignTypeOK
      <3> QED BY <3>1, <3>2
    <2>3. HasCooldown /\ callAt'[c] \in {"create", "dedicated"} => \A e \in recent[caller[c]] : e \notin heard'[c]
      BY <1>1 DEF FindUser, CreateUser, Goes, IInv, AssignTypeOK, CoolInv
    <2> QED
      BY <1>1, <1>2, <2>1, <2>2, <2>3 DEF IInv, CoolInv, InTransaction
  <1>11. /\ OneWalletUnlessOverlapped' /\ OneUserPerAddressUnlessOverlapped'
         /\ OneOpenCheckoutPerRequest' /\ CooldownUnlessOverlapped'
    <2>1. \A d \in Answered : heard'[d] = heard[d]
      BY <1>3, <1>6 DEF Answered
    <2>2. OneWalletUnlessOverlapped' /\ OneUserPerAddressUnlessOverlapped'
      <3>1. \A w \in wallets : w.user # Nobody => heard'[w.by] = heard[w.by]
        BY <2>1 DEF IInv, RowInv
      <3>2. OneWalletUnlessOverlapped'
        BY <1>1, <3>1 DEF IInv, OneWalletUnlessOverlapped, Overlapped
      <3> QED
        BY <1>1, <3>1, <3>2 DEF IInv, OneUserPerAddressUnlessOverlapped, Overlapped, SameAddress
    <2>3. OneOpenCheckoutPerRequest'
      BY <1>1 DEF IInv, OneOpenCheckoutPerRequest, SameKey
    <2>4. CooldownUnlessOverlapped'
      BY <1>1, <2>1 DEF IInv, CoolInv, CooldownUnlessOverlapped, Overlapped
    <2> QED BY <2>2, <2>3, <2>4
  <1> QED
    BY <1>4, <1>5, <1>7, <1>8, <1>9, <1>10, <1>11 DEF IInv

(* The steps after which a call holds a row. *)
LEMMA DraftsKeepIInv ==
  ASSUME IInv, NEW c \in Calls, UseDedicated(c) \/ PickFree(c) \/ InsertWallet(c)
  PROVE  IInv'
  <1> USE AssignConstants, NoRowIsNone
  <1>1. /\ UNCHANGED <<committed, caller, index, lost, session, heard>>
        /\ callAt[c] \in {"dedicated", "pick", "repick", "insert"}
        /\ callAt' = [callAt EXCEPT ![c] = "session"]
    BY DEF UseDedicated, PickFree, InsertWallet, Goes
  <1>2. Answered' = Answered /\ caller[c] \in Users /\ MyMerchant(c) \in Merchants
    BY <1>1 DEF Answered, IInv, AssignTypeOK, MyMerchant, Merchants
  <1>3. PICK w \in WalletRow :
          /\ draft' = [draft EXCEPT ![c] = w]
          /\ w.user = caller[c] /\ w.merchant = MyMerchant(c)
          /\ \A d \in Calls \ {c} : draft[d] # NoRow => ~SameKey(draft[d], w)
          /\ \/ w \in wallets
             \/ /\ w.by = c /\ callAt[c] \in Searching
                /\ \A v \in wallets : SameKey(v, w) => v.user = Nobody
                /\ \A v \in wallets : v.user # Nobody /\ SameAddress(v, w) => v.by \notin heard[c]
    <2>1. CASE UseDedicated(c)
      BY <2>1 DEF UseDedicated, Locked, IInv, AssignTypeOK
    <2>2. CASE PickFree(c)
      <3>1. PICK v \in Pickable(c) : draft' = [draft EXCEPT ![c] = [v EXCEPT !.user = caller[c], !.by = c]]
        BY <2>2 DEF PickFree
      <3> DEFINE w == [v EXCEPT !.user = caller[c], !.by = c]
      <3>2. /\ v \in wallets /\ v \in WalletRow /\ v.merchant = MyMerchant(c) /\ v.user = Nobody
            /\ ~Locked(c, v)
            /\ \A o \in wallets : SameAddress(o, v) /\ o # v => o.user = Nobody
        BY <3>1 DEF Pickable, IInv, AssignTypeOK
      <3>3. w \in WalletRow /\ w.user = caller[c] /\ w.by = c /\ w.merchant = v.merchant /\ w.index = v.index
        BY <1>2, <3>2 DEF WalletRow
      <3> HIDE DEF w
      <3>4. \A d \in Calls \ {c} : draft[d] # NoRow => ~SameKey(draft[d], w)
        BY <3>2, <3>3 DEF Locked, SameKey
      <3>5. \A o \in wallets : SameAddress(o, w) \/ SameKey(o, w) => o.user = Nobody
        BY <3>2, <3>3 DEF SameKey, SameAddress
      <3>6. callAt[c] \in Searching
        BY <2>2 DEF PickFree, Goes, Searching
      <3> QED BY <3>1, <3>2, <3>3, <3>4, <3>5, <3>6 DEF w
    <2>3. CASE InsertWallet(c)
      <3>1. Derived(c) \in WalletRow /\ Derived(c).user = caller[c] /\ Derived(c).merchant = MyMerchant(c)
            /\ Derived(c).by = c
        BY <1>2 DEF Derived, WalletRow, IInv, AssignTypeOK
      <3>2. callAt[c] = "insert" /\ draft' = [draft EXCEPT ![c] = Derived(c)]
            /\ ~Locked(c, Derived(c)) /\ \A v \in wallets : ~SameKey(v, Derived(c))
        BY <2>3 DEF InsertWallet, Goes
      <3>3. \A d \in Calls \ {c} : draft[d] # NoRow => ~SameKey(draft[d], Derived(c))
        BY <3>2 DEF Locked
      <3>4. \A v \in wallets : v.user # Nobody /\ SameAddress(v, Derived(c)) => v.by \notin heard[c]
        BY <3>2 DEF IInv, AddressInv
      <3> QED BY <3>1, <3>2, <3>3, <3>4 DEF Searching
    <2> QED BY <2>1, <2>2, <2>3
  <1>4. /\ draft' \in [Calls -> WalletRow \cup {NoRow}] /\ draft'[c] = w
        /\ \A d \in Calls \ {c} : draft'[d] = draft[d] /\ callAt'[d] = callAt[d]
        /\ callAt'[c] = "session"
    BY <1>1, <1>3 DEF IInv, AssignTypeOK
  <1>5. AssignTypeOK'
    BY <1>1, <1>4 DEF committed, IInv, AssignTypeOK, InTransaction
  <1>6. LockInv'
    BY <1>1, <1>3, <1>4 DEF IInv, LockInv, SameKey
  <1>7. DraftInv'
    BY <1>1, <1>3, <1>4 DEF committed, IInv, DraftInv, IsNew, MyMerchant, SameKey
  <1>8. SearchInv'
    BY <1>1, <1>3, <1>4 DEF committed, IInv, SearchInv, IsNew, Searching
  <1>9. AddressInv'
    BY <1>1, <1>3, <1>4 DEF committed, IInv, AddressInv, IsNew, SameAddress, Derived, MyMerchant
  <1>10. SessionInv'
    BY <1>1, <1>4 DEF committed, IInv, SessionInv, SameKey
  <1>11. CoolInv'
    BY <1>1, <1>2, <1>4 DEF committed, IInv, CoolInv, InTransaction
  <1> QED
    BY <1>1, <1>2, <1>5, <1>6, <1>7, <1>8, <1>9, <1>10, <1>11, QuietSteps DEF committed, IInv

LEMMA FindSessionKeepsIInv ==
  ASSUME IInv, NEW c \in Calls, FindSession(c)
  PROVE  IInv'
  <1> USE AssignConstants, NoRowIsNone
  <1>1. /\ UNCHANGED <<committed, caller, draft, index, lost, heard>>
        /\ callAt[c] = "session" /\ callAt' = [callAt EXCEPT ![c] = "commit"]
    BY DEF FindSession, Goes
  <1>2. /\ Answered' = Answered /\ callAt'[c] = "commit"
        /\ \A d \in Calls \ {c} : callAt'[d] = callAt[d]
    BY <1>1 DEF Answered, IInv, AssignTypeOK
  <1>3. draft[c] \in WalletRow
    BY <1>1 DEF IInv, AssignTypeOK, LockInv
  <1> DEFINE new == [user |-> caller[c], merchant |-> draft[c].merchant, index |-> draft[c].index,
                     ref |-> IF Ask[c].ref = NoRef THEN c ELSE Ask[c].ref,
                     amount |-> Ask[c].amount, key |-> c]
  <1>4. PICK s \in Session :
          /\ session' = [session EXCEPT ![c] = {s}]
          /\ \/ s \in open
             \/ s = new /\ Reusable(c) = {}
    <2>1. new \in Session
      BY <1>3 DEF Session, WalletRow, IInv, AssignTypeOK
    <2>2. open \subseteq Session
      BY DEF IInv, AssignTypeOK
    <2>3. CASE \E s \in Reusable(c) : session' = [session EXCEPT ![c] = {s}]
      BY <2>2, <2>3 DEF Reusable
    <2>4. CASE Reusable(c) = {} /\ session' = [session EXCEPT ![c] = {new}]
      BY <2>1, <2>4
    <2> QED BY <2>3, <2>4 DEF FindSession
  <1>5. AssignTypeOK'
    BY <1>1, <1>4 DEF committed, IInv, AssignTypeOK, InTransaction
  <1>6. LockInv' /\ DraftInv'
    <2>1. \A d \in Calls : callAt'[d] \in {"session", "commit"} <=> callAt[d] \in {"session", "commit"}
      BY <1>1, <1>2
    <2> QED BY <1>1, <2>1, SameDrafts DEF committed
  <1>7. SearchInv' /\ AddressInv'
    BY <1>1, <1>2 DEF committed, IInv, SearchInv, AddressInv, IsNew, SameAddress, Derived, MyMerchant, Searching
  <1>8. SessionInv'
    <2>1. session'[c] = {s} /\ \A d \in Calls \ {c} : session'[d] = session[d]
      BY <1>4 DEF IInv, AssignTypeOK
    <2>2. s.key = c => s = new /\ Reusable(c) = {}
      BY <1>1, <1>4 DEF IInv, OpenInv, Answered
    <2>3. ASSUME s.key = c
          PROVE  /\ s.user = caller[c] /\ SameKey(s, draft[c])
                 /\ s.ref \in Calls => s.ref = c
                 /\ \A t \in open : t.user = s.user /\ SameKey(t, s) /\ t.amount = s.amount => t.ref # s.ref
      <3>1. s = new /\ Reusable(c) = {} BY <2>2, <2>3
      <3>2. /\ s.user = caller[c] /\ s.merchant = draft[c].merchant /\ s.index = draft[c].index
            /\ s.amount = Ask[c].amount /\ s.ref = IF Ask[c].ref = NoRef THEN c ELSE Ask[c].ref
        BY <3>1
      <3>3. s.ref \in Calls => s.ref = c
        BY <3>2
      <3>4. ASSUME NEW t \in open, t.user = s.user, SameKey(t, s), t.amount = s.amount, t.ref = s.ref
            PROVE  FALSE
        <4>1. Ask[c].ref # NoRef => t \in Reusable(c)
          BY <3>2, <3>4 DEF Reusable, SameKey
        <4>2. Ask[c].ref = NoRef => t.ref = c
          BY <3>2, <3>4
        <4>3. Ask[c].ref = NoRef => t.key = c /\ c \in Answered
          BY <4>2 DEF IInv, OpenInv
        <4> QED BY <1>1, <3>1, <4>1, <4>3 DEF Answered
      <3> QED BY <3>2, <3>3, <3>4 DEF SameKey
    <2> QED
      BY <1>1, <1>2, <2>1, <2>3 DEF committed, IInv, SessionInv, SameKey
  <1>9. CoolInv'
    BY <1>1, <1>2 DEF committed, IInv, CoolInv, InTransaction
  <1> QED
    BY <1>1, <1>2, <1>5, <1>6, <1>7, <1>8, <1>9, QuietSteps DEF committed, IInv

LEMMA AbortKeepsIInv ==
  ASSUME IInv, NEW c \in Calls, AbortCall(c)
  PROVE  IInv'
  <1> USE AssignConstants, NoRowIsNone
  <1>1. /\ UNCHANGED <<committed, caller, index, lost, heard>>
        /\ callAt' = [callAt EXCEPT ![c] = "failed"] /\ callAt[c] \in InTransaction
        /\ draft' = [draft EXCEPT ![c] = NoRow] /\ session' = [session EXCEPT ![c] = {}]
    BY DEF AbortCall
  <1>2. /\ Answered' = Answered /\ callAt'[c] = "failed" /\ draft'[c] = NoRow
        /\ \A d \in Calls \ {c} : callAt'[d] = callAt[d] /\ draft'[d] = draft[d] /\ session'[d] = session[d]
    BY <1>1 DEF Answered, IInv, AssignTypeOK, InTransaction
  <1>3. AssignTypeOK'
    BY <1>1 DEF committed, IInv, AssignTypeOK
  <1>4. LockInv' /\ DraftInv'
    BY <1>1, <1>2 DEF committed, IInv, LockInv, DraftInv, IsNew, MyMerchant, SameKey
  <1>5. SearchInv' /\ AddressInv'
    BY <1>1, <1>2 DEF committed, IInv, SearchInv, AddressInv, IsNew, SameAddress, Derived, MyMerchant, Searching
  <1>6. SessionInv' /\ CoolInv'
    BY <1>1, <1>2 DEF committed, IInv, SessionInv, CoolInv, SameKey, InTransaction
  <1> QED
    BY <1>1, <1>2, <1>3, <1>4, <1>5, <1>6, QuietSteps DEF committed, IInv

(* What goes on outside the calls. *)
LEMMA OthersKeepIInv ==
  ASSUME IInv, (\E s \in open : EndSession(s)) \/ (\E u \in Users : Cool(u))
  PROVE  IInv'
  <1> USE AssignConstants, NoRowIsNone
  <1>1. /\ UNCHANGED <<knownUsers, wallets, caller, callAt, draft, index, lost, session, heard>>
        /\ open' \subseteq open /\ recent' \in [Users -> SUBSET Calls]
        /\ \A u \in Users : recent'[u] \subseteq recent[u]
    BY DEF EndSession, Cool, IInv, AssignTypeOK
  <1>2. AssignTypeOK'
    BY <1>1 DEF IInv, AssignTypeOK
  <1>3. KeyInv' /\ RowInv' /\ HeardInv' /\ BoundInv' /\ LockInv' /\ DraftInv'
    BY <1>1 DEF IInv, KeyInv, RowInv, HeardInv, BoundInv, LockInv, DraftInv, IsNew, MyMerchant, SameKey, Answered
  <1>4. SearchInv' /\ AddressInv'
    BY <1>1 DEF IInv, SearchInv, AddressInv, IsNew, SameAddress, Derived, MyMerchant
  <1>5. OpenInv' /\ SessionInv' /\ CoolInv'
    BY <1>1 DEF IInv, AssignTypeOK, OpenInv, SessionInv, CoolInv, SameKey, Answered
  <1>6. OneWalletUnlessOverlapped' /\ OneUserPerAddressUnlessOverlapped'
    BY <1>1 DEF IInv, OneWalletUnlessOverlapped, OneUserPerAddressUnlessOverlapped, Overlapped, SameAddress
  <1>7. OneOpenCheckoutPerRequest' /\ CooldownUnlessOverlapped'
    BY <1>1 DEF IInv, OneOpenCheckoutPerRequest, CooldownUnlessOverlapped, Overlapped, SameKey
  <1> QED BY <1>2, <1>3, <1>4, <1>5, <1>6, <1>7 DEF IInv

LEMMA CommitKeepsIInv ==
  ASSUME IInv, NEW c \in Calls, CommitCall(c)
  PROVE  IInv'
  <1> USE AssignConstants, NoRowIsNone
  <1> DEFINE r == draft[c]
  <1>1. /\ UNCHANGED <<knownUsers, caller, index, lost, session, heard>>
        /\ callAt[c] = "commit" /\ callAt' = [callAt EXCEPT ![c] = "answered"]
        /\ draft' = [draft EXCEPT ![c] = NoRow]
        /\ recent' = [recent EXCEPT ![caller[c]] = @ \cup {c}]
        /\ open' = open \cup {s \in session[c] : s.key = c}
        /\ wallets' = {w \in wallets : ~SameKey(w, r)} \cup {r}
    BY DEF CommitCall, Goes
  <1>2. /\ callAt'[c] = "answered" /\ draft'[c] = NoRow
        /\ \A d \in Calls \ {c} : callAt'[d] = callAt[d] /\ draft'[d] = draft[d]
        /\ Answered' = Answered \cup {c} /\ c \notin Answered
    BY <1>1 DEF Answered, IInv, AssignTypeOK
  <1>3. /\ r \in WalletRow /\ r # NoRow /\ r.user = caller[c] /\ r.merchant = MyMerchant(c)
        /\ caller[c] \in Users /\ r.user # Nobody
    BY <1>1 DEF IInv, AssignTypeOK, LockInv, DraftInv
  <1>4. r \in wallets \/ (r.by = c /\ IsNew(c))
    BY <1>3 DEF IInv, DraftInv, IsNew
  <1>5. /\ \A w \in wallets' : w \in wallets \/ (w = r /\ r.by = c /\ IsNew(c))
        /\ r \in wallets' /\ \A w \in wallets' : w # r => w \in wallets /\ ~SameKey(w, r)
        /\ \A w \in wallets : ~SameKey(w, r) => w \in wallets'
    BY <1>1, <1>4
  <1> HIDE DEF r
  <1>6. \A d \in Calls \ {c} : IsNew(d)' => IsNew(d)
    BY <1>2, <1>3, <1>5 DEF IsNew, IInv, LockInv, r
  <1>7. \A d \in Calls : c \notin heard[d]
    BY <1>2 DEF IInv, HeardInv
  <1>8. AssignTypeOK'
    <2>1. open' \subseteq Session /\ wallets' \subseteq WalletRow
      BY <1>1, <1>3, <1>5 DEF IInv, AssignTypeOK
    <2>2. recent' \in [Users -> SUBSET Calls]
      BY <1>1, <1>3 DEF IInv, AssignTypeOK
    <2> QED BY <1>1, <2>1, <2>2 DEF IInv, AssignTypeOK
  <1>9. KeyInv'
    BY <1>5 DEF IInv, KeyInv, SameKey
  <1>10. RowInv'
    BY <1>1, <1>2, <1>3, <1>5 DEF IInv, RowInv, MyMerchant
  <1>11. HeardInv'
    BY <1>1, <1>2 DEF IInv, HeardInv
  <1>12. LockInv'
    BY <1>1, <1>2 DEF IInv, LockInv, SameKey
  <1>13. DraftInv'
    <2>1. ASSUME NEW d \in Calls \ {c}, IsNew(d)', NEW w \in wallets', SameKey(w, draft[d])
          PROVE  w.user = Nobody
      <3>1. draft[d] # NoRow BY <1>2, <2>1 DEF IsNew
      <3>2. w # r BY <1>3, <2>1, <3>1 DEF IInv, LockInv, SameKey, r
      <3> QED BY <1>5, <1>6, <2>1, <3>1, <3>2 DEF IInv, DraftInv
    <2> QED
      BY <1>1, <1>2, <1>6, <2>1 DEF IInv, DraftInv, IsNew, MyMerchant, SameKey
  <1>14. SearchInv'
    <2>1. \A d \in Calls : callAt'[d] \in Searching \/ IsNew(d)' => d # c /\ (callAt[d] \in Searching \/ IsNew(d))
      BY <1>2, <1>6 DEF IsNew, Searching
    <2>2. ASSUME NEW d \in Calls, callAt[d] \in Searching \/ IsNew(d), NEW w \in wallets', w.user = caller[d]
          PROVE  w.by \notin heard[d]
      BY <1>5, <1>7, <2>2 DEF IInv, SearchInv
    <2> QED BY <1>1, <2>1, <2>2 DEF SearchInv
  <1>15. AddressInv'
    <2>1. \A d \in Calls : /\ callAt'[d] = "insert" => callAt[d] = "insert"
                           /\ IsNew(d)' => IsNew(d) /\ draft'[d] = draft[d]
                           /\ Derived(d)' = Derived(d)
      BY <1>1, <1>2, <1>6 DEF IsNew, Derived, MyMerchant
    <2>2. ASSUME NEW d \in Calls, NEW w \in wallets', w.user # Nobody
          PROVE  /\ callAt[d] = "insert" /\ SameAddress(w, Derived(d)) => w.by \notin heard[d]
                 /\ IsNew(d) /\ SameAddress(w, draft[d])               => w.by \notin heard[d]
      BY <1>5, <1>7, <2>2 DEF IInv, AddressInv
    <2> QED BY <1>1, <2>1, <2>2 DEF AddressInv, SameAddress
  <1>16. OpenInv'
    BY <1>1, <1>2 DEF IInv, OpenInv, SessionInv
  <1>17. SessionInv'
    <2>1. ASSUME NEW d \in Calls, d # c, callAt[d] = "commit", NEW s \in session[d], s.key = d,
                 NEW t \in session[c], t.key = c, SameKey(t, s)
          PROVE  FALSE
      <3>1. SameKey(s, draft[d]) /\ SameKey(t, r)
        BY <1>1, <2>1 DEF IInv, SessionInv, r
      <3>2. draft[d] # NoRow BY <2>1 DEF IInv, LockInv
      <3> QED BY <1>3, <2>1, <3>1, <3>2 DEF IInv, LockInv, SameKey, r
    <2> QED
      BY <1>1, <1>2, <2>1 DEF IInv, SessionInv, SameKey
  <1>18. CoolInv'
    <2>1. \A u \in Users : \A d \in recent'[u] : d \in recent[u] \/ (d = c /\ u = caller[c])
      BY <1>1, <1>3 DEF IInv, AssignTypeOK
    <2>2. caller[c] \in knownUsers
      BY <1>1 DEF IInv, CoolInv, InTransaction
    <2>3. \A d \in Calls : caller[d] \in Users
      BY DEF IInv, AssignTypeOK
    <2> QED
      BY <1>1, <1>2, <1>7, <2>1, <2>2, <2>3 DEF IInv, CoolInv, InTransaction
  <1>19. BoundInv'
    <2>1. SUFFICES ASSUME NEW m \in Merchants
                   PROVE  \E n \in Nat : \A w \in wallets' : w.merchant = m => w.index <= n
      BY DEF BoundInv
    <2>2. PICK n \in Nat : \A w \in wallets : w.merchant = m => w.index <= n
      BY DEF IInv, BoundInv
    <2>3. \A w \in wallets' : w.index \in Nat
      BY <1>8 DEF AssignTypeOK, WalletRow
    <2>4. r.index \in Nat BY <1>3 DEF WalletRow
    <2>5. CASE r.index <= n BY <1>5, <2>2, <2>5
    <2>6. CASE r.index > n  BY <1>5, <2>2, <2>3, <2>4, <2>6
    <2> QED BY <2>4, <2>5, <2>6
  <1>20. OneWalletUnlessOverlapped'
    <2>1. ASSUME NEW w \in wallets, w.user = r.user, IsNew(c)
          PROVE  w.by \notin heard[c] /\ c \notin heard[w.by]
      <3>1. w.by \in Calls BY <1>3, <2>1 DEF IInv, RowInv, Answered
      <3> QED BY <1>3, <1>7, <2>1, <3>1 DEF IInv, SearchInv
    <2> QED
      BY <1>1, <1>3, <1>5, <2>1 DEF IInv, OneWalletUnlessOverlapped, Overlapped
  <1>21. OneUserPerAddressUnlessOverlapped'
    <2>1. ASSUME NEW w \in wallets, w.user # Nobody, SameAddress(w, r), IsNew(c)
          PROVE  w.by \notin heard[c] /\ c \notin heard[w.by]
      <3>1. w.by \in Calls BY <2>1 DEF IInv, RowInv, Answered
      <3> QED BY <1>7, <2>1, <3>1 DEF IInv, AddressInv, r
    <2> QED
      BY <1>1, <1>3, <1>5, <2>1 DEF IInv, OneUserPerAddressUnlessOverlapped, Overlapped, SameAddress
  <1>22. OneOpenCheckoutPerRequest'
    BY <1>1 DEF IInv, SessionInv, OneOpenCheckoutPerRequest, SameKey
  <1>23. CooldownUnlessOverlapped'
    <2>1. \A u \in Users : \A d \in recent'[u] : d \in recent[u] \/ (d = c /\ u = caller[c])
      BY <1>1, <1>3 DEF IInv, AssignTypeOK
    <2>2. ASSUME HasCooldown, NEW d \in recent[caller[c]]
          PROVE  d \notin heard[c] /\ c \notin heard[d]
      <3>1. d \in Calls BY <1>3 DEF IInv, AssignTypeOK
      <3> QED BY <1>1, <1>7, <2>2, <3>1 DEF IInv, CoolInv, InTransaction
    <2> QED
      BY <1>1, <2>1, <2>2 DEF IInv, CooldownUnlessOverlapped, Overlapped
  <1> QED
    BY <1>8, <1>9, <1>10, <1>11, <1>12, <1>13, <1>14, <1>15, <1>16, <1>17, <1>18, <1>19, <1>20,
       <1>21, <1>22, <1>23 DEF IInv

LEMMA IInvIsKept == IInv /\ [AssignNext]_assignVars => IInv'
  <1> SUFFICES ASSUME IInv, [AssignNext]_assignVars PROVE IInv'
    OBVIOUS
  <1>1. ASSUME NEW c \in Calls, CallStep(c) \/ AbortCall(c) PROVE IInv'
    BY <1>1, ReadersKeepIInv, UserStepsKeepIInv, DraftsKeepIInv, FindSessionKeepsIInv,
       CommitKeepsIInv, AbortKeepsIInv DEF CallStep
  <1>2. CASE UNCHANGED assignVars
    <2>1. Answered' = Answered BY <1>2 DEF assignVars, committed, Answered
    <2>2. AssignTypeOK' /\ LockInv' /\ DraftInv'
      BY <1>2 DEF assignVars, committed, IInv, AssignTypeOK, LockInv, DraftInv, IsNew, MyMerchant, SameKey
    <2>3. SearchInv' /\ AddressInv' /\ SessionInv' /\ CoolInv'
      BY <1>2, <2>1 DEF assignVars, committed, IInv, SearchInv, AddressInv, SessionInv, CoolInv, IsNew,
                        MyMerchant, SameKey, SameAddress, Derived
    <2> QED BY <1>2, <2>1, <2>2, <2>3, QuietSteps DEF assignVars, committed, IInv
  <1> QED
    BY <1>1, <1>2, OthersKeepIInv DEF AssignNext

LEMMA IInvCorrect == AssignSpec => []IInv
  <1> QED BY IInvHoldsAtFirst, IInvIsKept, PTL DEF AssignSpec

(* Rows, drafts, sessions and indices keep their types: the next index of  *)
(* a merchant is always a number, whatever rows it has.                    *)
THEOREM AssignTypeCorrect == AssignSpec => []AssignTypeOK
  <1>1. IInv => AssignTypeOK BY DEF IInv
  <1> QED BY <1>1, IInvCorrect, PTL

(* Any number of calls of a user, one after another, get it one wallet.    *)
THEOREM OneWalletPerUser == AssignSpec => []OneWalletUnlessOverlapped
  <1>1. IInv => OneWalletUnlessOverlapped BY DEF IInv
  <1> QED BY <1>1, IInvCorrect, PTL

(* Merchants that share a seed hand an address out once, but for calls     *)
(* that overlap.                                                           *)
THEOREM OneUserPerAddress == AssignSpec => []OneUserPerAddressUnlessOverlapped
  <1>1. IInv => OneUserPerAddressUnlessOverlapped BY DEF IInv
  <1> QED BY <1>1, IInvCorrect, PTL

(* The key (merchant, address) and the row locks keep drafts apart.        *)
THEOREM DraftsAlwaysExclusive == AssignSpec => []DraftsAreExclusive
  <1>1. IInv => DraftsAreExclusive
    <2> SUFFICES ASSUME IInv PROVE DraftsAreExclusive OBVIOUS
    <2>1. ASSUME NEW c \in Calls, NEW w \in wallets, draft[c] # NoRow, SameKey(draft[c], w)
          PROVE  w.user \in {Nobody, caller[c]}
      <3>1. CASE draft[c] \in wallets BY <2>1, <3>1 DEF IInv, KeyInv, DraftInv
      <3>2. CASE IsNew(c) BY <2>1, <3>2 DEF IInv, DraftInv, SameKey
      <3> QED BY <2>1, <3>1, <3>2 DEF IsNew
    <2> QED BY <2>1 DEF IInv, KeyInv, LockInv, DraftsAreExclusive
  <1> QED BY <1>1, IInvCorrect, PTL

(* A repeated request never opens a second checkout.                       *)
THEOREM OneOpenCheckoutAlways == AssignSpec => []OneOpenCheckoutPerRequest
  <1>1. IInv => OneOpenCheckoutPerRequest BY DEF IInv
  <1> QED BY <1>1, IInvCorrect, PTL

(* Only calls that overlap are answered within one cooldown.               *)
THEOREM CooldownAlways == AssignSpec => []CooldownUnlessOverlapped
  <1>1. IInv => CooldownUnlessOverlapped BY DEF IInv
  <1> QED BY <1>1, IInvCorrect, PTL

-----------------------------------------------------------------------------
(* Why a call gives up.  Its rivals are the rows its merchant was given by *)
(* calls answered since it began.  Each index it derives is above every    *)
(* row there was, so that whatever it then finds there is a rival's, and   *)
(* the next index is above that one too: no two attempts lose to one row.  *)
Rivals(c) == {w \in wallets : w.merchant = MyMerchant(c) /\ w.by \in Calls \ heard[c]}

Below(c) == {w \in Rivals(c) : w.index < index[c]}

LostTo(c) ==
  /\ IsFiniteSet(Rivals(c))
  /\ callAt[c] = "idle" => lost[c] = 0
  /\ lost[c] <= Cardinality(Rivals(c))
  /\ callAt[c] \in {"probe", "insert"} =>
       /\ lost[c] <= Cardinality(Below(c))
       /\ \A w \in wallets : w.merchant = MyMerchant(c) /\ w.index >= index[c] => w \in Rivals(c)
  /\ callAt[c] = "exhausted" => lost[c] >= MaxCreateAttempts

(* A row nobody is assigned was assigned by no call. *)
FreeInv == \A w \in wallets : w.user = Nobody => w.by = Nobody

RivalInv == FreeInv /\ \A c \in Calls : LostTo(c)

LEMMA RivalInvHoldsAtFirst == AssignInit => RivalInv
  <1> SUFFICES ASSUME AssignInit PROVE RivalInv OBVIOUS
  <1> USE AssignConstants
  <1>1. \A w \in wallets : w.user = Nobody /\ w.by = Nobody BY DEF AssignInit
  <1>2. ASSUME NEW c \in Calls PROVE LostTo(c)
    <2>1. Rivals(c) = {} BY <1>1 DEF Rivals
    <2>2. callAt[c] = "idle" /\ lost[c] = 0 BY DEF AssignInit
    <2> QED BY <2>1, <2>2, FS_EmptySet DEF LostTo
  <1> QED BY <1>1, <1>2 DEF RivalInv, FreeInv

(* A count does not fall as its set grows. *)
LEMMA CountGrows ==
  ASSUME NEW T, IsFiniteSet(T), NEW S \in SUBSET T, NEW n \in Nat, n <= Cardinality(S)
  PROVE  n <= Cardinality(T)
  <1>1. IsFiniteSet(S) /\ Cardinality(S) <= Cardinality(T) BY FS_Subset
  <1>2. Cardinality(S) \in Nat /\ Cardinality(T) \in Nat BY <1>1, FS_CardinalityType
  <1> QED BY <1>1, <1>2

(* A step of another call, and one of its own that loses no attempt. *)
LEMMA OthersLeaveLostTo ==
  ASSUME NEW c \in Calls, LostTo(c), UNCHANGED <<wallets, caller, heard>>,
         lost'[c] = lost[c],
         \/ callAt'[c] = callAt[c] /\ index'[c] = index[c]
         \/ callAt'[c] \notin {"idle", "probe", "insert", "exhausted"}
  PROVE  LostTo(c)'
  <1>1. Rivals(c)' = Rivals(c) BY DEF Rivals, MyMerchant
  <1>2. CASE callAt'[c] = callAt[c] /\ index'[c] = index[c]
    <2>1. Below(c)' = Below(c) BY <1>1, <1>2 DEF Below
    <2> QED BY <1>1, <1>2, <2>1 DEF LostTo, MyMerchant
  <1>3. CASE callAt'[c] \notin {"idle", "probe", "insert", "exhausted"}
    BY <1>1, <1>3 DEF LostTo
  <1> QED BY <1>2, <1>3

LEMMA FindUserKeepsLostTo ==
  ASSUME IInv, NEW c \in Calls, LostTo(c), FindUser(c)
  PROVE  LostTo(c)'
  <1>1. callAt[c] = "idle" /\ lost[c] = 0 /\ lost' = lost
    BY DEF FindUser, Goes, LostTo
  <1>2. callAt'[c] \in {"create", "refused", "dedicated"}
    BY DEF FindUser, Goes, IInv, AssignTypeOK
  <1>3. heard[c] \subseteq heard'[c]
    BY DEF FindUser, IInv, HeardInv, AssignTypeOK
  <1>4. Rivals(c)' \subseteq Rivals(c)
    BY <1>3 DEF FindUser, committed, Rivals, MyMerchant
  <1>5. IsFiniteSet(Rivals(c)') BY <1>4, FS_Subset DEF LostTo
  <1>6. Cardinality(Rivals(c)') \in Nat BY <1>5, FS_CardinalityType
  <1>7. lost'[c] = 0 /\ 0 <= Cardinality(Rivals(c)') BY <1>1, <1>6
  <1>8. callAt'[c] \notin {"idle", "probe", "insert", "exhausted"} BY <1>2
  <1> QED BY <1>5, <1>7, <1>8 DEF LostTo

(* The next index is above every row of the merchant. *)
LEMMA ReadMaxIndexKeepsLostTo ==
  ASSUME IInv, NEW c \in Calls, LostTo(c), ReadMaxIndex(c)
  PROVE  LostTo(c)'
  <1> DEFINE used == {w.index : w \in {v \in wallets : v.merchant = MyMerchant(c)}}
  <1>1. /\ UNCHANGED <<wallets, caller, heard, lost>>
        /\ callAt'[c] = "probe"
    BY DEF ReadMaxIndex, Goes, committed, IInv, AssignTypeOK
  <1>2. used \subseteq Nat BY DEF IInv, AssignTypeOK, WalletRow
  <1>3. used # {} => Max(used) \in Nat /\ \A i \in used : i <= Max(used)
    <2>1. MyMerchant(c) \in Merchants
      BY AssignConstants DEF IInv, AssignTypeOK, MyMerchant, Merchants
    <2>2. PICK n \in Nat : \A i \in used : i <= n BY <2>1 DEF IInv, BoundInv
    <2> HIDE DEF used
    <2> QED BY <1>2, <2>2, MaxOfBounded
  <1>4. index'[c] = IF used = {} THEN 0 ELSE Max(used) + 1
    BY DEF ReadMaxIndex, IInv, AssignTypeOK
  <1>5. \A i \in used : i < index'[c]
    <2> HIDE DEF used
    <2> QED BY <1>2, <1>3, <1>4
  <1>6. \A w \in wallets : w.merchant = MyMerchant(c) => w.index \in Nat /\ w.index < index'[c]
    BY <1>2, <1>5
  <1>7. index'[c] \in Nat
    <2> HIDE DEF used
    <2> QED BY <1>3, <1>4
  <1>8. Rivals(c)' = Rivals(c) BY <1>1 DEF Rivals, MyMerchant
  <1>9. Below(c)' = Rivals(c) BY <1>6, <1>8 DEF Below, Rivals
  <1>10. \A w \in wallets : w.merchant = MyMerchant(c) => ~(w.index >= index'[c])
    BY <1>6, <1>7
  <1> HIDE DEF used
  <1> QED BY <1>1, <1>8, <1>9, <1>10 DEF LostTo, MyMerchant

(* An index that is passed over leaves fewer rows above it. *)
LEMMA ProbeKeepsLostTo ==
  ASSUME IInv, NEW c \in Calls, LostTo(c), ProbeAddress(c)
  PROVE  LostTo(c)'
  <1>1. /\ UNCHANGED <<wallets, caller, heard, lost>>
        /\ callAt[c] = "probe" /\ callAt'[c] \in {"probe", "insert"}
        /\ index'[c] \in {index[c], index[c] + 1}
    BY DEF ProbeAddress, Goes, committed, IInv, AssignTypeOK
  <1>2. index[c] \in Nat /\ lost[c] \in Nat /\ \A w \in wallets : w.index \in Nat
    BY DEF IInv, AssignTypeOK, WalletRow
  <1>3. Rivals(c)' = Rivals(c) BY <1>1 DEF Rivals, MyMerchant
  <1>4. Below(c) \subseteq Below(c)' BY <1>1, <1>2, <1>3 DEF Below, Rivals
  <1>5. lost[c] <= Cardinality(Below(c)')
    <2> DEFINE S == Below(c)
               T == Below(c)'
    <2>1. IsFiniteSet(T) BY <1>3, FS_Subset DEF LostTo, Below
    <2>2. lost[c] <= Cardinality(S) BY <1>1 DEF LostTo
    <2>3. S \in SUBSET T BY <1>4
    <2> HIDE DEF S, T
    <2>4. lost[c] <= Cardinality(T) BY <1>2, <2>1, <2>2, <2>3, CountGrows
    <2> QED BY <2>4 DEF T
  <1>6. \A w \in wallets : w.merchant = MyMerchant(c) /\ w.index >= index'[c] => w \in Rivals(c)
    BY <1>1, <1>2 DEF LostTo
  <1>7. callAt'[c] # "idle" /\ callAt'[c] # "exhausted" BY <1>1
  <1> QED BY <1>1, <1>3, <1>5, <1>6, <1>7 DEF LostTo, MyMerchant

(* The attempt is lost to a row that no attempt before was lost to. *)
LEMMA CollisionKeepsLostTo ==
  ASSUME IInv, NEW c \in Calls, LostTo(c), InsertCollides(c)
  PROVE  LostTo(c)'
  <1>1. /\ UNCHANGED <<wallets, caller, heard>>
        /\ callAt[c] = "insert" /\ callAt'[c] = "repick" /\ lost'[c] = lost[c] + 1
    BY DEF InsertCollides, Goes, committed, IInv, AssignTypeOK
  <1>2. index[c] \in Nat /\ lost[c] \in Nat BY DEF IInv, AssignTypeOK
  <1>3. PICK w \in wallets : w.merchant = MyMerchant(c) /\ w.index = index[c]
    BY DEF InsertCollides, SameKey, Derived
  <1>4. w \in Rivals(c) /\ w \notin Below(c) BY <1>1, <1>2, <1>3 DEF LostTo, Below
  <1>5. Rivals(c)' = Rivals(c) BY <1>1 DEF Rivals, MyMerchant
  <1>6. lost'[c] <= Cardinality(Rivals(c))
    <2> DEFINE S == Below(c)
               T == Rivals(c)
    <2>1. IsFiniteSet(T) /\ S \in SUBSET T /\ w \in T /\ w \notin S
      BY <1>4 DEF LostTo, Below
    <2>2. lost[c] <= Cardinality(S) BY <1>1 DEF LostTo
    <2> HIDE DEF S, T
    <2>3. IsFiniteSet(S) BY <2>1, FS_Subset
    <2>4. Cardinality(S \cup {w}) = Cardinality(S) + 1 /\ IsFiniteSet(S \cup {w})
      BY <2>1, <2>3, FS_AddElement
    <2>5. Cardinality(S) \in Nat BY <2>3, FS_CardinalityType
    <2>6. S \cup {w} \in SUBSET T BY <2>1
    <2>7. lost[c] + 1 <= Cardinality(S \cup {w}) /\ lost[c] + 1 \in Nat
      BY <1>2, <2>2, <2>4, <2>5
    <2>8. lost[c] + 1 <= Cardinality(T) BY <2>1, <2>6, <2>7, CountGrows
    <2> QED BY <1>1, <2>8 DEF T
  <1> QED BY <1>1, <1>5, <1>6 DEF LostTo

LEMMA NonePickableKeepsLostTo ==
  ASSUME IInv, NEW c \in Calls, LostTo(c), NonePickable(c)
  PROVE  LostTo(c)'
  <1>1. /\ UNCHANGED <<wallets, caller, heard, lost>>
        /\ lost[c] \in Nat
        /\ \/ callAt'[c] = "derive"
           \/ callAt'[c] = "exhausted" /\ ~(lost[c] < MaxCreateAttempts)
    BY DEF NonePickable, Goes, committed, IInv, AssignTypeOK
  <1>2. CASE callAt'[c] = "derive" BY <1>1, <1>2, OthersLeaveLostTo
  <1>3. CASE callAt'[c] = "exhausted" /\ ~(lost[c] < MaxCreateAttempts)
    <2>1. Rivals(c)' = Rivals(c) BY <1>1 DEF Rivals, MyMerchant
    <2>2. lost[c] >= MaxCreateAttempts BY <1>1, <1>3, AssignConstants
    <2> QED BY <1>1, <1>3, <2>1, <2>2 DEF LostTo
  <1> QED BY <1>1, <1>2, <1>3

(* What another call commits adds a rival or changes nothing. *)
LEMMA CommitKeepsRivals ==
  ASSUME IInv, RivalInv, NEW d \in Calls, CommitCall(d)
  PROVE  RivalInv'
  <1> DEFINE r == draft[d]
  <1> USE AssignConstants
  <1>1. /\ UNCHANGED <<caller, index, lost, heard>>
        /\ callAt[d] = "commit" /\ callAt'[d] = "answered"
        /\ \A c \in Calls : c # d => callAt'[c] = callAt[c]
        /\ wallets' = {w \in wallets : ~SameKey(w, r)} \cup {r}
    BY DEF CommitCall, Goes, IInv, AssignTypeOK
  <1>2. /\ r # NoRow /\ r \in WalletRow /\ r.user \in Users
        /\ r \in wallets \/ (r.by = d /\ \A w \in wallets : SameKey(w, r) => w.user = Nobody)
    <2>1. r # NoRow BY <1>1 DEF IInv, LockInv
    <2>2. r \in WalletRow /\ caller[d] \in Users BY <2>1 DEF IInv, AssignTypeOK
    <2> QED BY <2>1, <2>2 DEF IInv, DraftInv, IsNew
  <1>3. \A c \in Calls : d \notin heard[c]
    BY <1>1 DEF IInv, HeardInv, Answered
  <1>4. \A w \in wallets' : w \in wallets \/ (w = r /\ r.by = d)
    BY <1>1, <1>2
  <1>5. \A w \in wallets : w.by # Nobody => w \in wallets'
    <2> SUFFICES ASSUME NEW w \in wallets, w.by # Nobody PROVE w \in wallets' OBVIOUS
    <2>1. w.user # Nobody BY DEF RivalInv, FreeInv
    <2>2. CASE SameKey(w, r)
      <3>1. r \in wallets BY <1>2, <2>1, <2>2
      <3>2. w = r BY <2>2, <3>1 DEF IInv, KeyInv
      <3> QED BY <1>1, <3>2
    <2>3. CASE ~SameKey(w, r) BY <1>1, <2>3
    <2> QED BY <2>2, <2>3
  <1> HIDE DEF r
  <1>6. FreeInv'
    BY <1>2, <1>4 DEF RivalInv, FreeInv
  <1>7. ASSUME NEW c \in Calls PROVE LostTo(c)'
    <2>1. LostTo(c) /\ lost[c] \in Nat BY DEF RivalInv, IInv, AssignTypeOK
    <2>2. Rivals(c) \subseteq Rivals(c)' /\ Rivals(c)' \subseteq Rivals(c) \cup {r}
      BY <1>1, <1>4, <1>5 DEF Rivals, MyMerchant
    <2>3. IsFiniteSet(Rivals(c)')
      <3>1. IsFiniteSet(Rivals(c) \cup {r}) BY <2>1, FS_AddElement DEF LostTo
      <3> QED BY <2>2, <3>1, FS_Subset
    <2>4. lost[c] <= Cardinality(Rivals(c)')
      <3> DEFINE S == Rivals(c)
                 T == Rivals(c)'
      <3>1. IsFiniteSet(T) /\ S \in SUBSET T /\ lost[c] <= Cardinality(S)
        BY <2>1, <2>2, <2>3 DEF LostTo
      <3> HIDE DEF S, T
      <3>2. lost[c] <= Cardinality(T) BY <2>1, <3>1, CountGrows
      <3> QED BY <3>2 DEF T
    <2>5. CASE c = d BY <1>1, <2>3, <2>4, <2>5 DEF LostTo
    <2>6. CASE c # d
      <3>1. callAt'[c] = callAt[c] BY <1>1, <2>6
      <3>2. ASSUME callAt[c] \in {"probe", "insert"}
            PROVE  /\ lost[c] <= Cardinality(Below(c)')
                   /\ \A w \in wallets' : w.merchant = MyMerchant(c) /\ w.index >= index[c]
                                            => w \in Rivals(c)'
        <4>1. Below(c) \subseteq Below(c)' BY <1>1, <2>2 DEF Below
        <4>2. lost[c] <= Cardinality(Below(c)')
          <5> DEFINE S == Below(c)
                     T == Below(c)'
          <5>1. IsFiniteSet(T) BY <2>3, FS_Subset DEF Below
          <5>2. S \in SUBSET T /\ lost[c] <= Cardinality(S) BY <2>1, <3>2, <4>1 DEF LostTo
          <5> HIDE DEF S, T
          <5>3. lost[c] <= Cardinality(T) BY <2>1, <5>1, <5>2, CountGrows
          <5> QED BY <5>3 DEF T
        <4>3. ASSUME NEW w \in wallets', w.merchant = MyMerchant(c), w.index >= index[c]
              PROVE  w \in Rivals(c)'
          <5>1. CASE w \in wallets
            BY <2>1, <2>2, <3>2, <4>3, <5>1 DEF LostTo
          <5>2. CASE w = r /\ r.by = d
            BY <1>1, <1>3, <4>3, <5>2 DEF Rivals, MyMerchant
          <5> QED BY <1>4, <5>1, <5>2
        <4> QED BY <4>2, <4>3
      <3> QED BY <1>1, <2>1, <2>3, <2>4, <3>1, <3>2 DEF LostTo, MyMerchant
    <2> QED BY <2>5, <2>6
  <1> QED BY <1>6, <1>7 DEF RivalInv

LEMMA RivalInvIsKept == IInv /\ RivalInv /\ [AssignNext]_assignVars => RivalInv'
  <1> SUFFICES ASSUME IInv, RivalInv, [AssignNext]_assignVars PROVE RivalInv'
    OBVIOUS
  <1>t. AssignTypeOK BY DEF IInv
  <1>1. ASSUME NEW d \in Calls, UNCHANGED <<wallets, caller, heard>>, LostTo(d)',
               \A c \in Calls : c # d => /\ callAt'[c] = callAt[c] /\ index'[c] = index[c]
                                         /\ lost'[c] = lost[c]
        PROVE  RivalInv'
    <2>1. ASSUME NEW c \in Calls PROVE LostTo(c)'
      <3>1. CASE c = d BY <1>1, <3>1
      <3>2. CASE c # d BY <1>1, <3>2, OthersLeaveLostTo DEF RivalInv
      <3> QED BY <3>1, <3>2
    <2> QED BY <1>1, <2>1 DEF RivalInv, FreeInv
  <1>2. ASSUME NEW c \in Calls, FindUser(c) PROVE RivalInv'
    <2>1. LostTo(c)' BY <1>2, FindUserKeepsLostTo DEF RivalInv
    <2>2. /\ UNCHANGED <<wallets, caller, index, lost>>
          /\ \A d \in Calls : d # c => callAt'[d] = callAt[d] /\ heard'[d] = heard[d]
      BY <1>2, <1>t DEF FindUser, Goes, committed, AssignTypeOK
    <2>3. ASSUME NEW d \in Calls, d # c PROVE LostTo(d)'
      <3>1. LostTo(d) BY DEF RivalInv
      <3>2. Rivals(d)' = Rivals(d) BY <2>2, <2>3 DEF Rivals, MyMerchant
      <3>3. Below(d)' = Below(d) BY <2>2, <3>2 DEF Below
      <3> QED BY <2>2, <2>3, <3>1, <3>2, <3>3 DEF LostTo, MyMerchant
    <2> QED BY <2>1, <2>2, <2>3 DEF RivalInv, FreeInv
  <1>3. ASSUME NEW c \in Calls,
               ReadMaxIndex(c) \/ ProbeAddress(c) \/ InsertCollides(c) \/ NonePickable(c)
        PROVE  RivalInv'
    <2>1. LostTo(c)'
      BY <1>3, ReadMaxIndexKeepsLostTo, ProbeKeepsLostTo, CollisionKeepsLostTo,
         NonePickableKeepsLostTo DEF RivalInv
    <2>2. UNCHANGED <<wallets, caller, heard>>
      BY <1>3 DEF ReadMaxIndex, ProbeAddress, InsertCollides, NonePickable, committed
    <2>3. \A d \in Calls : d # c =>
            callAt'[d] = callAt[d] /\ index'[d] = index[d] /\ lost'[d] = lost[d]
      BY <1>3, <1>t DEF ReadMaxIndex, ProbeAddress, InsertCollides, NonePickable, Goes, AssignTypeOK
    <2> QED BY <1>1, <2>1, <2>2, <2>3
  <1>4. ASSUME NEW c \in Calls,
               \/ CreateUser(c) \/ UseDedicated(c) \/ NoDedicated(c) \/ PickFree(c)
               \/ InsertWallet(c) \/ FindSession(c) \/ AbortCall(c)
        PROVE  RivalInv'
    <2>1. UNCHANGED <<wallets, caller, heard, index, lost>>
      BY <1>4 DEF CreateUser, UseDedicated, NoDedicated, PickFree, InsertWallet, FindSession,
                  AbortCall, committed
    <2>2. \A d \in Calls : d # c => callAt'[d] = callAt[d]
      BY <1>4, <1>t DEF CreateUser, UseDedicated, NoDedicated, PickFree, InsertWallet, FindSession,
                  AbortCall, Goes, AssignTypeOK
    <2>3. callAt'[c] \in {"failed", "dedicated", "session", "pick", "commit"}
      BY <1>4, <1>t DEF CreateUser, UseDedicated, NoDedicated, PickFree, InsertWallet, FindSession,
                  AbortCall, Goes, AssignTypeOK
    <2>4. callAt'[c] \notin {"idle", "probe", "insert", "exhausted"} BY <2>3
    <2>5. LostTo(c)' BY <2>1, <2>4, OthersLeaveLostTo DEF RivalInv
    <2> QED BY <1>1, <2>1, <2>2, <2>5
  <1>5. ASSUME UNCHANGED <<wallets, caller, heard, index, lost, callAt>> PROVE RivalInv'
    BY <1>5, OthersLeaveLostTo DEF RivalInv, FreeInv
  <1>6. ASSUME (\E s \in open : EndSession(s)) \/ (\E u \in Users : Cool(u)) PROVE RivalInv'
    BY <1>5, <1>6 DEF EndSession, Cool
  <1>7. CASE UNCHANGED assignVars BY <1>5, <1>7 DEF assignVars, committed
  <1> QED
    BY <1>2, <1>3, <1>4, <1>6, <1>7, CommitKeepsRivals DEF AssignNext, CallStep

LEMMA RivalInvCorrect == AssignSpec => []RivalInv
  BY RivalInvHoldsAtFirst, RivalInvIsKept, IInvCorrect, PTL DEF AssignSpec

(* A call answers "exhausted" only after as many of its merchant's rows as *)
(* it may attempt were given to calls that were answered while it ran: it  *)
(* never gives up on rows that were there, or twice on the same one.       *)
THEOREM ExhaustedOnlyByRivals == AssignSpec => []ExhaustedOnlyByOthers
  <1>1. IInv /\ RivalInv => ExhaustedOnlyByOthers
    <2> SUFFICES ASSUME IInv, RivalInv, NEW c \in Calls, callAt[c] = "exhausted"
                 PROVE  Cardinality(Rivals(c)) >= MaxCreateAttempts
      BY DEF ExhaustedOnlyByOthers, Rivals
    <2>1. lost[c] >= MaxCreateAttempts /\ lost[c] <= Cardinality(Rivals(c))
          /\ IsFiniteSet(Rivals(c))
      BY DEF RivalInv, LostTo
    <2>2. lost[c] \in Nat BY DEF IInv, AssignTypeOK
    <2>3. Cardinality(Rivals(c)) \in Nat BY <2>1, FS_CardinalityType
    <2> QED BY <2>1, <2>2, <2>3, AssignConstants
  <1> QED BY <1>1, IInvCorrect, RivalInvCorrect, PTL
-----------------------------------------------------------------------------
(* The refinement of AddressBook. *)
OwnedAs(w) == [merchant |-> w.merchant, index |-> w.index, user |-> w.user]

LEMMA OwnedIs == Owned = {OwnedAs(w) : w \in {v \in wallets : v.user # Nobody}}
  BY DEF Owned, OwnedAs

LEMMA BookInit == ASSUME AssignInit PROVE Book!Init
  <1>1. \A w \in wallets : w.user = Nobody BY DEF AssignInit
  <1>2. open = {} BY DEF AssignInit
  <1> QED BY <1>1, <1>2 DEF Owned, Book!Init

(* What a commit makes of the rows: its user's row is added, or was there. *)
LEMMA CommitGives ==
  ASSUME IInv, NEW c \in Calls, CommitCall(c)
  PROVE  /\ OwnedAs(draft[c]) \in Owned'
         /\ Owned' = Owned \/ Book!Give(OwnedAs(draft[c]))
  <1> DEFINE row == draft[c]
             own == OwnedAs(row)
  <1>1. row # NoRow BY DEF CommitCall, Goes, IInv, LockInv
  <1>2. /\ wallets' = {w \in wallets : ~SameKey(w, row)} \cup {row}
        /\ row \in WalletRow
    BY <1>1 DEF CommitCall, IInv, AssignTypeOK
  <1>3. row.user = caller[c] /\ row.user # Nobody
    BY <1>1, AssignConstants DEF IInv, DraftInv, AssignTypeOK
  <1>4. own \in Owned' BY <1>2, <1>3 DEF Owned, OwnedAs
  <1>5. CASE row \in wallets
    <2>1. \A w \in wallets : SameKey(w, row) => w = row BY <1>5 DEF IInv, KeyInv
    <2>2. wallets' = wallets BY <1>2, <1>5, <2>1
    <2> QED BY <1>4, <2>2 DEF Owned
  <1>6. CASE row \notin wallets
    <2>1. \A w \in wallets : SameKey(w, row) => w.user = Nobody
      BY <1>1, <1>6 DEF IInv, DraftInv, IsNew
    <2>2. {w \in wallets' : w.user # Nobody} = {w \in wallets : w.user # Nobody} \cup {row}
      BY <1>2, <1>3, <2>1
    <2>3. Owned' = Owned \cup {own}
      <3>1. Owned' = {OwnedAs(w) : w \in {v \in wallets' : v.user # Nobody}} BY DEF Owned, OwnedAs
      <3> HIDE DEF row
      <3> QED BY <2>2, <3>1, OwnedIs
    <2>4. \A o \in Owned : ~(o.merchant = own.merchant /\ o.index = own.index)
      BY <2>1 DEF Owned, OwnedAs, SameKey
    <2> QED BY <1>4, <2>3, <2>4 DEF Book!Give, Book!SameAddress
  <1> QED BY <1>5, <1>6

(* What it makes of the checkouts: the one it opened, if it opened one. *)
LEMMA CommitAsks ==
  ASSUME IInv, NEW c \in Calls, CommitCall(c)
  PROVE  open' = open \/ \E s \in open' : Book!Bill(s)
  <1>1. callAt[c] = "commit" /\ open' = open \cup {s \in session[c] : s.key = c}
    BY DEF CommitCall, Goes
  <1>2. CASE {s \in session[c] : s.key = c} = {} BY <1>1, <1>2
  <1>3. ASSUME NEW s \in session[c], s.key = c PROVE Book!Bill(s) /\ s \in open'
    <2>1. /\ \A t \in session[c] : t = s
          /\ s.user = caller[c] /\ SameKey(s, draft[c])
          /\ \A t \in open : t.user = s.user /\ SameKey(t, s) /\ t.amount = s.amount
                => t.ref # s.ref
      BY <1>1, <1>3 DEF IInv, SessionInv
    <2>2. open' = open \cup {s} BY <1>1, <1>3, <2>1
    <2>3. OwnedAs(draft[c]) \in Owned' BY CommitGives
    <2>4. draft[c].user = caller[c] BY <1>1 DEF IInv, LockInv, DraftInv
    <2>5. \E o \in Owned' : Book!SameAddress(o, s) /\ o.user = s.user
      BY <2>1, <2>3, <2>4 DEF OwnedAs, SameKey, Book!SameAddress
    <2>6. \A t \in open :
            Book!SameAddress(s, t) /\ s.user = t.user /\ s.amount = t.amount => s.ref # t.ref
      BY <2>1 DEF SameKey, Book!SameAddress
    <2> QED BY <2>2, <2>5, <2>6 DEF Book!Bill
  <1> QED BY <1>2, <1>3

LEMMA BookStep ==
  ASSUME IInv, [AssignNext]_assignVars
  PROVE  [Book!Next]_(Book!vars)
  <1>1. ASSUME UNCHANGED <<wallets, open>> PROVE UNCHANGED Book!vars
    BY <1>1 DEF Owned, Book!vars
  <1>2. ASSUME NEW c \in Calls, CommitCall(c) PROVE Book!Next
    <2>1. Owned' = Owned \/ \E a \in Owned' : Book!Give(a) BY <1>2, CommitGives
    <2>2. open' = open \/ \E s \in open' : Book!Bill(s) BY <1>2, CommitAsks
    <2> QED BY <2>1, <2>2 DEF Book!Next, Book!Answer
  <1>3. ASSUME NEW c \in Calls, CallStep(c) \/ AbortCall(c), ~CommitCall(c)
        PROVE  UNCHANGED <<wallets, open>>
    BY <1>3 DEF CallStep, AbortCall, FindUser, CreateUser, UseDedicated, NoDedicated, PickFree,
                NonePickable, ReadMaxIndex, ProbeAddress, InsertWallet, InsertCollides,
                FindSession, committed
  <1>4. ASSUME NEW s \in open, EndSession(s) PROVE Book!Next
    BY <1>4 DEF EndSession, Owned, Book!Next, Book!Close
  <1>5. ASSUME NEW u \in Users, Cool(u) PROVE UNCHANGED <<wallets, open>> BY <1>5 DEF Cool
  <1>6. CASE UNCHANGED assignVars BY <1>1, <1>6 DEF assignVars
  <1> QED BY <1>1, <1>2, <1>3, <1>4, <1>5, <1>6 DEF AssignNext

(* WalletAssign implements AddressBook: locks and keys are enough for an   *)
(* address to stay its user's, and for each checkout to be on an address   *)
(* of its user, however many calls race.                                   *)
THEOREM AddressBookAlwaysKept == AssignSpec => AddressBookKept
  <1>1. AssignInit => Book!Init BY BookInit
  <1>2. IInv /\ [AssignNext]_assignVars => [Book!Next]_(Book!vars) BY BookStep
  <1> QED BY <1>1, <1>2, IInvCorrect, PTL DEF AssignSpec, AddressBookKept, Book!Spec
=============================================================================
