------------------------- MODULE ExplorerKeysProofs -------------------------
(***************************************************************************)
(* Theorems about ExplorerKeys, for any keys, limits, processes, clients,  *)
(* days and numbers of answers and changes.                                *)
(*                                                                         *)
(* DayInv: below the limit, a row's number misses only answers that are    *)
(* still to be counted or never will be.  So whoever reads a row below the *)
(* limit adds one call to those under way (WayInv), and the calls made and *)
(* allowed stay within LimitInv.  CountInv follows the count of keys from  *)
(* the query that reads it to the cache.                                   *)
(***************************************************************************)
EXTENDS ExplorerKeys, FiniteSetTheorems, WellFoundedInduction, TLAPS

LEMMA LessIsWellFounded == IsWellFoundedOn({ss \in Nat \X Nat : ss[1] < ss[2]}, Nat)
  BY NatLessThanWellFounded DEF OpToRel

(* The least of some keys is one of them. *)
LEMMA MinOfKeys ==
  ASSUME NEW S \in SUBSET Keys, S # {}
  PROVE  Min(S) \in S
  <1> DEFINE Less == {ss \in Nat \X Nat : ss[1] < ss[2]}
             P(x) == x \in S /\ \A y \in S : x =< y
  <1>1. S \subseteq Nat BY KeyConstants DEF Keys
  <1>2. PICK b \in S : \A c \in S : ~(<<c, b>> \in Less)
    BY <1>1, LessIsWellFounded, WFMin, Zenon
  <1>3. ASSUME NEW c \in S PROVE b =< c
    <2>1. c \in Nat /\ b \in Nat /\ <<c, b>> \notin Less BY <1>1, <1>2
    <2> QED BY <2>1
  <1>4. P(CHOOSE x : P(x)) BY <1>2, <1>3
  <1>5. Min(S) = CHOOSE x : P(x) BY Zenon DEF Min
  <1> QED BY <1>4, <1>5

(* The greater of two numbers bounds both. *)
LEMMA MaxOfTwo ==
  ASSUME NEW a \in Nat, NEW b \in Nat
  PROVE  Max({a, b}) \in Nat /\ a <= Max({a, b}) /\ b <= Max({a, b})
  <1> DEFINE P(x) == x \in {a, b} /\ \A y \in {a, b} : x >= y
  <1>1. \E x \in {a, b} : P(x) BY a <= b \/ b <= a
  <1>2. P(CHOOSE x : P(x)) BY <1>1
  <1>3. Max({a, b}) = CHOOSE x : P(x) BY Zenon DEF Max
  <1> QED BY <1>2, <1>3

LEMMA MaxOfBound ==
  ASSUME NEW a \in Nat, NEW b \in Nat, b <= a
  PROVE  Max({a, b}) = a
  <1> DEFINE P(x) == x \in {a, b} /\ \A y \in {a, b} : x >= y
  <1>1. P(a) OBVIOUS
  <1>2. P(CHOOSE x : P(x)) BY <1>1
  <1>3. Max({a, b}) = CHOOSE x : P(x) BY Zenon DEF Max
  <1> QED BY <1>2, <1>3

-----------------------------------------------------------------------------
PastInv ==
  /\ IsFiniteSet(counting)
  /\ \A k \in Keys : usedOn[k] <= today
  /\ \A n \in counting : n.nr < answers[n.by]

DayInv(k) ==
  \/ Effective(k, today) >= MaxPerDay
  \/ made[k] <= Effective(k, today) + Cardinality(Pending(k)) + uncounted[k]

WayInv(k) == UnderWay(k) <= most[k]

LimitInv(k) ==
  \/ made[k] + Cardinality(Allowed(k)) = 0
  \/ made[k] + Cardinality(Allowed(k)) < MaxPerDay + most[k] + uncounted[k]

KeyInv(k) == DayInv(k) /\ WayInv(k) /\ LimitInv(k)

CountInv ==
  /\ cache[Api].nonce <= nonce[Api]
  /\ \A c \in Clients : clientAt[c] = "counted" /\ ProcessOf[c] = Api =>
       /\ memory[c].nonce <= nonce[Api]
       /\ memory[c].nonce = nonce[Api] /\ changed = 0 =>
            memory[c].count = Cardinality(active)

IInv ==
  /\ KeysTypeOK /\ PastInv /\ \A k \in Keys : KeyInv(k)
  /\ CountInv /\ CacheOutdatedOnlyByOverlap

-----------------------------------------------------------------------------
(* The sets that are counted are finite. *)
LEMMA Finite ==
  ASSUME KeysTypeOK, IsFiniteSet(counting), NEW k \in Keys
  PROVE  /\ IsFiniteSet(Allowed(k)) /\ Cardinality(Allowed(k)) \in Nat
         /\ IsFiniteSet(Pending(k)) /\ Cardinality(Pending(k)) \in Nat
  <1>1. Allowed(k) \in SUBSET Clients BY DEF Allowed
  <1>2. Pending(k) \in SUBSET counting BY DEF Pending
  <1>3. IsFiniteSet(Allowed(k)) BY <1>1, KeyConstants, FS_Subset
  <1>4. IsFiniteSet(Pending(k)) BY <1>2, FS_Subset
  <1> QED BY <1>3, <1>4, FS_CardinalityType

LEMMA FiniteKeys ==
  ASSUME NEW S \in SUBSET Keys
  PROVE  IsFiniteSet(S) /\ Cardinality(S) \in Nat
  <1>1. IsFiniteSet(Keys) BY KeyConstants, FS_Interval DEF Keys
  <1> QED BY <1>1, FS_Subset, FS_CardinalityType

(* What a client remembers. *)
LEMMA NothingIsMemory ==
  /\ Nothing \in Memory
  /\ \A d \in Nat : [Nothing EXCEPT !.day = d] \in Memory
  /\ \A k \in Keys : [Nothing EXCEPT !.key = k] \in Memory /\ [Nothing EXCEPT !.key = k].key = k
  /\ \A S \in SUBSET Keys : [Nothing EXCEPT !.keys = S] \in Memory /\ [Nothing EXCEPT !.keys = S].keys = S
  BY KeyConstants DEF Nothing, Memory, Keys

(* With fewer clients on a key and its numbers as they were, all is well.  *)
LEMMA FewerAllowed ==
  ASSUME KeysTypeOK, PastInv, NEW k \in Keys, KeyInv(k),
         Allowed(k)' \subseteq Allowed(k), Pending(k)' = Pending(k),
         UNCHANGED <<used, usedOn, today>>,
         made'[k] = made[k], most'[k] = most[k], uncounted'[k] = uncounted[k]
  PROVE  KeyInv(k)'
  <1>1. IsFiniteSet(Allowed(k)) /\ Cardinality(Allowed(k)) \in Nat /\ Cardinality(Pending(k)) \in Nat
    BY Finite DEF PastInv
  <1>2. PICK S : S = Allowed(k)' OBVIOUS
  <1>3. S \in SUBSET Allowed(k) BY <1>2
  <1>4. IsFiniteSet(S) /\ Cardinality(S) <= Cardinality(Allowed(k))
    BY <1>1, <1>3, FS_Subset
  <1>5. Cardinality(S) \in Nat BY <1>4, FS_CardinalityType
  <1>6. Cardinality(Allowed(k)') = Cardinality(S) BY <1>2
  <1>7. DayInv(k)' BY DEF KeyInv, DayInv, Effective
  <1>8. made[k] \in Nat /\ most[k] \in Nat /\ uncounted[k] \in Nat /\ MaxPerDay \in Nat
    BY KeyConstants DEF KeysTypeOK
  <1>9. WayInv(k)' BY <1>1, <1>4, <1>5, <1>6, <1>8 DEF KeyInv, WayInv, UnderWay
  <1>10. LimitInv(k)' BY <1>1, <1>4, <1>5, <1>6, <1>8 DEF KeyInv, LimitInv
  <1> QED BY <1>7, <1>9, <1>10 DEF KeyInv

LEMMA IInvHoldsAtFirst == KeysInit => IInv
  <1> SUFFICES ASSUME KeysInit PROVE IInv OBVIOUS
  <1> USE DEF KeysInit
  <1>1. KeysTypeOK BY KeyConstants DEF KeysTypeOK, Memory, Nothing, Keys
  <1>2. PastInv BY FS_EmptySet DEF PastInv
  <1>3. ASSUME NEW k \in Keys PROVE KeyInv(k)
    <2>1. Allowed(k) = {} /\ Pending(k) = {} BY DEF Allowed, Pending
    <2>2. Cardinality(Allowed(k)) = 0 /\ Cardinality(Pending(k)) = 0 BY <2>1, FS_EmptySet
    <2> QED BY <2>2 DEF KeyInv, DayInv, WayInv, LimitInv, UnderWay, Effective
  <1>4. CountInv /\ CacheOutdatedOnlyByOverlap
    BY KeyConstants DEF CountInv, CacheOutdatedOnlyByOverlap
  <1> QED BY <1>1, <1>2, <1>3, <1>4 DEF IInv

-----------------------------------------------------------------------------
(* A step of a client that starts no call and leaves the rows alone.       *)
LEMMA QuietStep ==
  ASSUME IInv, KeysTypeOK', UNCHANGED <<counting, used, usedOn, today, made, most, uncounted, answers>>,
         \A k \in Keys : Allowed(k)' \subseteq Allowed(k),
         CountInv', CacheOutdatedOnlyByOverlap'
  PROVE  IInv'
  <1>1. PastInv' BY DEF IInv, PastInv
  <1>2. ASSUME NEW k \in Keys PROVE KeyInv(k)'
    <2>1. Pending(k)' = Pending(k) BY DEF Pending
    <2> QED BY <2>1, FewerAllowed DEF IInv
  <1> QED BY <1>1, <1>2 DEF IInv

LEMMA LookKeeps == ASSUME IInv, NEW c \in Clients, Look(c) PROVE IInv'
  <1> USE DEF Look, ClientGoes, IInv, rowVars, cacheVars, pastVars
  <1>1. KeysTypeOK' BY DEF KeysTypeOK
  <1>2. \A k \in Keys : Allowed(k)' \subseteq Allowed(k) BY DEF Allowed, KeysTypeOK
  <1>3. CountInv' BY DEF CountInv, KeysTypeOK
  <1>4. CacheOutdatedOnlyByOverlap' BY DEF CacheOutdatedOnlyByOverlap
  <1> QED BY <1>1, <1>2, <1>3, <1>4, QuietStep

LEMMA CountKeysKeeps == ASSUME IInv, NEW c \in Clients, CountKeys(c) PROVE IInv'
  <1> USE DEF CountKeys, ClientGoes, Remembers, rowVars, cacheVars, pastVars
  <1>0. KeysTypeOK BY DEF IInv
  <1>1. Cardinality(active) \in Nat BY <1>0, FiniteKeys DEF KeysTypeOK
  <1>2. nonce[ProcessOf[c]] \in Nat BY <1>0, KeyConstants DEF KeysTypeOK
  <1>3. PICK m : m = [memory[c] EXCEPT !.count = Cardinality(active), !.nonce = nonce[ProcessOf[c]]]
    OBVIOUS
  <1>4. m \in Memory /\ m.count = Cardinality(active) /\ m.nonce = nonce[ProcessOf[c]]
    BY <1>0, <1>1, <1>2, <1>3 DEF KeysTypeOK, Memory
  <1>5. memory' = [memory EXCEPT ![c] = m] BY <1>3
  <1>6. KeysTypeOK' BY <1>0, <1>4, <1>5 DEF KeysTypeOK
  <1>7. \A d \in Clients : /\ clientAt'[d] = IF d = c THEN "counted" ELSE clientAt[d]
                           /\ memory'[d] = IF d = c THEN m ELSE memory[d]
    BY <1>0, <1>5 DEF KeysTypeOK
  <1>8. \A k \in Keys : Allowed(k)' \subseteq Allowed(k) BY <1>7 DEF Allowed
  <1>9. CountInv'
    <2>1. cache[Api].nonce <= nonce[Api] BY DEF IInv, CountInv
    <2>2. ASSUME NEW d \in Clients, clientAt'[d] = "counted", ProcessOf[d] = Api
          PROVE  /\ memory'[d].nonce <= nonce[Api]
                 /\ memory'[d].nonce = nonce[Api] /\ changed = 0 =>
                      memory'[d].count = Cardinality(active)
      <3>1. CASE d = c BY <2>2, <3>1, <1>2, <1>4, <1>7
      <3>2. CASE d # c BY <2>2, <3>2, <1>7 DEF IInv, CountInv
      <3> QED BY <3>1, <3>2
    <2> QED BY <2>1, <2>2 DEF CountInv
  <1>10. CacheOutdatedOnlyByOverlap' BY DEF IInv, CacheOutdatedOnlyByOverlap
  <1> QED BY <1>6, <1>8, <1>9, <1>10, QuietStep

LEMMA KeepCountKeeps == ASSUME IInv, NEW c \in Clients, KeepCount(c) PROVE IInv'
  <1> USE DEF KeepCount, ClientGoes, Remembers, rowVars, pastVars
  <1>0. KeysTypeOK BY DEF IInv
  <1>1. PICK p : p = ProcessOf[c] OBVIOUS
  <1>2a. p \in Processes /\ nonce[p] \in Nat BY <1>0, <1>1, KeyConstants DEF KeysTypeOK
  <1>2b. memory[c].count \in Nat BY <1>0 DEF KeysTypeOK, Memory
  <1>2. p \in Processes /\ nonce[p] \in Nat /\ Nothing \in Memory /\ memory[c].count \in Nat
    BY <1>2a, <1>2b, NothingIsMemory
  <1>3. /\ cache' = [cache EXCEPT ![p] = [nonce |-> nonce[p], count |-> memory[c].count]]
        /\ overtaken' = [overtaken EXCEPT ![p] = memory[c].nonce # nonce[p]]
    BY <1>1
  <1>4a. overtaken' \in [Processes -> BOOLEAN] BY <1>0, <1>3 DEF KeysTypeOK
  <1>4b. cache' \in [Processes -> [nonce : Nat \cup {-1}, count : Nat \cup {-1}]]
    <2>1. PICK e \in [nonce : Nat \cup {-1}, count : Nat \cup {-1}] :
            e = [nonce |-> nonce[p], count |-> memory[c].count]
      BY <1>2
    <2>2. cache' = [cache EXCEPT ![p] = e] BY <1>3, <2>1
    <2> QED BY <1>0, <2>2 DEF KeysTypeOK
  <1>4c. memory' \in [Clients -> Memory] BY <1>0, <1>2 DEF KeysTypeOK
  <1>4. KeysTypeOK' BY <1>0, <1>4a, <1>4b, <1>4c DEF KeysTypeOK
  <1>5. \A d \in Clients : d # c => clientAt'[d] = clientAt[d] /\ memory'[d] = memory[d]
    BY <1>0 DEF KeysTypeOK
  <1>6. clientAt'[c] \in {"wait", "idle"} BY <1>0 DEF KeysTypeOK
  <1>7. \A k \in Keys : Allowed(k)' \subseteq Allowed(k) BY <1>5, <1>6 DEF Allowed
  <1>8. CountInv'
    <2>1. cache'[Api].nonce <= nonce[Api]
      BY <1>0, <1>2, <1>3, KeyConstants DEF IInv, CountInv, KeysTypeOK
    <2> QED BY <2>1, <1>5, <1>6 DEF IInv, CountInv
  <1>9. CacheOutdatedOnlyByOverlap'
    <2>1. CASE p = Api
      <3>1. cache'[Api] = [nonce |-> nonce[Api], count |-> memory[c].count]
        BY <1>0, <1>3, <2>1, KeyConstants DEF KeysTypeOK
      <3>0. ~overtaken'[Api] => memory[c].nonce = nonce[Api]
        BY <1>0, <1>3, <2>1, KeyConstants DEF KeysTypeOK
      <3>2. memory[c].nonce = nonce[Api] /\ changed = 0 => memory[c].count = Cardinality(active)
        BY <1>1, <2>1 DEF IInv, CountInv
      <3> QED BY <3>0, <3>1, <3>2 DEF CacheOutdatedOnlyByOverlap
    <2>2. CASE p # Api
      <3>1. cache'[Api] = cache[Api] /\ overtaken'[Api] = overtaken[Api]
        BY <1>0, <1>3, <2>2, KeyConstants DEF KeysTypeOK
      <3> QED BY <3>1 DEF IInv, CacheOutdatedOnlyByOverlap
    <2> QED BY <2>1, <2>2
  <1> QED BY <1>4, <1>7, <1>8, <1>9, QuietStep

(* A client leaves its call, or never gets to one, and has read nothing.   *)
LEMMA ForgetfulStep ==
  ASSUME IInv, NEW c \in Clients, NEW to \in {"idle", "wait", "rows"}, NEW m \in Memory,
         clientAt' = [clientAt EXCEPT ![c] = to], Remembers(c, m),
         UNCHANGED <<rowVars, cacheVars, leases, counting, pastVars>>
  PROVE  IInv'
  <1> USE DEF Remembers, rowVars, cacheVars, pastVars
  <1>1. KeysTypeOK BY DEF IInv
  <1>2. KeysTypeOK' BY <1>1 DEF KeysTypeOK
  <1>3. \A d \in Clients : d # c => clientAt'[d] = clientAt[d] /\ memory'[d] = memory[d]
    BY <1>1 DEF KeysTypeOK
  <1>4. clientAt'[c] = to BY <1>1 DEF KeysTypeOK
  <1>5. \A k \in Keys : Allowed(k)' \subseteq Allowed(k) BY <1>3, <1>4 DEF Allowed
  <1>6. CountInv' BY <1>3, <1>4 DEF IInv, CountInv
  <1>7. CacheOutdatedOnlyByOverlap' BY DEF IInv, CacheOutdatedOnlyByOverlap
  <1> QED BY <1>2, <1>5, <1>6, <1>7, QuietStep

LEMMA TakeDayKeeps == ASSUME IInv, NEW c \in Clients, TakeDay(c) PROVE IInv'
  <1>1. today \in Nat BY DEF IInv, KeysTypeOK
  <1> QED BY <1>1, NothingIsMemory, ForgetfulStep DEF TakeDay, ClientGoes

LEMMA GiveUpKeeps == ASSUME IInv, NEW c \in Clients, GiveUp(c) PROVE IInv'
  BY NothingIsMemory, ForgetfulStep DEF GiveUp, ClientGoes

LEMMA PickKeeps == ASSUME IInv, NEW c \in Clients, Pick(c) PROVE IInv'
  <1>0. KeysTypeOK BY DEF IInv
  <1>1. PICK p, free : p = ProcessOf[c] /\ free = {k \in memory[c].keys : leases[p][k] < MaxPerSecond}
    OBVIOUS
  <1>2. free \in SUBSET Keys /\ free \subseteq memory[c].keys
    BY <1>0, <1>1 DEF KeysTypeOK, Memory
  <1>3. p \in Processes BY <1>1, KeyConstants
  <1>4. CASE free = {}
    BY <1>1, <1>4, NothingIsMemory, ForgetfulStep DEF Pick, ClientGoes
  <1>5. CASE free # {}
    <2>1. PICK k : k = Min(free) OBVIOUS
    <2>2. k \in free /\ k \in Keys BY <1>2, <1>5, <2>1, MinOfKeys
    <2>3. PICK m : m = [Nothing EXCEPT !.key = k] OBVIOUS
    <2>4. m \in Memory /\ m.key = k BY <2>2, <2>3, NothingIsMemory
    <2>5. /\ clientAt[c] = "pick" /\ clientAt' = [clientAt EXCEPT ![c] = "call"]
          /\ memory' = [memory EXCEPT ![c] = m]
          /\ leases' = [leases EXCEPT ![p][k] = leases[p][k] + 1]
          /\ UNCHANGED <<rowVars, cacheVars, counting, pastVars>>
      BY <1>1, <1>5, <2>1, <2>3 DEF Pick, ClientGoes, Remembers
    <2> USE DEF rowVars, cacheVars, pastVars
    <2>6. leases[p][k] + 1 \in Nat BY <1>0, <1>3, <2>2 DEF KeysTypeOK
    <2>7. leases' \in [Processes -> [Keys -> Nat]] BY <1>0, <1>3, <2>2, <2>5, <2>6 DEF KeysTypeOK
    <2>8. KeysTypeOK' BY <1>0, <2>4, <2>5, <2>7 DEF KeysTypeOK
    <2>9. /\ \A d \in Clients : d # c => clientAt'[d] = clientAt[d] /\ memory'[d] = memory[d]
          /\ clientAt'[c] = "call" /\ memory'[c] = m
      BY <1>0, <2>5 DEF KeysTypeOK
    <2>10. \A l \in Keys : Allowed(l)' \subseteq Allowed(l)
      BY <1>2, <2>2, <2>4, <2>5, <2>9 DEF Allowed
    <2>11. CountInv' BY <2>5, <2>9 DEF IInv, CountInv
    <2>12. CacheOutdatedOnlyByOverlap' BY <2>5 DEF IInv, CacheOutdatedOnlyByOverlap
    <2> QED BY <2>5, <2>8, <2>10, <2>11, <2>12, QuietStep
  <1> QED BY <1>4, <1>5

LEMMA SecondPassesKeeps ==
  ASSUME IInv, NEW p \in Processes, NEW k \in Keys, SecondPasses(p, k) PROVE IInv'
  <1> USE DEF SecondPasses, rowVars, cacheVars, pastVars
  <1>1. KeysTypeOK BY DEF IInv
  <1>2. leases[p][k] - 1 \in Nat BY <1>1 DEF KeysTypeOK
  <1>3. leases' = [leases EXCEPT ![p] = [leases[p] EXCEPT ![k] = leases[p][k] - 1]] OBVIOUS
  <1>4. leases' \in [Processes -> [Keys -> Nat]] BY <1>1, <1>2, <1>3 DEF KeysTypeOK
  <1>5. KeysTypeOK' BY <1>1, <1>4 DEF KeysTypeOK
  <1>6. \A l \in Keys : Allowed(l)' = Allowed(l) BY DEF Allowed
  <1>7. CountInv' /\ CacheOutdatedOnlyByOverlap'
    BY DEF IInv, CountInv, CacheOutdatedOnlyByOverlap
  <1> QED BY <1>5, <1>6, <1>7, QuietStep

LEMMA ChangeKeyKeeps == ASSUME IInv, NEW k \in Keys, ChangeKey(k) PROVE IInv'
  <1> USE DEF ChangeKey, cacheVars, pastVars
  <1>1. KeysTypeOK BY DEF IInv
  <1>2. KeysTypeOK' BY <1>1 DEF KeysTypeOK
  <1>3. \A l \in Keys : Allowed(l)' = Allowed(l) BY DEF Allowed
  <1>4. changed' # 0 BY <1>1 DEF KeysTypeOK
  <1>5. CountInv' /\ CacheOutdatedOnlyByOverlap'
    BY <1>4 DEF IInv, CountInv, CacheOutdatedOnlyByOverlap
  <1> QED BY <1>2, <1>3, <1>5, QuietStep

LEMMA InvalidateKeeps == ASSUME IInv, Invalidate PROVE IInv'
  <1> USE DEF Invalidate, pastVars
  <1>1. KeysTypeOK BY DEF IInv
  <1>2. KeysTypeOK' BY <1>1, KeyConstants DEF KeysTypeOK
  <1>3. \A l \in Keys : Allowed(l)' = Allowed(l) BY DEF Allowed
  <1>4. nonce'[Api] = nonce[Api] + 1 /\ nonce[Api] \in Nat BY <1>1, KeyConstants DEF KeysTypeOK
  <1>5. cache[Api].nonce \in Nat \cup {-1} BY <1>1, KeyConstants DEF KeysTypeOK
  <1>6. cache[Api].nonce < nonce'[Api] BY <1>4, <1>5 DEF IInv, CountInv
  <1>7. ASSUME NEW c \in Clients, clientAt[c] = "counted", ProcessOf[c] = Api
        PROVE  memory[c].nonce < nonce'[Api]
    <2>1. memory[c].nonce \in Nat /\ memory[c].nonce <= nonce[Api]
      BY <1>1, <1>7 DEF KeysTypeOK, Memory, IInv, CountInv
    <2> QED BY <2>1, <1>4
  <1>8. \A c \in Clients : memory[c].nonce \in Nat BY <1>1 DEF KeysTypeOK, Memory
  <1>9. nonce'[Api] \in Nat BY <1>4
  <1>10. CountInv' BY <1>5, <1>6, <1>7, <1>8, <1>9 DEF CountInv
  <1>11. CacheOutdatedOnlyByOverlap' BY <1>5, <1>6, <1>9 DEF CacheOutdatedOnlyByOverlap
  <1> QED BY <1>2, <1>3, <1>10, <1>11, QuietStep

-----------------------------------------------------------------------------
(* A client reads the rows.  The rows it may call with were below the      *)
(* limit on the day it remembers: below it today, or that is noted.        *)
LEMMA OneMoreAllowed ==
  ASSUME KeysTypeOK, PastInv, NEW k \in Keys, KeyInv(k), NEW c,
         Allowed(k)' \subseteq Allowed(k) \cup {c}, Pending(k)' = Pending(k),
         UNCHANGED <<used, usedOn, today, made>>,
         most'[k] = Max({most[k], UnderWay(k)'}),
         \/ uncounted'[k] = uncounted[k] + 1
         \/ uncounted'[k] = uncounted[k] /\ Effective(k, today) < MaxPerDay
  PROVE  KeyInv(k)' /\ most'[k] \in Nat
  <1>1. IsFiniteSet(Allowed(k)) /\ Cardinality(Allowed(k)) \in Nat /\ Cardinality(Pending(k)) \in Nat
    BY Finite DEF PastInv
  <1>2. PICK S : S = Allowed(k)' OBVIOUS
  <1>3. S \in SUBSET (Allowed(k) \cup {c}) BY <1>2
  <1>4. /\ IsFiniteSet(Allowed(k) \cup {c})
        /\ Cardinality(Allowed(k) \cup {c}) <= Cardinality(Allowed(k)) + 1
        /\ Cardinality(Allowed(k) \cup {c}) \in Nat
    <2>1. PICK T : T = Allowed(k) OBVIOUS
    <2>2. IsFiniteSet(T) /\ Cardinality(T) \in Nat BY <1>1, <2>1
    <2>3. /\ IsFiniteSet(T \cup {c})
          /\ Cardinality(T \cup {c}) = IF c \in T THEN Cardinality(T) ELSE Cardinality(T) + 1
      BY <2>2, FS_AddElement
    <2> QED BY <2>1, <2>2, <2>3
  <1>5. IsFiniteSet(S) /\ Cardinality(S) <= Cardinality(Allowed(k) \cup {c})
    BY <1>3, <1>4, FS_Subset
  <1>6. Cardinality(S) \in Nat /\ Cardinality(S) <= Cardinality(Allowed(k)) + 1
    BY <1>1, <1>4, <1>5, FS_CardinalityType
  <1>7. Cardinality(Allowed(k)') = Cardinality(S) /\ Cardinality(Pending(k)') = Cardinality(Pending(k))
    BY <1>2
  <1>8. made[k] \in Nat /\ most[k] \in Nat /\ uncounted[k] \in Nat /\ MaxPerDay \in Nat \ {0}
    BY KeyConstants DEF KeysTypeOK
  <1>9. Effective(k, today) \in Nat BY DEF Effective, KeysTypeOK
  <1>10. Effective(k, today)' = Effective(k, today) /\ made'[k] = made[k] BY DEF Effective
  <1>11. PICK way \in Nat : way = UnderWay(k)' /\ way = Cardinality(S) + Cardinality(Pending(k))
    BY <1>1, <1>6, <1>7 DEF UnderWay
  <1>12. most'[k] \in Nat /\ most[k] <= most'[k] /\ way <= most'[k]
    BY <1>8, <1>11, MaxOfTwo
  <1>13. DayInv(k)' BY <1>1, <1>7, <1>8, <1>9, <1>10 DEF KeyInv, DayInv
  <1>14. WayInv(k)' BY <1>11, <1>12 DEF WayInv
  <1>15. LimitInv(k)'
    <2>1. CASE uncounted'[k] = uncounted[k] + 1
      <3>1. CASE made[k] + Cardinality(Allowed(k)) = 0
        BY <1>1, <1>6, <1>7, <1>8, <1>10, <1>12, <2>1, <3>1 DEF LimitInv
      <3>2. CASE made[k] + Cardinality(Allowed(k)) < MaxPerDay + most[k] + uncounted[k]
        BY <1>1, <1>6, <1>7, <1>8, <1>10, <1>12, <2>1, <3>2 DEF LimitInv
      <3> QED BY <3>1, <3>2 DEF KeyInv, LimitInv
    <2>2. CASE uncounted'[k] = uncounted[k] /\ Effective(k, today) < MaxPerDay
      <3>1. made[k] < MaxPerDay + Cardinality(Pending(k)) + uncounted[k]
        BY <1>1, <1>8, <1>9, <2>2 DEF KeyInv, DayInv
      <3>2. made[k] + Cardinality(S) < MaxPerDay + most'[k] + uncounted[k]
        BY <1>1, <1>6, <1>8, <1>11, <1>12, <3>1
      <3> QED BY <1>7, <1>10, <2>2, <3>2 DEF LimitInv
    <2> QED BY <2>1, <2>2
  <1> QED BY <1>12, <1>13, <1>14, <1>15 DEF KeyInv

LEMMA ReadRowsKeeps == ASSUME IInv, NEW c \in Clients, ReadRows(c) PROVE IInv'
  <1>0. KeysTypeOK /\ PastInv /\ \A k \in Keys : KeyInv(k) BY DEF IInv
  <1>1. PICK keys : keys = {k \in active : Effective(k, memory[c].day) < MaxPerDay} OBVIOUS
  <1>2. keys \in SUBSET Keys BY <1>0, <1>1 DEF KeysTypeOK
  <1>3. PICK to \in {"idle", "wait", "call", "pick"}, m \in Memory :
          /\ clientAt[c] = "rows" /\ clientAt' = [clientAt EXCEPT ![c] = to] /\ Remembers(c, m)
          /\ to = "call" => m.key \in keys
          /\ to = "pick" => m.keys = keys
    <2>1. CASE keys = {}
      BY <1>1, <2>1, NothingIsMemory DEF ReadRows, ClientGoes
    <2>2. CASE keys # {} /\ c \in Probes
      <3>1. Min(keys) \in keys /\ Min(keys) \in Keys BY <1>2, <2>2, MinOfKeys
      <3> QED BY <1>1, <2>2, <3>1, NothingIsMemory DEF ReadRows, ClientGoes
    <2>3. CASE keys # {} /\ c \notin Probes
      BY <1>1, <1>2, <2>3, NothingIsMemory DEF ReadRows, ClientGoes
    <2> QED BY <2>1, <2>2, <2>3
  <1>4. /\ UNCHANGED <<rowVars, cacheVars, leases, counting, answers, made>>
        /\ most' = [k \in Keys |-> Max({most[k], UnderWay(k)'})]
    BY DEF ReadRows
  <1>5. uncounted' = [k \in Keys |->
          uncounted[k] + IF k \in keys /\ Effective(k, today) >= MaxPerDay THEN 1 ELSE 0]
    BY <1>1 DEF ReadRows
  <1>6. \A d \in Clients : d # c => clientAt'[d] = clientAt[d] /\ memory'[d] = memory[d]
    BY <1>0, <1>3 DEF KeysTypeOK, Remembers
  <1>7. clientAt'[c] = to /\ memory'[c] = m BY <1>0, <1>3 DEF KeysTypeOK, Remembers
  <1>8. ASSUME NEW k \in Keys PROVE KeyInv(k)' /\ most'[k] \in Nat /\ uncounted'[k] \in Nat
    <2>1. Allowed(k)' \subseteq Allowed(k) \cup (IF k \in keys THEN {c} ELSE {})
      BY <1>3, <1>6, <1>7 DEF Allowed
    <2>2. Pending(k)' = Pending(k) BY <1>4 DEF Pending
    <2>3. UNCHANGED <<used, usedOn, today, made>> BY <1>4 DEF rowVars
    <2>4. most'[k] = Max({most[k], UnderWay(k)'}) BY <1>4
    <2>5. uncounted[k] \in Nat /\ Effective(k, today) \in Nat /\ MaxPerDay \in Nat
      BY <1>0, KeyConstants DEF KeysTypeOK, Effective
    <2>6. CASE k \in keys
      <3>1. \/ uncounted'[k] = uncounted[k] + 1
            \/ uncounted'[k] = uncounted[k] /\ Effective(k, today) < MaxPerDay
        BY <1>5, <2>5, <2>6
      <3>2. Allowed(k)' \subseteq Allowed(k) \cup {c} BY <2>1, <2>6
      <3>3. KeyInv(k)' /\ most'[k] \in Nat
        BY <1>0, <2>2, <2>3, <2>4, <3>1, <3>2, OneMoreAllowed
      <3> QED BY <2>5, <3>1, <3>3
    <2>7. CASE k \notin keys
      <3>1. uncounted'[k] = uncounted[k] BY <1>5, <2>5, <2>7
      <3>2. Allowed(k)' \subseteq Allowed(k) BY <2>1, <2>7
      <3>3. most'[k] = most[k]
        <4>1. IsFiniteSet(Allowed(k)) /\ Cardinality(Allowed(k)) \in Nat /\ Cardinality(Pending(k)) \in Nat
          BY <1>0, Finite DEF PastInv
        <4>2. PICK S : S = Allowed(k)' OBVIOUS
        <4>3. IsFiniteSet(S) /\ Cardinality(S) <= Cardinality(Allowed(k))
          BY <3>2, <4>1, <4>2, FS_Subset
        <4>4. PICK way \in Nat : way = UnderWay(k)' /\ way <= UnderWay(k)
          BY <2>2, <4>1, <4>2, <4>3, FS_CardinalityType DEF UnderWay
        <4>5. most[k] \in Nat /\ way <= most[k]
          BY <1>0, <4>1, <4>4 DEF KeysTypeOK, KeyInv, WayInv, UnderWay
        <4>6. Max({most[k], way}) = most[k] BY <4>5, MaxOfBound
        <4> QED BY <2>4, <4>4, <4>6
      <3>4. most[k] \in Nat BY <1>0 DEF KeysTypeOK
      <3>5. KeyInv(k)' BY <1>0, <2>2, <2>3, <3>1, <3>2, <3>3, FewerAllowed
      <3> QED BY <2>5, <3>1, <3>3, <3>4, <3>5
    <2> QED BY <2>6, <2>7
  <1>9. KeysTypeOK'
    <2>1. most' \in [Keys -> Nat] /\ uncounted' \in [Keys -> Nat] BY <1>4, <1>5, <1>8
    <2>2. clientAt' \in [Clients -> {"idle", "count", "counted", "wait", "rows", "pick", "call"}]
          /\ memory' \in [Clients -> Memory]
      BY <1>0, <1>3 DEF KeysTypeOK, Remembers
    <2> QED BY <1>0, <1>4, <2>1, <2>2 DEF KeysTypeOK, rowVars, cacheVars
  <1>10. PastInv' BY <1>0, <1>4 DEF PastInv, rowVars
  <1>11. CountInv' BY <1>4, <1>6, <1>7 DEF IInv, CountInv, rowVars, cacheVars
  <1>12. CacheOutdatedOnlyByOverlap'
    BY <1>4 DEF IInv, CacheOutdatedOnlyByOverlap, rowVars, cacheVars
  <1> QED BY <1>8, <1>9, <1>10, <1>11, <1>12 DEF IInv

-----------------------------------------------------------------------------
(* The answer adds one to the calls made and takes one from those allowed; *)
(* it waits to be counted.                                                 *)
LEMMA GetAnswerKeeps == ASSUME IInv, NEW c \in Clients, GetAnswer(c) PROVE IInv'
  <1>0. KeysTypeOK /\ PastInv /\ \A l \in Keys : KeyInv(l) BY DEF IInv
  <1>1. PICK k : k = memory[c].key OBVIOUS
  <1>2. k \in Keys BY <1>0, <1>1 DEF KeysTypeOK, Memory
  <1>3. PICK n : n = [by |-> c, key |-> k, nr |-> answers[c]] OBVIOUS
  <1>4. answers[c] \in Nat BY <1>0 DEF KeysTypeOK
  <1>5. n \in [by : Clients, key : Keys, nr : Nat] /\ n.key = k /\ n.by = c /\ n.nr = answers[c]
    BY <1>2, <1>3, <1>4
  <1>6. n \notin counting BY <1>0, <1>4, <1>5 DEF PastInv
  <1>7. /\ clientAt[c] = "call" /\ clientAt' = [clientAt EXCEPT ![c] = "idle"]
        /\ memory' = [memory EXCEPT ![c] = Nothing]
        /\ counting' = counting \cup {n}
        /\ answers' = [answers EXCEPT ![c] = answers[c] + 1]
        /\ made' = [made EXCEPT ![k] = made[k] + 1]
        /\ UNCHANGED <<rowVars, cacheVars, leases, most, uncounted>>
    BY <1>1, <1>3 DEF GetAnswer, ClientGoes, Remembers
  <1>8. \A d \in Clients : /\ clientAt'[d] = IF d = c THEN "idle" ELSE clientAt[d]
                           /\ d # c => memory'[d] = memory[d]
    BY <1>0, <1>7 DEF KeysTypeOK
  <1>9. KeysTypeOK'
    <2>1. made' \in [Keys -> Nat] BY <1>0, <1>2, <1>7 DEF KeysTypeOK
    <2>2. answers' \in [Clients -> Nat] BY <1>0, <1>7 DEF KeysTypeOK
    <2>3. memory' \in [Clients -> Memory] BY <1>0, <1>7, NothingIsMemory DEF KeysTypeOK
    <2>4. counting' \subseteq [by : Clients, key : Keys, nr : Nat] BY <1>0, <1>5, <1>7 DEF KeysTypeOK
    <2> QED BY <1>0, <1>7, <2>1, <2>2, <2>3, <2>4 DEF KeysTypeOK, rowVars, cacheVars
  <1>10. PastInv'
    <2>1. IsFiniteSet(counting') BY <1>0, <1>7, FS_AddElement DEF PastInv
    <2>2. ASSUME NEW q \in counting' PROVE q.nr < answers'[q.by]
      <3>1. CASE q = n BY <1>0, <1>4, <1>5, <1>7, <3>1 DEF KeysTypeOK
      <3>2. CASE q # n
        <4>1. q \in counting BY <1>7, <3>2
        <4>2. q.by \in Clients /\ q.nr \in Nat /\ q.nr < answers[q.by]
          BY <1>0, <4>1 DEF KeysTypeOK, PastInv
        <4> QED BY <1>0, <1>4, <1>7, <4>2 DEF KeysTypeOK
      <3> QED BY <3>1, <3>2
    <2> QED BY <1>0, <1>7, <2>1, <2>2 DEF PastInv, rowVars
  <1>11. ASSUME NEW l \in Keys, l # k PROVE KeyInv(l)'
    <2>1. Pending(l)' = Pending(l) BY <1>5, <1>7, <1>11 DEF Pending
    <2>2. Allowed(l)' \subseteq Allowed(l) BY <1>8 DEF Allowed
    <2>3. UNCHANGED <<used, usedOn, today>> /\ made'[l] = made[l]
          /\ most'[l] = most[l] /\ uncounted'[l] = uncounted[l]
      BY <1>0, <1>7, <1>11 DEF rowVars, KeysTypeOK
    <2> QED BY <1>0, <2>1, <2>2, <2>3, FewerAllowed
  <1>12. KeyInv(k)'
    <2>1. PICK A, P : A = Allowed(k) /\ P = Pending(k) OBVIOUS
    <2>2. /\ IsFiniteSet(A) /\ Cardinality(A) \in Nat
          /\ IsFiniteSet(P) /\ Cardinality(P) \in Nat
      BY <1>0, <1>2, <2>1, Finite DEF PastInv
    <2>3. c \in A BY <1>1, <1>7, <2>1 DEF Allowed
    <2>4. Allowed(k)' = A \ {c} BY <1>8, <2>1 DEF Allowed
    <2>5. Cardinality(A \ {c}) = Cardinality(A) - 1 BY <2>2, <2>3, FS_RemoveElement
    <2>6. n \notin P BY <1>6, <2>1 DEF Pending
    <2>7. Pending(k)' = P \cup {n} BY <1>5, <1>7, <2>1 DEF Pending
    <2>8. Cardinality(P \cup {n}) = Cardinality(P) + 1 BY <2>2, <2>6, FS_AddElement
    <2>9. Effective(k, today)' = Effective(k, today) /\ Effective(k, today) \in Nat
      BY <1>0, <1>2, <1>7 DEF Effective, rowVars, KeysTypeOK
    <2>10. /\ made'[k] = made[k] + 1 /\ most'[k] = most[k] /\ uncounted'[k] = uncounted[k]
           /\ made[k] \in Nat /\ most[k] \in Nat /\ uncounted[k] \in Nat /\ MaxPerDay \in Nat
      BY <1>0, <1>2, <1>7, KeyConstants DEF KeysTypeOK
    <2>11. Cardinality(Allowed(k)') = Cardinality(A) - 1 /\ Cardinality(Pending(k)') = Cardinality(P) + 1
      BY <2>4, <2>5, <2>7, <2>8
    <2>12. DayInv(k)' BY <1>0, <1>2, <2>1, <2>2, <2>9, <2>10, <2>11 DEF KeyInv, DayInv
    <2>13. WayInv(k)' BY <1>0, <1>2, <2>1, <2>2, <2>10, <2>11 DEF KeyInv, WayInv, UnderWay
    <2>14. LimitInv(k)'
      BY <1>0, <1>2, <2>1, <2>2, <2>3, <2>10, <2>11 DEF KeyInv, LimitInv
    <2> QED BY <2>12, <2>13, <2>14 DEF KeyInv
  <1>13. CountInv' BY <1>7, <1>8 DEF IInv, CountInv, rowVars, cacheVars
  <1>14. CacheOutdatedOnlyByOverlap'
    BY <1>7 DEF IInv, CacheOutdatedOnlyByOverlap, rowVars, cacheVars
  <1> QED BY <1>9, <1>10, <1>11, <1>12, <1>13, <1>14 DEF IInv

-----------------------------------------------------------------------------
(* One answer less waits to be counted: the row below the limit shows it,  *)
(* or it is among the uncounted.                                           *)
LEMMA OnePendingLess ==
  ASSUME IInv, NEW n \in counting, NEW k, k = n.key, counting' = counting \ {n},
         UNCHANGED <<today, clientAt, memory, made, most>>,
         KeysTypeOK', usedOn'[k] <= today,
         \A l \in Keys : l # k => /\ used'[l] = used[l] /\ usedOn'[l] = usedOn[l]
                               /\ uncounted'[l] = uncounted[l],
         \/ uncounted'[k] = uncounted[k] + 1 /\ Effective(k, today)' = Effective(k, today)
         \/ uncounted'[k] = uncounted[k] /\ Effective(k, today)' = Effective(k, today) + 1
         \/ /\ uncounted'[k] = uncounted[k] /\ Effective(k, today)' = Effective(k, today)
            /\ Effective(k, today) >= MaxPerDay,
         UNCHANGED <<active, changed, nonce, cache, overtaken, answers>>
  PROVE  IInv'
  <1>0. KeysTypeOK /\ PastInv /\ \A l \in Keys : KeyInv(l) BY DEF IInv
  <1>1. k \in Keys BY <1>0 DEF KeysTypeOK
  <1>2. PastInv'
    <2>1. IsFiniteSet(counting') BY <1>0, FS_RemoveElement DEF PastInv
    <2>2. \A l \in Keys : usedOn'[l] <= today BY <1>0 DEF PastInv
    <2> QED BY <1>0, <2>1, <2>2 DEF PastInv
  <1>3. \A l \in Keys : Allowed(l)' = Allowed(l) BY DEF Allowed
  <1>4. ASSUME NEW l \in Keys, l # k PROVE KeyInv(l)'
    <2>1. Pending(l)' = Pending(l) BY <1>4 DEF Pending
    <2>2. Effective(l, today)' = Effective(l, today) BY <1>4 DEF Effective
    <2>3. made'[l] = made[l] /\ most'[l] = most[l] /\ uncounted'[l] = uncounted[l] BY <1>4
    <2>4. KeyInv(l) BY <1>0
    <2>5. DayInv(l)' BY <2>1, <2>2, <2>3, <2>4 DEF KeyInv, DayInv
    <2>6. WayInv(l)' BY <1>3, <2>1, <2>3, <2>4 DEF KeyInv, WayInv, UnderWay
    <2>7. LimitInv(l)' BY <1>3, <2>3, <2>4 DEF KeyInv, LimitInv
    <2> QED BY <2>5, <2>6, <2>7 DEF KeyInv
  <1>5. KeyInv(k)'
    <2>1. PICK A, P : A = Allowed(k) /\ P = Pending(k) OBVIOUS
    <2>2. Cardinality(A) \in Nat /\ IsFiniteSet(P) /\ Cardinality(P) \in Nat
      BY <1>0, <1>1, <2>1, Finite DEF PastInv
    <2>3. n \in P /\ Pending(k)' = P \ {n} BY <2>1 DEF Pending
    <2>4. Cardinality(P \ {n}) = Cardinality(P) - 1 BY <2>2, <2>3, FS_RemoveElement
    <2>5. Cardinality(Pending(k)') = Cardinality(P) - 1 BY <2>3, <2>4
    <2>6. Cardinality(Allowed(k)') = Cardinality(A) BY <1>1, <1>3, <2>1
    <2>7. /\ made'[k] = made[k] /\ most'[k] = most[k]
          /\ made[k] \in Nat /\ most[k] \in Nat /\ uncounted[k] \in Nat /\ MaxPerDay \in Nat
          /\ Effective(k, today) \in Nat
      BY <1>0, <1>1, KeyConstants DEF KeysTypeOK, Effective
    <2>8. uncounted'[k] \in Nat /\ uncounted[k] <= uncounted'[k] BY <2>7
    <2>9. DayInv(k) /\ WayInv(k) /\ LimitInv(k) BY <1>0, <1>1 DEF KeyInv
    <2>10. DayInv(k)' BY <2>1, <2>2, <2>5, <2>7, <2>9 DEF DayInv
    <2>11. WayInv(k)' BY <2>1, <2>2, <2>5, <2>6, <2>7, <2>9 DEF WayInv, UnderWay
    <2>12. LimitInv(k)' BY <2>1, <2>2, <2>6, <2>7, <2>8, <2>9 DEF LimitInv
    <2> QED BY <2>10, <2>11, <2>12 DEF KeyInv
  <1>6. CountInv' /\ CacheOutdatedOnlyByOverlap'
    BY DEF IInv, CountInv, CacheOutdatedOnlyByOverlap
  <1> QED BY <1>2, <1>4, <1>5, <1>6 DEF IInv

LEMMA CountKeeps == ASSUME IInv, NEW n \in counting, Count(n) PROVE IInv'
  <1>0. KeysTypeOK /\ PastInv BY DEF IInv
  <1>1. PICK k : k = n.key OBVIOUS
  <1>2. k \in Keys BY <1>0, <1>1 DEF KeysTypeOK
  <1>3. used[k] \in Nat /\ usedOn[k] \in Nat /\ uncounted[k] \in Nat /\ today \in Nat /\ usedOn[k] <= today
        /\ MaxPerDay \in Nat
    BY <1>0, <1>2, KeyConstants DEF KeysTypeOK, PastInv
  <1>4. PICK nr \in Nat, day \in Nat, un \in Nat :
          /\ used' = [used EXCEPT ![k] = nr] /\ usedOn' = [usedOn EXCEPT ![k] = day]
          /\ uncounted' = [uncounted EXCEPT ![k] = un]
          /\ IF k \in active /\ (usedOn[k] < today \/ used[k] < MaxPerDay)
               THEN nr = (IF usedOn[k] < today THEN 1 ELSE used[k] + 1) /\ day = today
               ELSE nr = used[k] /\ day = usedOn[k]
          /\ un = IF k \in active THEN uncounted[k] ELSE uncounted[k] + 1
    <2>1. PICK un \in Nat : un = IF k \in active THEN uncounted[k] ELSE uncounted[k] + 1 BY <1>3
    <2>2. uncounted' = [uncounted EXCEPT ![k] = un] BY <1>1, <2>1 DEF Count
    <2>3. CASE k \in active /\ (usedOn[k] < today \/ used[k] < MaxPerDay)
      <3>1. PICK nr \in Nat : nr = IF usedOn[k] < today THEN 1 ELSE used[k] + 1 BY <1>3
      <3>2. used' = [used EXCEPT ![k] = nr] /\ usedOn' = [usedOn EXCEPT ![k] = today]
        BY <1>1, <2>3, <3>1 DEF Count
      <3> QED BY <1>3, <2>1, <2>2, <2>3, <3>1, <3>2
    <2>4. CASE ~(k \in active /\ (usedOn[k] < today \/ used[k] < MaxPerDay))
      <3>1. used' = used /\ usedOn' = usedOn BY <1>1, <2>4 DEF Count
      <3>2. used' = [used EXCEPT ![k] = used[k]] /\ usedOn' = [usedOn EXCEPT ![k] = usedOn[k]]
        BY <1>0, <3>1 DEF KeysTypeOK
      <3> QED BY <1>3, <2>1, <2>2, <2>4, <3>2
    <2> QED BY <2>3, <2>4
  <1>5. counting' = counting \ {n}
        /\ UNCHANGED <<active, today, changed, changes, cacheVars, leases, clientAt, memory,
                       answers, made, most>>
    BY DEF Count
  <1>6. KeysTypeOK'
    <2>1. used' \in [Keys -> Nat] /\ usedOn' \in [Keys -> Nat] /\ uncounted' \in [Keys -> Nat]
      BY <1>0, <1>4 DEF KeysTypeOK
    <2> QED BY <1>0, <1>5, <2>1 DEF KeysTypeOK, cacheVars
  <1>7. used'[k] = nr /\ usedOn'[k] = day /\ uncounted'[k] = un BY <1>0, <1>2, <1>4 DEF KeysTypeOK
  <1>8. \A l \in Keys : l # k => /\ used'[l] = used[l] /\ usedOn'[l] = usedOn[l]
                              /\ uncounted'[l] = uncounted[l]
    BY <1>0, <1>4 DEF KeysTypeOK
  <1>9. Effective(k, today)' = IF day = today THEN nr ELSE 0 BY <1>5, <1>7 DEF Effective
  <1>10. \/ un = uncounted[k] + 1 /\ Effective(k, today)' = Effective(k, today)
         \/ un = uncounted[k] /\ Effective(k, today)' = Effective(k, today) + 1
         \/ /\ un = uncounted[k] /\ Effective(k, today)' = Effective(k, today)
            /\ Effective(k, today) >= MaxPerDay
    <2>1. CASE k \notin active BY <1>3, <1>4, <1>9, <2>1 DEF Effective
    <2>2. CASE k \in active /\ usedOn[k] < today BY <1>3, <1>4, <1>9, <2>2 DEF Effective
    <2>3. CASE k \in active /\ usedOn[k] = today BY <1>3, <1>4, <1>9, <2>3 DEF Effective
    <2> QED BY <1>3, <2>1, <2>2, <2>3
  <1>11. usedOn'[k] <= today BY <1>3, <1>4, <1>7
  <1> QED BY <1>1, <1>5, <1>6, <1>7, <1>8, <1>10, <1>11, OnePendingLess DEF cacheVars

LEMMA CountFailsKeeps == ASSUME IInv, NEW n \in counting, CountFails(n) PROVE IInv'
  <1>0. KeysTypeOK /\ PastInv BY DEF IInv
  <1>1. PICK k : k = n.key OBVIOUS
  <1>2. k \in Keys BY <1>0, <1>1 DEF KeysTypeOK
  <1>3. /\ counting' = counting \ {n} /\ uncounted' = [uncounted EXCEPT ![k] = uncounted[k] + 1]
        /\ UNCHANGED <<rowVars, cacheVars, leases, clientAt, memory, answers, made, most>>
    BY <1>1 DEF CountFails
  <1>4. KeysTypeOK'
    <2>1. uncounted' \in [Keys -> Nat] BY <1>0, <1>2, <1>3 DEF KeysTypeOK
    <2> QED BY <1>0, <1>3, <2>1 DEF KeysTypeOK, rowVars, cacheVars
  <1>5. /\ uncounted'[k] = uncounted[k] + 1
        /\ \A l \in Keys : l # k => uncounted'[l] = uncounted[l]
    BY <1>0, <1>2, <1>3 DEF KeysTypeOK
  <1>6. UNCHANGED <<active, used, usedOn, today, changed>> BY <1>3 DEF rowVars
  <1>7. Effective(k, today)' = Effective(k, today) BY <1>6 DEF Effective
  <1>8. usedOn'[k] <= today BY <1>0, <1>2, <1>6 DEF PastInv
  <1> QED BY <1>1, <1>3, <1>4, <1>5, <1>6, <1>7, <1>8, OnePendingLess DEF cacheVars

-----------------------------------------------------------------------------
(* A new day begins with nothing made, and the calls that are under way.   *)
LEMMA NextDayKeeps == ASSUME IInv, NextDay PROVE IInv'
  <1> USE DEF NextDay
  <1>0. KeysTypeOK /\ PastInv BY DEF IInv
  <1>1. today' = today + 1 /\ today \in Nat BY <1>0 DEF KeysTypeOK
  <1>2. ASSUME NEW k \in Keys
        PROVE  UnderWay(k) \in Nat /\ KeyInv(k)'
    <2>1. Cardinality(Allowed(k)) \in Nat /\ Cardinality(Pending(k)) \in Nat
      BY <1>0, Finite DEF PastInv
    <2>2. Allowed(k)' = Allowed(k) /\ Pending(k)' = Pending(k) BY DEF Allowed, Pending
    <2>3. usedOn[k] \in Nat /\ usedOn[k] <= today /\ usedOn'[k] = usedOn[k]
      BY <1>0 DEF KeysTypeOK, PastInv
    <2>4. Effective(k, today)' = 0 BY <1>1, <2>3 DEF Effective
    <2>5. made'[k] = 0 /\ uncounted'[k] = 0 /\ most'[k] = UnderWay(k) OBVIOUS
    <2>6. UnderWay(k) \in Nat BY <2>1 DEF UnderWay
    <2>7. DayInv(k)' BY <2>1, <2>2, <2>4, <2>5 DEF DayInv
    <2>8. UnderWay(k)' = UnderWay(k) BY <2>2 DEF UnderWay
    <2>9. WayInv(k)' BY <2>5, <2>6, <2>8 DEF WayInv
    <2>10. MaxPerDay \in Nat \ {0} BY KeyConstants
    <2>11. LimitInv(k)' BY <2>1, <2>2, <2>5, <2>10 DEF LimitInv, UnderWay
    <2> QED BY <2>6, <2>7, <2>9, <2>11 DEF KeyInv
  <1>3. KeysTypeOK'
    <2>1. made' \in [Keys -> Nat] /\ most' \in [Keys -> Nat] /\ uncounted' \in [Keys -> Nat]
      BY <1>2
    <2> QED BY <1>0, <1>1, <2>1 DEF KeysTypeOK, cacheVars
  <1>4. PastInv'
    <2>1. \A k \in Keys : usedOn[k] \in Nat BY <1>0 DEF KeysTypeOK
    <2> QED BY <1>0, <1>1, <2>1 DEF PastInv
  <1>5. CountInv' /\ CacheOutdatedOnlyByOverlap'
    BY DEF IInv, CountInv, CacheOutdatedOnlyByOverlap, cacheVars
  <1> QED BY <1>2, <1>3, <1>4, <1>5 DEF IInv

(* What a process had not sent when it ended is among the uncounted.       *)
LEMMA RestartKeeps == ASSUME IInv, NEW p \in Processes, Restart(p) PROVE IInv'
  <1>0. KeysTypeOK /\ PastInv /\ \A k \in Keys : KeyInv(k) BY DEF IInv
  <1>1. PICK mine : mine = {c \in Clients : ProcessOf[c] = p} OBVIOUS
  <1>2. /\ clientAt' = [c \in Clients |-> IF c \in mine THEN "idle" ELSE clientAt[c]]
        /\ memory' = [c \in Clients |-> IF c \in mine THEN Nothing ELSE memory[c]]
        /\ counting' = {n \in counting : n.by \notin mine}
        /\ uncounted' = [k \in Keys |-> uncounted[k] + Cardinality({n \in Pending(k) : n.by \in mine})]
        /\ leases' = [leases EXCEPT ![p] = [k \in Keys |-> 0]]
        /\ nonce' = [nonce EXCEPT ![p] = 0]
        /\ cache' = [cache EXCEPT ![p] = [nonce |-> -1, count |-> -1]]
        /\ overtaken' = [overtaken EXCEPT ![p] = FALSE]
        /\ changed' = (IF p = Api THEN 0 ELSE changed)
        /\ UNCHANGED <<active, used, usedOn, today, changes, answers, made, most>>
    BY <1>1 DEF Restart
  <1>3. \A c \in Clients : /\ clientAt'[c] = IF c \in mine THEN "idle" ELSE clientAt[c]
                           /\ c \notin mine => memory'[c] = memory[c]
    BY <1>2
  <1>4. ASSUME NEW k \in Keys PROVE KeyInv(k)' /\ uncounted'[k] \in Nat
    <2>1. PICK A, B, P, Q, G : /\ A = Allowed(k) /\ B = Allowed(k)'
                               /\ P = Pending(k) /\ Q = Pending(k)'
                               /\ G = {n \in P : n.by \in mine}
      OBVIOUS
    <2>2. IsFiniteSet(A) /\ Cardinality(A) \in Nat /\ IsFiniteSet(P) /\ Cardinality(P) \in Nat
      BY <1>0, <2>1, Finite DEF PastInv
    <2>3. B \in SUBSET A BY <1>3, <2>1 DEF Allowed
    <2>4. Q = P \ G BY <1>2, <2>1 DEF Pending
    <2>5. G \in SUBSET P BY <2>1
    <2>6. Cardinality(B) \in Nat /\ Cardinality(B) <= Cardinality(A)
      BY <2>2, <2>3, FS_Subset, FS_CardinalityType
    <2>7. Cardinality(G) \in Nat /\ Cardinality(G) <= Cardinality(P)
      BY <2>2, <2>5, FS_Subset, FS_CardinalityType
    <2>8. Cardinality(Q) = Cardinality(P) - Cardinality(P \cap G) BY <2>2, <2>4, FS_Difference
    <2>9. P \cap G = G BY <2>5
    <2>10. Cardinality(Q) = Cardinality(P) - Cardinality(G) BY <2>8, <2>9
    <2>11. uncounted'[k] = uncounted[k] + Cardinality(G) BY <1>2, <2>1
    <2>12. /\ made'[k] = made[k] /\ most'[k] = most[k] /\ made[k] \in Nat /\ most[k] \in Nat
           /\ uncounted[k] \in Nat /\ MaxPerDay \in Nat /\ Effective(k, today) \in Nat
           /\ Effective(k, today)' = Effective(k, today)
      BY <1>0, <1>2, KeyConstants DEF KeysTypeOK, Effective
    <2>13. DayInv(k) /\ WayInv(k) /\ LimitInv(k) BY <1>0 DEF KeyInv
    <2>14. DayInv(k)' BY <2>1, <2>2, <2>7, <2>10, <2>11, <2>12, <2>13 DEF DayInv
    <2>15. WayInv(k)'
      BY <2>1, <2>2, <2>6, <2>7, <2>10, <2>12, <2>13 DEF WayInv, UnderWay
    <2>16. LimitInv(k)' BY <2>1, <2>2, <2>6, <2>7, <2>11, <2>12, <2>13 DEF LimitInv
    <2> QED BY <2>7, <2>11, <2>12, <2>14, <2>15, <2>16 DEF KeyInv
  <1>5. KeysTypeOK'
    <2>1. uncounted' \in [Keys -> Nat] BY <1>2, <1>4
    <2>2. clientAt' \in [Clients -> {"idle", "count", "counted", "wait", "rows", "pick", "call"}]
      BY <1>0, <1>2 DEF KeysTypeOK
    <2>3. memory' \in [Clients -> Memory] BY <1>0, <1>2, NothingIsMemory DEF KeysTypeOK
    <2>4. leases' \in [Processes -> [Keys -> Nat]]
      <3>1. PICK none \in [Keys -> Nat] : none = [k \in Keys |-> 0] OBVIOUS
      <3>2. leases' = [leases EXCEPT ![p] = none] BY <1>2, <3>1
      <3> QED BY <1>0, <3>2 DEF KeysTypeOK
    <2>5. nonce' \in [Processes -> Nat] BY <1>0, <1>2 DEF KeysTypeOK
    <2>6. cache' \in [Processes -> [nonce : Nat \cup {-1}, count : Nat \cup {-1}]]
      <3>1. PICK e \in [nonce : Nat \cup {-1}, count : Nat \cup {-1}] :
              e = [nonce |-> -1, count |-> -1]
        OBVIOUS
      <3>2. cache' = [cache EXCEPT ![p] = e] BY <1>2, <3>1
      <3> QED BY <1>0, <3>2 DEF KeysTypeOK
    <2>7. overtaken' \in [Processes -> BOOLEAN] BY <1>0, <1>2 DEF KeysTypeOK
    <2>8. counting' \subseteq counting /\ changed' \in Nat BY <1>0, <1>2 DEF KeysTypeOK
    <2> QED BY <1>0, <1>2, <2>1, <2>2, <2>3, <2>4, <2>5, <2>6, <2>7, <2>8 DEF KeysTypeOK
  <1>6. PastInv'
    <2>1. counting' \in SUBSET counting BY <1>2
    <2>2. IsFiniteSet(counting') BY <1>0, <2>1, FS_Subset DEF PastInv
    <2> QED BY <1>0, <1>2, <2>1, <2>2 DEF PastInv
  <1>7. CountInv' /\ CacheOutdatedOnlyByOverlap'
    <2>1. CASE p = Api
      <3>1. cache'[Api] = [nonce |-> -1, count |-> -1] /\ nonce'[Api] = 0
        BY <1>0, <1>2, <2>1, KeyConstants DEF KeysTypeOK
      <3>2. \A c \in Clients : ProcessOf[c] = Api => clientAt'[c] # "counted"
        BY <1>1, <1>3, <2>1
      <3> QED BY <3>1, <3>2 DEF CountInv, CacheOutdatedOnlyByOverlap
    <2>2. CASE p # Api
      <3>1. /\ cache'[Api] = cache[Api] /\ nonce'[Api] = nonce[Api]
            /\ overtaken'[Api] = overtaken[Api] /\ changed' = changed
        BY <1>0, <1>2, <2>2, KeyConstants DEF KeysTypeOK
      <3>2. \A c \in Clients : ProcessOf[c] = Api => clientAt'[c] = clientAt[c] /\ memory'[c] = memory[c]
        BY <1>1, <1>3, <2>2
      <3> QED BY <1>2, <3>1, <3>2 DEF IInv, CountInv, CacheOutdatedOnlyByOverlap
    <2> QED BY <2>1, <2>2
  <1> QED BY <1>4, <1>5, <1>6, <1>7 DEF IInv

-----------------------------------------------------------------------------
LEMMA IInvIsKept == IInv /\ [KeysNext]_keyVars => IInv'
  <1> SUFFICES ASSUME IInv, [KeysNext]_keyVars PROVE IInv' OBVIOUS
  <1>1. CASE \E c \in Clients : ClientStep(c)
    BY <1>1, LookKeeps, CountKeysKeeps, KeepCountKeeps, TakeDayKeeps, ReadRowsKeeps, PickKeeps,
       GiveUpKeeps, GetAnswerKeeps
    DEF ClientStep
  <1>2. CASE \E p \in Processes : Restart(p) \/ \E k \in Keys : SecondPasses(p, k)
    BY <1>2, RestartKeeps, SecondPassesKeeps
  <1>3. CASE \E n \in counting : Count(n) \/ CountFails(n) BY <1>3, CountKeeps, CountFailsKeeps
  <1>4. CASE NextDay \/ Invalidate \/ \E k \in Keys : ChangeKey(k)
    BY <1>4, NextDayKeeps, InvalidateKeeps, ChangeKeyKeeps
  <1>5. CASE UNCHANGED keyVars
    <2>1. UNCHANGED <<active, used, usedOn, today, changed, changes, nonce, cache, overtaken,
                      leases, clientAt, memory, counting, answers, made, most, uncounted>>
      BY <1>5 DEF keyVars, rowVars, cacheVars, pastVars
    <2>2. KeysTypeOK' /\ PastInv' BY <2>1 DEF IInv, KeysTypeOK, PastInv
    <2>3. \A k \in Keys : Allowed(k)' = Allowed(k) BY <2>1 DEF Allowed
    <2>4. CountInv' /\ CacheOutdatedOnlyByOverlap'
      BY <2>1 DEF IInv, CountInv, CacheOutdatedOnlyByOverlap
    <2> QED BY <2>1, <2>2, <2>3, <2>4, QuietStep
  <1> QED BY <1>1, <1>2, <1>3, <1>4, <1>5 DEF KeysNext

LEMMA IInvAlways == KeysSpec => []IInv
  BY IInvHoldsAtFirst, IInvIsKept, PTL DEF KeysSpec

(* The variables of the key pool keep their types. *)
THEOREM KeysTypeCorrect == KeysSpec => []KeysTypeOK
  <1>1. IInv => KeysTypeOK BY DEF IInv
  <1> QED BY <1>1, IInvAlways, PTL

(* Once the admin's changes are announced, the cached number of keys is    *)
(* outdated only if a change was announced while it was read.              *)
THEOREM CacheAlwaysCurrent == KeysSpec => []CacheOutdatedOnlyByOverlap
  <1>1. IInv => CacheOutdatedOnlyByOverlap BY DEF IInv
  <1> QED BY <1>1, IInvAlways, PTL

(* A key's daily limit is overrun only by calls that overlapped, answers   *)
(* that were not counted and looks at the row with yesterday's date.       *)
THEOREM LimitOverrunBounded == KeysSpec => []LimitOverrunOnlyByOverlap
  <1>1. ASSUME IInv PROVE LimitOverrunOnlyByOverlap
    <2>1. ASSUME NEW k \in Keys, made[k] > 0
          PROVE  made[k] < MaxPerDay + most[k] + uncounted[k]
      <3>1. KeysTypeOK /\ IsFiniteSet(counting) /\ LimitInv(k) BY <1>1 DEF IInv, KeyInv, PastInv
      <3>2. Cardinality(Allowed(k)) \in Nat BY <3>1, Finite
      <3>3. made[k] \in Nat /\ most[k] \in Nat /\ uncounted[k] \in Nat /\ MaxPerDay \in Nat
        BY <3>1, KeyConstants DEF KeysTypeOK
      <3> QED BY <2>1, <3>1, <3>2, <3>3 DEF LimitInv
    <2> QED BY <2>1 DEF LimitOverrunOnlyByOverlap
  <1>2. IInv => LimitOverrunOnlyByOverlap BY <1>1
  <1> QED BY <1>2, IInvAlways, PTL
=============================================================================
