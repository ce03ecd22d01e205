-------------------------- MODULE SettlementProofs --------------------------
(***************************************************************************)
(* Theorems about FeeMath (every gross amount, every percentage) and about *)
(* Settlement (any deposits, settlers, payouts, terms and balances).       *)
(*                                                                         *)
(* The invariants follow from IInv, which says of a request that is past   *)
(* its load what the tables still hold of what it loaded, and of two rows  *)
(* that share a deposit that neither was there when the other loaded.      *)
(* Of the balance it says that the deposits cover any debits decided on    *)
(* one after the other, whichever of the payouts among them are failed now *)
(* and completed later: a debit was decided on beside all it saw.          *)
(***************************************************************************)
EXTENDS Settlement, FiniteSetTheorems, WellFoundedInduction, TLAPS

LEMMA DivIsFloor ==
  ASSUME NEW x \in Nat, NEW n \in Nat, n > 0
  PROVE  /\ x \div n \in Nat
         /\ n * (x \div n) <= x
         /\ x < n * (x \div n) + n
  OBVIOUS

LEMMA ProductBound ==
  ASSUME NEW gross \in Nat, NEW bps \in 0 .. Whole
  PROVE  /\ gross * bps \in Nat
         /\ gross * bps <= gross * Whole
  <1>1. gross * bps \in Nat OBVIOUS
  <1>2. gross * (Whole - bps) \in Nat BY DEF Whole
  <1>3. gross * (Whole - bps) = gross * Whole - gross * bps BY DEF Whole
  <1> QED BY <1>1, <1>2, <1>3 DEF Whole

LEMMA FloorUnique ==
  ASSUME NEW x \in Nat, NEW q \in Nat, Whole * q <= x, x < Whole * q + Whole
  PROVE  x \div Whole = q
  BY DEF Whole

LEMMA FloorBound ==
  ASSUME NEW x \in Nat, NEW gross \in Nat, x <= gross * Whole
  PROVE  x \div Whole \in 0 .. gross
  BY DEF Whole

LEMMA FloorOfSum ==
  ASSUME NEW x \in Nat, NEW y \in Nat
  PROVE  LET q == (x + y) \div Whole - x \div Whole - y \div Whole IN q \in 0 .. 1
  BY DEF Whole

LEMMA BpsBound ==
  ASSUME NEW percent \in Percents
  PROVE  Bps(percent) \in 0 .. Whole /\ Bps(percent) \in Int
  <1>1. Whole \in Nat BY DEF Whole
  <1>2. percent \in Nat /\ percent <= 100 * Whole BY <1>1 DEF Percents, Hundred
  <1>3. ASSUME NEW w \in Nat, NEW p \in Nat, p <= 100 * w
        PROVE  (p + 50) \div 100 \in 0 .. w
    BY <1>3
  <1> QED BY <1>1, <1>2, <1>3 DEF Bps

LEMMA FeeWithinGross ==
  ASSUME NEW gross \in Nat, NEW percent \in Percents
  PROVE  FeeAmount(gross, percent) \in 0 .. gross
  <1>1. Bps(percent) \in 0 .. Whole BY BpsBound
  <1>2. (gross * Bps(percent)) \div Whole \in 0 .. gross
    BY <1>1, ProductBound, FloorBound
  <1> QED BY <1>2 DEF FeeAmount, Percents

(* However the percentages round, what is paid and what is withheld add up *)
(* to the gross, and no part is negative (splitFeesSequentialFromGross     *)
(* throws otherwise: it never does).                                       *)
THEOREM FeesAddUp ==
  ASSUME NEW gross \in Nat, NEW m \in Percents, NEW s \in Percents
  PROVE  LET f == Split(gross, m, s) IN
         /\ f.mdr \in Nat /\ f.fee \in Nat /\ f.net \in Nat
         /\ gross = f.mdr + f.fee + f.net
  <1> DEFINE mdr == FeeAmount(gross, m)
             fee == FeeAmount(gross - mdr, s)
  <1>1. mdr \in 0 .. gross BY FeeWithinGross
  <1>2. gross - mdr \in Nat BY <1>1
  <1>3. fee \in 0 .. (gross - mdr) BY <1>2, FeeWithinGross
  <1>4. Split(gross, m, s) =
          [mdr |-> mdr, afterMdr |-> gross - mdr, fee |-> fee, net |-> gross - mdr - fee]
    BY DEF Split
  <1> HIDE DEF mdr, fee
  <1> QED BY <1>1, <1>2, <1>3, <1>4

LEMMA Distribute ==
  ASSUME NEW a \in Int, NEW b \in Int, NEW z \in Int
  PROVE  (a + b) * z = a * z + b * z
  OBVIOUS

LEMMA FeeOfSum ==
  ASSUME NEW a \in Nat, NEW b \in Nat, NEW p \in Percents
  PROVE  FeeAmount(a + b, p) - FeeAmount(a, p) - FeeAmount(b, p) \in 0 .. 1
  <1> DEFINE bps == Bps(p)
  <1>1. bps \in 0 .. Whole /\ bps \in Int BY BpsBound
  <1>2. CASE p >= Hundred \/ bps >= Whole
    BY <1>2 DEF FeeAmount
  <1>3. CASE ~(p >= Hundred \/ bps >= Whole) /\ (p <= 0 \/ bps <= 0)
    BY <1>3 DEF FeeAmount
  <1>4. CASE ~(p >= Hundred \/ bps >= Whole) /\ ~(p <= 0 \/ bps <= 0)
    <2>1. a * bps \in Nat /\ b * bps \in Nat BY <1>1, ProductBound
    <2>2. (a + b) * bps = a * bps + b * bps
      <3>1. a \in Int /\ b \in Int OBVIOUS
      <3> HIDE DEF bps
      <3> QED BY <1>1, <3>1, Distribute
    <2>3. (a * bps + b * bps) \div Whole - (a * bps) \div Whole - (b * bps) \div Whole \in 0 .. 1
      BY <2>1, FloorOfSum
    <2> QED BY <1>4, <2>2, <2>3 DEF FeeAmount
  <1> QED BY <1>2, <1>3, <1>4

LEMMA FeeStep ==
  ASSUME NEW a \in Nat, NEW p \in Percents
  PROVE  FeeAmount(a + 1, p) - FeeAmount(a, p) \in 0 .. 1
  <1> DEFINE bps == Bps(p)
  <1>1. bps \in 0 .. Whole /\ bps \in Int BY BpsBound
  <1>2. CASE p >= Hundred \/ bps >= Whole
    BY <1>2 DEF FeeAmount
  <1>3. CASE ~(p >= Hundred \/ bps >= Whole)
    <2>1. bps \in Nat /\ bps < Whole
      <3>1. ~(bps >= Whole) BY <1>3
      <3> HIDE DEF bps
      <3> QED BY <1>1, <3>1 DEF Whole
    <2>2. bps \div Whole = 0
      <3> HIDE DEF bps
      <3> QED BY <2>1, FloorUnique DEF Whole
    <2>3. FeeAmount(1, p) = 0 BY <1>1, <1>3, <2>2 DEF FeeAmount
    <2>4. FeeAmount(a + 1, p) - FeeAmount(a, p) - FeeAmount(1, p) \in 0 .. 1
      BY FeeOfSum
    <2>5. FeeAmount(a + 1, p) \in Nat /\ FeeAmount(a, p) \in Nat BY FeeWithinGross
    <2> QED BY <2>3, <2>4, <2>5
  <1> QED BY <1>2, <1>3

(* Where a merchant's deposits are cut into settlements changes what it    *)
(* gets by rounding only: two batches pay at most two units more than one, *)
(* and never less.                                                         *)
THEOREM BatchingIsFair ==
  ASSUME NEW a \in Nat, NEW b \in Nat, NEW m \in Percents, NEW s \in Percents
  PROVE  Split(a, m, s).net + Split(b, m, s).net - Split(a + b, m, s).net \in 0 .. 2
  <1> DEFINE A == a - FeeAmount(a, m)
             B == b - FeeAmount(b, m)
             C == (a + b) - FeeAmount(a + b, m)
             f(x) == FeeAmount(x, s)
             cut == FeeAmount(a + b, m) - FeeAmount(a, m) - FeeAmount(b, m)
  <1>1. A \in Nat /\ B \in Nat /\ C \in Nat BY FeeWithinGross
  <1>2. cut \in 0 .. 1 BY FeeOfSum
  <1>3. C = A + B - cut
    BY FeeWithinGross
  <1>4. f(A) \in Nat /\ f(B) \in Nat /\ f(C) \in Nat /\ f(A + B) \in Nat
    BY <1>1, FeeWithinGross
  <1>5. f(A + B) - f(A) - f(B) \in 0 .. 1
    BY <1>1, FeeOfSum
  <1>6. CASE cut = 0
    <2>1. C = A + B BY <1>1, <1>3, <1>6
    <2>2. A - f(A) + (B - f(B)) - (C - f(C)) \in 0 .. 2
      <3> HIDE DEF A, B, C, f, cut
      <3> QED BY <1>1, <1>4, <1>5, <2>1
    <2> QED BY <2>2 DEF Split
  <1>7. CASE cut = 1
    <2>1. A + B = C + 1
      <3> HIDE DEF A, B, C, cut
      <3> QED BY <1>1, <1>3, <1>7
    <2>2. f(C + 1) - f(C) \in 0 .. 1 BY <1>1, FeeStep
    <2>3. A - f(A) + (B - f(B)) - (C - f(C)) \in 0 .. 2
      <3>1. f(A + B) = f(C + 1) BY <2>1
      <3> HIDE DEF A, B, C, f, cut
      <3> QED BY <1>1, <1>4, <1>5, <2>1, <2>2, <3>1
    <2> QED BY <2>3 DEF Split
  <1> QED
    <2> HIDE DEF cut
    <2> QED BY <1>2, <1>6, <1>7

-----------------------------------------------------------------------------
(* Of some natural numbers one is the least. *)
LEMMA LeastOfNats ==
  ASSUME NEW D \in SUBSET Nat, D # {}
  PROVE  \E n \in D : \A m \in D : n <= m
  <1> DEFINE Less == {ss \in Nat \X Nat : ss[1] < ss[2]}
  <1>1. IsWellFoundedOn(Less, Nat) BY NatLessThanWellFounded DEF OpToRel
  <1>2. PICK n \in D : \A m \in D : ~(<<m, n>> \in Less)
    <2> HIDE DEF Less
    <2> QED BY <1>1, WFMin, Zenon
  <1>3. ASSUME NEW m \in D PROVE n <= m
    <2>1. m \in Nat /\ n \in Nat /\ <<m, n>> \notin Less BY <1>2
    <2> QED BY <2>1
  <1> QED BY <1>3

(* The powers of ten up to n: there are such, and no others. *)
Powers(f, n) == \A m \in 0 .. n : f[m] = IF m = 0 THEN 1 ELSE 10 * f[m - 1]

LEMMA PowersExist == ASSUME NEW n \in Nat PROVE \E f : Powers(f, n)
  <1> DEFINE D == {m \in Nat : ~\E f : Powers(f, m)}
  <1>1. SUFFICES ASSUME D # {} PROVE FALSE OBVIOUS
  <1>2. PICK k \in D : \A m \in D : k <= m
    <2>1. D \in SUBSET Nat OBVIOUS
    <2> HIDE DEF D
    <2> QED BY <1>1, <2>1, LeastOfNats
  <1>3. k # 0
    <2> DEFINE one == [m \in {0} |-> 1]
    <2>1. Powers(one, 0) BY DEF Powers
    <2> QED BY <2>1
  <1>4. PICK g : Powers(g, k - 1)
    <2>1. k - 1 \in Nat /\ ~(k <= k - 1) BY <1>3
    <2>2. k - 1 \notin D BY <1>2, <2>1
    <2> QED BY <2>1, <2>2
  <1> DEFINE h == [m \in 0 .. k |-> IF m = k THEN 10 * g[k - 1] ELSE g[m]]
  <1>5. Powers(h, k)
    <2> SUFFICES ASSUME NEW m \in 0 .. k PROVE h[m] = IF m = 0 THEN 1 ELSE 10 * h[m - 1]
      BY DEF Powers
    <2>1. CASE m = k
      <3>1. k - 1 \in 0 .. k /\ k - 1 # k BY <1>3
      <3>2. h[k - 1] = g[k - 1] BY <3>1
      <3> QED BY <1>3, <2>1, <3>2
    <2>2. CASE m # k
      <3>1. m \in 0 .. (k - 1) /\ k \in Nat BY <2>2
      <3>2. g[m] = IF m = 0 THEN 1 ELSE 10 * g[m - 1] BY <1>4, <3>1 DEF Powers
      <3>3. h[m] = g[m] BY <2>2
      <3>4. m # 0 => h[m - 1] = g[m - 1]
        <4>1. m # 0 => m - 1 \in 0 .. k /\ m - 1 # k BY <3>1
        <4> QED BY <4>1
      <3> HIDE DEF h
      <3> QED BY <3>2, <3>3, <3>4
    <2> QED BY <2>1, <2>2
  <1> QED BY <1>5

LEMMA PowersUnique ==
  ASSUME NEW f, NEW g, NEW n \in Nat, NEW k \in Nat, Powers(f, n), Powers(g, k),
         NEW m \in Nat, m <= n, m <= k
  PROVE  f[m] = g[m]
  <1> DEFINE D == {l \in Nat : l <= n /\ l <= k /\ f[l] # g[l]}
  <1>1. SUFFICES ASSUME D # {} PROVE FALSE OBVIOUS
  <1>2. PICK l \in D : \A i \in D : l <= i
    <2>1. D \in SUBSET Nat OBVIOUS
    <2> HIDE DEF D
    <2> QED BY <1>1, <2>1, LeastOfNats
  <1>3. l \in Nat /\ l \in 0 .. n /\ l \in 0 .. k OBVIOUS
  <1>4. /\ f[l] = IF l = 0 THEN 1 ELSE 10 * f[l - 1]
        /\ g[l] = IF l = 0 THEN 1 ELSE 10 * g[l - 1]
    BY <1>3 DEF Powers
  <1>5. l # 0 BY <1>4
  <1>6. l - 1 \in Nat /\ l - 1 <= n /\ l - 1 <= k /\ ~(l <= l - 1) BY <1>3, <1>5
  <1>7. l - 1 \notin D BY <1>2, <1>6
  <1>8. f[l - 1] = g[l - 1] BY <1>6, <1>7
  <1>9. f[l] = g[l] BY <1>4, <1>5, <1>8
  <1> QED BY <1>9

LEMMA Pow10Equation ==
  /\ Pow10[0] = 1
  /\ \A n \in Nat : Pow10[n + 1] = 10 * Pow10[n]
  <1> DEFINE UpTo(n) == CHOOSE f : Powers(f, n)
             h == [n \in Nat |-> UpTo(n)[n]]
             IsPow(f) == f = [n \in Nat |-> IF n = 0 THEN 1 ELSE 10 * f[n - 1]]
  <1>1. \A n \in Nat : Powers(UpTo(n), n) BY PowersExist
  <1>2. ASSUME NEW n \in Nat PROVE h[n] = IF n = 0 THEN 1 ELSE 10 * h[n - 1]
    <2>1. n \in 0 .. n OBVIOUS
    <2>2. UpTo(n)[n] = IF n = 0 THEN 1 ELSE 10 * UpTo(n)[n - 1]
      <3> HIDE DEF UpTo
      <3> QED BY <1>1, <2>1 DEF Powers
    <2>3. ASSUME n # 0 PROVE UpTo(n)[n - 1] = UpTo(n - 1)[n - 1]
      <3>1. n - 1 \in Nat /\ n - 1 <= n BY <2>3
      <3>2. Powers(UpTo(n), n) /\ Powers(UpTo(n - 1), n - 1) BY <1>1, <3>1
      <3> HIDE DEF UpTo
      <3> QED BY <3>1, <3>2, PowersUnique
    <2>4. h[n] = UpTo(n)[n] OBVIOUS
    <2>5. n # 0 => h[n - 1] = UpTo(n - 1)[n - 1] 
      <3>1. n # 0 => n - 1 \in Nat OBVIOUS
      <3> HIDE DEF UpTo
      <3> QED BY <3>1
    <2> HIDE DEF UpTo, h
    <2> QED BY <2>2, <2>3, <2>4, <2>5
  <1>3. IsPow(h)
    <2> DEFINE k == [n \in Nat |-> IF n = 0 THEN 1 ELSE 10 * h[n - 1]]
    <2>1. \A n \in Nat : h[n] = k[n]
      <3> HIDE DEF h
      <3> QED BY <1>2
    <2>2. h = k BY <2>1
    <2> QED BY <2>2
  <1>4. IsPow(Pow10)
    <2>1. Pow10 = CHOOSE f : IsPow(f) BY DEF Pow10
    <2> HIDE DEF h, IsPow
    <2> QED BY <1>3, <2>1
  <1>5. \A n \in Nat : Pow10[n] = IF n = 0 THEN 1 ELSE 10 * Pow10[n - 1]
    <2> DEFINE k == [n \in Nat |-> IF n = 0 THEN 1 ELSE 10 * Pow10[n - 1]]
    <2>1. Pow10 = k BY <1>4
    <2>2. \A n \in Nat : k[n] = IF n = 0 THEN 1 ELSE 10 * Pow10[n - 1] OBVIOUS
    <2> HIDE DEF k
    <2> QED BY <2>1, <2>2
  <1>6. \A n \in Nat : n + 1 \in Nat /\ n + 1 # 0 /\ (n + 1) - 1 = n OBVIOUS
  <1>7. \A n \in Nat : Pow10[n + 1] = 10 * Pow10[n]
    <2> SUFFICES ASSUME NEW n \in Nat PROVE Pow10[n + 1] = 10 * Pow10[n] OBVIOUS
    <2>1. Pow10[n + 1] = 10 * Pow10[(n + 1) - 1] BY <1>5, <1>6
    <2> QED BY <1>6, <2>1
  <1> QED BY <1>5, <1>7

LEMMA Pow10IsPositive == \A n \in Nat : Pow10[n] \in Nat \ {0}
  <1> DEFINE D == {n \in Nat : Pow10[n] \notin Nat \ {0}}
  <1>1. SUFFICES ASSUME D # {} PROVE FALSE OBVIOUS
  <1>2. PICK k \in D : \A m \in D : k <= m
    <2>1. D \in SUBSET Nat OBVIOUS
    <2> HIDE DEF D
    <2> QED BY <1>1, <2>1, LeastOfNats
  <1>3. k # 0 BY Pow10Equation
  <1>4. k - 1 \in Nat /\ ~(k <= k - 1) /\ (k - 1) + 1 = k BY <1>3
  <1>5. Pow10[k - 1] \in Nat \ {0} BY <1>2, <1>4
  <1>6. Pow10[k] = 10 * Pow10[k - 1] BY <1>4, Pow10Equation
  <1> QED BY <1>5, <1>6

LEMMA TimesTen == ASSUME NEW a \in Int, NEW b \in Int PROVE 10 * (a * b) = a * (10 * b)
  OBVIOUS

LEMMA Pow10OfSum == \A a \in Nat : \A b \in Nat : Pow10[a + b] = Pow10[a] * Pow10[b]
  <1> SUFFICES ASSUME NEW a \in Nat PROVE \A b \in Nat : Pow10[a + b] = Pow10[a] * Pow10[b]
    OBVIOUS
  <1> DEFINE D == {b \in Nat : Pow10[a + b] # Pow10[a] * Pow10[b]}
  <1>1. SUFFICES ASSUME D # {} PROVE FALSE OBVIOUS
  <1>2. PICK k \in D : \A m \in D : k <= m
    <2>1. D \in SUBSET Nat OBVIOUS
    <2> HIDE DEF D
    <2> QED BY <1>1, <2>1, LeastOfNats
  <1>3. Pow10[a] \in Nat BY Pow10IsPositive
  <1>4. k # 0
    <2>1. Pow10[a + 0] = Pow10[a] * Pow10[0] BY <1>3, Pow10Equation
    <2> QED BY <2>1
  <1>5. k - 1 \in Nat /\ ~(k <= k - 1) /\ (k - 1) + 1 = k /\ (a + (k - 1)) + 1 = a + k
        /\ a + (k - 1) \in Nat
    BY <1>4
  <1>6. Pow10[a + (k - 1)] = Pow10[a] * Pow10[k - 1] BY <1>2, <1>5
  <1>7. /\ Pow10[k] = 10 * Pow10[k - 1]
        /\ Pow10[a + k] = 10 * Pow10[a + (k - 1)]
    BY <1>5, Pow10Equation
  <1>8. Pow10[k - 1] \in Int BY <1>5, Pow10IsPositive
  <1>9. 10 * (Pow10[a] * Pow10[k - 1]) = Pow10[a] * (10 * Pow10[k - 1])
    BY <1>3, <1>8, TimesTen
  <1>10. Pow10[a + k] = Pow10[a] * Pow10[k] BY <1>6, <1>7, <1>9
  <1> QED BY <1>10

LEMMA Scale ==
  ASSUME NEW a \in Nat, NEW b \in Nat, NEW p \in Nat, p > 0
  PROVE  a > b <=> a * p > b * p
  <1>1. CASE a > b
    <2>1. a * p = b * p + (a - b) * p /\ (a - b) * p > 0 /\ b * p \in Nat BY <1>1
    <2> QED BY <1>1, <2>1
  <1>2. CASE ~(a > b)
    <2>1. b * p = a * p + (b - a) * p /\ (b - a) * p >= 0 /\ a * p \in Nat BY <1>2
    <2> QED BY <1>2, <2>1
  <1> QED BY <1>1, <1>2

LEMMA AboveFloor ==
  ASSUME NEW a \in Nat, NEW x \in Nat, NEW q \in Nat, q > 0
  PROVE  a > x \div q <=> a * q > x
  <1> DEFINE f == x \div q
  <1>1. f \in Nat /\ q * f <= x /\ x < q * f + q BY DivIsFloor
  <1> HIDE DEF f
  <1>2. CASE a > f
    <2>1. a >= f + 1 BY <1>1, <1>2
    <2>2. a * q = (f + 1) * q + (a - (f + 1)) * q /\ (a - (f + 1)) * q >= 0 BY <1>1, <2>1
    <2>3. (f + 1) * q = q * f + q BY <1>1
    <2>4. q * f \in Nat /\ (f + 1) * q \in Nat /\ a * q \in Nat /\ (a - (f + 1)) * q \in Int
      BY <1>1, <2>1
    <2> QED BY <1>1, <1>2, <2>2, <2>3, <2>4 DEF f
  <1>3. CASE ~(a > f)
    <2>1. q * f = a * q + (f - a) * q /\ (f - a) * q >= 0 BY <1>1, <1>3
    <2>2. q * f \in Nat /\ a * q \in Nat /\ (f - a) * q \in Int BY <1>1
    <2> QED BY <1>1, <1>3, <2>1, <2>2 DEF f
  <1> QED BY <1>2, <1>3

LEMMA Product3 == ASSUME NEW a \in Int, NEW b \in Int, NEW c \in Int PROVE (a * b) * c = a * (b * c)
  OBVIOUS

(* An amount exceeds a human amount converted to the token's units exactly *)
(* if it exceeds it as a number of tokens: what the conversion cuts off    *)
(* makes no difference.                                                    *)
LEMMA AboveHumanIsExact ==
  ASSUME NEW a \in Nat, NEW human \in Nat, NEW decimals \in Nat
  PROVE  /\ HumanToAtomic(human, decimals) \in Nat
         /\ a > HumanToAtomic(human, decimals) <=>
              a * Pow10[HumanDigits] > human * Pow10[decimals]
  <1> USE DigitsAreNat
  <1>1. Pow10[HumanDigits] \in Nat \ {0} /\ Pow10[decimals] \in Nat \ {0} BY Pow10IsPositive
  <1>2. CASE decimals >= HumanDigits
    <2> DEFINE P == Pow10[HumanDigits]
               Q == Pow10[decimals - HumanDigits]
    <2>1. decimals - HumanDigits \in Nat /\ (decimals - HumanDigits) + HumanDigits = decimals
      BY <1>2
    <2>2. Q \in Nat \ {0} BY <2>1, Pow10IsPositive
    <2>3. Pow10[decimals] = Q * P BY <2>1, Pow10OfSum
    <2>4. HumanToAtomic(human, decimals) = human * Q BY <1>2 DEF HumanToAtomic
    <2> HIDE DEF P, Q
    <2>5. human * Q \in Nat BY <2>2
    <2>6. P \in Nat /\ P > 0 BY <1>1 DEF P
    <2>7. a > human * Q <=> a * P > (human * Q) * P BY <2>5, <2>6, Scale
    <2>8. (human * Q) * P = human * (Q * P) BY <2>2, <2>6, Product3
    <2> QED BY <2>3, <2>4, <2>5, <2>7, <2>8 DEF P
  <1>3. CASE ~(decimals >= HumanDigits)
    <2> DEFINE P == Pow10[decimals]
               Q == Pow10[HumanDigits - decimals]
    <2>1. HumanDigits - decimals \in Nat /\ (HumanDigits - decimals) + decimals = HumanDigits
      BY <1>3
    <2>2. Q \in Nat /\ Q > 0 BY <2>1, Pow10IsPositive
    <2>3. Pow10[HumanDigits] = Q * P BY <2>1, Pow10OfSum
    <2>4. HumanToAtomic(human, decimals) = human \div Q BY <1>3 DEF HumanToAtomic
    <2> HIDE DEF P, Q
    <2>5. human \div Q \in Nat BY <2>2, DivIsFloor
    <2>6. P \in Nat /\ P > 0 BY <1>1 DEF P
    <2>7. a > human \div Q <=> a * Q > human BY <2>2, AboveFloor
    <2>8. a * Q \in Nat BY <2>2
    <2>9. a * Q > human <=> (a * Q) * P > human * P BY <2>6, <2>8, Scale
    <2>10. (a * Q) * P = a * (Q * P) BY <2>2, <2>6, Product3
    <2> QED BY <2>3, <2>4, <2>5, <2>7, <2>9, <2>10 DEF P
  <1> QED BY <1>2, <1>3

(* The minimum of a settlement is exact, whatever decimals a token has.    *)
(* netStrictlyAboveMinSettlementHuman.                                     *)
THEOREM MinimumIsExact ==
  ASSUME NEW net \in Nat, NEW human \in Nat, NEW decimals \in Nat,
         ParsesAsAtomic(human, decimals)
  PROVE  NetAboveMin(net, human, decimals) <=>
           net * Pow10[HumanDigits] > human * Pow10[decimals]
  BY AboveHumanIsExact DEF NetAboveMin

(* The limits of a payout: the maximum is exact, unless it is less than    *)
(* the smallest unit, when it limits nothing; the minimum is undercut by   *)
(* less than one such unit, and no amount the limits allow is refused.     *)
(* validateGrossAgainstMerchantPayoutLimits.                               *)
THEOREM PayoutLimitsAreExact ==
  ASSUME NEW gross \in Nat, NEW min \in Nat, NEW max \in Nat, NEW decimals \in Nat,
         min # 0 => ParsesAsAtomic(min, decimals), max # 0 => ParsesAsAtomic(max, decimals)
  PROVE  LET tokens(a) == a * Pow10[HumanDigits]
             limit(h)  == h * Pow10[decimals]
         IN  /\ WithinPayoutLimits(gross, min, max, decimals) =>
                  /\ min # 0 => tokens(gross + 1) > limit(min)
                  /\ max # 0 /\ tokens(1) <= limit(max) => tokens(gross) <= limit(max)
             /\ /\ min # 0 => tokens(gross) >= limit(min)
                /\ max # 0 => tokens(gross) <= limit(max)
                => WithinPayoutLimits(gross, min, max, decimals)
  <1> DEFINE P == Pow10[HumanDigits]
             T == Pow10[decimals]
             lo == HumanToAtomic(min, decimals)
             hi == HumanToAtomic(max, decimals)
  <1>1. P \in Nat \ {0} /\ T \in Nat \ {0} BY DigitsAreNat, Pow10IsPositive
  <1>2. /\ lo \in Nat /\ hi \in Nat
        /\ (gross + 1 > lo) <=> ((gross + 1) * P > min * T)
        /\ (gross > lo) <=> (gross * P > min * T)
        /\ (gross > hi) <=> (gross * P > max * T)
        /\ (1 > hi) <=> (1 * P > max * T)
    <2>1. gross + 1 \in Nat /\ 1 \in Nat OBVIOUS
    <2>3. lo \in Nat /\ hi \in Nat BY AboveHumanIsExact
    <2>4. (gross + 1 > lo) <=> ((gross + 1) * P > min * T) BY <2>1, AboveHumanIsExact
    <2>5. (gross > lo) <=> (gross * P > min * T) BY AboveHumanIsExact
    <2>6. (gross > hi) <=> (gross * P > max * T) BY AboveHumanIsExact
    <2>7. (1 > hi) <=> (1 * P > max * T) BY <2>1, AboveHumanIsExact
    <2> QED BY <2>3, <2>4, <2>5, <2>6, <2>7
  <1>3. WithinPayoutLimits(gross, min, max, decimals) <=>
          (min # 0 => gross >= lo) /\ (max # 0 /\ hi > 0 => gross <= hi)
    BY <1>2 DEF WithinPayoutLimits
  <1>4. gross * P \in Nat /\ (gross + 1) * P \in Nat /\ min * T \in Nat /\ max * T \in Nat
        /\ 1 * P \in Nat
    BY <1>1
  <1>5. (gross + 1) * P = gross * P + P
    <2> HIDE DEF P
    <2>1. (gross + 1) * P = gross * P + 1 * P BY <1>1, Distribute
    <2> QED BY <1>1, <2>1
  <1> HIDE DEF P, T, lo, hi
  <1>6. gross >= lo <=> gross + 1 > lo BY <1>2
  <1>7. gross <= hi <=> ~(gross > hi) BY <1>2
  <1>8. gross * P >= min * T => (gross + 1) * P > min * T BY <1>1, <1>4, <1>5
  <1>9. hi > 0 <=> 1 * P <= max * T BY <1>2, <1>4
  <1>10. gross * P <= max * T <=> gross <= hi BY <1>2, <1>4, <1>7
  <1> QED BY <1>2, <1>3, <1>6, <1>8, <1>9, <1>10 DEF P, T

(* One unit more of gross amount is worth the same or one unit more. *)
LEMMA NetStep ==
  ASSUME NEW a \in Nat, NEW m \in Percents, NEW s \in Percents
  PROVE  Split(a + 1, m, s).net - Split(a, m, s).net \in 0 .. 1
  <1> DEFINE A == a - FeeAmount(a, m)
             C == (a + 1) - FeeAmount(a + 1, m)
             f(x) == FeeAmount(x, s)
  <1>1. A \in Nat /\ C \in Nat BY FeeWithinGross
  <1>2. C - A \in 0 .. 1
    <2>1. FeeAmount(a + 1, m) - FeeAmount(a, m) \in 0 .. 1 BY FeeStep
    <2>2. FeeAmount(a + 1, m) \in Nat /\ FeeAmount(a, m) \in Nat BY FeeWithinGross
    <2> QED BY <2>1, <2>2
  <1>3. f(A) \in Nat /\ f(C) \in Nat BY <1>1, FeeWithinGross
  <1>4. C = A \/ (C = A + 1 /\ f(A + 1) - f(A) \in 0 .. 1)
    <2>1. f(A + 1) - f(A) \in 0 .. 1 BY <1>1, FeeStep
    <2> HIDE DEF A, C, f
    <2> QED BY <1>1, <1>2, <2>1
  <1>5. (C - f(C)) - (A - f(A)) \in 0 .. 1
    <2> HIDE DEF A, C
    <2>1. CASE C = A BY <1>1, <1>3, <2>1
    <2>2. CASE C = A + 1 /\ f(A + 1) - f(A) \in 0 .. 1
      <3>1. f(C) = f(A + 1) BY <2>2
      <3> HIDE DEF f
      <3> QED BY <1>1, <1>3, <2>2, <3>1
    <2> QED BY <1>4, <2>1, <2>2
  <1> QED BY <1>5 DEF Split

(* More deposits in a batch never pay less: rounding does not turn against *)
(* the merchant (splitFeesSequentialFromGross).                            *)
THEOREM NetNeverFalls ==
  ASSUME NEW m \in Percents, NEW s \in Percents, NEW a \in Nat, NEW b \in Nat, a <= b
  PROVE  Split(a, m, s).net <= Split(b, m, s).net
  <1> DEFINE net(n) == Split(n, m, s).net
             D == {n \in Nat : a <= n /\ ~(net(a) <= net(n))}
  <1>1. SUFFICES ASSUME D # {} PROVE FALSE OBVIOUS
  <1>2. PICK k \in D : \A n \in D : k <= n
    <2>1. D \in SUBSET Nat OBVIOUS
    <2> HIDE DEF D
    <2> QED BY <1>1, <2>1, LeastOfNats
  <1>3. \A n \in Nat : net(n) \in Nat BY FeesAddUp
  <1>4. k \in Nat /\ a <= k /\ ~(net(a) <= net(k)) OBVIOUS
  <1>5. k # a
    <2> HIDE DEF net
    <2> QED BY <1>3, <1>4
  <1>6. k - 1 \in Nat /\ a <= k - 1 /\ (k - 1) + 1 = k /\ ~(k <= k - 1) BY <1>4, <1>5
  <1>7. net(a) <= net(k - 1)
    <2> HIDE DEF net
    <2> QED BY <1>2, <1>6
  <1>8. net(k) - net(k - 1) \in 0 .. 1
    <2>1. net((k - 1) + 1) - net(k - 1) \in 0 .. 1 BY <1>6, NetStep
    <2> HIDE DEF net
    <2> QED BY <1>6, <2>1
  <1> HIDE DEF net, D
  <1> QED BY <1>3, <1>4, <1>6, <1>7, <1>8

-----------------------------------------------------------------------------
(* Of some finite sets one contains no other. *)
LEMMA MinimalOfSets ==
  ASSUME NEW S, IsFiniteSet(S), NEW D \in SUBSET SUBSET S, D # {}
  PROVE  \E m \in D : \A t \in D : t \subseteq m => t = m
  <1> DEFINE R == StrictSubsetOrdering(S)
  <1>1. IsWellFoundedOn(R, SUBSET S)
    BY FS_StrictSubsetOrderingWellFounded, FS_FiniteSubsetsOfFinite, Zenon
  <1>2. PICK m \in D : \A t \in D : ~(<<t, m>> \in R)
    <2> HIDE DEF R
    <2> QED BY <1>1, WFMin, Zenon
  <1>3. ASSUME NEW t \in D, t \subseteq m, t # m PROVE FALSE
    <2>1. <<t, m>> \in R BY <1>3 DEF StrictSubsetOrdering
    <2> QED BY <1>2, <2>1
  <1> QED BY <1>3

(* The function the fold is defined by, and its equation. *)
Pick(s) == CHOOSE x \in s : TRUE
IsFold(amount, S, g) ==
  g = [s \in SUBSET S |-> IF s = {} THEN 0 ELSE amount[Pick(s)] + g[s \ {Pick(s)}]]

LEMMA TotalIsFold ==
  ASSUME NEW amount, NEW S
  PROVE  Total(amount, S) = (CHOOSE g : IsFold(amount, S, g))[S]
  BY DEF Total, MapThenSumSet, MapThenFoldSet, IsFold, Pick

LEMMA PickIsIn == \A s : s # {} => Pick(s) \in s
  BY DEF Pick

FoldStep(amount, S, g) ==
  \A s \in SUBSET S : g[s] = IF s = {} THEN 0 ELSE amount[Pick(s)] + g[s \ {Pick(s)}]

LEMMA FoldSteps ==
  ASSUME NEW amount, NEW S, NEW g, IsFold(amount, S, g)
  PROVE  FoldStep(amount, S, g)
  <1> DEFINE h == [t \in SUBSET S |-> IF t = {} THEN 0 ELSE amount[Pick(t)] + g[t \ {Pick(t)}]]
  <1>1. g = h BY DEF IsFold
  <1>2. \A s \in SUBSET S : h[s] = IF s = {} THEN 0 ELSE amount[Pick(s)] + g[s \ {Pick(s)}]
    OBVIOUS
  <1> HIDE DEF h
  <1> QED BY <1>1, <1>2 DEF FoldStep

LEMMA FoldUnique ==
  ASSUME NEW amount, NEW S, IsFiniteSet(S), NEW T, S \subseteq T,
         NEW g, IsFold(amount, S, g), NEW h, IsFold(amount, T, h)
  PROVE  g[S] = h[S]
  <1> DEFINE D == {s \in SUBSET S : g[s] # h[s]}
  <1>1. SUFFICES ASSUME D # {} PROVE FALSE OBVIOUS
  <1>2. PICK m \in D : \A t \in D : t \subseteq m => t = m
    <2>1. D \in SUBSET SUBSET S OBVIOUS
    <2> HIDE DEF D
    <2> QED BY <1>1, <2>1, MinimalOfSets
  <1>3. m \in SUBSET S /\ m \in SUBSET T OBVIOUS
  <1>4. FoldStep(amount, S, g) /\ FoldStep(amount, T, h) BY FoldSteps
  <1>5. m # {} /\ g[m \ {Pick(m)}] # h[m \ {Pick(m)}] BY <1>3, <1>4 DEF FoldStep
  <1>6. m \ {Pick(m)} \in D BY <1>3, <1>5
  <1>7. Pick(m) \in m BY <1>5, PickIsIn
  <1> HIDE DEF D
  <1> QED BY <1>2, <1>6, <1>7

(* The equation of the fold. *)
LEMMA TotalEquation ==
  ASSUME NEW amount, NEW S, IsFiniteSet(S)
  PROVE  Total(amount, S) =
           IF S = {} THEN 0 ELSE amount[Pick(S)] + Total(amount, S \ {Pick(S)})
  <1> DEFINE Eqn(s) == Total(amount, s) =
                IF s = {} THEN 0 ELSE amount[Pick(s)] + Total(amount, s \ {Pick(s)})
             D == {s \in SUBSET S : ~Eqn(s)}
  <1>1. SUFFICES ASSUME D # {} PROVE FALSE OBVIOUS
  <1>2. PICK m \in D : \A t \in D : t \subseteq m => t = m
    <2>1. D \in SUBSET SUBSET S OBVIOUS
    <2> HIDE DEF D
    <2> QED BY <1>1, <2>1, MinimalOfSets
  <1>3. \A t \in SUBSET m : t # m => Eqn(t)
    <2>1. m \in SUBSET S OBVIOUS
    <2>2. \A t \in SUBSET m : t # m => t \in SUBSET S /\ t \notin D
      <3> HIDE DEF D
      <3> QED BY <1>2, <2>1
    <2> HIDE DEF Eqn
    <2> QED BY <2>2
  <1> DEFINE h == [s \in SUBSET m |-> IF s = {} THEN 0
                                      ELSE amount[Pick(s)] + Total(amount, s \ {Pick(s)})]
  <1>4. IsFold(amount, m, h)
    <2>1. ASSUME NEW s \in SUBSET m, s # {}
          PROVE  h[s \ {Pick(s)}] = Total(amount, s \ {Pick(s)})
      <3> DEFINE t == s \ {Pick(s)}
      <3>1. Pick(s) \in s BY <2>1, PickIsIn
      <3>2. t \in SUBSET m /\ t # m BY <3>1
      <3>3. Eqn(t) BY <1>3, <3>2
      <3>4. h[t] = IF t = {} THEN 0 ELSE amount[Pick(t)] + Total(amount, t \ {Pick(t)})
        <4> HIDE DEF t
        <4> QED BY <3>2
      <3> QED BY <3>3, <3>4
    <2>2. h = [s \in SUBSET m |-> IF s = {} THEN 0 ELSE amount[Pick(s)] + h[s \ {Pick(s)}]]
      <3> DEFINE k == [s \in SUBSET m |-> IF s = {} THEN 0 ELSE amount[Pick(s)] + h[s \ {Pick(s)}]]
      <3>1. \A s \in SUBSET m : h[s] = k[s] BY <2>1, Zenon
      <3> QED BY <3>1
    <2> QED BY <2>2 DEF IsFold
  <1>5. IsFiniteSet(m) BY FS_Subset
  <1> DEFINE g == CHOOSE f : IsFold(amount, m, f)
  <1>6. IsFold(amount, m, g)
    <2> HIDE DEF h
    <2> QED BY <1>4
  <1>7. g[m] = h[m]
    <2> HIDE DEF h, g, D
    <2> QED BY <1>4, <1>5, <1>6, FoldUnique
  <1>8. Total(amount, m) = g[m] BY TotalIsFold
  <1>9. h[m] = IF m = {} THEN 0 ELSE amount[Pick(m)] + Total(amount, m \ {Pick(m)})
    OBVIOUS
  <1>10. Eqn(m)
    <2> HIDE DEF h, g, D
    <2> QED BY <1>7, <1>8, <1>9
  <1> QED BY <1>10

LEMMA TotalEmpty == ASSUME NEW amount PROVE Total(amount, {}) = 0
  BY FS_EmptySet, TotalEquation

LEMMA TotalIsNat ==
  ASSUME NEW amount, NEW S, IsFiniteSet(S), \A x \in S : amount[x] \in Nat
  PROVE  Total(amount, S) \in Nat
  <1> DEFINE D == {s \in SUBSET S : Total(amount, s) \notin Nat}
  <1>1. SUFFICES ASSUME D # {} PROVE FALSE OBVIOUS
  <1>2. PICK m \in D : \A t \in D : t \subseteq m => t = m
    <2>1. D \in SUBSET SUBSET S OBVIOUS
    <2> HIDE DEF D
    <2> QED BY <1>1, <2>1, MinimalOfSets
  <1>3. m \in SUBSET S /\ IsFiniteSet(m) BY FS_Subset
  <1>4. m # {} BY TotalEmpty
  <1>5. PICK p \in m : Total(amount, m) = amount[p] + Total(amount, m \ {p})
    BY <1>3, <1>4, TotalEquation, PickIsIn
  <1>6. m \ {p} \in SUBSET S /\ m \ {p} \notin D
    <2> HIDE DEF D
    <2> QED BY <1>2, <1>3
  <1> QED BY <1>3, <1>5, <1>6

LEMMA TotalRemove ==
  ASSUME NEW amount, NEW S, IsFiniteSet(S), \A x \in S : amount[x] \in Nat,
         NEW x \in S
  PROVE  Total(amount, S) = amount[x] + Total(amount, S \ {x})
  <1> DEFINE Eqn(s, y) == Total(amount, s) = amount[y] + Total(amount, s \ {y})
             D == {s \in SUBSET S : \E y \in s : ~Eqn(s, y)}
  <1>1. SUFFICES ASSUME D # {} PROVE FALSE OBVIOUS
  <1>2. PICK m \in D : \A t \in D : t \subseteq m => t = m
    <2>1. D \in SUBSET SUBSET S OBVIOUS
    <2> HIDE DEF D
    <2> QED BY <1>1, <2>1, MinimalOfSets
  <1>3. PICK y \in m : ~Eqn(m, y) OBVIOUS
  <1>4. m \in SUBSET S /\ IsFiniteSet(m) BY FS_Subset
  <1>5. PICK p \in m : Eqn(m, p)
    BY <1>4, TotalEquation, PickIsIn
  <1>6. p # y BY <1>3, <1>5
  <1>7. \A t \in SUBSET m : t # m => t \in SUBSET S /\ t \notin D
    <2> HIDE DEF D
    <2> QED BY <1>2, <1>4
  <1>8. Eqn(m \ {p}, y) /\ Eqn(m \ {y}, p)
    <2>1. m \ {p} \in SUBSET m /\ m \ {p} # m /\ y \in m \ {p} BY <1>6
    <2>2. m \ {y} \in SUBSET m /\ m \ {y} # m /\ p \in m \ {y} BY <1>6
    <2> HIDE DEF Eqn
    <2> QED BY <1>7, <2>1, <2>2
  <1>9. (m \ {p}) \ {y} = (m \ {y}) \ {p} OBVIOUS
  <1>10. /\ amount[p] \in Nat /\ amount[y] \in Nat
         /\ Total(amount, (m \ {y}) \ {p}) \in Nat
    <2>1. (m \ {y}) \ {p} \in SUBSET S BY <1>4
    <2>2. IsFiniteSet((m \ {y}) \ {p}) BY <2>1, FS_Subset
    <2> HIDE DEF D
    <2> QED BY <1>4, <2>1, <2>2, TotalIsNat
  <1> QED
    <2>1. /\ Total(amount, m) = amount[p] + Total(amount, m \ {p})
          /\ Total(amount, m \ {p}) = amount[y] + Total(amount, (m \ {y}) \ {p})
          /\ Total(amount, m \ {y}) = amount[p] + Total(amount, (m \ {y}) \ {p})
          /\ Total(amount, m) # amount[y] + Total(amount, m \ {y})
      BY <1>3, <1>5, <1>8, <1>9
    <2> HIDE DEF D, Eqn
    <2> QED BY <1>10, <2>1

(* What one element more adds to a sum. *)
LEMMA TotalAdd ==
  ASSUME NEW amount, NEW S, IsFiniteSet(S), NEW x, x \notin S,
         \A y \in S \cup {x} : amount[y] \in Nat
  PROVE  /\ Total(amount, S \cup {x}) = amount[x] + Total(amount, S)
         /\ Total(amount, S) \in Nat
  <1>1. IsFiniteSet(S \cup {x}) BY FS_AddElement
  <1>2. (S \cup {x}) \ {x} = S OBVIOUS
  <1>3. Total(amount, S \cup {x}) = amount[x] + Total(amount, (S \cup {x}) \ {x})
    BY <1>1, TotalRemove
  <1>4. Total(amount, S) \in Nat BY TotalIsNat
  <1> QED BY <1>2, <1>3, <1>4

(* A sum is over what is in the set. *)
LEMMA TotalSame ==
  ASSUME NEW f, NEW g, NEW S, IsFiniteSet(S), \A x \in S : f[x] = g[x]
  PROVE  Total(f, S) = Total(g, S)
  <1> DEFINE D == {s \in SUBSET S : Total(f, s) # Total(g, s)}
  <1>1. SUFFICES ASSUME D # {} PROVE FALSE OBVIOUS
  <1>2. PICK m \in D : \A t \in D : t \subseteq m => t = m
    <2>1. D \in SUBSET SUBSET S OBVIOUS
    <2> HIDE DEF D
    <2> QED BY <1>1, <2>1, MinimalOfSets
  <1>3. m \in SUBSET S /\ IsFiniteSet(m) BY FS_Subset
  <1>4. m # {} BY TotalEmpty
  <1>5. /\ Total(f, m) = f[Pick(m)] + Total(f, m \ {Pick(m)})
        /\ Total(g, m) = g[Pick(m)] + Total(g, m \ {Pick(m)})
        /\ Pick(m) \in m
    BY <1>3, <1>4, TotalEquation, PickIsIn
  <1>6. m \ {Pick(m)} \in SUBSET S /\ m \ {Pick(m)} \notin D
    <2> HIDE DEF D
    <2> QED BY <1>2, <1>3, <1>5
  <1> QED BY <1>3, <1>5, <1>6

(* A sum of amounts never falls as its set grows. *)
LEMMA TotalGrows ==
  ASSUME NEW amount, NEW T, IsFiniteSet(T), \A x \in T : amount[x] \in Nat,
         NEW S \in SUBSET T
  PROVE  Total(amount, S) <= Total(amount, T)
  <1> DEFINE D == {s \in SUBSET T : S \subseteq s /\ ~(Total(amount, S) <= Total(amount, s))}
  <1>1. SUFFICES ASSUME D # {} PROVE FALSE OBVIOUS
  <1>2. PICK m \in D : \A t \in D : t \subseteq m => t = m
    <2>1. D \in SUBSET SUBSET T OBVIOUS
    <2> HIDE DEF D
    <2> QED BY <1>1, <2>1, MinimalOfSets
  <1>3. m \in SUBSET T /\ IsFiniteSet(m) /\ S \subseteq m BY FS_Subset
  <1>4. Total(amount, S) \in Nat
    <2>1. IsFiniteSet(S) BY FS_Subset
    <2> QED BY <2>1, TotalIsNat
  <1>5. PICK x \in m : x \notin S
    <2>1. m # S BY <1>4
    <2> QED BY <1>3, <2>1
  <1> DEFINE t == m \ {x}
  <1>6. t \in SUBSET T /\ S \subseteq t /\ t \notin D
    <2> HIDE DEF D
    <2> QED BY <1>2, <1>3, <1>5
  <1>7. Total(amount, S) <= Total(amount, t) BY <1>6
  <1>8. Total(amount, m) = amount[x] + Total(amount, t)
    <2> HIDE DEF D
    <2> QED BY <1>3, TotalRemove
  <1>9. amount[x] \in Nat /\ Total(amount, t) \in Nat
    <2>1. IsFiniteSet(t) BY <1>6, FS_Subset
    <2> HIDE DEF D
    <2> QED BY <1>3, <1>6, <2>1, TotalIsNat
  <1>10. ~(Total(amount, S) <= Total(amount, m)) OBVIOUS
  <1> HIDE DEF D, t
  <1> QED BY <1>4, <1>7, <1>8, <1>9, <1>10

LEMMA TotalDisjoint ==
  ASSUME NEW amount, NEW S, IsFiniteSet(S), NEW T, IsFiniteSet(T), S \cap T = {},
         \A x \in S \cup T : amount[x] \in Nat
  PROVE  Total(amount, S \cup T) = Total(amount, S) + Total(amount, T)
  <1> DEFINE D == {s \in SUBSET T :
                     Total(amount, S \cup s) # Total(amount, S) + Total(amount, s)}
  <1>1. SUFFICES ASSUME D # {} PROVE FALSE OBVIOUS
  <1>2. PICK m \in D : \A t \in D : t \subseteq m => t = m
    <2>1. D \in SUBSET SUBSET T OBVIOUS
    <2> HIDE DEF D
    <2> QED BY <1>1, <2>1, MinimalOfSets
  <1>3. m \in SUBSET T /\ IsFiniteSet(m) BY FS_Subset
  <1>4. Total(amount, S) \in Nat BY TotalIsNat
  <1>5. PICK x \in m : TRUE
    <2>1. Total(amount, {}) = 0 /\ S \cup {} = S BY TotalEmpty
    <2>2. Total(amount, S \cup {}) = Total(amount, S) + Total(amount, {}) BY <1>4, <2>1
    <2>3. {} \notin D BY <2>2
    <2> HIDE DEF D
    <2> QED BY <2>3
  <1> DEFINE t == m \ {x}
  <1>6. t \in SUBSET T /\ t \notin D
    <2> HIDE DEF D
    <2> QED BY <1>2, <1>3
  <1>7. Total(amount, S \cup t) = Total(amount, S) + Total(amount, t) BY <1>6
  <1>8. m = t \cup {x} /\ S \cup m = (S \cup t) \cup {x} /\ x \notin t /\ x \notin S \cup t
    BY <1>3
  <1>9. IsFiniteSet(t) /\ IsFiniteSet(S \cup t) BY <1>6, FS_Subset, FS_Union
  <1>10. amount[x] \in Nat /\ \A y \in S \cup t : amount[y] \in Nat BY <1>3
  <1>11. ~(Total(amount, S \cup m) = Total(amount, S) + Total(amount, m)) OBVIOUS
  <1> HIDE DEF D, t
  <1>12. Total(amount, m) = amount[x] + Total(amount, t) /\ Total(amount, t) \in Nat
    BY <1>8, <1>9, <1>10, TotalAdd
  <1>13. Total(amount, S \cup m) = amount[x] + Total(amount, S \cup t)
    <2> DEFINE U == S \cup t
    <2>1. IsFiniteSet(U) /\ x \notin U /\ \A y \in U \cup {x} : amount[y] \in Nat
      BY <1>8, <1>9, <1>10
    <2>2. S \cup m = U \cup {x} BY <1>8
    <2> HIDE DEF U
    <2>3. Total(amount, U \cup {x}) = amount[x] + Total(amount, U) BY <2>1, TotalAdd
    <2> QED BY <2>2, <2>3 DEF U
  <1> QED BY <1>4, <1>7, <1>10, <1>11, <1>12, <1>13

LEMMA TotalPlus ==
  ASSUME NEW f, NEW g, NEW h, NEW S, IsFiniteSet(S),
         \A x \in S : g[x] \in Nat /\ h[x] \in Nat /\ f[x] = g[x] + h[x]
  PROVE  Total(f, S) = Total(g, S) + Total(h, S)
  <1> DEFINE D == {s \in SUBSET S : Total(f, s) # Total(g, s) + Total(h, s)}
  <1>1. SUFFICES ASSUME D # {} PROVE FALSE OBVIOUS
  <1>2. PICK m \in D : \A t \in D : t \subseteq m => t = m
    <2>1. D \in SUBSET SUBSET S OBVIOUS
    <2> HIDE DEF D
    <2> QED BY <1>1, <2>1, MinimalOfSets
  <1>3. m \in SUBSET S /\ IsFiniteSet(m) BY FS_Subset
  <1>4. m # {}
    <2>1. Total(f, {}) = Total(g, {}) + Total(h, {}) BY TotalEmpty
    <2>2. {} \notin D BY <2>1
    <2> HIDE DEF D
    <2> QED BY <2>2
  <1>5. PICK x \in m : TRUE BY <1>4
  <1> DEFINE t == m \ {x}
  <1>6. t \in SUBSET S /\ t \notin D /\ IsFiniteSet(t)
    <2> HIDE DEF D
    <2> QED BY <1>2, <1>3, FS_Subset
  <1>7. Total(f, t) = Total(g, t) + Total(h, t) BY <1>6
  <1>8. \A y \in m : g[y] \in Nat /\ h[y] \in Nat /\ f[y] = g[y] + h[y] /\ f[y] \in Nat
    BY <1>3
  <1>9. ~(Total(f, m) = Total(g, m) + Total(h, m)) OBVIOUS
  <1> HIDE DEF D
  <1>10. /\ Total(f, m) = f[x] + Total(f, t)
         /\ Total(g, m) = g[x] + Total(g, t)
         /\ Total(h, m) = h[x] + Total(h, t)
    BY <1>3, <1>8, TotalRemove
  <1>11. Total(g, t) \in Nat /\ Total(h, t) \in Nat
    BY <1>6, <1>8, TotalIsNat
  <1> HIDE DEF t
  <1> QED BY <1>7, <1>8, <1>9, <1>10, <1>11

(* The sums over parts that share nothing add up to the sum over them all. *)
LEMMA TotalOfParts ==
  ASSUME NEW amount, NEW part, NEW g, NEW S, IsFiniteSet(S),
         \A x \in S : /\ IsFiniteSet(part[x]) /\ \A y \in part[x] : amount[y] \in Nat
                      /\ g[x] = Total(amount, part[x]),
         \A x, z \in S : x # z => part[x] \cap part[z] = {}
  PROVE  Total(g, S) = Total(amount, UNION {part[x] : x \in S})
  <1> DEFINE All(s) == UNION {part[x] : x \in s}
             D == {s \in SUBSET S : ~(IsFiniteSet(All(s)) /\ Total(g, s) = Total(amount, All(s)))}
  <1>1. SUFFICES ASSUME D # {} PROVE FALSE
    <2>1. S \in SUBSET S OBVIOUS
    <2> QED BY <2>1
  <1>2. PICK m \in D : \A t \in D : t \subseteq m => t = m
    <2>1. D \in SUBSET SUBSET S OBVIOUS
    <2> HIDE DEF D
    <2> QED BY <1>1, <2>1, MinimalOfSets
  <1>3. m \in SUBSET S /\ IsFiniteSet(m) BY FS_Subset
  <1>4. m # {}
    <2>1. All({}) = {} OBVIOUS
    <2>2. IsFiniteSet(All({})) /\ Total(g, {}) = Total(amount, All({}))
      BY <2>1, FS_EmptySet, TotalEmpty
    <2> QED BY <2>2
  <1>5. PICK x \in m : TRUE BY <1>4
  <1> DEFINE t == m \ {x}
  <1>6. t \in SUBSET S /\ t \notin D /\ IsFiniteSet(t)
    <2> HIDE DEF D
    <2> QED BY <1>2, <1>3, FS_Subset
  <1>7. IsFiniteSet(All(t)) /\ Total(g, t) = Total(amount, All(t)) BY <1>6
  <1>8. All(m) = All(t) \cup part[x] /\ All(t) \cap part[x] = {} BY <1>3, <1>5
  <1>9. \A y \in All(t) \cup part[x] : amount[y] \in Nat BY <1>3
  <1>10. ~(IsFiniteSet(All(m)) /\ Total(g, m) = Total(amount, All(m))) OBVIOUS
  <1>11. \A z \in m : g[z] \in Nat /\ g[z] = Total(amount, part[z]) /\ IsFiniteSet(part[z])
    BY <1>3, TotalIsNat
  <1>12. Total(g, m) = g[x] + Total(g, t)
    <2> HIDE DEF D
    <2> QED BY <1>3, <1>11, TotalRemove
  <1>13. IsFiniteSet(All(t) \cup part[x]) BY <1>7, <1>11, FS_Union
  <1>14. Total(amount, All(t) \cup part[x]) = Total(amount, All(t)) + Total(amount, part[x])
    <2> DEFINE A == All(t)
               P == part[x]
    <2>1. IsFiniteSet(A) /\ IsFiniteSet(P) /\ A \cap P = {} BY <1>7, <1>8, <1>11
    <2>2. \A y \in A \cup P : amount[y] \in Nat BY <1>9
    <2> HIDE DEF A, P
    <2>3. Total(amount, A \cup P) = Total(amount, A) + Total(amount, P)
      BY <2>1, <2>2, TotalDisjoint
    <2> QED BY <2>3 DEF A, P
  <1>15. Total(amount, All(t)) \in Nat
    <2> HIDE DEF All, D
    <2> QED BY <1>7, <1>9, TotalIsNat
  <1>16. g[x] = Total(amount, part[x]) /\ g[x] \in Nat BY <1>11
  <1> HIDE DEF All, D, t
  <1> QED BY <1>7, <1>8, <1>10, <1>12, <1>13, <1>14, <1>15, <1>16

-----------------------------------------------------------------------------
(* What a request in flight relies on. *)
Loaded(s) == at[s] \in {"inbound", "outbound", "settled", "decide"} \/ s \in Settled

EntryInv == \A s \in Settled : at[s] = "done"

MarkInv ==
  /\ \A d \in Deposits : mark[d] # NotYet => mark[d] \in Settled /\ d \in batch[mark[d]]
  /\ \A s \in Settled : \A d \in batch[s] : mark[d] # NotYet

(* Nothing a settlement has marked is loaded again. *)
BeforeInv ==
  \A s \in Settlers : \A t \in before[s] : t \in Settled /\ batch[s] \cap batch[t] = {}

(* What was old enough stays so, and eligible under any hold period that   *)
(* is no longer, until some settlement marks it.                           *)
PreviewInv ==
  \A s \in Settlers : \A d \in previewed[s] :
    /\ d \in Credited /\ deposit[d] >= holdShown[s]
    /\ Loaded(s) /\ terms[s].hold <= holdShown[s] => d \in batch[s] \/ mark[d] # NotYet

(* A row is of what its request loaded. *)
SumInv ==
  \A s \in Settled : /\ entry[s].gross = entry[s].mdr + entry[s].fee + entry[s].net
                     /\ entry[s].gross = Total(Received, batch[s])

RowsInv ==
  /\ SettlementTypeOK /\ EntryInv /\ MarkInv /\ BeforeInv /\ PreviewInv /\ SumInv

(* Debits there are or may yet be: a payout that was accepted may end as   *)
(* completed at any time, and more than once.                              *)
Entered == Settled \cup {p \in Payouts : at[p] = "accepted"}

(* However many deposits and requests there may ever be, those there have  *)
(* been are finitely many, and what they add up to is a number.            *)
FiniteInv ==
  /\ IsFiniteSet(Credited) /\ IsFiniteSet(Settled) /\ IsFiniteSet(Entered)
  /\ \A s \in Settlers : batch[s] \subseteq Credited

(* The balance a request read is of deposits and debits there are. *)
ReadInv == \A r \in Requests : seenIn[r] \subseteq Credited /\ seenOut[r] \subseteq Entered

PayoutInv == \A p \in Payouts : payout[p] = "completed" => at[p] = "accepted"

(* Decided on one after the other, each of them seeing those before. *)
InTurn(S) == \A x, y \in S : x # y => x \in seenOut[y] \/ y \in seenOut[x]

(* The deposits cover all debits that were, whichever payouts are failed.  *)
CoverInv == \A S \in SUBSET Entered : InTurn(S) => BalanceOf(Credited, S) >= 0

BalanceInv == ReadInv /\ PayoutInv /\ CoverInv

Enough(s, net) == NetAboveMin(net, terms[s].min, Decimals)

(* What passed the minimum when it was loaded is what the row is made of:  *)
(* neither the batch nor the terms it is split at are read again.          *)
MinInv ==
  /\ \A s \in Settlers : at[s] \in {"inbound", "outbound", "settled", "decide"} =>
       Enough(s, Fees(s, batch[s]).net)
  /\ \A s \in Settled : Enough(s, entry[s].net)

IInv == RowsInv /\ FiniteInv /\ BalanceInv /\ MinInv

LEMMA TermsExist == SomeTerms \in Terms
  BY SettlementConstants DEF SomeTerms

LEMMA TermsInRange ==
  ASSUME NEW t \in Terms
  PROVE  /\ t.mdr \in Percents /\ t.settlement \in Percents
         /\ t.min \in Nat /\ t.hold \in 0 .. MaxDays
  BY SettlementConstants

LEMMA IInvHoldsAtFirst == SettlementInit => IInv
  <1> SUFFICES ASSUME SettlementInit PROVE IInv OBVIOUS
  <1> USE DEF SettlementInit
  <1>1. Settled = {} /\ Credited = {} /\ Entered = {}
    BY DEF Settled, Credited, Entered, Requests
  <1>2. Absent \in Ages /\ 0 \in 0 .. MaxDays
    BY SettlementConstants DEF Absent, Ages
  <1>3. SettlementTypeOK BY <1>2, TermsExist DEF SettlementTypeOK, Requests
  <1>4. RowsInv
    BY <1>1, <1>3 DEF RowsInv, EntryInv, MarkInv, BeforeInv, PreviewInv, SumInv
  <1>5. FiniteInv BY <1>1, FS_EmptySet DEF FiniteInv
  <1>6. ReadInv /\ PayoutInv BY DEF ReadInv, PayoutInv
  <1>7. BalanceOf({}, {}) = 0
    <2>1. {} \cap Payouts = {} /\ {} \cap Settlers = {} OBVIOUS
    <2>2. Total(Received, {}) = 0 /\ Total(Gross, {}) = 0 /\ NetOf({}) = 0
      BY TotalEmpty DEF NetOf
    <2> QED BY <2>1, <2>2 DEF BalanceOf
  <1>8. CoverInv
    <2>1. SUBSET Entered = {{}} BY <1>1
    <2>2. BalanceOf(Credited, {}) >= 0 BY <1>1, <1>7
    <2> QED BY <2>1, <2>2 DEF CoverInv
  <1>9. MinInv BY <1>1 DEF MinInv, Requests
  <1> QED BY <1>4, <1>5, <1>6, <1>8, <1>9 DEF IInv, BalanceInv

LEMMA FeesAreNat ==
  ASSUME SettlementTypeOK, NEW s \in Settlers, NEW ds \in SUBSET Deposits, IsFiniteSet(ds)
  PROVE  LET f == Fees(s, ds) IN
         /\ f.mdr \in Nat /\ f.fee \in Nat /\ f.net \in Nat
         /\ Total(Received, ds) \in Nat
         /\ Total(Received, ds) = f.mdr + f.fee + f.net
  <1>1. Total(Received, ds) \in Nat BY SettlementConstants, TotalIsNat
  <1>2. terms[s].mdr \in Percents /\ terms[s].settlement \in Percents
    BY TermsInRange DEF SettlementTypeOK
  <1> QED BY <1>1, <1>2, FeesAddUp DEF Fees

(* A request that comes to nothing had no row, and no later one saw it. *)
LEMMA DropKeepsRows ==
  ASSUME RowsInv, NEW r \in Requests, at[r] # "done", Drop(r)
  PROVE  RowsInv'
  <1> USE DEF RowsInv
  <1>1. /\ UNCHANGED <<deposit, mark, entry>>
        /\ \A s \in Settlers \ {r} :
             /\ at'[s] = at[s] /\ batch'[s] = batch[s] /\ previewed'[s] = previewed[s]
             /\ holdShown'[s] = holdShown[s] /\ before'[s] = before[s] /\ terms'[s] = terms[s]
        /\ r \in Settlers => batch'[r] = {} /\ previewed'[r] = {} /\ before'[r] = {}
    BY DEF Drop, books, SettlementTypeOK
  <1>2. Settled' = Settled /\ Credited' = Credited /\ r \notin Settled
    BY <1>1 DEF Settled, Credited, EntryInv
  <1>3. SettlementTypeOK'
    BY TermsExist, SettlementConstants DEF Drop, books, SettlementTypeOK
  <1>4. EntryInv' /\ SumInv' BY <1>1, <1>2 DEF EntryInv, SumInv, Settled
  <1>5. MarkInv'
    <2>1. \A d \in Deposits : mark[d] # NotYet => mark[d] \in Settlers \ {r}
      BY <1>2 DEF MarkInv, Settled
    <2> QED BY <1>1, <1>2, <2>1 DEF MarkInv, Settled
  <1>6. BeforeInv'
    <2> SUFFICES ASSUME NEW s \in Settlers, NEW t \in before'[s]
                 PROVE  t \in Settled /\ batch'[s] \cap batch'[t] = {}
      BY <1>2 DEF BeforeInv
    <2>1. s # r /\ t \in before[s] BY <1>1
    <2>2. t \in Settled /\ batch[s] \cap batch[t] = {} BY <2>1 DEF BeforeInv
    <2>3. t \in Settlers \ {r} BY <1>2, <2>2 DEF Settled
    <2> QED BY <1>1, <2>1, <2>2, <2>3
  <1>7. PreviewInv'
    <2> SUFFICES ASSUME NEW s \in Settlers, NEW d \in previewed'[s]
                 PROVE  (/\ d \in Credited /\ deposit[d] >= holdShown[s]
                         /\ Loaded(s) /\ terms[s].hold <= holdShown[s]
                              => d \in batch[s] \/ mark[d] # NotYet)'
      BY DEF PreviewInv
    <2>1. s # r /\ d \in previewed[s] BY <1>1
    <2> QED BY <1>1, <1>2, <2>1 DEF PreviewInv, Loaded
  <1> QED BY <1>3, <1>4, <1>5, <1>6, <1>7

LEMMA RowsAreKept == RowsInv /\ FiniteInv /\ [SettlementNext]_settlementVars => RowsInv'
  <1> SUFFICES ASSUME RowsInv, FiniteInv, [SettlementNext]_settlementVars PROVE RowsInv' OBVIOUS
  <1> USE DEF RowsInv
  <1> USE SettlementConstants
  <1>1. ASSUME NEW d \in Deposits, Credit(d) \/ Mature(d) PROVE RowsInv'
    <2>1. UNCHANGED <<mark, entry, payout, at, terms, batch, previewed, holdShown, seenIn, seenOut,
                      before>>
      BY <1>1 DEF Credit, Mature
    <2>2. deposit' \in [Deposits -> Ages] /\ \A e \in Deposits : deposit'[e] >= deposit[e]
      <3>1. \A e \in Deposits : deposit[e] \in Int /\ deposit[e] >= -1 /\ deposit[e] <= MaxDays
        BY DEF SettlementTypeOK, Ages, Absent
      <3>2. CASE Credit(d)
        BY <3>1, <3>2 DEF Credit, SettlementTypeOK, Ages, Absent
      <3>3. CASE Mature(d)
        <4>1. deposit[d] + 1 \in Ages /\ deposit[d] + 1 >= deposit[d]
          BY <3>3 DEF Mature, Ages, Absent
        <4>2. deposit' = [deposit EXCEPT ![d] = deposit[d] + 1] BY <3>3 DEF Mature
        <4> QED BY <3>1, <4>1, <4>2 DEF SettlementTypeOK
      <3> QED BY <1>1, <3>2, <3>3
    <2>3. SettlementTypeOK' BY <2>1, <2>2 DEF SettlementTypeOK
    <2>4. EntryInv' /\ MarkInv' /\ BeforeInv' /\ SumInv'
      BY <2>1 DEF EntryInv, MarkInv, BeforeInv, SumInv, Settled
    <2>5. PreviewInv'
      <3>1. \A e \in Deposits : deposit[e] \in Int /\ deposit'[e] \in Int /\ deposit[e] >= -1
        BY <2>2 DEF SettlementTypeOK, Ages, Absent
      <3>2. \A e \in Credited : e \in Credited'
        BY <2>2, <3>1 DEF Credited, Absent
      <3>3. \A s \in Settlers : holdShown[s] \in Int BY DEF SettlementTypeOK
      <3>4. ASSUME NEW s \in Settlers, NEW e \in previewed[s]
            PROVE  e \in Credited' /\ deposit'[e] >= holdShown[s]
        <4>1. e \in Deposits /\ e \in Credited /\ deposit[e] >= holdShown[s]
          BY DEF PreviewInv, Credited
        <4> QED BY <2>2, <3>1, <3>2, <3>3, <4>1
      <3> QED BY <2>1, <3>4 DEF PreviewInv, Loaded, Settled
    <2> QED BY <2>3, <2>4, <2>5
  <1>2. ASSUME NEW s \in Settlers, Preview(s) PROVE RowsInv'
    <2> USE DEF Await, books
    <2>1. PICK now \in Terms : /\ holdShown' = [holdShown EXCEPT ![s] = now.hold]
                               /\ previewed' = [previewed EXCEPT ![s] = Unsettled(now.hold)]
      BY <1>2 DEF Preview
    <2>2. /\ UNCHANGED <<deposit, mark, entry, payout, terms, batch, seenIn, seenOut, before>>
          /\ at[s] = "idle" /\ at' = [at EXCEPT ![s] = "merchant"]
      BY <1>2 DEF Preview
    <2>3. now.hold \in 0 .. MaxDays BY TermsInRange
    <2>4. Unsettled(now.hold) \in SUBSET Deposits BY DEF Unsettled, Credited
    <2>5. SettlementTypeOK' BY <2>1, <2>2, <2>3, <2>4 DEF SettlementTypeOK, Requests
    <2>6. EntryInv' /\ MarkInv' /\ BeforeInv' /\ SumInv'
      BY <2>2 DEF EntryInv, MarkInv, BeforeInv, SumInv, Settled, SettlementTypeOK, Requests
    <2>7. s \notin Settled BY <2>2 DEF EntryInv
    <2>8. PreviewInv'
      <3> SUFFICES ASSUME NEW t \in Settlers, NEW d \in previewed'[t]
                   PROVE  (/\ d \in Credited /\ deposit[d] >= holdShown[t]
                           /\ Loaded(t) /\ terms[t].hold <= holdShown[t]
                                => d \in batch[t] \/ mark[d] # NotYet)'
        BY DEF PreviewInv
      <3>1. Settled' = Settled /\ Credited' = Credited BY <2>2 DEF Settled, Credited
      <3>2. CASE t = s
        <4>1. ~Loaded(s)' BY <2>2, <2>7, <3>1 DEF Loaded, SettlementTypeOK, Requests
        <4>2. d \in Unsettled(now.hold) /\ holdShown'[s] = now.hold
          BY <2>1, <3>2 DEF SettlementTypeOK
        <4> QED BY <2>2, <3>1, <3>2, <4>1, <4>2 DEF Unsettled
      <3>3. CASE t # s
        <4>1. d \in previewed[t] /\ holdShown'[t] = holdShown[t] /\ at'[t] = at[t]
          BY <2>1, <2>2, <3>3 DEF SettlementTypeOK, Requests
        <4> QED BY <2>2, <3>1, <4>1 DEF PreviewInv, Loaded
      <3> QED BY <3>2, <3>3
    <2> QED BY <2>5, <2>6, <2>8
  <1>3. ASSUME NEW s \in Settlers, ReadMerchant(s) PROVE RowsInv'
    <2>1. PICK now \in Terms : terms' = [terms EXCEPT ![s] = now]
      BY <1>3 DEF ReadMerchant
    <2>2. /\ UNCHANGED <<deposit, mark, entry, payout, batch, previewed, holdShown, seenIn, seenOut,
                         before>>
          /\ at[s] = "merchant" /\ at' = [at EXCEPT ![s] = "load"]
      BY <1>3 DEF ReadMerchant, Await, books
    <2>3. SettlementTypeOK' BY <2>1, <2>2 DEF SettlementTypeOK, Requests
    <2>4. Settled' = Settled /\ Credited' = Credited /\ s \notin Settled
      BY <2>2 DEF Settled, Credited, EntryInv
    <2>5. EntryInv' /\ MarkInv' /\ BeforeInv' /\ SumInv'
      BY <2>2, <2>4 DEF EntryInv, MarkInv, BeforeInv, SumInv, Settled, SettlementTypeOK, Requests
    <2>6. PreviewInv'
      <3>1. ~Loaded(s)' BY <2>2, <2>4 DEF Loaded, SettlementTypeOK, Requests
      <3>2. \A t \in Settlers : t # s => terms'[t] = terms[t] /\ at'[t] = at[t]
        BY <2>1, <2>2 DEF SettlementTypeOK, Requests
      <3> QED BY <2>2, <2>4, <3>1, <3>2 DEF PreviewInv, Loaded
    <2> QED BY <2>3, <2>5, <2>6
  <1>4. ASSUME NEW s \in Settlers, LoadUnsettled(s) PROVE RowsInv'
    <2> DEFINE found == Unsettled(terms[s].hold)
    <2>1. /\ UNCHANGED <<deposit, mark, entry, payout, terms, previewed, holdShown, seenIn, seenOut>>
          /\ at[s] = "load" /\ at' = [at EXCEPT ![s] = "inbound"]
          /\ batch' = [batch EXCEPT ![s] = found] /\ before' = [before EXCEPT ![s] = Settled]
      BY <1>4 DEF LoadUnsettled, Await, books
    <2>2. /\ found \in SUBSET Credited
          /\ \A d \in found : mark[d] = NotYet
          /\ \A d \in Credited : mark[d] = NotYet /\ deposit[d] >= terms[s].hold => d \in found
      BY DEF Unsettled
    <2> HIDE DEF found
    <2>3. SettlementTypeOK' BY <2>1, <2>2 DEF SettlementTypeOK, Requests, Credited, Settled
    <2>4. Settled' = Settled /\ Credited' = Credited /\ s \notin Settled
      BY <2>1 DEF Settled, Credited, EntryInv
    <2>5. \A t \in Settlers : t # s =>
            at'[t] = at[t] /\ batch'[t] = batch[t] /\ before'[t] = before[t]
      BY <2>1 DEF SettlementTypeOK, Requests
    <2>6. batch'[s] = found /\ before'[s] = Settled BY <2>1 DEF SettlementTypeOK
    <2>7. EntryInv' /\ MarkInv' /\ SumInv'
      BY <2>1, <2>4, <2>5 DEF EntryInv, MarkInv, SumInv, Settled
    <2>8. BeforeInv'
      BY <2>2, <2>4, <2>5, <2>6 DEF BeforeInv, MarkInv, Settled
    <2>9. PreviewInv'
      <3>1. \A d \in previewed[s] : terms[s].hold <= holdShown[s] =>
              deposit[d] >= terms[s].hold
        <4>1. terms[s].hold \in Int /\ holdShown[s] \in Int
          BY TermsInRange DEF SettlementTypeOK
        <4>2. \A d \in Deposits : deposit[d] \in Int BY DEF SettlementTypeOK, Ages, Absent
        <4>3. \A d \in previewed[s] : d \in Deposits /\ deposit[d] >= holdShown[s]
          BY DEF PreviewInv, Credited
        <4> QED BY <4>1, <4>2, <4>3
      <3>2. \A d \in previewed[s] : terms[s].hold <= holdShown[s] =>
              d \in found \/ mark[d] # NotYet
        BY <2>2, <3>1 DEF PreviewInv
      <3> QED BY <2>1, <2>4, <2>5, <2>6, <3>2 DEF PreviewInv, Loaded
    <2> QED BY <2>3, <2>7, <2>8, <2>9
  <1>5. ASSUME NEW s \in Settlers, Settle(s) PROVE RowsInv'
    <2>1. batch[s] \in SUBSET Deposits /\ IsFiniteSet(batch[s])
      BY FS_Subset DEF FiniteInv, SettlementTypeOK
    <2> QED
      BY <1>5, <2>1, FeesAreNat, RowsAreRows DEF Settle, Await, SettlementTypeOK, EntryInv, MarkInv,
                BeforeInv, PreviewInv, SumInv, Settled, Credited, Loaded, Requests, Row
  <1>6. ASSUME NEW s \in Settlers, RefuseBatch(s) \/ RefuseSettlement(s) PROVE RowsInv'
    <2>1. s \in Requests /\ at[s] # "done" /\ Drop(s)
      BY <1>6 DEF RefuseBatch, RefuseSettlement, Requests
    <2> QED BY <2>1, DropKeepsRows
  <1>7. ASSUME NEW p \in Payouts, CheckOpenPayout(p) \/ InsertPayout(p) \/ EndPayout(p)
        PROVE RowsInv'
    <2>1. SettlementTypeOK'
      BY <1>7 DEF CheckOpenPayout, InsertPayout, EndPayout, Await, books, SettlementTypeOK, Requests
    <2>2. /\ UNCHANGED <<deposit, mark, entry, terms, batch, previewed, holdShown, before>>
          /\ \A s \in Settlers : at'[s] = at[s]
      BY <1>7 DEF CheckOpenPayout, InsertPayout, EndPayout, Await, books, SettlementTypeOK, Requests
    <2> QED
      BY <2>1, <2>2 DEF EntryInv, MarkInv, BeforeInv, PreviewInv, SumInv, Settled, Credited, Loaded
  <1>8. ASSUME NEW r \in Requests, ReadInbound(r) \/ ReadOutbound(r) \/ ReadSettled(r)
        PROVE RowsInv'
    <2>1. SettlementTypeOK'
      <3>1. CASE ReadInbound(r)
        BY <3>1 DEF ReadInbound, Await, books, SettlementTypeOK, Credited
      <3>2. CASE ReadOutbound(r)
        BY <3>2 DEF ReadOutbound, Await, books, SettlementTypeOK, Completed, Requests
      <3>3. CASE ReadSettled(r)
        BY <3>3 DEF ReadSettled, Await, books, SettlementTypeOK, Settled, Requests
      <3> QED BY <1>8, <3>1, <3>2, <3>3
    <2>2. /\ UNCHANGED <<deposit, mark, entry, terms, batch, previewed, holdShown, before>>
          /\ \A s \in Settlers : s # r => at'[s] = at[s]
          /\ r \in Settlers => /\ at[r] \in {"inbound", "outbound", "settled"}
                               /\ at'[r] \in {"outbound", "settled", "decide"}
      BY <1>8 DEF ReadInbound, ReadOutbound, ReadSettled, Await, books, SettlementTypeOK, Requests
    <2>3. \A s \in Settlers : Loaded(s)' <=> Loaded(s) BY <2>2 DEF Loaded, Settled
    <2>4. Settled' = Settled BY <2>2 DEF Settled
    <2>5. \A s \in Settled : s # r BY <2>2 DEF EntryInv, Settled
    <2>6. EntryInv' BY <2>2, <2>4, <2>5 DEF EntryInv, Settled
    <2>7. MarkInv' /\ BeforeInv' /\ SumInv' BY <2>2, <2>4 DEF MarkInv, BeforeInv, SumInv
    <2>8. PreviewInv' BY <2>2, <2>3 DEF PreviewInv, Credited
    <2> QED BY <2>1, <2>6, <2>7, <2>8
  <1>9. ASSUME NEW r \in Requests, AbortRequest(r) PROVE RowsInv'
    BY <1>9, DropKeepsRows DEF AbortRequest
  <1>10. CASE UNCHANGED settlementVars
    BY <1>10 DEF settlementVars, books, SettlementTypeOK, EntryInv, MarkInv, BeforeInv,
                 PreviewInv, SumInv, Settled, Credited, Loaded
  <1> HIDE DEF RowsInv
  <1> QED
    BY <1>1, <1>2, <1>3, <1>4, <1>5, <1>6, <1>7, <1>8, <1>9, <1>10 DEF SettlementNext

LEMMA FiniteIsKept ==
  RowsInv /\ FiniteInv /\ [SettlementNext]_settlementVars => FiniteInv'
  <1> SUFFICES ASSUME RowsInv, FiniteInv, [SettlementNext]_settlementVars
               PROVE  FiniteInv'
    OBVIOUS
  <1> USE DEF FiniteInv
  <1>t. SettlementTypeOK BY DEF RowsInv
  <1>q. \A p \in Payouts : p \in Requests /\ p \notin Settlers
    BY SettlementConstants DEF Requests
  <1>e. ASSUME NEW r, Settled' \subseteq Settled \cup {r}, Entered' \subseteq Entered \cup {r}
        PROVE  IsFiniteSet(Settled') /\ IsFiniteSet(Entered')
    <2>1. IsFiniteSet(Settled \cup {r}) /\ IsFiniteSet(Entered \cup {r}) BY FS_AddElement
    <2> QED BY <1>e, <2>1, FS_Subset
  <1>1. ASSUME NEW d \in Deposits, Credit(d) \/ Mature(d) PROVE FiniteInv'
    <2>1. Credited' \subseteq Credited \cup {d} /\ Credited \subseteq Credited'
      <3>1. CASE Credit(d)
        BY <1>t, <3>1, SettlementConstants DEF Credit, Credited, SettlementTypeOK, Absent
      <3>2. CASE Mature(d)
        <4>1. deposit[d] # Absent /\ deposit'[d] # Absent
          BY <1>t, <3>2, SettlementConstants DEF Mature, SettlementTypeOK, Absent
        <4>2. \A e \in Deposits : e # d => deposit'[e] = deposit[e]
          BY <1>t, <3>2 DEF Mature, SettlementTypeOK
        <4> QED BY <4>1, <4>2 DEF Credited
      <3> QED BY <1>1, <3>1, <3>2
    <2>2. Settled' = Settled /\ Entered' = Entered /\ batch' = batch
      BY <1>1 DEF Credit, Mature, Settled, Entered
    <2>3. IsFiniteSet(Credited')
      <3>1. IsFiniteSet(Credited \cup {d}) BY FS_AddElement
      <3> QED BY <2>1, <3>1, FS_Subset
    <2> QED BY <2>1, <2>2, <2>3
  <1>2. ASSUME NEW s \in Settlers, Settle(s) PROVE FiniteInv'
    <2>1. \A p \in Payouts : at'[p] = at[p]
      BY <1>2, <1>t, <1>q DEF Settle, Await, SettlementTypeOK
    <2>2. Settled' \subseteq Settled \cup {s}
      BY <1>2, <1>t DEF Settle, Settled, SettlementTypeOK
    <2>3. Entered' \subseteq Entered \cup {s} BY <2>1, <2>2 DEF Entered
    <2>4. Credited' = Credited /\ batch' = batch BY <1>2 DEF Settle, Credited
    <2> QED BY <1>e, <2>2, <2>3, <2>4
  <1>3. ASSUME NEW p \in Payouts, InsertPayout(p) PROVE FiniteInv'
    <2>1. Settled' = Settled /\ Credited' = Credited /\ batch' = batch
      BY <1>3 DEF InsertPayout, Settled, Credited
    <2>2. \A q \in Payouts : q # p => at'[q] = at[q]
      BY <1>3, <1>t, <1>q DEF InsertPayout, Await, SettlementTypeOK
    <2>3. Entered' \subseteq Entered \cup {p} BY <2>1, <2>2 DEF Entered
    <2> QED BY <1>e, <2>1, <2>3
  <1>4. ASSUME UNCHANGED <<deposit, entry>>,
               \A p \in Payouts : at'[p] = "accepted" => at[p] = "accepted",
               \A s \in Settlers : batch'[s] \subseteq batch[s] \cup Credited
        PROVE  FiniteInv'
    <2>1. Settled' = Settled /\ Credited' = Credited BY <1>4 DEF Settled, Credited
    <2>2. Entered' \subseteq Entered BY <1>4, <2>1 DEF Entered
    <2>3. IsFiniteSet(Entered') BY <2>2, FS_Subset
    <2> QED BY <1>4, <2>1, <2>3
  <1>5. ASSUME NEW s \in Settlers, Preview(s) \/ ReadMerchant(s) \/ LoadUnsettled(s)
        PROVE  FiniteInv'
    <2>1. \A p \in Payouts : at'[p] = at[p]
      BY <1>5, <1>t, <1>q DEF Preview, ReadMerchant, LoadUnsettled, Await, SettlementTypeOK
    <2>2. \A t \in Settlers : batch'[t] \subseteq batch[t] \cup Credited
      BY <1>5, <1>t DEF Preview, ReadMerchant, LoadUnsettled, Unsettled, SettlementTypeOK
    <2>3. UNCHANGED <<deposit, entry>>
      BY <1>5 DEF Preview, ReadMerchant, LoadUnsettled, books
    <2> QED BY <1>4, <2>1, <2>2, <2>3
  <1>6. ASSUME NEW r \in Requests, Drop(r) PROVE FiniteInv'
    <2>1. \A p \in Payouts : at'[p] = "accepted" => at[p] = "accepted"
      BY <1>6, <1>t, <1>q DEF Drop, SettlementTypeOK
    <2>2. \A t \in Settlers : batch'[t] \subseteq batch[t] BY <1>6 DEF Drop
    <2>3. UNCHANGED <<deposit, entry>> BY <1>6 DEF Drop, books
    <2> QED BY <1>4, <2>1, <2>2, <2>3
  <1>7. ASSUME NEW p \in Payouts, CheckOpenPayout(p) \/ EndPayout(p) PROVE FiniteInv'
    <2>1. \A q \in Payouts : at'[q] = "accepted" => at[q] = "accepted"
      BY <1>7, <1>t, <1>q DEF CheckOpenPayout, EndPayout, Await, SettlementTypeOK
    <2>2. UNCHANGED <<deposit, entry, batch>>
      BY <1>7 DEF CheckOpenPayout, EndPayout, books
    <2> QED BY <1>4, <2>1, <2>2
  <1>8. ASSUME NEW r \in Requests, ReadInbound(r) \/ ReadOutbound(r) \/ ReadSettled(r)
        PROVE  FiniteInv'
    <2>1. \A p \in Payouts : at'[p] = "accepted" => at[p] = "accepted"
      BY <1>8, <1>t, <1>q DEF ReadInbound, ReadOutbound, ReadSettled, Await, SettlementTypeOK
    <2>2. UNCHANGED <<deposit, entry, batch>>
      BY <1>8 DEF ReadInbound, ReadOutbound, ReadSettled, books
    <2> QED BY <1>4, <2>1, <2>2
  <1>9. ASSUME NEW s \in Settlers, RefuseBatch(s) \/ RefuseSettlement(s) PROVE FiniteInv'
    BY <1>6, <1>9 DEF RefuseBatch, RefuseSettlement, Requests
  <1>10. ASSUME NEW r \in Requests, AbortRequest(r) PROVE FiniteInv'
    BY <1>6, <1>10 DEF AbortRequest
  <1>11. CASE UNCHANGED settlementVars BY <1>4, <1>11 DEF settlementVars, books
  <1> HIDE DEF FiniteInv
  <1> QED
    BY <1>1, <1>2, <1>3, <1>5, <1>7, <1>8, <1>9, <1>10, <1>11 DEF SettlementNext

-----------------------------------------------------------------------------
(* The balance as a function of the rows: its value does not change with a *)
(* row that is not debited, and falls by what a debit is.                  *)
Nets(e, S) == Total([s \in S |-> e[s].net], S)

Bal(e, ins, outs) ==
  Total(Received, ins) - Total(Gross, outs \cap Payouts) - Nets(e, outs \cap Settlers)

Countable(e, ins, outs) ==
  /\ ins \subseteq Deposits /\ IsFiniteSet(ins)
  /\ outs \subseteq Requests /\ IsFiniteSet(outs)
  /\ \A s \in outs \cap Settlers : e[s].net \in Nat

Debit(e, r) == IF r \in Payouts THEN Gross[r] ELSE e[r].net

LEMMA NetsAreNat ==
  ASSUME NEW e, NEW S, IsFiniteSet(S), \A s \in S : e[s].net \in Nat
  PROVE  Nets(e, S) \in Nat
  <1> DEFINE f == [s \in S |-> e[s].net]
  <1>1. \A s \in S : f[s] \in Nat OBVIOUS
  <1>2. Total(f, S) \in Nat
    <2> HIDE DEF f
    <2> QED BY <1>1, TotalIsNat
  <1> QED BY <1>2 DEF Nets

LEMMA NetsSame ==
  ASSUME NEW e, NEW f, NEW S, IsFiniteSet(S), \A s \in S : e[s].net = f[s].net
  PROVE  Nets(e, S) = Nets(f, S)
  <1> DEFINE a == [s \in S |-> e[s].net]
             b == [s \in S |-> f[s].net]
  <1>1. \A s \in S : a[s] = b[s] OBVIOUS
  <1>2. Total(a, S) = Total(b, S)
    <2> HIDE DEF a, b
    <2> QED BY <1>1, TotalSame
  <1> QED BY <1>2 DEF Nets

LEMMA NetsGrow ==
  ASSUME NEW e, NEW T, IsFiniteSet(T), \A s \in T : e[s].net \in Nat, NEW S \in SUBSET T
  PROVE  Nets(e, S) <= Nets(e, T)
  <1> DEFINE a == [s \in S |-> e[s].net]
             b == [s \in T |-> e[s].net]
  <1>1. (\A s \in S : a[s] = b[s]) /\ \A s \in T : b[s] \in Nat OBVIOUS
  <1>2. IsFiniteSet(S) BY FS_Subset
  <1>3. Total(a, S) = Total(b, S)
    <2> HIDE DEF a, b
    <2> QED BY <1>1, <1>2, TotalSame
  <1>4. Total(b, S) <= Total(b, T)
    <2> HIDE DEF b
    <2> QED BY <1>1, TotalGrows
  <1> QED BY <1>3, <1>4 DEF Nets

LEMMA NetsAdd ==
  ASSUME NEW e, NEW S, IsFiniteSet(S), NEW x, x \notin S,
         \A s \in S \cup {x} : e[s].net \in Nat
  PROVE  Nets(e, S \cup {x}) = e[x].net + Nets(e, S)
  <1> DEFINE T == S \cup {x}
             a == [s \in T |-> e[s].net]
             b == [s \in S |-> e[s].net]
  <1>1. \A s \in S : a[s] = b[s] OBVIOUS
  <1>2. (\A s \in T : a[s] \in Nat) /\ a[x] = e[x].net OBVIOUS
  <1>3. Total(a, T) = a[x] + Total(a, S)
    <2> HIDE DEF a
    <2> QED BY <1>2, TotalAdd
  <1>4. Total(a, S) = Total(b, S)
    <2> HIDE DEF a, b
    <2> QED BY <1>1, TotalSame
  <1> QED BY <1>2, <1>3, <1>4 DEF Nets

LEMMA BalIsInt ==
  ASSUME NEW e, NEW ins, NEW outs, Countable(e, ins, outs)
  PROVE  /\ Bal(e, ins, outs) \in Int
         /\ Total(Received, ins) \in Nat
         /\ Total(Gross, outs \cap Payouts) \in Nat
         /\ Nets(e, outs \cap Settlers) \in Nat
  <1> USE SettlementConstants DEF Countable
  <1>1. Total(Received, ins) \in Nat BY TotalIsNat
  <1>2. IsFiniteSet(outs \cap Payouts) /\ IsFiniteSet(outs \cap Settlers)
    BY FS_Subset
  <1>3. Total(Gross, outs \cap Payouts) \in Nat
    <2>1. \A p \in outs \cap Payouts : Gross[p] \in Nat OBVIOUS
    <2> QED BY <1>2, <2>1, TotalIsNat
  <1>4. Nets(e, outs \cap Settlers) \in Nat BY <1>2, NetsAreNat
  <1> QED BY <1>1, <1>3, <1>4 DEF Bal

LEMMA BalGrows ==
  ASSUME NEW e, NEW ins, NEW outs, Countable(e, ins, outs), NEW some \in SUBSET ins
  PROVE  Bal(e, some, outs) <= Bal(e, ins, outs) /\ Countable(e, some, outs)
  <1>1. Countable(e, some, outs) BY FS_Subset DEF Countable
  <1>2. Total(Received, some) <= Total(Received, ins)
    <2>1. \A d \in ins : Received[d] \in Nat BY SettlementConstants DEF Countable
    <2> QED BY <2>1, TotalGrows DEF Countable
  <1>3. /\ Total(Received, ins) \in Nat /\ Total(Received, some) \in Nat
        /\ Total(Gross, outs \cap Payouts) \in Nat
        /\ Nets(e, outs \cap Settlers) \in Nat
    BY <1>1, BalIsInt
  <1> QED BY <1>1, <1>2, <1>3 DEF Bal

LEMMA BalFalls ==
  ASSUME NEW e, NEW ins, NEW outs, Countable(e, ins, outs), NEW some \in SUBSET outs
  PROVE  Bal(e, ins, outs) <= Bal(e, ins, some) /\ Countable(e, ins, some)
  <1>1. Countable(e, ins, some) BY FS_Subset DEF Countable
  <1>2. Total(Gross, some \cap Payouts) <= Total(Gross, outs \cap Payouts)
    <2> DEFINE P == outs \cap Payouts
               Q == some \cap Payouts
    <2>1. IsFiniteSet(P) /\ Q \in SUBSET P BY FS_Subset DEF Countable
    <2>2. \A p \in P : Gross[p] \in Nat BY SettlementConstants
    <2> HIDE DEF P, Q
    <2>3. Total(Gross, Q) <= Total(Gross, P) BY <2>1, <2>2, TotalGrows
    <2> QED BY <2>3 DEF P, Q
  <1>3. Nets(e, some \cap Settlers) <= Nets(e, outs \cap Settlers)
    <2> DEFINE P == outs \cap Settlers
               Q == some \cap Settlers
    <2>1. IsFiniteSet(P) /\ Q \in SUBSET P BY FS_Subset DEF Countable
    <2>2. \A s \in P : e[s].net \in Nat BY DEF Countable
    <2> HIDE DEF P, Q
    <2>3. Nets(e, Q) <= Nets(e, P) BY <2>1, <2>2, NetsGrow
    <2> QED BY <2>3 DEF P, Q
  <1>4. /\ Total(Received, ins) \in Nat
        /\ Total(Gross, outs \cap Payouts) \in Nat /\ Total(Gross, some \cap Payouts) \in Nat
        /\ Nets(e, outs \cap Settlers) \in Nat /\ Nets(e, some \cap Settlers) \in Nat
    BY <1>1, BalIsInt
  <1> QED BY <1>1, <1>2, <1>3, <1>4 DEF Bal

(* A row the debits do not include is free to change. *)
LEMMA BalSame ==
  ASSUME NEW e, NEW f, NEW ins, NEW outs, Countable(e, ins, outs),
         \A s \in outs \cap Settlers : e[s].net = f[s].net
  PROVE  Bal(e, ins, outs) = Bal(f, ins, outs) /\ Countable(f, ins, outs)
  <1>1. Countable(f, ins, outs) BY DEF Countable
  <1>2. IsFiniteSet(outs \cap Settlers) BY FS_Subset DEF Countable
  <1>3. Nets(e, outs \cap Settlers) = Nets(f, outs \cap Settlers)
    BY <1>2, NetsSame
  <1> QED BY <1>1, <1>3 DEF Bal

LEMMA BalDebit ==
  ASSUME NEW e, NEW ins, NEW outs, NEW r \in Requests, r \notin outs,
         Countable(e, ins, outs \cup {r})
  PROVE  /\ Countable(e, ins, outs)
         /\ Bal(e, ins, outs \cup {r}) = Bal(e, ins, outs) - Debit(e, r)
  <1>1. Countable(e, ins, outs) BY FS_Subset DEF Countable
  <1>2. /\ Total(Received, ins) \in Nat
        /\ Total(Gross, outs \cap Payouts) \in Nat
        /\ Nets(e, outs \cap Settlers) \in Nat
    BY <1>1, BalIsInt
  <1>3. CASE r \in Payouts
    <2>1. /\ (outs \cup {r}) \cap Payouts = (outs \cap Payouts) \cup {r}
          /\ (outs \cup {r}) \cap Settlers = outs \cap Settlers
      BY <1>3, SettlementConstants
    <2>2. Total(Gross, (outs \cap Payouts) \cup {r}) = Gross[r] + Total(Gross, outs \cap Payouts)
      <3> DEFINE P == outs \cap Payouts
      <3>1. IsFiniteSet(P) /\ r \notin P BY <1>1, FS_Subset DEF Countable
      <3>2. \A y \in P \cup {r} : Gross[y] \in Nat BY <1>3, SettlementConstants
      <3> HIDE DEF P
      <3>3. Total(Gross, P \cup {r}) = Gross[r] + Total(Gross, P) BY <3>1, <3>2, TotalAdd
      <3> QED BY <3>3 DEF P
    <2>3. Gross[r] \in Nat /\ Debit(e, r) = Gross[r]
      BY <1>3, SettlementConstants DEF Debit
    <2>4. Bal(e, ins, outs \cup {r}) =
            Total(Received, ins) - (Gross[r] + Total(Gross, outs \cap Payouts))
              - Nets(e, outs \cap Settlers)
      BY <2>1, <2>2 DEF Bal
    <2>5. Bal(e, ins, outs) =
            Total(Received, ins) - Total(Gross, outs \cap Payouts) - Nets(e, outs \cap Settlers)
      BY DEF Bal
    <2> QED BY <1>1, <1>2, <2>3, <2>4, <2>5
  <1>4. CASE r \notin Payouts
    <2>0. r \in Settlers BY <1>4 DEF Requests
    <2>1. /\ (outs \cup {r}) \cap Payouts = outs \cap Payouts
          /\ (outs \cup {r}) \cap Settlers = (outs \cap Settlers) \cup {r}
      BY <1>4, <2>0
    <2>2. Nets(e, (outs \cap Settlers) \cup {r}) = e[r].net + Nets(e, outs \cap Settlers)
      <3> DEFINE P == outs \cap Settlers
      <3>1. IsFiniteSet(P) /\ r \notin P BY <1>1, FS_Subset DEF Countable
      <3>2. \A y \in P \cup {r} : e[y].net \in Nat BY <2>0 DEF Countable
      <3> HIDE DEF P
      <3>3. Nets(e, P \cup {r}) = e[r].net + Nets(e, P) BY <3>1, <3>2, NetsAdd
      <3> QED BY <3>3 DEF P
    <2>3. e[r].net \in Nat /\ Debit(e, r) = e[r].net
      BY <1>4, <2>0 DEF Countable, Debit
    <2>4. Bal(e, ins, outs \cup {r}) =
            Total(Received, ins) - Total(Gross, outs \cap Payouts)
              - (e[r].net + Nets(e, outs \cap Settlers))
      BY <2>1, <2>2 DEF Bal
    <2>5. Bal(e, ins, outs) =
            Total(Received, ins) - Total(Gross, outs \cap Payouts) - Nets(e, outs \cap Settlers)
      BY DEF Bal
    <2> QED BY <1>1, <1>2, <2>3, <2>4, <2>5
  <1> QED BY <1>3, <1>4

(* A debit that was affordable from the deposits and all the debits of an  *)
(* earlier time leaves a balance that is not negative.                     *)
LEMMA AffordableDebit ==
  ASSUME NEW e, NEW f, NEW ins, NEW some \in SUBSET ins, NEW outs,
         NEW r \in Requests, r \notin outs,
         Countable(f, ins, outs \cup {r}),
         \A s \in outs \cap Settlers : e[s].net = f[s].net,
         Bal(e, some, outs) >= Debit(f, r)
  PROVE  Bal(f, ins, outs \cup {r}) >= 0
  <1>1. /\ Countable(f, ins, outs)
        /\ Bal(f, ins, outs \cup {r}) = Bal(f, ins, outs) - Debit(f, r)
    BY BalDebit
  <1>2. Bal(f, some, outs) <= Bal(f, ins, outs) /\ Countable(f, some, outs)
    BY <1>1, BalGrows
  <1>3. Bal(f, some, outs) = Bal(e, some, outs) BY <1>2, BalSame
  <1>4. Bal(f, ins, outs) \in Int /\ Bal(f, some, outs) \in Int BY <1>1, <1>2, BalIsInt
  <1>5. Debit(f, r) \in Int
    BY SettlementConstants DEF Countable, Debit, Requests
  <1> QED BY <1>1, <1>2, <1>3, <1>4, <1>5

-----------------------------------------------------------------------------
(* What the tables hold can be added up, before a step and after it. *)
LEMMA TablesAreCountable == RowsInv /\ FiniteInv => Countable(entry, Credited, Entered)
  <1> SUFFICES ASSUME RowsInv, FiniteInv PROVE Countable(entry, Credited, Entered) OBVIOUS
  <1>1. \A s \in Entered \cap Settlers : entry[s].net \in Nat
    <2>1. \A s \in Settled : entry[s] \in Row
      BY DEF Settled, RowsInv, SettlementTypeOK
    <2>2. Entered \cap Settlers \subseteq Settled
      BY SettlementConstants DEF Entered
    <2> QED BY <2>1, <2>2 DEF Row
  <1>2. Credited \subseteq Deposits /\ Entered \subseteq Requests
    BY DEF Credited, Entered, Settled, Requests
  <1> QED BY <1>1, <1>2 DEF Countable, FiniteInv

LEMMA NextTablesAreCountable ==
  ASSUME RowsInv', FiniteInv' PROVE Countable(entry', Credited', Entered')
  <1>1. (RowsInv /\ FiniteInv => Countable(entry, Credited, Entered))'
    BY TablesAreCountable, PTL
  <1> QED BY <1>1 DEF Countable

LEMMA BalanceIsBal ==
  /\ \A ins, outs : BalanceOf(ins, outs) = Bal(entry, ins, outs)
  /\ \A S : BalanceOf(Credited, S)' = Bal(entry', Credited', S)
  BY DEF BalanceOf, Bal, NetOf, Nets

(* Deposits that covered some debits still cover them. *)
LEMMA StillCovered ==
  ASSUME RowsInv, FiniteInv, RowsInv', FiniteInv',
         Credited \subseteq Credited', Entered \subseteq Entered',
         \A s \in Settled : entry'[s] = entry[s],
         NEW S \in SUBSET Entered, BalanceOf(Credited, S) >= 0
  PROVE  Bal(entry', Credited', S) >= 0
  <1>1. Countable(entry, Credited, S) BY TablesAreCountable, FS_Subset DEF Countable
  <1>2. Countable(entry', Credited', S) BY NextTablesAreCountable, FS_Subset DEF Countable
  <1>3. \A s \in S \cap Settlers : entry'[s].net = entry[s].net
    BY SettlementConstants DEF Entered
  <1>4. Bal(entry', Credited, S) = Bal(entry, Credited, S) BY <1>1, <1>3, BalSame
  <1>5. Bal(entry', Credited, S) <= Bal(entry', Credited', S) BY <1>2, BalGrows
  <1>6. Bal(entry, Credited, S) >= 0 BY BalanceIsBal
  <1>7. Bal(entry, Credited, S) \in Int /\ Bal(entry', Credited', S) \in Int
    BY <1>1, <1>2, BalIsInt
  <1> QED BY <1>4, <1>5, <1>6, <1>7

(* A step that enters nothing: what was entered and what it saw stay. *)
LEMMA CoverHolds ==
  ASSUME RowsInv, FiniteInv, RowsInv', FiniteInv', CoverInv,
         Credited \subseteq Credited', Entered' = Entered,
         \A s \in Settled : entry'[s] = entry[s],
         \A x \in Entered : seenOut'[x] = seenOut[x]
  PROVE  CoverInv'
  <1> SUFFICES ASSUME NEW S \in SUBSET Entered, InTurn(S)'
               PROVE  BalanceOf(Credited, S)' >= 0
    BY DEF CoverInv
  <1>1. InTurn(S) BY DEF InTurn
  <1>2. BalanceOf(Credited, S) >= 0 BY <1>1 DEF CoverInv
  <1>3. Bal(entry', Credited', S) >= 0 BY <1>2, StillCovered
  <1> QED BY <1>3, BalanceIsBal

(* One debit more, that its request could afford from the balance it read. *)
(* Nobody has seen it yet, so of any debits decided on in turn with it     *)
(* among them it saw all the others, and could afford itself beside them.  *)
LEMMA CoverEntered ==
  ASSUME RowsInv, FiniteInv, RowsInv', FiniteInv', ReadInv, CoverInv,
         NEW r \in Requests, r \notin Entered, Entered' = Entered \cup {r},
         Credited' = Credited, seenOut' = seenOut,
         \A s \in Settled : entry'[s] = entry[s],
         BalanceOf(seenIn[r], seenOut[r]) >= Debit(entry', r)
  PROVE  CoverInv'
  <1> SUFFICES ASSUME NEW S \in SUBSET Entered', InTurn(S)'
               PROVE  BalanceOf(Credited, S)' >= 0
    BY DEF CoverInv
  <1>0. InTurn(S) BY DEF InTurn
  <1>1. CASE r \notin S
    <2>1. S \in SUBSET Entered BY <1>1
    <2>2. BalanceOf(Credited, S) >= 0 BY <1>0, <2>1 DEF CoverInv
    <2>3. Bal(entry', Credited', S) >= 0 BY <2>1, <2>2, StillCovered
    <2> QED BY <2>3, BalanceIsBal
  <1>2. CASE r \in S
    <2> DEFINE others == S \ {r}
    <2>1. others \subseteq Entered /\ S = others \cup {r} /\ r \notin others BY <1>2
    <2>2. others \subseteq seenOut[r]
      <3> SUFFICES ASSUME NEW x \in others PROVE x \in seenOut[r] OBVIOUS
      <3>1. x \in Requests BY <2>1 DEF Entered, Settled, Requests
      <3>2. r \notin seenOut[x] BY <3>1 DEF ReadInv
      <3> QED BY <1>0, <1>2, <3>2 DEF InTurn
    <2>3. seenIn[r] \in SUBSET Credited /\ seenOut[r] \in SUBSET Entered BY DEF ReadInv
    <2>4. Countable(entry, seenIn[r], seenOut[r])
      BY <2>3, TablesAreCountable, FS_Subset DEF Countable
    <2> HIDE DEF others
    <2>5. /\ Bal(entry, seenIn[r], seenOut[r]) <= Bal(entry, seenIn[r], others)
          /\ Countable(entry, seenIn[r], others)
      BY <2>2, <2>4, BalFalls
    <2>6. Countable(entry', Credited, others \cup {r})
      BY <2>1, NextTablesAreCountable, FS_Subset DEF Countable
    <2>7. \A s \in others \cap Settlers : entry[s].net = entry'[s].net
      BY <2>1, SettlementConstants DEF Entered
    <2>8. Debit(entry', r) \in Int
      BY <2>6, SettlementConstants DEF Countable, Debit, Requests
    <2>9. Bal(entry, seenIn[r], others) >= Debit(entry', r)
      <3>1. Bal(entry, seenIn[r], seenOut[r]) >= Debit(entry', r) BY BalanceIsBal
      <3>2. Bal(entry, seenIn[r], seenOut[r]) \in Int /\ Bal(entry, seenIn[r], others) \in Int
        BY <2>4, <2>5, BalIsInt
      <3> QED BY <2>5, <2>8, <3>1, <3>2
    <2>10. Bal(entry', Credited, others \cup {r}) >= 0
      BY <2>1, <2>3, <2>6, <2>7, <2>9, AffordableDebit
    <2>11. Bal(entry', Credited', S) >= 0 BY <2>1, <2>10
    <2> QED BY <2>11, BalanceIsBal
  <1> QED BY <1>1, <1>2

(* A step that enters no debit and marks no payout as completed. *)
LEMMA ReadersKeepBalance ==
  ASSUME RowsInv, FiniteInv, RowsInv', FiniteInv', BalanceInv,
         Credited \subseteq Credited', UNCHANGED <<entry, payout>>,
         \A r \in Requests :
           \/ /\ seenIn'[r] = seenIn[r] /\ seenOut'[r] = seenOut[r]
              /\ at'[r] = "accepted" <=> at[r] = "accepted"
           \/ /\ at[r] \notin {"accepted", "done"} /\ at'[r] # "accepted"
              /\ seenIn'[r] \subseteq Credited /\ seenOut'[r] \subseteq Entered
  PROVE  BalanceInv'
  <1>1. ReadInv /\ PayoutInv /\ CoverInv /\ EntryInv BY DEF BalanceInv, RowsInv
  <1>2. \A p \in Payouts : p \in Requests BY DEF Requests
  <1>3. Settled' = Settled /\ Entered' = Entered BY <1>2 DEF Entered, Settled
  <1>4. \A x \in Entered : x \in Requests /\ at[x] \in {"accepted", "done"}
    BY <1>1, <1>2 DEF Entered, Settled, EntryInv, Requests
  <1>5. \A x \in Entered : seenOut'[x] = seenOut[x] BY <1>4
  <1>6. \A r \in Requests : seenIn'[r] \subseteq Credited /\ seenOut'[r] \subseteq Entered
    BY <1>1 DEF ReadInv
  <1>7. ReadInv' BY <1>3, <1>6 DEF ReadInv
  <1>8. PayoutInv' BY <1>1, <1>2 DEF PayoutInv
  <1>9. \A s \in Settled : entry'[s] = entry[s] OBVIOUS
  <1>10. CoverInv' BY <1>1, <1>3, <1>5, <1>9, CoverHolds
  <1> QED BY <1>7, <1>8, <1>10 DEF BalanceInv

LEMMA SettleKeepsBalance ==
  ASSUME RowsInv, FiniteInv, RowsInv', FiniteInv', BalanceInv, NEW s \in Settlers, Settle(s)
  PROVE  BalanceInv'
  <1>1. ReadInv /\ PayoutInv /\ CoverInv /\ EntryInv /\ SettlementTypeOK
    BY DEF BalanceInv, RowsInv
  <1>2. s \in Requests /\ s \notin Payouts BY SettlementConstants DEF Requests
  <1>3. at[s] = "decide" /\ entry[s] = NotYet
    BY <1>1 DEF Settle, Await, EntryInv, Settled
  <1>4. /\ UNCHANGED <<deposit, payout, seenIn, seenOut>>
        /\ \A t \in Settlers : t # s => entry'[t] = entry[t]
        /\ \A p \in Payouts : at'[p] = at[p]
    BY <1>1, <1>2 DEF Settle, Await, SettlementTypeOK
  <1> DEFINE net == Fees(s, batch[s]).net
  <1>5. entry'[s] # NotYet /\ entry'[s].net = net
    <2>1. batch[s] \in SUBSET Deposits /\ IsFiniteSet(batch[s])
      BY <1>1, FS_Subset DEF FiniteInv, SettlementTypeOK
    <2>2. net \in Nat /\ Fees(s, batch[s]).mdr \in Nat /\ Fees(s, batch[s]).fee \in Nat
          /\ Total(Received, batch[s]) \in Nat
      BY <1>1, <2>1, FeesAreNat
    <2>3. entry'[s] = [gross |-> Total(Received, batch[s]), mdr |-> Fees(s, batch[s]).mdr,
                       fee |-> Fees(s, batch[s]).fee, net |-> net]
      BY <1>1 DEF Settle, SettlementTypeOK
    <2> HIDE DEF net
    <2> QED BY <2>2, <2>3, RowsAreRows DEF Row
  <1>6. Settled' = Settled \cup {s} /\ Credited' = Credited
    BY <1>4, <1>5 DEF Settled, Credited
  <1>7. Entered' = Entered \cup {s} BY <1>4, <1>6 DEF Entered
  <1>8. s \notin Entered BY <1>2, <1>3 DEF Entered, Settled
  <1>9. \A t \in Settled : entry'[t] = entry[t] BY <1>3, <1>4 DEF Settled
  <1>10. ReadInv' BY <1>1, <1>4, <1>6, <1>7 DEF ReadInv
  <1>11. PayoutInv' BY <1>1, <1>4 DEF PayoutInv
  <1>12. CoverInv'
    <2>1. Debit(entry', s) = net BY <1>2, <1>5 DEF Debit
    <2>2. BalanceOf(seenIn[s], seenOut[s]) >= net BY DEF Settle, Affords
    <2>3. BalanceOf(seenIn[s], seenOut[s]) >= Debit(entry', s) BY <2>1, <2>2
    <2> QED BY <1>1, <1>2, <1>4, <1>6, <1>7, <1>8, <1>9, <2>3, CoverEntered
  <1> QED BY <1>10, <1>11, <1>12 DEF BalanceInv

LEMMA InsertKeepsBalance ==
  ASSUME RowsInv, FiniteInv, RowsInv', FiniteInv', BalanceInv,
         NEW p \in Payouts, InsertPayout(p)
  PROVE  BalanceInv'
  <1>1. ReadInv /\ PayoutInv /\ CoverInv /\ SettlementTypeOK BY DEF BalanceInv, RowsInv
  <1>2. p \in Requests /\ p \notin Settlers BY SettlementConstants DEF Requests
  <1>3. /\ UNCHANGED <<deposit, entry, seenIn, seenOut>> /\ at[p] = "decide"
        /\ \A q \in Payouts : q # p => payout'[q] = payout[q] /\ at'[q] = at[q]
        /\ payout'[p] \in {"processing", "failed"}
        /\ at'[p] \in {"accepted", "done"}
        /\ at'[p] = "accepted" => Affords(p, Gross[p])
    BY <1>1, <1>2 DEF InsertPayout, Await, SettlementTypeOK, Requests
  <1>4. Settled' = Settled /\ Credited' = Credited BY <1>3 DEF Settled, Credited
  <1>5. p \notin Entered BY <1>2, <1>3 DEF Entered, Settled
  <1>6. \A s \in Settled : entry'[s] = entry[s] BY <1>3
  <1>7. PayoutInv' BY <1>1, <1>3 DEF PayoutInv
  <1>8. CASE at'[p] = "accepted"
    <2>1. Entered' = Entered \cup {p} BY <1>3, <1>4, <1>8 DEF Entered
    <2>2. ReadInv' BY <1>1, <1>3, <1>4, <2>1 DEF ReadInv
    <2>3. Debit(entry', p) = Gross[p] BY DEF Debit
    <2>4. BalanceOf(seenIn[p], seenOut[p]) >= Gross[p] BY <1>3, <1>8 DEF Affords
    <2>5. BalanceOf(seenIn[p], seenOut[p]) >= Debit(entry', p) BY <2>3, <2>4
    <2>6. CoverInv'
      BY <1>1, <1>2, <1>3, <1>4, <1>5, <1>6, <2>1, <2>5, CoverEntered
    <2> QED BY <1>7, <2>2, <2>6 DEF BalanceInv
  <1>9. CASE at'[p] = "done"
    <2>1. Entered' = Entered BY <1>3, <1>4, <1>9 DEF Entered
    <2>2. ReadInv' BY <1>1, <1>3, <1>4, <2>1 DEF ReadInv
    <2>3. CoverInv' BY <1>1, <1>3, <1>4, <1>6, <2>1, CoverHolds
    <2> QED BY <1>7, <2>2, <2>3 DEF BalanceInv
  <1> QED BY <1>3, <1>8, <1>9

LEMMA EndKeepsBalance ==
  ASSUME RowsInv, FiniteInv, RowsInv', FiniteInv', BalanceInv,
         NEW p \in Payouts, EndPayout(p)
  PROVE  BalanceInv'
  <1>1. ReadInv /\ PayoutInv /\ CoverInv /\ SettlementTypeOK BY DEF BalanceInv, RowsInv
  <1>2. /\ UNCHANGED <<deposit, entry, seenIn, seenOut, at>> /\ at[p] = "accepted"
        /\ \A q \in Payouts : q # p => payout'[q] = payout[q]
    BY <1>1 DEF EndPayout, SettlementTypeOK
  <1>3. Settled' = Settled /\ Credited' = Credited /\ Entered' = Entered
    BY <1>2 DEF Settled, Credited, Entered
  <1>4. ReadInv' BY <1>1, <1>2, <1>3 DEF ReadInv
  <1>5. PayoutInv' BY <1>1, <1>2 DEF PayoutInv
  <1>6. \A s \in Settled : entry'[s] = entry[s] BY <1>2
  <1>7. CoverInv' BY <1>1, <1>2, <1>3, <1>6, CoverHolds
  <1> QED BY <1>4, <1>5, <1>7 DEF BalanceInv

LEMMA BalanceIsKept ==
  RowsInv /\ FiniteInv /\ BalanceInv /\ RowsInv' /\ FiniteInv' /\ [SettlementNext]_settlementVars
    => BalanceInv'
  <1> SUFFICES ASSUME RowsInv, FiniteInv, BalanceInv, RowsInv', FiniteInv',
                      [SettlementNext]_settlementVars
               PROVE  BalanceInv'
    OBVIOUS
  <1>t. SettlementTypeOK /\ ReadInv /\ PayoutInv BY DEF RowsInv, BalanceInv
  <1>q. \A s \in Settlers : s \in Requests BY DEF Requests
  <1>1. ASSUME Credited \subseteq Credited', UNCHANGED <<entry, payout, seenIn, seenOut>>,
               \A r \in Requests : at'[r] = "accepted" <=> at[r] = "accepted"
        PROVE  BalanceInv'
    BY <1>1, ReadersKeepBalance
  <1>2. ASSUME NEW d \in Deposits, Credit(d) \/ Mature(d) PROVE BalanceInv'
    <2>1. Credited \subseteq Credited'
      <3>1. \A e \in Deposits : deposit[e] # Absent => deposit'[e] # Absent
        BY <1>2, <1>t, SettlementConstants
           DEF Credit, Mature, SettlementTypeOK, Absent, Ages
      <3> QED BY <3>1 DEF Credited
    <2> QED BY <1>1, <1>2, <2>1 DEF Credit, Mature
  <1>3. ASSUME NEW s \in Settlers, Preview(s) \/ ReadMerchant(s) \/ LoadUnsettled(s)
        PROVE  BalanceInv'
    <2>1. \A r \in Requests : at'[r] = "accepted" <=> at[r] = "accepted"
      BY <1>3, <1>t, <1>q DEF Preview, ReadMerchant, LoadUnsettled, Await, SettlementTypeOK
    <2>2. UNCHANGED <<deposit, entry, payout, seenIn, seenOut>>
      BY <1>3 DEF Preview, ReadMerchant, LoadUnsettled, books
    <2> QED BY <1>1, <2>1, <2>2 DEF Credited
  <1>4. ASSUME NEW p \in Payouts, CheckOpenPayout(p) PROVE BalanceInv'
    <2>1. \A r \in Requests : at'[r] = "accepted" <=> at[r] = "accepted"
      BY <1>4, <1>t DEF CheckOpenPayout, Await, SettlementTypeOK
    <2>2. UNCHANGED <<deposit, entry, payout, seenIn, seenOut>>
      BY <1>4 DEF CheckOpenPayout, books
    <2> QED BY <1>1, <2>1, <2>2 DEF Credited
  <1>5. ASSUME NEW r \in Requests, ReadInbound(r) \/ ReadOutbound(r) \/ ReadSettled(r)
        PROVE  BalanceInv'
    <2>1. UNCHANGED <<deposit, entry, payout>>
      BY <1>5 DEF ReadInbound, ReadOutbound, ReadSettled, books
    <2>2. \A x \in Requests : x # r =>
            seenIn'[x] = seenIn[x] /\ seenOut'[x] = seenOut[x] /\ at'[x] = at[x]
      BY <1>5, <1>t DEF ReadInbound, ReadOutbound, ReadSettled, Await, SettlementTypeOK
    <2>3. at[r] \notin {"accepted", "done"} /\ at'[r] # "accepted"
      BY <1>5, <1>t DEF ReadInbound, ReadOutbound, ReadSettled, Await, SettlementTypeOK
    <2>4. seenIn[r] \subseteq Credited /\ seenOut[r] \subseteq Entered BY <1>t DEF ReadInv
    <2>5. seenIn'[r] \in {seenIn[r], Credited}
      BY <1>5, <1>t DEF ReadInbound, ReadOutbound, ReadSettled, SettlementTypeOK
    <2>6. seenOut'[r] \in {seenOut[r], Completed, seenOut[r] \cup Settled}
      BY <1>5, <1>t DEF ReadInbound, ReadOutbound, ReadSettled, SettlementTypeOK
    <2>7. Settled \subseteq Entered /\ Completed \subseteq Entered
      BY <1>t DEF PayoutInv, Completed, Entered
    <2>8. seenIn'[r] \subseteq Credited /\ seenOut'[r] \subseteq Entered
      BY <2>4, <2>5, <2>6, <2>7
    <2>9. Credited \subseteq Credited' BY <2>1 DEF Credited
    <2> QED BY <2>1, <2>2, <2>3, <2>8, <2>9, ReadersKeepBalance
  <1>6. ASSUME NEW r \in Requests, at[r] \notin {"accepted", "done"}, Drop(r)
        PROVE  BalanceInv'
    <2>1. UNCHANGED <<deposit, entry, payout>> BY <1>6 DEF Drop, books
    <2>2. \A x \in Requests : x # r =>
            seenIn'[x] = seenIn[x] /\ seenOut'[x] = seenOut[x] /\ at'[x] = at[x]
      BY <1>6, <1>t DEF Drop, SettlementTypeOK
    <2>3. at'[r] = "done" /\ seenIn'[r] = {} /\ seenOut'[r] = {}
      BY <1>6, <1>t DEF Drop, SettlementTypeOK
    <2>4. Credited \subseteq Credited' BY <2>1 DEF Credited
    <2> QED BY <1>6, <2>1, <2>2, <2>3, <2>4, ReadersKeepBalance
  <1>7. ASSUME NEW s \in Settlers, RefuseBatch(s) \/ RefuseSettlement(s) PROVE BalanceInv'
    BY <1>6, <1>7, <1>q DEF RefuseBatch, RefuseSettlement
  <1>8. ASSUME NEW r \in Requests, AbortRequest(r) PROVE BalanceInv'
    BY <1>6, <1>8 DEF AbortRequest
  <1>9. CASE UNCHANGED settlementVars
    BY <1>1, <1>9 DEF settlementVars, books, Credited
  <1> QED
    BY <1>2, <1>3, <1>4, <1>5, <1>7, <1>8, <1>9, SettleKeepsBalance, InsertKeepsBalance,
       EndKeepsBalance DEF SettlementNext

-----------------------------------------------------------------------------
LEMMA MinIsKept ==
  RowsInv /\ FiniteInv /\ MinInv /\ [SettlementNext]_settlementVars => MinInv'
  <1> SUFFICES ASSUME RowsInv, FiniteInv, MinInv, [SettlementNext]_settlementVars
               PROVE  MinInv'
    OBVIOUS
  <1> DEFINE Past == {"inbound", "outbound", "settled", "decide"}
  <1>t. SettlementTypeOK /\ EntryInv BY DEF RowsInv
  <1>s. \A s \in Settlers : s \in Requests /\ s \notin Payouts
    BY SettlementConstants DEF Requests
  <1>f. \A s \in Settlers : terms'[s] = terms[s] /\ batch'[s] = batch[s] /\ at[s] \in Past
                              => Enough(s, Fees(s, batch[s]).net)'
    BY DEF MinInv, Enough, Fees
  <1>1. ASSUME UNCHANGED entry, \A s \in Settled : terms'[s] = terms[s],
               \A s \in Settlers : at'[s] \in Past =>
                 at[s] \in Past /\ terms'[s] = terms[s] /\ batch'[s] = batch[s]
        PROVE  MinInv'
    <2>1. Settled' = Settled BY <1>1 DEF Settled
    <2>2. ASSUME NEW s \in Settlers, at'[s] \in Past
          PROVE  Enough(s, Fees(s, batch[s]).net)'
      BY <1>1, <1>f, <2>2
    <2>3. ASSUME NEW s \in Settled PROVE Enough(s, entry[s].net)'
      BY <1>1 DEF MinInv, Enough
    <2> QED BY <2>1, <2>2, <2>3 DEF MinInv
  <1>2. ASSUME NEW d \in Deposits, Credit(d) \/ Mature(d) PROVE MinInv'
    BY <1>1, <1>2 DEF Credit, Mature
  <1>3. ASSUME NEW s \in Settlers, Preview(s) \/ ReadMerchant(s) PROVE MinInv'
    <2>1. UNCHANGED <<entry, batch>> /\ at'[s] \notin Past /\ at[s] # "done"
          /\ \A x \in Settlers : x # s => at'[x] = at[x] /\ terms'[x] = terms[x]
      BY <1>3, <1>t, <1>s DEF Preview, ReadMerchant, Await, books, SettlementTypeOK
    <2>2. s \notin Settled BY <1>t, <2>1 DEF EntryInv
    <2> QED BY <1>1, <2>1, <2>2 DEF Settled
  <1>4. ASSUME NEW p \in Payouts, CheckOpenPayout(p) \/ InsertPayout(p) \/ EndPayout(p)
        PROVE  MinInv'
    <2>1. UNCHANGED <<entry, batch, terms>> /\ \A s \in Settlers : at'[s] = at[s]
      BY <1>4, <1>t, <1>s DEF CheckOpenPayout, InsertPayout, EndPayout, Await, books, SettlementTypeOK
    <2> QED BY <1>1, <2>1
  <1>5. ASSUME NEW r \in Requests, ReadInbound(r) \/ ReadOutbound(r) \/ ReadSettled(r)
        PROVE  MinInv'
    <2>1. UNCHANGED <<entry, batch, terms>> /\ \A s \in Settlers : at'[s] \in Past => at[s] \in Past
      BY <1>5, <1>t, <1>s DEF ReadInbound, ReadOutbound, ReadSettled, Await, books, SettlementTypeOK
    <2> QED BY <1>1, <2>1
  <1>6. ASSUME NEW r \in Requests, at[r] # "done", Drop(r) PROVE MinInv'
    <2>1. UNCHANGED entry /\ at'[r] = "done"
          /\ \A s \in Settlers : s # r =>
               at'[s] = at[s] /\ batch'[s] = batch[s] /\ terms'[s] = terms[s]
      BY <1>6, <1>t DEF Drop, books, SettlementTypeOK
    <2>2. r \notin Settled BY <1>6, <1>t DEF EntryInv
    <2> QED BY <1>1, <2>1, <2>2 DEF Settled
  <1>7. ASSUME NEW s \in Settlers, RefuseBatch(s) \/ RefuseSettlement(s) PROVE MinInv'
    BY <1>6, <1>7, <1>s DEF RefuseBatch, RefuseSettlement
  <1>8. ASSUME NEW r \in Requests, AbortRequest(r) PROVE MinInv'
    BY <1>6, <1>8 DEF AbortRequest
  <1>9. ASSUME NEW s \in Settlers, LoadUnsettled(s) PROVE MinInv'
    <2> DEFINE found == Unsettled(terms[s].hold)
    <2>1. /\ UNCHANGED <<entry, terms>> /\ batch'[s] = found
          /\ Enough(s, Fees(s, found).net)
          /\ \A x \in Settlers : x # s => at'[x] = at[x] /\ batch'[x] = batch[x]
      BY <1>9, <1>t, <1>s DEF LoadUnsettled, Worthwhile, Enough, Await, books, SettlementTypeOK
    <2> HIDE DEF found
    <2>2. Settled' = Settled BY <2>1 DEF Settled
    <2>3. Enough(s, Fees(s, batch[s]).net)' BY <2>1 DEF Enough, Fees
    <2>4. \A x \in Settlers : x # s /\ at'[x] \in Past => Enough(x, Fees(x, batch[x]).net)'
      BY <1>f, <2>1
    <2>5. \A x \in Settled : Enough(x, entry[x].net)' BY <2>1 DEF MinInv, Enough
    <2> QED BY <2>2, <2>3, <2>4, <2>5 DEF MinInv
  <1>10. ASSUME NEW s \in Settlers, Settle(s) PROVE MinInv'
    <2>1. /\ UNCHANGED <<terms, batch>> /\ at[s] = "decide" /\ at'[s] = "done"
          /\ \A x \in Settlers : x # s => at'[x] = at[x] /\ entry'[x] = entry[x]
          /\ entry'[s].net = Fees(s, batch[s]).net
      BY <1>10, <1>t, <1>s DEF Settle, Await, SettlementTypeOK
    <2>2. \A x \in Settlers : at'[x] \in Past => Enough(x, Fees(x, batch[x]).net)'
      BY <1>f, <2>1
    <2>3. ASSUME NEW x \in Settled' PROVE Enough(x, entry[x].net)'
      <3>1. CASE x = s
        <4>1. Enough(s, Fees(s, batch[s]).net) BY <2>1 DEF MinInv
        <4> QED BY <2>1, <3>1, <4>1 DEF Enough
      <3>2. CASE x # s
        <4>1. x \in Settled BY <2>1, <2>3, <3>2 DEF Settled
        <4> QED BY <2>1, <3>2, <4>1 DEF MinInv, Settled, Enough
      <3> QED BY <3>1, <3>2
    <2> QED BY <2>2, <2>3 DEF MinInv
  <1>11. CASE UNCHANGED settlementVars BY <1>1, <1>11 DEF settlementVars, books
  <1> QED
    BY <1>2, <1>3, <1>4, <1>5, <1>7, <1>8, <1>9, <1>10, <1>11 DEF SettlementNext

LEMMA IInvIsKept == IInv /\ [SettlementNext]_settlementVars => IInv'
  BY RowsAreKept, FiniteIsKept, BalanceIsKept, MinIsKept DEF IInv

LEMMA IInvCorrect == SettlementSpec => []IInv
  BY IInvHoldsAtFirst, IInvIsKept, PTL DEF SettlementSpec

(* settlement-batch.js keeps every row, mark and read in its range. *)
THEOREM SettlementTypeCorrect == SettlementSpec => []SettlementTypeOK
  <1>1. IInv => SettlementTypeOK BY DEF IInv, RowsInv, FiniteInv
  <1> QED BY <1>1, IInvCorrect, PTL

(* However many settlements run, a deposit is in two of them only if they *)
(* overlapped: the marks one of them commits keep every later one off it. *)
THEOREM NoDepositSettledTwiceInSequence == SettlementSpec => []SettledTwiceOnlyByOverlap
  <1>1. IInv => SettledTwiceOnlyByOverlap
    <2> SUFFICES ASSUME IInv, NEW s \in Settled, NEW t \in Settled,
                        batch[s] \cap batch[t] # {}
                 PROVE  s \notin before[t] /\ t \notin before[s]
      BY DEF SettledTwiceOnlyByOverlap
    <2>1. BeforeInv BY DEF IInv, RowsInv, FiniteInv
    <2> QED BY <2>1 DEF BeforeInv, Settled
  <1> QED BY <1>1, IInvCorrect, PTL

(* Settled one after the other, the batches are what the marks say; what   *)
(* their rows do not pay out of it is withheld, and stays in the balance.  *)
LEMMA BalanceInSequence ==
  ASSUME RowsInv, FiniteInv, InSequence
  PROVE  BalanceOf(Credited, Settled) =
           Total(Received, {d \in Credited : mark[d] = NotYet})
             + Total([s \in Settled |-> entry[s].mdr + entry[s].fee], Settled)
  <1>1. SettlementTypeOK /\ MarkInv /\ BeforeInv /\ SumInv BY DEF RowsInv
  <1> DEFINE marked == {d \in Credited : mark[d] # NotYet}
             unmarked == {d \in Credited : mark[d] = NotYet}
             fees == [s \in Settled |-> entry[s].mdr + entry[s].fee]
             nets == [s \in Settled |-> entry[s].net]
             gross == [s \in Settled |-> entry[s].gross]
  <1>2. Credited = marked \cup unmarked /\ marked \cap unmarked = {} OBVIOUS
  <1>3. IsFiniteSet(marked) /\ IsFiniteSet(unmarked)
    BY <1>2, FS_Subset DEF FiniteInv
  <1>4. \A d \in Credited : Received[d] \in Nat
    BY SettlementConstants DEF Credited
  <1>5. Total(Received, Credited) = Total(Received, marked) + Total(Received, unmarked)
    <2> HIDE DEF marked, unmarked
    <2> QED BY <1>2, <1>3, <1>4, TotalDisjoint
  <1>6. marked = UNION {batch[s] : s \in Settled}
    <2>1. \A s \in Settled : batch[s] \subseteq Credited BY DEF FiniteInv, Settled
    <2>2. \A d \in marked : mark[d] \in Settled /\ d \in batch[mark[d]]
      BY <1>1 DEF MarkInv, Credited
    <2>3. \A s \in Settled : \A d \in batch[s] : mark[d] # NotYet BY <1>1 DEF MarkInv
    <2> QED BY <2>1, <2>2, <2>3
  <1>7. Total(gross, Settled) = Total(Received, marked)
    <2>1. \A s \in Settled : /\ IsFiniteSet(batch[s]) /\ \A d \in batch[s] : Received[d] \in Nat
                             /\ gross[s] = Total(Received, batch[s])
      BY <1>1, <1>4, FS_Subset DEF FiniteInv, Settled, SumInv
    <2>2. \A s, t \in Settled : s # t => batch[s] \cap batch[t] = {}
      BY <1>1 DEF InSequence, BeforeInv, Settled
    <2>3. IsFiniteSet(Settled) BY DEF FiniteInv
    <2> HIDE DEF gross, marked
    <2> QED BY <1>6, <2>1, <2>2, <2>3, TotalOfParts
  <1>8. \A s \in Settled : /\ fees[s] \in Nat /\ nets[s] \in Nat
                           /\ gross[s] = fees[s] + nets[s]
    <2>1. \A s \in Settled : entry[s] \in Row BY <1>1 DEF SettlementTypeOK, Settled
    <2> QED BY <1>1, <2>1 DEF SumInv, Row
  <1>9. Total(gross, Settled) = Total(fees, Settled) + Total(nets, Settled)
    <2>1. IsFiniteSet(Settled) BY DEF FiniteInv
    <2> HIDE DEF gross, fees, nets
    <2> QED BY <1>8, <2>1, TotalPlus
  <1>10. BalanceOf(Credited, Settled) = Total(Received, Credited) - Total(nets, Settled)
    <2>1. Settled \cap Payouts = {} /\ Settled \cap Settlers = Settled
      BY SettlementConstants DEF Settled
    <2>2. Total(Gross, {}) = 0 BY TotalEmpty
    <2>3. Total(Received, Credited) \in Nat BY <1>4, TotalIsNat DEF FiniteInv
    <2>4. NetOf(Settled) = Total(nets, Settled) BY DEF NetOf
    <2>5. BalanceOf(Credited, Settled) = Total(Received, Credited) - 0 - Total(nets, Settled)
      BY <2>1, <2>2, <2>4 DEF BalanceOf
    <2> HIDE DEF nets
    <2> QED BY <2>3, <2>5
  <1>11. /\ Total(fees, Settled) \in Nat /\ Total(nets, Settled) \in Nat
         /\ Total(Received, marked) \in Nat /\ Total(Received, unmarked) \in Nat
    <2>1. IsFiniteSet(Settled) BY DEF FiniteInv
    <2>2. \A d \in marked \cup unmarked : Received[d] \in Nat BY <1>4
    <2> HIDE DEF fees, nets, marked, unmarked, gross
    <2> QED BY <1>3, <1>8, <2>1, <2>2, TotalIsNat
  <1>12. BalanceOf(Credited, Settled) = Total(Received, unmarked) + Total(fees, Settled)
    <2> HIDE DEF marked, unmarked, fees, nets, gross
    <2>1. Total(Received, marked) = Total(fees, Settled) + Total(nets, Settled)
      BY <1>7, <1>9
    <2>2. Total(Received, Credited) =
            Total(fees, Settled) + Total(nets, Settled) + Total(Received, unmarked)
      BY <1>5, <2>1
    <2> QED BY <1>10, <1>11, <2>2
  <1> QED BY <1>12

(* A row's fees and net make up what its deposits brought in, its net is   *)
(* more than the minimum the merchant had when the request read its terms, *)
(* whatever has changed since, and as long as no two settlements           *)
(* overlapped the balance they leave is what is still to be settled and    *)
(* the fees withheld: settling loses and makes nothing.                    *)
THEOREM RowsAlwaysAddUp == SettlementSpec => []RowsAddUp
  <1>1. IInv => RowsAddUp
    <2> SUFFICES ASSUME IInv PROVE RowsAddUp OBVIOUS
    <2>1. RowsInv /\ FiniteInv /\ SumInv /\ MinInv BY DEF IInv, RowsInv
    <2> QED BY <2>1, BalanceInSequence DEF RowsAddUp, SumInv, MinInv, Enough
  <1> QED BY <1>1, IInvCorrect, PTL

(* Every deposit a row was computed from is marked by it, or by one that   *)
(* overlapped it, and a mark always names such a row.                      *)
THEOREM MarksAlwaysMatchRows == SettlementSpec => []MarksMatchRows
  <1>1. IInv => MarksMatchRows
    <2> SUFFICES ASSUME IInv PROVE MarksMatchRows OBVIOUS
    <2>1. MarkInv /\ BeforeInv /\ SettlementTypeOK BY DEF IInv, RowsInv, FiniteInv
    <2>2. ASSUME NEW s \in Settled, NEW d \in batch[s], mark[d] \notin {NotYet, s}
          PROVE  s \notin before[mark[d]] /\ mark[d] \notin before[s]
      <3>1. s \in Settlers /\ d \in Deposits BY <2>1 DEF Settled, SettlementTypeOK
      <3>2. mark[d] \in Settled /\ d \in batch[mark[d]] BY <2>1, <2>2, <3>1 DEF MarkInv
      <3> QED BY <2>1, <2>2, <3>1, <3>2 DEF BeforeInv, Settled
    <2> QED BY <2>1, <2>2 DEF MarksMatchRows, MarkInv
  <1> QED BY <1>1, IInvCorrect, PTL

(* What the operator saw as pending when he paid is settled by the time    *)
(* his request has made its row, whatever other settlements, deposits and  *)
(* changes of the rates and the minimum came in between; only a hold       *)
(* period that was made longer meanwhile leaves any of it out.             *)
THEOREM PreviewAlwaysSettled == SettlementSpec => []PreviewIsSettled
  <1>1. IInv => PreviewIsSettled
    <2> SUFFICES ASSUME IInv, NEW s \in Settled, terms[s].hold <= holdShown[s],
                        NEW d \in previewed[s]
                 PROVE  mark[d] # NotYet
      BY DEF PreviewIsSettled
    <2>1. MarkInv /\ PreviewInv BY DEF IInv, RowsInv
    <2> QED BY <2>1 DEF MarkInv, PreviewInv, Loaded, Settled
  <1> QED BY <1>1, IInvCorrect, PTL

(* Nothing is reserved while a payout is sent or a settlement decided, yet *)
(* the merchant is never overdrawn unless two debits were decided on       *)
(* without either seeing the other, and then by no more than all but one   *)
(* of the debits that overlapped another: deciding on debits one after the *)
(* other would be enough, however often a payout is failed and completed.  *)
THEOREM NeverOverdrawnInSequence == SettlementSpec => []OverdrawnOnlyByOverlap
  <1>1. IInv => OverdrawnOnlyByOverlap
    <2> SUFFICES ASSUME IInv PROVE OverdrawnOnlyByOverlap OBVIOUS
    <2>1. CoverInv /\ Debits \subseteq Entered
      BY DEF IInv, BalanceInv, PayoutInv, Debits, Completed, Entered
    <2>2. \A y, z \in Debits : y # z /\ (y \notin Overlapping \/ z \notin Overlapping)
                                 => y \in seenOut[z] \/ z \in seenOut[y]
      BY DEF Overlapping
    <2>3. CASE Overlapping = {}
      <3>1. InTurn(Debits) BY <2>2, <2>3 DEF InTurn
      <3> QED BY <2>1, <3>1 DEF CoverInv, OverdrawnOnlyByOverlap
    <2>4. ASSUME NEW x \in Overlapping PROVE OverdrawnOnlyByOverlap
      <3> DEFINE T == Debits \ (Overlapping \ {x})
      <3>1. T \in SUBSET Entered BY <2>1
      <3>2. InTurn(T) BY <2>2 DEF InTurn
      <3> HIDE DEF T
      <3>3. BalanceOf(Credited, T) >= 0 BY <2>1, <3>1, <3>2 DEF CoverInv
      <3> QED BY <3>3 DEF T, OverdrawnOnlyByOverlap
    <2> QED BY <2>3, <2>4
  <1> QED BY <1>1, IInvCorrect, PTL
=============================================================================
