------------------------------- MODULE FeeMath -------------------------------
(***************************************************************************)
(* The money arithmetic of merchant-fee-math.js and of the limits that     *)
(* merchant-withdrawal-request.js checks with it.                          *)
(*                                                                         *)
(* Amounts are integers in the token's smallest unit (BigInt in the code:  *)
(* no overflow).  A percentage is what the column Decimal(7,4) holds, in   *)
(* units of 0.0001 percent, so 100 percent is Hundred.  A human amount is  *)
(* a Decimal as well, in units of 10^-HumanDigits of a token.              *)
(***************************************************************************)
EXTENDS Integers

CONSTANT HumanDigits  (* decimal places a human amount is written with *)

ASSUME DigitsAreNat == HumanDigits \in Nat

Whole   == 100 * 100    (* 100 percent in basis points *)
Hundred == 100 * Whole

(* Which way percent * 100 rounds at a tie depends on the error of the     *)
(* floating-point product: such percentages (1.005) are left out.          *)
Percents == {p \in 0 .. Hundred : p % 100 # 50}

(* Math.round(percent * 100): the last two decimals are rounded away. *)
Bps(percent) == (percent + 50) \div 100

(* feeAmountFromPercent: rounded down to a whole unit. *)
FeeAmount(gross, percent) ==
  LET bps == Bps(percent) IN
  IF percent >= Hundred \/ bps >= Whole THEN gross
  ELSE IF percent <= 0 \/ bps <= 0 THEN 0
  ELSE (gross * bps) \div Whole

\* Fault: the net is a rounded share of its own.
SplitRounded(gross, mdrPercent, settlementPercent) ==
  LET mdr      == FeeAmount(gross, mdrPercent)
      afterMdr == gross - mdr
      fee      == FeeAmount(afterMdr, settlementPercent)
  IN [mdr |-> mdr, afterMdr |-> afterMdr, fee |-> fee,
      net |-> FeeAmount(afterMdr, Hundred - settlementPercent)]

(* splitFeesSequentialFromGross: MDR on the gross, the settlement fee on   *)
(* what MDR leaves.                                                        *)
Split(gross, mdrPercent, settlementPercent) ==
  LET mdr      == FeeAmount(gross, mdrPercent)
      afterMdr == gross - mdr
      fee      == FeeAmount(afterMdr, settlementPercent)
  IN [mdr |-> mdr, afterMdr |-> afterMdr, fee |-> fee, net |-> afterMdr - fee]

Pow10[n \in Nat] == IF n = 0 THEN 1 ELSE 10 * Pow10[n - 1]

(* Whether a human amount has no fraction. *)
IsWhole(human) == human % Pow10[HumanDigits] = 0

(* parseHumanMinSettlementToAtomic: further decimals than the token has    *)
(* are cut off; a token without decimals takes whole amounts only.         *)
ParsesAsAtomic(human, decimals) == decimals = 0 => IsWhole(human)

HumanToAtomic(human, decimals) ==
  IF decimals >= HumanDigits
    THEN human * Pow10[decimals - HumanDigits]
    ELSE human \div Pow10[HumanDigits - decimals]

(* netStrictlyAboveMinSettlementHuman: a minimum that does not parse, or   *)
(* is nothing in this token's units, asks for a positive net only.         *)
NetAboveMin(net, human, decimals) ==
  IF ParsesAsAtomic(human, decimals)
    THEN net > HumanToAtomic(human, decimals)
    ELSE net > 0

(* validateGrossAgainstMerchantPayoutLimits: both limits are inclusive and *)
(* 0 turns one off, a maximum also when it is nothing in this token.       *)
WithinPayoutLimits(gross, min, max, decimals) ==
  /\ min # 0 => /\ ParsesAsAtomic(min, decimals)
                /\ gross >= HumanToAtomic(min, decimals)
  /\ max # 0 => /\ ParsesAsAtomic(max, decimals)
                /\ LET most == HumanToAtomic(max, decimals)
                   IN  most > 0 => gross <= most
=============================================================================
