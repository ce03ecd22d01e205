-------------------------- MODULE MCDepositIngest --------------------------
(* Amounts and symmetry for DepositIngest's runs.                          *)
EXTENDS DepositIngest, TLC

CONSTANTS s1

\* Every transfer is short of what s1 asks for and enough for the other
\* checkout; two of them together are enough for s1.
MCAmount == [c \in Transfers |-> 4]
MCExpected == [s \in Sessions |-> IF s = s1 THEN 6 ELSE 3]

\* The amounts do not tell the transfers apart.
TransferSymmetry == Permutations(Transfers)
=============================================================================
