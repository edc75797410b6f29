------------------------------ MODULE MCBilling ------------------------------
(***************************************************************************)
(* Instances of Billing for TLC: the ends of January, February and March,  *)
(* where the anchor day 31 meets a short month.                            *)
(***************************************************************************)
EXTENDS Billing

Jan31 == Date(2023, 1, 31)
Feb28 == Date(2023, 2, 28)
Mar31 == Date(2023, 3, 31)

MCAnchor == [u \in Users |-> 31]
OneFirst == {Jan31}
EarlyResume == {Jan31}
Quarter == {Jan31, Feb28, Mar31}
TwoDays == {Jan31, Mar31}
MCMin == -4
WideMin == -100
NarrowMin == -2
ManualAmounts == {-3, 3}
=============================================================================
