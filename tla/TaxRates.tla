------------------------------- MODULE TaxRates -------------------------------
(* The brackets of tax.py, which RentBook pays by and the pages of Standing    *)
(* show: one rate on the income of a year up to a threshold, a higher one on   *)
(* the surplus, month by month and in whole zloty.                             *)
EXTENDS Integers, FiniteSetsExt

CONSTANTS
    Threshold,   \* income of a year that the low rate applies to
    LowRate,     \* rates in thousandths
    HighRate

\* Assumed of the constants, in Books.
RatesAssumption ==
    Threshold \in Nat /\ LowRate \in Nat /\ HighRate \in Nat /\ LowRate <= HighRate

Magnitude(x) == IF x < 0 THEN -x ELSE x

\* Thousandths to whole zloty, ROUND_HALF_UP: a half goes away from zero.
ToWholePln(x) ==
    LET whole == (Magnitude(x) + 500) \div 1000
    IN  IF x < 0 THEN -whole ELSE whole

\* The brackets of monthly_tax.
Tax(before, month) ==
    LET low == Min({month, Max({0, Threshold - before})})
    IN  ToWholePln(low * LowRate + (month - low) * HighRate)

NothingToPay(tax) == tax <= 0
=============================================================================
