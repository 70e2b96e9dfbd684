------------------------------ MODULE MCEngine ------------------------------
(***************************************************************************)
(* Instances of Engine for TLC: two source systems, exact matching.        *)
(***************************************************************************)
EXTENDS Engine

CONSTANTS erp, vendor

Rec(s, x, stamp) == [src |-> s, amt |-> x, cur |-> "INR", at |-> stamp]

\* The vendor sends an amount that agrees with the erp's and one that does
\* not, and the agreeing one is stamped later.
TwoAmounts == {Rec(erp, 1, 1), Rec(vendor, 1, 2), Rec(vendor, 2, 1)}

\* One of the vendor's amounts does not parse; either may be read as the later.
OneBad == {Rec(erp, 1, 1), Rec(vendor, 2, 1), Rec(vendor, BadAmount, 1)}

ExactRules == [strategy |-> "Exact", abs |-> 0, pct |-> 0, expected |-> {}]

=============================================================================
