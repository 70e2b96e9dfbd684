----------------------------- MODULE MCListing -----------------------------
(***************************************************************************)
(* Instances of Listing for TLC: three transactions and pages of one or    *)
(* two, so that a listing takes up to four requests.  A size of 0 is none  *)
(* given; one of 9 is too large.                                           *)
(***************************************************************************)
EXTENDS Listing

ThreeRefs == 1..3
TwoTimes == 0..1
ThreeSizes == {0, 1, 9}
=============================================================================
