----------------------------- MODULE MCLimiter -----------------------------
(***************************************************************************)
(* Instances of Limiter for TLC, with tokens in parts of 1/20: one source  *)
(* at the default of 0.2 requests a second, which makes a burst of two,    *)
(* and one configured so slow (0.05) that its burst is rounded up to one.  *)
(***************************************************************************)
EXTENDS Limiter

CONSTANTS fast, slow

OneSlow == [s \in {slow} |-> 1]
=============================================================================
