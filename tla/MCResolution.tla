---------------------------- MODULE MCResolution ----------------------------
(***************************************************************************)
(* Instances of Resolution for TLC.  The configurations give every         *)
(* constant; a request may ask for one attempt or for two, so that it can  *)
(* raise or lower the ceiling of a row the worker already holds.           *)
(***************************************************************************)
EXTENDS Resolution

OneOrTwo == {1, 2}
=============================================================================
