---------------------------- MODULE MCIngestion ----------------------------
(***************************************************************************)
(* Instances of Ingestion for TLC: two keys, the second of a record the    *)
(* pipeline rejects; the topic has an empty message, then the first key.   *)
(***************************************************************************)
EXTENDS Ingestion

CONSTANTS k1, k2

Messages == <<Empty, k1>>

NoMessages == <<>>
=============================================================================
