--------------------------- MODULE Reconciliation ---------------------------
(***************************************************************************)
(* What the services promise one another about recon_state.status: the     *)
(* contract between the engine, which reconciles, and the resolution       *)
(* service, which resolves.  Each is specified in full in a module of its  *)
(* own (Engine, Resolution) and implements this one; what each takes the   *)
(* other to do is written with the actions below.                          *)
(*                                                                         *)
(* Nobody holds a lock and no status is checked when it is written.  What  *)
(* is promised is how an attempt and a resolution may begin, and that      *)
(* nobody else changes a status.                                           *)
(***************************************************************************)
CONSTANT Tx    \* transaction_refs

VARIABLES
  status,      \* recon_state.status of each transaction, or "none"
  engine,      \* the transactions on which the engine may still write a verdict
  resolving    \* those that may still be written RESOLVED

lifecycle == <<status, engine, resolving>>

Verdicts == {"PENDING", "MATCHED", "MISMATCHED"}

Init ==
  /\ status = [t \in Tx |-> "none"]
  /\ engine = {}
  /\ resolving = {}

\* Unasked, the engine takes up only what has no verdict.
TakeUp ==
  /\ engine \subseteq engine'
  /\ \A t \in engine' \ engine : status[t] \in {"none", "PENDING"}
  /\ UNCHANGED <<status, resolving>>

\* Asked to, it takes up anything, and what it had found is reset first.
ReTrigger(t) ==
  /\ engine' = engine \cup {t}
  /\ status' = [status EXCEPT ![t] = IF @ = "none" THEN @ ELSE "PENDING"]
  /\ UNCHANGED resolving

\* A verdict; another attempt on the same transaction may go on.
Write(t) ==
  /\ t \in engine
  /\ engine' \in {engine, engine \ {t}}
  /\ \E s \in Verdicts : status' = [status EXCEPT ![t] = s]
  /\ UNCHANGED resolving

\* Attempts end without one, and resolutions are given up: at an error, or
\* because a service has died.
GiveUp ==
  /\ engine' \subseteq engine
  /\ resolving' \subseteq resolving
  /\ UNCHANGED status

\* Somebody decides to resolve a transaction that he sees MISMATCHED, or
\* RESOLVED already.
Admit(t) ==
  /\ status[t] \in {"MISMATCHED", "RESOLVED"}
  /\ resolving' = resolving \cup {t}
  /\ UNCHANGED <<status, engine>>

\* He writes it; another may be about to.
Resolve(t) ==
  /\ t \in resolving
  /\ resolving' \in {resolving, resolving \ {t}}
  /\ status' = [status EXCEPT ![t] = "RESOLVED"]
  /\ UNCHANGED engine

Next ==
  \/ TakeUp \/ GiveUp
  \/ \E t \in Tx : ReTrigger(t) \/ Write(t) \/ Admit(t) \/ Resolve(t)

Spec == Init /\ [][Next]_lifecycle
=============================================================================
