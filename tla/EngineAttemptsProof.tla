------------------------ MODULE EngineAttemptsProof ------------------------
(***************************************************************************)
(* Proofs about overlapping attempts of the engine: how many there can be, *)
(* what they promise the resolution service, and that the tables agree     *)
(* when an undisturbed attempt is over.                                    *)
(***************************************************************************)
EXTENDS EngineProof

-----------------------------------------------------------------------------
(* The retry budget                                                        *)

\* The locals of a process that may still write the row of t.
Early(l, t) == l.tx = t /\ l.pc \in {"mark", "old", "read", "upsert"}

\* The processes that may still write the row of t, once each: those on their
\* way to the upsert, and the worker when t waits in its batch.
Coming(t) == {p \in Procs : Early(proc[p], t) \/ (p = Worker /\ t \in batch)}

\* RetryBounded is not inductive: attempts on their way count already.
RetryInv ==
  /\ \A t \in batch : ~Early(proc[Worker], t)
  /\ \A t \in Tx : Retry(t) + Cardinality(Coming(t)) =< MaxRetries + Cardinality(Rpc)

LEMMA ProcsFinite ==
  /\ IsFiniteSet(Procs) /\ Cardinality(Rpc) \in Nat
  /\ Cardinality(Procs) = Cardinality(Rpc) + 1
  BY EngineAssumption, FS_AddElement, FS_CardinalityType DEF Procs

LEMMA ComingFinite ==
  ASSUME NEW S \in SUBSET Procs
  PROVE  /\ IsFiniteSet(S) /\ Cardinality(S) \in Nat
         /\ Cardinality(S) =< Cardinality(Rpc) + 1
         /\ \A R \in SUBSET S : Cardinality(R) =< Cardinality(S)
         /\ \A p \in S : \A R \in SUBSET (S \ {p}) : Cardinality(R) + 1 =< Cardinality(S)
<1>1. /\ IsFiniteSet(S) /\ Cardinality(S) \in Nat
      /\ Cardinality(S) =< Cardinality(Rpc) + 1
  BY ProcsFinite, FS_Subset, FS_CardinalityType
<1>2. \A R \in SUBSET S : IsFiniteSet(R) /\ Cardinality(R) \in Nat
                          /\ Cardinality(R) =< Cardinality(S)
  BY <1>1, FS_Subset, FS_CardinalityType
<1>3. ASSUME NEW p \in S, NEW R \in SUBSET (S \ {p})
      PROVE  Cardinality(R) + 1 =< Cardinality(S)
  <2>1. IsFiniteSet(S \ {p}) /\ Cardinality(S \ {p}) = Cardinality(S) - 1
    BY <1>1, FS_RemoveElement
  <2>2. Cardinality(R) =< Cardinality(S \ {p}) /\ Cardinality(R) \in Nat
    BY <1>1, <2>1, FS_Subset, FS_CardinalityType
  <2> QED  BY <1>1, <2>1, <2>2
<1> QED  BY <1>1, <1>2, <1>3

\* A process sets out for the upsert only as the worker that takes up a ref of
\* its batch, or as a handler that starts an attempt.
LEMMA EarlyStep ==
  ASSUME TypeOK, [Next]_vars, NEW q \in Procs, NEW t \in Tx, Early(proc'[q], t)
  PROVE  \/ Early(proc[q], t)
         \/ q = Worker /\ t \in batch /\ t \notin batch'
         \/ q \in Rpc /\ (GetUnknown(q, t) \/ ReTrigger(q, t))
<1> DEFINE Goal == \/ Early(proc[q], t)
                   \/ q = Worker /\ t \in batch /\ t \notin batch'
                   \/ q \in Rpc /\ (GetUnknown(q, t) \/ ReTrigger(q, t))
<1>0. proc \in [Procs -> Local] /\ Worker \in Procs /\ Rpc \subseteq Procs
  BY DEF TypeOK, Procs
<1>a. ASSUME proc'[q] = proc[q] PROVE Goal
  BY <1>a
<1>b. ASSUME NEW p \in Procs, proc' = AttemptDone(p) \/ proc' = AttemptFailed(p) PROVE Goal
  BY <1>a, <1>b, AttemptEndLocal DEF Early
<1>1. CASE UNCHANGED vars
  BY <1>a, <1>1 DEF vars
<1>2. CASE (\E u \in Tx, r \in Inputs : Ingest(u, r)) \/ Tick \/ Poll
  BY <1>a, <1>2 DEF Ingest, Tick, Poll
<1>3. CASE TakeUp
  <2>1. PICK u \in batch : /\ batch' = batch \ {u}
                           /\ proc' = [proc EXCEPT ![Worker] =
                                [Resting EXCEPT !.pc = "old", !.tx = u, !.call = "worker"]]
    BY <1>3 DEF TakeUp
  <2>2. CASE q = Worker
    BY <1>0, <2>1, <2>2 DEF Resting, Early
  <2>3. CASE q # Worker
    BY <1>0, <1>a, <2>1, <2>3
  <2> QED  BY <2>2, <2>3
<1>4. ASSUME NEW p \in Procs, Reconcile(p) PROVE Goal
  <2>1. proc[p] \in Local
    BY <1>0
  <2>2. CASE ReadOldStatus(p)
    BY <1>0, <2>1, <2>2 DEF ReadOldStatus, Local, Early
  <2>3. CASE ReadAndMatch(p)
    <3>1. \/ proc' = AttemptFailed(p)
          \/ \E out, seen : proc' = [proc EXCEPT ![p].pc = "upsert", ![p].out = out,
                                                 ![p].seen = seen]
      BY <2>3 DEF ReadAndMatch
    <3>2. proc[p].pc = "read"
      BY <2>3 DEF ReadAndMatch
    <3>3. ASSUME NEW out, NEW seen, proc' = [proc EXCEPT ![p].pc = "upsert", ![p].out = out,
                                                         ![p].seen = seen]
          PROVE  Goal
      BY <1>0, <2>1, <3>2, <3>3 DEF Local, Early
    <3> QED  BY <1>b, <3>1, <3>3
  <2>4. CASE FindNoRecords(p) \/ Propagate(p)
    BY <1>b, <2>4 DEF FindNoRecords, Propagate
  <2>5. CASE UpsertState(p) \/ UpsertDetail(p)
    <3>1. \E todo : \E pc \in {"audit", "details"} :
            proc' = [proc EXCEPT ![p].todo = todo, ![p].pc = pc]
      BY <2>5 DEF UpsertState, UpsertDetail
    <3> QED  BY <1>0, <2>1, <3>1 DEF Local, Early
  <2>6. CASE AuditAttempt(p)
    <3>1. CASE proc' = AttemptDone(p)
      BY <1>b, <3>1
    <3>2. CASE proc' = [proc EXCEPT ![p].pc = "propagate"]
      BY <1>0, <2>1, <3>2 DEF Local, Early
    <3> QED  BY <2>6, <3>1, <3>2 DEF AuditAttempt
  <2> QED  BY <1>4, <2>2, <2>3, <2>4, <2>5, <2>6 DEF Reconcile
<1>5. ASSUME NEW p \in Rpc, AuditReTrigger(p) \/ Answer(p) PROVE Goal
  <2>1. p \in Procs /\ proc[p] \in Local
    BY <1>0
  <2> QED  BY <1>0, <1>5, <2>1 DEF AuditReTrigger, Answer, Resting, Local, Early
<1>6. ASSUME NEW p \in Rpc, NEW u \in Tx, Request(p, u) PROVE Goal
  <2>1. CASE GetKnown(p, u)
    BY <1>0, <2>1 DEF GetKnown, Call, Resting, Early
  <2>2. CASE GetUnknown(p, u)
    BY <1>0, <2>2 DEF GetUnknown, Call, Resting, Early
  <2>3. CASE ReTrigger(p, u)
    BY <1>0, <2>3 DEF ReTrigger, Call, Resting, Early
  <2> QED  BY <1>6, <2>1, <2>2, <2>3 DEF Request
<1>7. ASSUME NEW p \in Procs, Fault(p) PROVE Goal
  <2>1. CASE proc[p].pc = "mark"
    <3>1. proc' = [proc EXCEPT ![p].pc = "old"] /\ proc[p] \in Local
      BY <1>0, <1>7, <2>1 DEF Fault
    <3> QED  BY <1>0, <2>1, <3>1 DEF Local, Early
  <2>2. CASE proc[p].pc = "fetch"
    BY <1>0, <1>7, <2>2 DEF Fault, Resting, Early
  <2>3. CASE proc[p].pc \notin {"mark", "fetch"}
    BY <1>b, <1>7, <2>3 DEF Fault
  <2> QED  BY <2>1, <2>2, <2>3
<1>8. CASE Crash
  BY <1>8 DEF Crash, Resting, Early
<1> QED
  BY <1>0, <1>1, <1>2, <1>3, <1>4, <1>5, <1>6, <1>7, <1>8 DEF Next, WorkerStep, Handle

\* The retry counter moves by an upsert, which is one of the attempts coming,
\* and back to zero by a reset.
LEMMA RetryStep ==
  ASSUME TypeOK, [Next]_vars, NEW t \in Tx
  PROVE  \/ Retry(t)' =< Retry(t)
         \/ \E p \in Procs : UpsertState(p) /\ proc[p].tx = t /\ Retry(t)' = Retry(t) + 1
<1> USE DEF tables
<1> DEFINE Goal ==
      \/ Retry(t)' =< Retry(t)
      \/ \E p \in Procs : UpsertState(p) /\ proc[p].tx = t /\ Retry(t)' = Retry(t) + 1
<1>0. recon \in [Tx -> Row \cup {NoRow}] /\ Retry(t) \in Nat
  BY DEF TypeOK, Retry, Row
<1>1. ASSUME UNCHANGED recon PROVE Goal
  BY <1>0, <1>1 DEF Retry
<1>2. ASSUME NEW p \in Procs, Reconcile(p) PROVE Goal
  <2>1. CASE UpsertState(p)
    <3>1. recon' = [recon EXCEPT ![proc[p].tx] =
                      Upserted(proc[p].tx, proc[p].out, proc[p].seen)]
      BY <2>1 DEF UpsertState
    <3>2. CASE proc[p].tx = t
      <4>1. recon'[t].retry = Retry(t) + 1
        BY <1>0, <3>1, <3>2 DEF Upserted
      <4>2. recon'[t] # NoRow => Retry(t)' = Retry(t) + 1
        BY <4>1 DEF Retry
      <4>3. recon'[t] = NoRow => Retry(t)' = 0
        BY DEF Retry
      <4> QED  BY <1>0, <2>1, <3>2, <4>2, <4>3
    <3>3. CASE proc[p].tx # t
      BY <1>0, <3>1, <3>3 DEF Retry
    <3> QED  BY <3>2, <3>3
  <2>2. CASE ~UpsertState(p)
    BY <1>1, <1>2, <2>2 DEF Reconcile, ReadOldStatus, FindNoRecords, ReadAndMatch,
                            UpsertDetail, AuditAttempt, Propagate
  <2> QED  BY <2>1, <2>2
<1>3. ASSUME NEW p \in Rpc, NEW u \in Tx, ReTrigger(p, u) PROVE Goal
  <2>1. CASE recon[u] = NoRow
    BY <1>1, <1>3, <2>1 DEF ReTrigger
  <2>2. CASE recon[u] # NoRow
    <3> DEFINE row == [recon[u] EXCEPT !.status = "PENDING", !.retry = 0]
    <3>1. recon' = [recon EXCEPT ![u] = row]
      BY <1>3, <2>2 DEF ReTrigger
    <3>2. row.retry = 0
      BY <1>0, <2>2 DEF Row
    <3> HIDE DEF row
    <3> QED  BY <1>0, <3>1, <3>2 DEF Retry
  <2> QED  BY <2>1, <2>2
<1>4. CASE UNCHANGED vars
  BY <1>1, <1>4 DEF vars
<1>5. CASE (\E u \in Tx, r \in Inputs : Ingest(u, r)) \/ Tick \/ Poll \/ TakeUp \/ Crash
  BY <1>1, <1>5 DEF Ingest, Tick, Poll, TakeUp, Crash
<1>6. CASE \E p \in Rpc : \/ Answer(p) \/ AuditReTrigger(p)
                          \/ \E u \in Tx : GetKnown(p, u) \/ GetUnknown(p, u)
  BY <1>1, <1>6 DEF Answer, AuditReTrigger, GetKnown, GetUnknown
<1>7. CASE \E p \in Procs : Fault(p)
  BY <1>1, <1>7 DEF Fault
<1> QED
  BY <1>2, <1>3, <1>4, <1>5, <1>6, <1>7 DEF Next, WorkerStep, Handle, Request, Procs

\* The batch grows only when the worker polls: it is at rest, and the budget
\* of every transaction it picks is not used up.
LEMMA BatchStep ==
  ASSUME TypeOK, [Next]_vars, NEW t \in Tx, t \in batch', t \notin batch
  PROVE  /\ Retry(t) < MaxRetries /\ Retry(t)' = Retry(t)
         /\ ~Early(proc'[Worker], t)
<1> USE DEF tables
<1>1. CASE Poll
  <2>1. Eligible(t) /\ proc[Worker].pc = "idle" /\ recon' = recon /\ proc' = proc
    BY <1>1 DEF Poll, Lowest
  <2> QED  BY <2>1, EngineAssumption DEF Eligible, Retry, Early
<1>2. CASE TakeUp \/ Crash
  BY <1>2 DEF TakeUp, Crash
<1>3. CASE UNCHANGED vars \/ (\E u \in Tx, r \in Inputs : Ingest(u, r)) \/ Tick
  BY <1>3 DEF vars, Ingest, Tick
<1>4. CASE \E p \in Procs : Reconcile(p)
  BY <1>4 DEF Reconcile, ReadOldStatus, FindNoRecords, ReadAndMatch, UpsertState,
              UpsertDetail, AuditAttempt, Propagate
<1>5. CASE \E p \in Rpc : Answer(p) \/ AuditReTrigger(p) \/ \E u \in Tx : Request(p, u)
  BY <1>5 DEF Answer, AuditReTrigger, Request, GetKnown, GetUnknown, ReTrigger
<1>6. CASE \E p \in Procs : Fault(p)
  BY <1>6 DEF Fault
<1> QED
  BY <1>1, <1>2, <1>3, <1>4, <1>5, <1>6 DEF Next, WorkerStep, Handle, Procs

LEMMA RetryInvStep == TypeOK /\ TypeOK' /\ RetryInv /\ [Next]_vars => RetryInv'
<1> SUFFICES ASSUME TypeOK, TypeOK', RetryInv, [Next]_vars PROVE RetryInv'
  OBVIOUS
<1>0. Worker \in Procs /\ Worker \notin Rpc /\ batch \subseteq Tx /\ batch' \subseteq Tx
  BY EngineAssumption DEF Procs, TypeOK
<1>1. ASSUME NEW t \in batch' PROVE ~Early(proc'[Worker], t)
  <2>1. CASE t \notin batch
    BY <1>0, <2>1, BatchStep
  <2>2. CASE t \in batch
    BY <1>0, <1>1, <2>2, EarlyStep DEF RetryInv
  <2> QED  BY <2>1, <2>2
<1>2. ASSUME NEW t \in Tx
      PROVE  Retry(t)' + Cardinality(Coming(t)') =< MaxRetries + Cardinality(Rpc)
  <2>0. /\ Retry(t) \in Nat /\ Retry(t)' \in Nat /\ MaxRetries \in Nat \ {0}
        /\ Cardinality(Rpc) \in Nat
    BY EngineAssumption, ProcsFinite DEF TypeOK, Retry, Row
  <2>1. Coming(t) \in SUBSET Procs /\ Coming(t)' \in SUBSET Procs
    BY DEF Coming
  <2>2. /\ Cardinality(Coming(t)) \in Nat /\ Cardinality(Coming(t)') \in Nat
        /\ Cardinality(Coming(t)') =< Cardinality(Rpc) + 1
    BY <2>1, ComingFinite
  <2>3. CASE Retry(t)' < MaxRetries
    BY <2>0, <2>2, <2>3
  <2>4. CASE t \in batch' /\ t \notin batch
    BY <2>0, <2>2, <2>4, BatchStep
  <2>5. CASE ~(t \in batch' /\ t \notin batch) /\ Retry(t)' >= MaxRetries
    <3>1. ASSUME NEW q \in Rpc, GetUnknown(q, t) \/ ReTrigger(q, t) PROVE FALSE
      <4>1. recon'[t] = NoRow \/ recon'[t].retry = 0
        BY <3>1 DEF GetUnknown, ReTrigger, tables, TypeOK, Row
      <4> QED  BY <2>0, <2>5, <4>1 DEF Retry
    <3>2. Coming(t)' \subseteq Coming(t)
      <4> SUFFICES ASSUME NEW q \in Procs, Early(proc'[q], t) \/ (q = Worker /\ t \in batch')
                   PROVE  q \in Coming(t)
        BY DEF Coming
      <4>1. CASE q = Worker /\ t \in batch'
        BY <2>5, <4>1 DEF Coming
      <4>2. CASE Early(proc'[q], t)
        BY <3>1, <4>2, EarlyStep DEF Coming
      <4> QED  BY <4>1, <4>2
    <3>3. CASE Retry(t)' =< Retry(t)
      <4>1. Cardinality(Coming(t)') =< Cardinality(Coming(t))
        BY <2>1, <3>2, ComingFinite
      <4> QED  BY <2>0, <2>2, <3>3, <4>1 DEF RetryInv
    <3>4. ASSUME NEW p \in Procs, UpsertState(p), proc[p].tx = t, Retry(t)' = Retry(t) + 1
          PROVE  Retry(t)' + Cardinality(Coming(t)') =< MaxRetries + Cardinality(Rpc)
      <4>1. p \in Coming(t)
        BY <3>4 DEF UpsertState, Coming, Early
      <4>2. p \notin Coming(t)'
        <5>1. ~Early(proc'[p], t)
          <6>1. \E todo : \E pc \in {"audit", "details"} :
                  proc' = [proc EXCEPT ![p].todo = todo, ![p].pc = pc]
            BY <3>4 DEF UpsertState
          <6>2. proc \in [Procs -> Local]
            BY DEF TypeOK
          <6>3. proc'[p].pc \in {"audit", "details"}
            BY <6>1, <6>2 DEF Local
          <6> QED  BY <6>3 DEF Early
        <5>2. ~(p = Worker /\ t \in batch')
          BY <3>4 DEF UpsertState, RetryInv, Early
        <5> QED  BY <5>1, <5>2 DEF Coming
      <4>3. Coming(t)' \in SUBSET (Coming(t) \ {p})
        BY <3>2, <4>2
      <4>4. Cardinality(Coming(t)') + 1 =< Cardinality(Coming(t))
        BY <2>1, <4>1, <4>3, ComingFinite
      <4> QED  BY <2>0, <2>2, <3>4, <4>4 DEF RetryInv
    <3> QED  BY <3>3, <3>4, RetryStep
  <2> QED  BY <2>0, <2>3, <2>4, <2>5
<1> QED  BY <1>1, <1>2 DEF RetryInv

\* No transaction is attempted more than max_retries times since its last
\* reset, plus once for each handler that runs at the same time.
THEOREM RetriesBounded == Spec => []RetryBounded
<1>1. Init => RetryInv
  <2> SUFFICES ASSUME Init, NEW t \in Tx
               PROVE  Retry(t) + Cardinality(Coming(t)) =< MaxRetries + Cardinality(Rpc)
    BY DEF Init, RetryInv
  <2>1. Coming(t) = {} /\ Retry(t) = 0
    BY DEF Init, Coming, Early, Resting, Retry
  <2> QED  BY <2>1, FS_EmptySet, ProcsFinite, EngineAssumption
<1>2. TypeOK /\ RetryInv => RetryBounded
  <2> SUFFICES ASSUME TypeOK, RetryInv, NEW t \in Tx
               PROVE  Retry(t) =< MaxRetries + Cardinality(Rpc)
    BY DEF RetryBounded
  <2>1. Coming(t) \in SUBSET Procs /\ Retry(t) \in Nat
    BY DEF Coming, TypeOK, Retry, Row
  <2>2. Cardinality(Coming(t)) \in Nat
    BY <2>1, ComingFinite
  <2> QED  BY <2>1, <2>2, ProcsFinite, EngineAssumption DEF RetryInv
<1> QED  BY <1>1, <1>2, RetryInvStep, TypeCorrect, PTL DEF Spec

-----------------------------------------------------------------------------
(* The contract: every step of Engine is a step of Reconciliation or       *)
(* leaves its state as it is                                               *)

Lifecycle == <<StatusOf, InFlight, {}>>

LEMMA InFlightComing == \A t \in Tx : t \in InFlight <=> Coming(t) # {}
  BY DEF InFlight, Coming, Early, Procs

\* A transaction is newly in flight only because of these four steps.
LEMMA InFlightGrows ==
  ASSUME TypeOK, [Next]_vars, NEW t \in InFlight', t \notin InFlight
  PROVE  \/ Poll
         \/ \E q \in Rpc : GetUnknown(q, t) \/ ReTrigger(q, t)
<1> USE DEF InFlight, Early, tables
<1>0. t \in Tx
  OBVIOUS
<1>1. CASE t \in batch'
  <2>1. t \notin batch
    OBVIOUS
  <2>2. CASE UNCHANGED vars \/ (\E u \in Tx, r \in Inputs : Ingest(u, r)) \/ Tick
    BY <1>1, <2>1, <2>2 DEF vars, Ingest, Tick
  <2>3. CASE TakeUp \/ Crash
    BY <1>1, <2>1, <2>3 DEF TakeUp, Crash
  <2>4. CASE \E p \in Procs : Reconcile(p) \/ Fault(p)
    BY <1>1, <2>1, <2>4 DEF Reconcile, ReadOldStatus, FindNoRecords, ReadAndMatch,
         UpsertState, UpsertDetail, AuditAttempt, Propagate, Fault
  <2>5. CASE \E p \in Rpc : Answer(p) \/ AuditReTrigger(p) \/ \E u \in Tx : Request(p, u)
    BY <1>1, <2>1, <2>5 DEF Answer, AuditReTrigger, Request, GetKnown, GetUnknown, ReTrigger
  <2> QED  BY <2>2, <2>3, <2>4, <2>5 DEF Next, WorkerStep, Handle, Procs
<1>2. CASE \E q \in Procs : Early(proc'[q], t)
  <2>1. PICK q \in Procs : Early(proc'[q], t)
    BY <1>2
  <2>2. ~Early(proc[q], t) /\ t \notin batch
    OBVIOUS
  <2> QED  BY <1>0, <2>1, <2>2, EarlyStep
<1> QED  BY <1>1, <1>2

\* Who changes a status: an attempt that writes its verdict, or a re-trigger.
LEMMA ReconChanges ==
  ASSUME TypeOK, [Next]_vars
  PROVE  \/ UNCHANGED recon
         \/ \E p \in Procs : UpsertState(p)
         \/ \E q \in Rpc, t \in Tx : ReTrigger(q, t)
<1> USE DEF tables
<1>1. CASE UNCHANGED vars \/ (\E u \in Tx, r \in Inputs : Ingest(u, r)) \/ Tick \/ Poll
           \/ TakeUp \/ Crash
  BY <1>1 DEF vars, Ingest, Tick, Poll, TakeUp, Crash
<1>2. CASE \E p \in Procs : Reconcile(p) \/ Fault(p)
  BY <1>2 DEF Reconcile, ReadOldStatus, FindNoRecords, ReadAndMatch, UpsertDetail,
       AuditAttempt, Propagate, Fault
<1>3. CASE \E p \in Rpc : Answer(p) \/ AuditReTrigger(p) \/ \E u \in Tx : Request(p, u)
  BY <1>3 DEF Answer, AuditReTrigger, Request, GetKnown, GetUnknown
<1> QED  BY <1>1, <1>2, <1>3 DEF Next, WorkerStep, Handle, Procs

LEMMA ContractInit == Init => Life!Init
<1> SUFFICES ASSUME Init PROVE Life!Init
  OBVIOUS
<1>1. StatusOf = [t \in Tx |-> "none"]
  BY DEF Init, StatusOf
<1>2. InFlight = {}
  BY DEF Init, InFlight, Resting
<1> QED  BY <1>1, <1>2 DEF Life!Init

\* An upsert is the write of a verdict on a transaction in flight.
LEMMA UpsertWrites ==
  ASSUME TypeOK, NEW p \in Procs, UpsertState(p)
  PROVE  \E t \in Tx : Life!Write(t)
<1> DEFINE t == proc[p].tx  out == proc[p].out
           row == Upserted(t, out, proc[p].seen)
<1>1. /\ proc \in [Procs -> Local] /\ proc[p] \in Local /\ t \in Tx
      /\ recon \in [Tx -> Row \cup {NoRow}] /\ proc[p].pc = "upsert"
  BY DEF UpsertState, TypeOK
<1>2. row \in Row /\ row.status = out.status /\ out.status \in Life!Verdicts
  <2>1. out \in Outcome /\ proc[p].seen \in Nat
    BY <1>1 DEF Local
  <2>2. MatchedSources(out) \in SUBSET Systems /\ MismatchedSources(out) \in SUBSET Systems
    BY <2>1 DEF Outcome, MatchedSources, MismatchedSources
  <2>3. Retry(t) + 1 \in Nat
    BY <1>1 DEF Retry, Row
  <2>4. (out.status = "MATCHED" \/ (recon[t] # NoRow /\ recon[t].resolved)) \in BOOLEAN
    OBVIOUS
  <2>5. out.status \in Life!Verdicts /\ out.status \in Status
    BY <2>1 DEF Outcome, Life!Verdicts, Status
  <2> HIDE DEF t, out
  <2> QED  BY <2>1, <2>2, <2>3, <2>4, <2>5 DEF Upserted, Row
<1>3. recon' = [recon EXCEPT ![t] = row]
  BY DEF UpsertState
<1>4. StatusOf' = [StatusOf EXCEPT ![t] = out.status]
  <2> HIDE DEF row, out
  <2>1. recon'[t] = row /\ row # NoRow
    BY <1>1, <1>2, <1>3, RowAssumption
  <2>2. \A u \in Tx \ {t} : recon'[u] = recon[u]
    BY <1>1, <1>3
  <2> QED  BY <1>2, <2>1, <2>2 DEF StatusOf
<1>5. t \in InFlight
  BY <1>1 DEF InFlight
<1>6. InFlight' \in {InFlight, InFlight \ {t}}
  <2>1. batch' = batch /\ \A q \in Procs \ {p} : proc'[q] = proc[q]
    BY <1>1 DEF UpsertState
  <2>2. proc'[p].pc \in {"audit", "details"}
    BY <1>1 DEF UpsertState, Local
  <2> QED  BY <1>1, <2>1, <2>2 DEF InFlight
<1> HIDE DEF out, t
<1>7. Life!Write(t)
  BY <1>2, <1>4, <1>5, <1>6 DEF Life!Write
<1> QED  BY <1>1, <1>7

LEMMA ReTriggers ==
  ASSUME TypeOK, NEW q \in Rpc, NEW t \in Tx, ReTrigger(q, t)
  PROVE  Life!ReTrigger(t)
<1>1. /\ q \in Procs /\ proc \in [Procs -> Local] /\ recon \in [Tx -> Row \cup {NoRow}]
      /\ proc[q].pc = "idle" /\ batch' = batch
  BY DEF TypeOK, Procs, ReTrigger, Call
<1>2. /\ \A p \in Procs \ {q} : proc'[p] = proc[p]
      /\ proc'[q].pc = "mark" /\ proc'[q].tx = t
  BY <1>1 DEF ReTrigger, Call, Resting
<1>3. InFlight' = InFlight \cup {t}
  BY <1>1, <1>2 DEF InFlight
<1>4. StatusOf' = [StatusOf EXCEPT ![t] = IF @ = "none" THEN @ ELSE "PENDING"]
  <2>1. CASE recon[t] = NoRow
    BY <2>1 DEF ReTrigger, StatusOf
  <2>2. CASE recon[t] # NoRow
    <3> DEFINE row == [recon[t] EXCEPT !.status = "PENDING", !.retry = 0]
    <3>1. row \in Row /\ row.status = "PENDING" /\ recon[t].status # "none"
      BY <1>1, <2>2 DEF Row, Status
    <3>2. recon' = [recon EXCEPT ![t] = row]
      BY <2>2 DEF ReTrigger
    <3> HIDE DEF row
    <3>3. recon'[t] = row /\ row # NoRow /\ \A u \in Tx \ {t} : recon'[u] = recon[u]
      BY <1>1, <3>1, <3>2, RowAssumption
    <3> QED  BY <2>2, <3>1, <3>3 DEF StatusOf
  <2> QED  BY <2>1, <2>2
<1> QED  BY <1>3, <1>4 DEF Life!ReTrigger

LEMMA ContractStep == TypeOK /\ [Next]_vars => [Life!Next]_Lifecycle
<1> SUFFICES ASSUME TypeOK, [Next]_vars PROVE Life!Next
  OBVIOUS
<1>1. CASE \E p \in Procs : UpsertState(p)
  BY <1>1, UpsertWrites DEF Life!Next
<1>2. CASE \E q \in Rpc, t \in Tx : ReTrigger(q, t)
  BY <1>2, ReTriggers DEF Life!Next
<1>3. ASSUME UNCHANGED recon, ~ \E q \in Rpc, t \in Tx : ReTrigger(q, t)
      PROVE  Life!Next
  <2>1. StatusOf' = StatusOf
    BY <1>3 DEF StatusOf
  <2>2. CASE InFlight' \subseteq InFlight
    BY <2>1, <2>2 DEF Life!GiveUp, Life!Next
  <2>3. CASE Poll
    <3>1. batch = {} /\ proc' = proc /\ InFlight \subseteq InFlight'
      BY <2>3 DEF Poll, InFlight
    <3>2. ASSUME NEW t \in InFlight', t \notin InFlight
          PROVE  StatusOf[t] \in {"none", "PENDING"}
      BY <2>3, <3>1, <3>2 DEF Poll, InFlight, Lowest, Eligible, StatusOf
    <3> QED  BY <2>1, <3>1, <3>2 DEF Life!TakeUp, Life!Next
  <2>4. ASSUME NEW q \in Rpc, NEW t \in Tx, GetUnknown(q, t) PROVE Life!Next
    <3>1. q \in Procs /\ proc \in [Procs -> Local] /\ proc[q].pc = "idle" /\ batch' = batch
      BY <2>4 DEF TypeOK, Procs, GetUnknown, Call
    <3>2. /\ \A p \in Procs \ {q} : proc'[p] = proc[p]
          /\ proc'[q].pc = "old" /\ proc'[q].tx = t
      BY <2>4, <3>1 DEF GetUnknown, Call, Resting
    <3>3. InFlight' = InFlight \cup {t}
      BY <3>1, <3>2 DEF InFlight
    <3>4. StatusOf[t] = "none"
      BY <2>4 DEF GetUnknown, StatusOf
    <3> QED  BY <2>1, <3>3, <3>4 DEF Life!TakeUp, Life!Next
  <2>5. CASE ~(InFlight' \subseteq InFlight)
    BY <1>3, <2>3, <2>4, <2>5, InFlightGrows DEF InFlight
  <2> QED  BY <2>2, <2>5
<1> QED  BY <1>1, <1>2, <1>3, ReconChanges

\* The engine implements the contract of Reconciliation: what TLC checks as
\* KeepsContract on a small instance.
THEOREM EngineKeepsContract == Spec => KeepsContract
<1>1. Spec => []TypeOK
  BY TypeCorrect
<1>2. TypeOK /\ [Next]_vars => [Life!Next]_Life!lifecycle
  BY ContractStep DEF Lifecycle, Life!lifecycle
<1>3. Init => Life!Init
  BY ContractInit
<1> QED  BY <1>1, <1>2, <1>3, PTL DEF Spec, KeepsContract, Life!Spec
-----------------------------------------------------------------------------
(* The tables of a transaction at rest                                     *)

LEMMA PrefixIs ==
  ASSUME NEW rs \in Seq(Inputs), NEW n \in Nat, n =< Len(rs)
  PROVE  /\ SubSeq(rs, 1, n) \in Seq(Inputs) /\ Len(SubSeq(rs, 1, n)) = n
         /\ \A i \in 1..n : SubSeq(rs, 1, n)[i] = rs[i]
         /\ Sources(SubSeq(rs, 1, n)) = {rs[i].src : i \in 1..n}
<1>1. /\ SubSeq(rs, 1, n) \in Seq(Inputs) /\ Len(SubSeq(rs, 1, n)) = n
      /\ \A i \in 1..n : SubSeq(rs, 1, n)[i] = rs[i]
  BY SubSeqProperties
<1>2. DOMAIN SubSeq(rs, 1, n) = 1..n
  BY <1>1
<1> QED  BY <1>1, <1>2 DEF Sources

\* More records have no fewer sources, and all of them are known.
LEMMA SourcesGrow ==
  ASSUME NEW rs \in Seq(Inputs), NEW m \in Nat, NEW n \in Nat, m =< n, n =< Len(rs)
  PROVE  /\ Sources(SubSeq(rs, 1, m)) \subseteq Sources(SubSeq(rs, 1, n))
         /\ Sources(SubSeq(rs, 1, n)) \subseteq Systems
<1>1. m =< Len(rs)
  BY LenProperties
<1>2. /\ Sources(SubSeq(rs, 1, m)) = {rs[i].src : i \in 1..m}
      /\ Sources(SubSeq(rs, 1, n)) = {rs[i].src : i \in 1..n}
  BY <1>1, PrefixIs
<1>3. \A i \in 1..m : i \in 1..n
  OBVIOUS
<1>4. \A i \in 1..n : rs[i] \in Inputs
  OBVIOUS
<1> QED  BY <1>2, <1>3, <1>4 DEF Systems

\* The flags of an outcome lie in its results, and a verdict reports on every
\* source of the records it is drawn from.
Shape(out, recs) ==
  /\ MismatchedSources(out) = out.flagged /\ out.flagged \subseteq out.results
  /\ out.results = IF out.status = "PENDING" THEN {} ELSE Sources(recs)

Mark(out, s) == IF s \in out.flagged THEN "deviates" ELSE "agrees"

\* The row of t is the one that the attempt l has written.
Written(l, t) ==
  /\ recon[t] # NoRow /\ recon[t].status = l.out.status
  /\ recon[t].count = l.seen /\ recon[t].mismatched = l.out.flagged

Logged(t, status) == audit[t] # <<>> /\ Last(audit[t]).new = status

\* How far the attempt l on t has come, and what it has left behind.
Progress(l, t) ==
  /\ l.pc \in {"upsert", "details", "audit", "propagate"} =>
       /\ l.seen \in 1..Len(records[t])
       /\ Shape(l.out, SubSeq(records[t], 1, l.seen))
  /\ l.pc = "upsert" /\ recon[t] # NoRow => recon[t].count =< l.seen
  /\ l.pc \in {"details", "audit", "propagate"} => Written(l, t)
  /\ l.pc = "details" => /\ l.todo \subseteq l.out.results /\ l.out.status # "PENDING"
                         /\ \A s \in l.out.results \ l.todo : details[t][s] = Mark(l.out, s)
  /\ l.pc \in {"audit", "propagate"} => \A s \in l.out.results : details[t][s] = Mark(l.out, s)
  /\ l.pc = "propagate" => Logged(t, l.out.status)

\* The four tables tell the same story of t.
Story(t) ==
  /\ Logged(t, recon[t].status)
  /\ Decided(t) =>
       /\ \A i \in 1..recon[t].count : shown[t][i] = recon[t].status
       /\ {s \in Systems : details[t][s] # "none"} =
             Sources(SubSeq(records[t], 1, recon[t].count))
       /\ {s \in Systems : details[t][s] = "deviates"} = recon[t].mismatched

\* A row counts records that are there, and details are about their sources.
Counted(t) ==
  /\ recon[t] # NoRow => recon[t].count \in 1..Len(records[t])
  /\ \A s \in Systems : details[t][s] # "none" =>
       recon[t] # NoRow /\ s \in Sources(SubSeq(records[t], 1, recon[t].count))

\* RestingAgreement is not inductive: what an attempt has left behind at each
\* of its statements must be known, and that no other runs beside it.
Undisturbed(t) ==
  /\ Counted(t)
  /\ AtRest(t) /\ recon[t] # NoRow => Story(t)
  /\ \A p \in Procs : Attempting(p, t) =>
       /\ Progress(proc[p], t)
       /\ \A q \in Procs : Attempting(q, t) => q = p

RestInv == \A t \in Tx \ disturbed : Undisturbed(t)

LEMMA ComparedShape ==
  ASSUME NEW recs, NEW flagged \in SUBSET Sources(recs)
  PROVE  Shape(Compared(Sources(recs), flagged), recs)
BY DEF Compared, Mismatched, Shape, MismatchedSources

LEMMA MatchShape ==
  ASSUME NEW recs \in Seq(Inputs), NEW order \in Orders(recs), NEW late \in BOOLEAN,
         MatchRecords(recs, Rules, order, late).status # "ERROR"
  PROVE  Shape(MatchRecords(recs, Rules, order, late), recs)
<1> DEFINE S == Sources(recs)
           Amt == [s \in S |-> Latest(recs)[s].amt]
<1>1. \A i \in DOMAIN order : order[i] \in S
  BY DEF Orders, SetToSeqs
<1>2. Shape(CompareExact(order, Amt), recs)
  <2>1. CompareExact(order, Amt) = Compared(S, {s \in Priced(Amt) : Amt[s] # Reference(order, Amt)})
    BY DEF CompareExact
  <2>2. Priced(Amt) \subseteq S
    BY DEF Priced
  <2> QED  BY <2>1, <2>2, ComparedShape
<1>3. Shape(CompareWithTolerance(Rules, order, Amt), recs)
  <2>1. CompareWithTolerance(Rules, order, Amt)
          = Compared(S, {s \in Priced(Amt) : ~Within(Rules, Amt[s], Reference(order, Amt))})
    BY DEF CompareWithTolerance
  <2>2. Priced(Amt) \subseteq S
    BY DEF Priced
  <2> QED  BY <2>1, <2>2, ComparedShape
<1>4. Shape(CompareMajority(Rules, order, Amt), recs)
  <2> DEFINE size == [i \in DOMAIN order |-> BucketSize(Buckets(Rules, order, Amt), i)]
             losers == {k \in DOMAIN order : \E j \in DOMAIN order : size[j] > size[k]}
             flagged == {order[i] : i \in losers}
  <2>1. flagged \in SUBSET S
    BY <1>1
  <2>2. CompareMajority(Rules, order, Amt) = Compared(S, flagged)
    BY DEF CompareMajority
  <2> HIDE DEF flagged
  <2> QED  BY <2>1, <2>2, ComparedShape
<1>5. /\ Shape(Pending, recs) /\ Shape(Mismatched(S, {}), recs)
      /\ Shape(Mismatched(S, S), recs)
  BY DEF Pending, Mismatched, Shape, MismatchedSources
<1>6. InvalidAmount.status = "ERROR"
  BY DEF InvalidAmount
<1>7. MatchRecords(recs, Rules, order, late) \in
        {Pending, Mismatched(S, {}), InvalidAmount, Mismatched(S, S),
         CompareExact(order, Amt), CompareWithTolerance(Rules, order, Amt),
         CompareMajority(Rules, order, Amt)}
  <2>1. Rules.strategy \in {"Exact", "Tolerance", "Majority"}
    BY EngineAssumption DEF IsRuleSet
  <2> QED  BY <2>1 DEF MatchRecords
<1> HIDE DEF S, Amt
<1> QED  BY <1>2, <1>3, <1>4, <1>5, <1>6, <1>7

\* So does what it says of some reading of them.
LEMMA OutcomesShape ==
  ASSUME NEW recs \in Seq(Inputs), NEW late \in BOOLEAN, NEW out \in Outcomes(recs, late),
         out.status # "ERROR"
  PROVE  Shape(out, recs)
<1>1. PICK read \in Seq(Inputs) : \E order \in Orders(read) :
        Sources(read) = Sources(recs) /\ out = MatchRecords(read, Rules, order, late)
  BY OutcomeOf
<1>2. Shape(out, read)
  BY <1>1, MatchShape
<1> QED  BY <1>1, <1>2 DEF Shape

\* A step that leaves the tables of t and its attempts alone.
Spares(t) ==
  /\ records'[t] = records[t] /\ shown'[t] = shown[t] /\ recon'[t] = recon[t]
  /\ details'[t] = details[t] /\ audit'[t] = audit[t]
  /\ \A q \in Procs : Attempting(q, t) \/ Attempting(q, t)' => proc'[q] = proc[q]

LEMMA SparesFrame ==
  ASSUME NEW t \in Tx, Undisturbed(t), Spares(t)
  PROVE  Undisturbed(t)'
<1>1. \A q \in Procs : Attempting(q, t)' <=> Attempting(q, t)
  BY DEF Spares, Attempting
<1>2. Counted(t)' /\ (Story(t)' <=> Story(t)) /\ (AtRest(t)' <=> AtRest(t))
  BY <1>1 DEF Spares, Undisturbed, Counted, Story, Logged, Decided, AtRest
<1>3. ASSUME NEW q \in Procs, Attempting(q, t)
      PROVE  Progress(proc[q], t)'
  <2>1. proc'[q] = proc[q]
    BY <1>3 DEF Spares
  <2>2. Progress(proc[q], t)
    BY <1>3 DEF Undisturbed
  <2> QED  BY <2>1, <2>2 DEF Spares, Progress, Written, Logged
<1> QED  BY <1>1, <1>2, <1>3 DEF Undisturbed, Spares

\* The one attempt on t goes on, or it is over.
LEMMA GoesOn ==
  ASSUME NEW t \in Tx, NEW p \in Procs, \A q \in Procs : Attempting(q, t)' => q = p,
         Attempting(p, t)', Counted(t)', Progress(proc[p], t)'
  PROVE  Undisturbed(t)'
BY DEF Undisturbed, AtRest

LEMMA IsOver ==
  ASSUME NEW t \in Tx, \A q \in Procs : ~Attempting(q, t)', Counted(t)',
         recon'[t] # NoRow => Story(t)'
  PROVE  Undisturbed(t)'
BY DEF Undisturbed

\* A process that ends its attempt no longer attempts anything.
LEMMA AttemptOver ==
  ASSUME TypeOK, NEW p \in Procs, proc' = AttemptDone(p) \/ proc' = AttemptFailed(p)
  PROVE  /\ \A q \in Procs \ {p} : proc'[q] = proc[q]
         /\ proc'[p].pc \in {"idle", "fetch"}
<1>1. proc \in [Procs -> Local]
  BY DEF TypeOK
<1>2. CASE proc' = AttemptDone(p)
  BY <1>1, <1>2 DEF AttemptDone, Fetching, Resting
<1>3. CASE proc' = AttemptFailed(p)
  BY <1>1, <1>3 DEF AttemptFailed, Fetching, Resting
<1> QED  BY <1>2, <1>3
LEMMA Alone ==
  ASSUME NEW t \in Tx, Undisturbed(t), NEW p \in Procs, Attempting(p, t),
         \A q \in Procs \ {p} : proc'[q] = proc[q]
  PROVE  \A q \in Procs : Attempting(q, t)' => q = p
BY DEF Undisturbed, Attempting

\* A record that arrives is not counted by any row or attempt.
LEMMA IngestKeeps ==
  ASSUME TypeOK, [Next]_vars, NEW t \in Tx, Undisturbed(t), NEW r \in Inputs, Ingest(t, r)
  PROVE  Undisturbed(t)'
<1>1. /\ recon' = recon /\ details' = details /\ audit' = audit /\ proc' = proc
      /\ records[t] \in Seq(Inputs) /\ shown[t] \in Seq(Status)
      /\ Len(shown[t]) = Len(records[t])
  BY DEF Ingest, TypeOK
<1>2. /\ records'[t] = Append(records[t], r) /\ shown'[t] = Append(shown[t], "PENDING")
  BY DEF Ingest, TypeOK
<1>3. /\ Len(records'[t]) = Len(records[t]) + 1 /\ Len(records[t]) \in Nat
      /\ \A i \in 1..Len(records[t]) : shown'[t][i] = shown[t][i]
  BY <1>1, <1>2
<1>4. \A n \in 1..Len(records[t]) : SubSeq(records'[t], 1, n) = SubSeq(records[t], 1, n)
  BY <1>3, PrefixStays
<1>5. \A q \in Procs : Attempting(q, t)' <=> Attempting(q, t)
  BY <1>1 DEF Attempting
<1>6. Counted(t)'
  <2>1. Counted(t)
    BY DEF Undisturbed
  <2>2. CASE recon[t] = NoRow
    BY <1>1, <2>1, <2>2 DEF Counted
  <2>3. CASE recon[t] # NoRow
    <3>1. PICK n : n = recon[t].count
      OBVIOUS
    <3>2. n \in 1..Len(records[t]) /\ n \in 1..Len(records'[t])
      BY <1>3, <2>1, <2>3, <3>1 DEF Counted
    <3>3. SubSeq(records'[t], 1, n) = SubSeq(records[t], 1, n)
      BY <1>4, <3>2
    <3> QED  BY <1>1, <2>1, <2>3, <3>1, <3>2, <3>3 DEF Counted
  <2> QED  BY <2>2, <2>3
<1>7. ASSUME AtRest(t)', recon'[t] # NoRow PROVE Story(t)'
  <2>1. Story(t) /\ recon[t].count \in 1..Len(records[t])
    BY <1>1, <1>5, <1>7 DEF Undisturbed, AtRest, Counted
  <2>2. \A i \in 1..recon[t].count : shown'[t][i] = shown[t][i]
    BY <1>3, <2>1
  <2>3. SubSeq(records'[t], 1, recon[t].count) = SubSeq(records[t], 1, recon[t].count)
    BY <1>4, <2>1
  <2> QED  BY <1>1, <2>1, <2>2, <2>3 DEF Story, Logged, Decided
<1>8. ASSUME NEW p \in Procs, Attempting(p, t) PROVE Progress(proc[p], t)'
  <2>1. PICK l : l = proc[p]
    OBVIOUS
  <2>2. Progress(l, t)
    BY <1>8, <2>1 DEF Undisturbed
  <2>3. Written(l, t)' <=> Written(l, t)
    BY <1>1 DEF Written
  <2>4. l.seen \in 1..Len(records[t])
          => /\ l.seen \in 1..Len(records'[t])
             /\ SubSeq(records'[t], 1, l.seen) = SubSeq(records[t], 1, l.seen)
    BY <1>3, <1>4
  <2>5. Progress(l, t)'
    BY <1>1, <2>2, <2>3, <2>4 DEF Progress, Logged
  <2> QED  BY <1>1, <2>1, <2>5
<1> QED  BY <1>1, <1>5, <1>6, <1>7, <1>8 DEF Undisturbed

\* An attempt that starts alone starts from what the last one left.
LEMMA StartKeeps ==
  ASSUME TypeOK, NEW t \in Tx, Undisturbed(t), t \notin disturbed', NEW p \in Procs,
         Joins(p, t), proc'[p].pc \in {"old", "mark"}, proc'[p].tx = t,
         \A q \in Procs \ {p} : proc'[q] = proc[q],
         records' = records, details' = details,
         \/ recon'[t] = recon[t]
         \/ recon[t] # NoRow /\ recon'[t] # NoRow /\ recon'[t].count = recon[t].count
  PROVE  Undisturbed(t)'
<1>1. \A q \in Procs \ {p} : ~Attempting(q, t)
  BY DEF Joins
<1>3. Attempting(p, t)' /\ \A q \in Procs : Attempting(q, t)' => q = p
  BY <1>1 DEF Attempting
<1>4. Counted(t)'
  BY DEF Undisturbed, Counted
<1>5. Progress(proc[p], t)'
  BY DEF Progress
<1> QED  BY <1>3, <1>4, <1>5, GoesOn

LEMMA EarlyStatementKeeps ==
  ASSUME TypeOK, NEW t \in Tx, Undisturbed(t), NEW p \in Procs, proc[p].tx = t,
         ReadOldStatus(p) \/ AuditReTrigger(p)
  PROVE  Undisturbed(t)'
<1>1. /\ proc \in [Procs -> Local] /\ Attempting(p, t)
      /\ records' = records /\ recon' = recon /\ details' = details
  BY DEF TypeOK, Attempting, ReadOldStatus, AuditReTrigger, tables
<1>2. /\ \A q \in Procs \ {p} : proc'[q] = proc[q]
      /\ proc'[p].pc \in {"read", "old"} /\ proc'[p].tx = t
  BY <1>1 DEF ReadOldStatus, AuditReTrigger, Local
<1>3. Attempting(p, t)' /\ \A q \in Procs : Attempting(q, t)' => q = p
  BY <1>1, <1>2, Alone DEF Attempting
<1>4. Counted(t)'
  BY <1>1 DEF Undisturbed, Counted
<1>5. Progress(proc[p], t)'
  BY <1>2 DEF Progress
<1> QED  BY <1>3, <1>4, <1>5, GoesOn

\* Without records there is no row.
LEMMA FindNoRecordsKeeps ==
  ASSUME TypeOK, NEW t \in Tx, Undisturbed(t), NEW p \in Procs, proc[p].tx = t,
         FindNoRecords(p)
  PROVE  Undisturbed(t)'
<1>1. /\ Attempting(p, t) /\ records[t] = <<>>
      /\ records' = records /\ recon' = recon /\ details' = details
  BY DEF Attempting, FindNoRecords, tables
<1>2. /\ \A q \in Procs \ {p} : proc'[q] = proc[q]
      /\ proc'[p].pc \in {"idle", "fetch"}
  BY AttemptOver DEF FindNoRecords
<1>3. \A q \in Procs : ~Attempting(q, t)'
  BY <1>1, <1>2, Alone DEF Attempting
<1>4. Counted(t)'
  BY <1>1 DEF Undisturbed, Counted
<1>5. recon'[t] = NoRow
  <2>1. Len(records[t]) = 0
    BY <1>1
  <2> QED  BY <1>1, <2>1 DEF Undisturbed, Counted
<1> QED  BY <1>3, <1>4, <1>5, IsOver

LEMMA ReadAndMatchKeeps ==
  ASSUME TypeOK, NEW t \in Tx, Undisturbed(t), t \notin disturbed', NEW p \in Procs,
         proc[p].tx = t, ReadAndMatch(p)
  PROVE  Undisturbed(t)'
<1>1. /\ proc \in [Procs -> Local] /\ Attempting(p, t)
      /\ records[t] \in Seq(Inputs) /\ records[t] # <<>>
      /\ records' = records /\ recon' = recon /\ details' = details
  BY DEF TypeOK, Attempting, ReadAndMatch, tables
<1>2. PICK out \in Outcomes(records[t], age[t] >= Timeout) :
        /\ out.status # "ERROR"
        /\ proc' = [proc EXCEPT ![p].pc = "upsert", ![p].out = out,
                                ![p].seen = Len(records[t])]
  BY DEF ReadAndMatch
<1>3. /\ \A q \in Procs \ {p} : proc'[q] = proc[q]
      /\ proc'[p].pc = "upsert" /\ proc'[p].tx = t
      /\ proc'[p].out = out /\ proc'[p].seen = Len(records[t])
  BY <1>1, <1>2 DEF Local
<1>4. Attempting(p, t)' /\ \A q \in Procs : Attempting(q, t)' => q = p
  BY <1>1, <1>3, Alone DEF Attempting
<1>5. Counted(t)'
  BY <1>1 DEF Undisturbed, Counted
<1>6. Shape(out, records[t])
  <2>1. (age[t] >= Timeout) \in BOOLEAN
    OBVIOUS
  <2> QED  BY <1>1, <1>2, <2>1, OutcomesShape
<1>7. Len(records[t]) \in 1..Len(records[t]) /\ SubSeq(records[t], 1, Len(records[t])) = records[t]
  BY <1>1
<1>8. recon[t] # NoRow => recon[t].count =< Len(records[t])
  BY DEF Undisturbed, Counted
<1>9. Progress(proc[p], t)'
  BY <1>1, <1>3, <1>6, <1>7, <1>8 DEF Progress
<1> QED  BY <1>4, <1>5, <1>9, GoesOn

\* What an upsert writes is a row.
LEMMA UpsertIsRow ==
  ASSUME TypeOK, NEW t \in Tx, NEW p \in Procs
  PROVE  Upserted(t, proc[p].out, proc[p].seen) \in Row
         /\ Upserted(t, proc[p].out, proc[p].seen) # NoRow
<1> PICK out, seen : out = proc[p].out /\ seen = proc[p].seen
  OBVIOUS
<1>1. out \in Outcome /\ seen \in Nat /\ recon \in [Tx -> Row \cup {NoRow}]
  BY DEF TypeOK, Local
<1>2. MatchedSources(out) \in SUBSET Systems /\ MismatchedSources(out) \in SUBSET Systems
  BY <1>1 DEF Outcome, MatchedSources, MismatchedSources
<1>3. Retry(t) + 1 \in Nat /\ out.status \in Status
  BY <1>1 DEF Retry, Row, Outcome, Status
<1>4. (out.status = "MATCHED" \/ (recon[t] # NoRow /\ recon[t].resolved)) \in BOOLEAN
  OBVIOUS
<1>5. Upserted(t, out, seen) \in Row
  BY <1>1, <1>2, <1>3, <1>4 DEF Upserted, Row
<1> QED  BY <1>5, RowAssumption

\* The row comes to count the records read, which are no fewer than before.
LEMMA UpsertStateKeeps ==
  ASSUME TypeOK, NEW t \in Tx, Undisturbed(t), NEW p \in Procs, proc[p].tx = t, UpsertState(p)
  PROVE  Undisturbed(t)'
<1> PICK l : l = proc[p]
  OBVIOUS
<1>1. /\ proc \in [Procs -> Local] /\ l \in Local /\ Attempting(p, t) /\ l.pc = "upsert"
      /\ recon \in [Tx -> Row \cup {NoRow}] /\ records[t] \in Seq(Inputs)
      /\ records' = records /\ details' = details
  BY DEF TypeOK, Attempting, UpsertState
<1>2. /\ \A q \in Procs \ {p} : proc'[q] = proc[q]
      /\ proc'[p].pc = (IF l.out.results = {} THEN "audit" ELSE "details")
      /\ proc'[p].tx = t /\ proc'[p].todo = l.out.results
      /\ proc'[p].out = l.out /\ proc'[p].seen = l.seen
  BY <1>1 DEF UpsertState, Local
<1>3. Attempting(p, t)' /\ \A q \in Procs : Attempting(q, t)' => q = p
  BY <1>1, <1>2, Alone DEF Attempting
<1>4. /\ l.seen \in 1..Len(records[t]) /\ Shape(l.out, SubSeq(records[t], 1, l.seen))
      /\ recon[t] # NoRow => recon[t].count =< l.seen
  BY <1>1 DEF Undisturbed, Progress
<1>5. /\ recon'[t] = Upserted(t, l.out, l.seen)
      /\ recon'[t].status = l.out.status /\ recon'[t].count = l.seen
      /\ recon'[t].mismatched = l.out.flagged
  <2>1. recon'[t] = Upserted(t, l.out, l.seen)
    BY <1>1 DEF UpsertState
  <2> QED  BY <1>4, <2>1 DEF Upserted, Shape
<1>6. recon'[t] # NoRow
  BY <1>1, <1>5, UpsertIsRow
<1>7. Counted(t)'
  <2>1. ASSUME NEW s \in Systems, details[t][s] # "none"
        PROVE  s \in Sources(SubSeq(records[t], 1, l.seen))
    <3>1. recon[t] # NoRow /\ s \in Sources(SubSeq(records[t], 1, recon[t].count))
          /\ recon[t].count \in Nat
      BY <1>1, <2>1 DEF Undisturbed, Counted, Row
    <3> QED  BY <1>1, <1>4, <3>1, SourcesGrow
  <2> QED  BY <1>1, <1>4, <1>5, <1>6, <2>1 DEF Counted
<1>8. Progress(proc[p], t)'
  <2>1. Written(proc[p], t)'
    BY <1>2, <1>5, <1>6 DEF Written
  <2>2. l.out.results # {} => l.out.status # "PENDING"
    BY <1>4 DEF Shape
  <2> QED  BY <1>1, <1>2, <1>4, <2>1, <2>2 DEF Progress
<1> QED  BY <1>3, <1>7, <1>8, GoesOn

LEMMA UpsertDetailKeeps ==
  ASSUME TypeOK, NEW t \in Tx, Undisturbed(t), NEW p \in Procs, proc[p].tx = t, UpsertDetail(p)
  PROVE  Undisturbed(t)'
<1> PICK l : l = proc[p]
  OBVIOUS
<1>1. /\ proc \in [Procs -> Local] /\ l \in Local /\ Attempting(p, t) /\ l.pc = "details"
      /\ details \in [Tx -> [Systems -> {"none", "agrees", "deviates"}]]
      /\ records' = records /\ recon' = recon
  BY DEF TypeOK, Attempting, UpsertDetail
<1>2. PICK s \in l.todo :
        /\ details' = [details EXCEPT ![t][s] = Mark(l.out, s)]
        /\ proc' = [proc EXCEPT ![p].todo = @ \ {s},
                                ![p].pc = IF l.todo = {s} THEN "audit" ELSE "details"]
  BY DEF UpsertDetail, Mark
<1>3. /\ \A q \in Procs \ {p} : proc'[q] = proc[q]
      /\ proc'[p].pc = (IF l.todo = {s} THEN "audit" ELSE "details")
      /\ proc'[p].tx = t /\ proc'[p].todo = l.todo \ {s}
      /\ proc'[p].out = l.out /\ proc'[p].seen = l.seen
  BY <1>1, <1>2 DEF Local
<1>4. Attempting(p, t)' /\ \A q \in Procs : Attempting(q, t)' => q = p
  BY <1>1, <1>3, Alone DEF Attempting
<1>5. /\ l.seen \in 1..Len(records[t]) /\ Shape(l.out, SubSeq(records[t], 1, l.seen))
      /\ Written(l, t) /\ l.todo \subseteq l.out.results /\ l.out.status # "PENDING"
      /\ \A u \in l.out.results \ l.todo : details[t][u] = Mark(l.out, u)
  BY <1>1 DEF Undisturbed, Progress
<1>6. /\ s \in Systems /\ l.out.results \subseteq Systems
      /\ details'[t][s] = Mark(l.out, s)
      /\ \A u \in Systems \ {s} : details'[t][u] = details[t][u]
  <2>1. s \in Systems /\ l.out.results \subseteq Systems
    BY <1>1 DEF Local, Outcome
  <2> QED  BY <1>1, <1>2, <2>1
<1>7. Counted(t)'
  <2>1. s \in Sources(SubSeq(records[t], 1, recon[t].count)) /\ recon[t] # NoRow
    BY <1>5 DEF Shape, Written
  <2> QED  BY <1>1, <1>6, <2>1 DEF Undisturbed, Counted
<1>8. Progress(proc[p], t)'
  <2>1. Written(proc[p], t)'
    BY <1>1, <1>3, <1>5 DEF Written
  <2>2. \A u \in l.out.results \ (l.todo \ {s}) : details'[t][u] = Mark(l.out, u)
    BY <1>5, <1>6
  <2> QED  BY <1>1, <1>3, <1>5, <2>1, <2>2 DEF Progress
<1> QED  BY <1>4, <1>7, <1>8, GoesOn

\* What the details say once all results are written.
LEMMA DetailsTell ==
  ASSUME TypeOK, NEW t \in Tx, Counted(t), NEW l \in Local,
         Written(l, t), Shape(l.out, SubSeq(records[t], 1, l.seen)), l.out.status # "PENDING",
         \A s \in l.out.results : details[t][s] = Mark(l.out, s)
  PROVE  /\ {s \in Systems : details[t][s] # "none"}
              = Sources(SubSeq(records[t], 1, recon[t].count))
         /\ {s \in Systems : details[t][s] = "deviates"} = recon[t].mismatched
<1>1. l.out.results \subseteq Systems
  BY DEF Local, Outcome
<1>2. /\ l.out.results = Sources(SubSeq(records[t], 1, recon[t].count))
      /\ recon[t].mismatched = l.out.flagged /\ l.out.flagged \subseteq l.out.results
  BY DEF Written, Shape
<1>3. \A s \in Systems : details[t][s] # "none" => s \in l.out.results
  BY <1>2 DEF Counted
<1>4. \A s \in l.out.results :
        details[t][s] # "none" /\ (details[t][s] = "deviates" <=> s \in l.out.flagged)
  BY DEF Mark
<1> QED  BY <1>1, <1>2, <1>3, <1>4

LEMMA AuditAttemptKeeps ==
  ASSUME TypeOK, NEW t \in Tx, Undisturbed(t), NEW p \in Procs, proc[p].tx = t, AuditAttempt(p)
  PROVE  Undisturbed(t)'
<1> PICK l : l = proc[p]
  OBVIOUS
<1>1. /\ proc \in [Procs -> Local] /\ l \in Local /\ Attempting(p, t) /\ l.pc = "audit"
      /\ audit \in [Tx -> Seq(AuditEntry)]
      /\ records' = records /\ recon' = recon /\ details' = details
  BY DEF TypeOK, Attempting, AuditAttempt
<1>2. Counted(t)'
  BY <1>1 DEF Undisturbed, Counted
<1>3. /\ l.seen \in 1..Len(records[t]) /\ Shape(l.out, SubSeq(records[t], 1, l.seen))
      /\ Written(l, t) /\ \A s \in l.out.results : details[t][s] = Mark(l.out, s)
  BY <1>1 DEF Undisturbed, Progress
<1>4. Logged(t, l.out.status)'
  <2>1. PICK e \in AuditEntry : e = Entry("MATCH_ATTEMPT", l.old, l.out.status)
    BY <1>1 DEF Local, Outcome, AuditEntry, Entry, Status
  <2>2. audit[t] \in Seq(AuditEntry) /\ audit'[t] = Append(audit[t], e)
    BY <1>1, <2>1 DEF AuditAttempt
  <2>3. audit'[t] # <<>> /\ Last(audit'[t]) = e
    BY <2>2 DEF Last
  <2> QED  BY <2>1, <2>3 DEF Logged, Entry
<1>5. CASE l.out.status = "PENDING"
  <2>1. /\ \A q \in Procs \ {p} : proc'[q] = proc[q]
        /\ proc'[p].pc \in {"idle", "fetch"}
    BY <1>5, AttemptOver DEF AuditAttempt
  <2>2. \A q \in Procs : ~Attempting(q, t)'
    BY <1>1, <2>1, Alone DEF Attempting
  <2>3. recon'[t].status = "PENDING"
    BY <1>1, <1>3, <1>5 DEF Written
  <2>4. Story(t)'
    BY <1>4, <1>5, <2>3 DEF Story, Decided, Logged
  <2> QED  BY <1>2, <2>2, <2>4, IsOver
<1>6. CASE l.out.status # "PENDING"
  <2>1. /\ \A q \in Procs \ {p} : proc'[q] = proc[q]
        /\ proc'[p].pc = "propagate" /\ proc'[p].tx = t
        /\ proc'[p].out = l.out /\ proc'[p].seen = l.seen
    BY <1>1, <1>6 DEF AuditAttempt, Local
  <2>2. Attempting(p, t)' /\ \A q \in Procs : Attempting(q, t)' => q = p
    BY <1>1, <2>1, Alone DEF Attempting
  <2>3. Progress(proc[p], t)'
    <3>1. Written(proc[p], t)' /\ Logged(t, proc[p].out.status)'
      BY <1>1, <1>3, <1>4, <2>1 DEF Written, Logged
    <3> QED  BY <1>1, <1>3, <2>1, <3>1 DEF Progress
  <2> QED  BY <1>2, <2>2, <2>3, GoesOn
<1> QED  BY <1>5, <1>6

LEMMA PropagateKeeps ==
  ASSUME TypeOK, NEW t \in Tx, Undisturbed(t), NEW p \in Procs, proc[p].tx = t, Propagate(p)
  PROVE  Undisturbed(t)'
<1> PICK l : l = proc[p]
  OBVIOUS
<1>1. /\ proc \in [Procs -> Local] /\ l \in Local /\ Attempting(p, t) /\ l.pc = "propagate"
      /\ shown \in [Tx -> Seq(Status)] /\ Len(shown[t]) = Len(records[t])
      /\ records' = records /\ recon' = recon /\ details' = details /\ audit' = audit
  BY DEF TypeOK, Attempting, Propagate
<1>2. Counted(t) /\ Counted(t)'
  BY <1>1 DEF Undisturbed, Counted
<1>3. /\ l.seen \in 1..Len(records[t]) /\ Shape(l.out, SubSeq(records[t], 1, l.seen))
      /\ Written(l, t) /\ Logged(t, l.out.status)
      /\ \A s \in l.out.results : details[t][s] = Mark(l.out, s)
  BY <1>1 DEF Undisturbed, Progress
<1>4. /\ \A q \in Procs \ {p} : proc'[q] = proc[q]
      /\ proc'[p].pc \in {"idle", "fetch"}
  BY AttemptOver DEF Propagate
<1>5. \A q \in Procs : ~Attempting(q, t)'
  BY <1>1, <1>4, Alone DEF Attempting
<1>6. \A i \in 1..recon[t].count : shown'[t][i] = recon[t].status
  <2>1. recon[t].count \in 1..Len(shown[t]) /\ recon[t].status = l.out.status
    BY <1>1, <1>3 DEF Written
  <2>2. shown'[t] = [i \in DOMAIN shown[t] |-> l.out.status]
    BY <1>1 DEF Propagate
  <2>3. DOMAIN shown[t] = 1..Len(shown[t]) /\ Len(shown[t]) \in Nat
    BY <1>1
  <2> QED  BY <2>1, <2>2, <2>3
<1>7. Story(t)'
  <2>1. Logged(t, recon[t].status)'
    BY <1>1, <1>3 DEF Written, Logged
  <2>2. ASSUME Decided(t)
        PROVE  /\ {s \in Systems : details[t][s] # "none"}
                    = Sources(SubSeq(records[t], 1, recon[t].count))
               /\ {s \in Systems : details[t][s] = "deviates"} = recon[t].mismatched
    <3>1. l.out.status # "PENDING"
      BY <1>3, <2>2 DEF Decided, Written
    <3> QED  BY <1>1, <1>2, <1>3, <3>1, DetailsTell
  <2> QED  BY <1>1, <1>6, <2>1, <2>2 DEF Story, Decided
<1> QED  BY <1>2, <1>5, <1>7, IsOver
LEMMA DisturbedGrows == [Next]_vars => disturbed \subseteq disturbed'
<1> SUFFICES ASSUME [Next]_vars PROVE disturbed \subseteq disturbed'
  OBVIOUS
<1>1. CASE UNCHANGED vars \/ (\E u \in Tx, r \in Inputs : Ingest(u, r)) \/ Tick \/ Poll
           \/ TakeUp \/ Crash
  BY <1>1 DEF vars, Ingest, Tick, Poll, TakeUp, Joins, Crash
<1>2. CASE \E p \in Procs : Reconcile(p) \/ Fault(p)
  BY <1>2 DEF Reconcile, ReadOldStatus, FindNoRecords, ReadAndMatch, UpsertState,
       UpsertDetail, AuditAttempt, Propagate, Fault
<1>3. CASE \E p \in Rpc : Answer(p) \/ AuditReTrigger(p) \/ \E u \in Tx : Request(p, u)
  BY <1>3 DEF Answer, AuditReTrigger, Request, GetKnown, GetUnknown, ReTrigger, Joins
<1> QED  BY <1>1, <1>2, <1>3 DEF Next, WorkerStep, Handle, Procs

\* A process that is busy elsewhere, or with no attempt, spares t.
LEMMA BusyElsewhere ==
  ASSUME TypeOK, NEW t \in Tx, NEW p \in Procs, ~Attempting(p, t), ~Attempting(p, t)',
         \A q \in Procs \ {p} : proc'[q] = proc[q],
         records'[t] = records[t], shown'[t] = shown[t], recon'[t] = recon[t],
         details'[t] = details[t], audit'[t] = audit[t]
  PROVE  Spares(t)
BY DEF Spares

LEMMA ReconcileSpares ==
  ASSUME TypeOK, NEW t \in Tx, NEW p \in Procs, proc[p].tx # t,
         Reconcile(p) \/ AuditReTrigger(p)
  PROVE  Spares(t)
<1> USE DEF tables
<1>1. /\ proc \in [Procs -> Local] /\ proc[p] \in Local /\ ~Attempting(p, t)
      /\ shown \in [Tx -> Seq(Status)] /\ audit \in [Tx -> Seq(AuditEntry)]
      /\ recon \in [Tx -> Row \cup {NoRow}]
      /\ details \in [Tx -> [Systems -> {"none", "agrees", "deviates"}]]
  BY DEF TypeOK, Attempting
<1>2. /\ records'[t] = records[t] /\ shown'[t] = shown[t] /\ recon'[t] = recon[t]
      /\ details'[t] = details[t] /\ audit'[t] = audit[t]
  <2>1. CASE ReadOldStatus(p) \/ FindNoRecords(p) \/ ReadAndMatch(p)
    BY <2>1 DEF ReadOldStatus, FindNoRecords, ReadAndMatch
  <2>2. CASE UpsertState(p)
    BY <1>1, <2>2 DEF UpsertState
  <2>3. CASE UpsertDetail(p)
    BY <1>1, <2>3 DEF UpsertDetail
  <2>4. CASE AuditAttempt(p) \/ AuditReTrigger(p)
    BY <1>1, <2>4 DEF AuditAttempt, AuditReTrigger
  <2>5. CASE Propagate(p)
    BY <1>1, <2>5 DEF Propagate
  <2> QED  BY <2>1, <2>2, <2>3, <2>4, <2>5 DEF Reconcile
<1>3. (\A q \in Procs \ {p} : proc'[q] = proc[q]) /\ ~Attempting(p, t)'
  <2>1. CASE proc' = AttemptDone(p) \/ proc' = AttemptFailed(p)
    BY <2>1, AttemptOver DEF Attempting
  <2>2. CASE ReadOldStatus(p) \/ AuditReTrigger(p)
    BY <1>1, <2>2 DEF ReadOldStatus, AuditReTrigger, Attempting, Local
  <2>3. CASE ReadAndMatch(p)
    <3>1. \/ proc' = AttemptFailed(p)
          \/ \E out, seen : proc' = [proc EXCEPT ![p].pc = "upsert", ![p].out = out,
                                                 ![p].seen = seen]
      BY <2>3 DEF ReadAndMatch
    <3>2. ASSUME NEW out, NEW seen,
                 proc' = [proc EXCEPT ![p].pc = "upsert", ![p].out = out, ![p].seen = seen]
          PROVE  (\A q \in Procs \ {p} : proc'[q] = proc[q]) /\ ~Attempting(p, t)'
      BY <1>1, <3>2 DEF Attempting, Local
    <3> QED  BY <2>1, <3>1, <3>2
  <2>4. CASE UpsertState(p) \/ UpsertDetail(p)
    <3>1. ASSUME NEW todo, NEW pc,
                 proc' = [proc EXCEPT ![p].todo = todo, ![p].pc = pc]
          PROVE  (\A q \in Procs \ {p} : proc'[q] = proc[q]) /\ ~Attempting(p, t)'
      BY <1>1, <3>1 DEF Attempting, Local
    <3>2. CASE UpsertState(p)
      BY <3>1, <3>2 DEF UpsertState
    <3>3. CASE UpsertDetail(p)
      <4> PICK s \in proc[p].todo :
            proc' = [proc EXCEPT ![p].todo = @ \ {s},
                                 ![p].pc = IF proc[p].todo = {s} THEN "audit" ELSE "details"]
        BY <3>3 DEF UpsertDetail
      <4>1. proc' = [proc EXCEPT ![p].todo = proc[p].todo \ {s},
                                 ![p].pc = IF proc[p].todo = {s} THEN "audit" ELSE "details"]
        BY <1>1
      <4> QED  BY <3>1, <4>1
    <3> QED  BY <2>4, <3>2, <3>3
  <2>5. CASE AuditAttempt(p)
    <3>1. CASE proc' = [proc EXCEPT ![p].pc = "propagate"]
      BY <1>1, <3>1 DEF Attempting, Local
    <3> QED  BY <2>1, <2>5, <3>1 DEF AuditAttempt
  <2>6. CASE FindNoRecords(p) \/ Propagate(p)
    BY <2>1, <2>6 DEF FindNoRecords, Propagate
  <2> QED  BY <2>2, <2>3, <2>4, <2>5, <2>6 DEF Reconcile
<1> QED  BY <1>1, <1>2, <1>3, BusyElsewhere

LEMMA RequestKeeps ==
  ASSUME TypeOK, NEW t \in Tx, Undisturbed(t), t \notin disturbed',
         NEW p \in Rpc, NEW u \in Tx, Request(p, u)
  PROVE  Undisturbed(t)'
<1> USE DEF tables
<1>1. /\ proc \in [Procs -> Local] /\ p \in Procs /\ recon \in [Tx -> Row \cup {NoRow}]
      /\ proc[p].pc = "idle" /\ ~Attempting(p, t)
  BY DEF TypeOK, Procs, Request, GetKnown, GetUnknown, ReTrigger, Call, Attempting
<1>2. PICK pc \in {"fetch", "old", "mark"}, call \in {"get", "retrigger"} :
        /\ proc' = [proc EXCEPT ![p] = [Resting EXCEPT !.pc = pc, !.tx = u, !.call = call]]
        /\ pc = "fetch" <=> GetKnown(p, u)
  <2>1. CASE GetKnown(p, u)
    BY <2>1 DEF GetKnown, Call
  <2>2. CASE GetUnknown(p, u) /\ ~GetKnown(p, u)
    BY <2>2 DEF GetUnknown, Call
  <2>3. CASE ReTrigger(p, u) /\ ~GetKnown(p, u)
    BY <2>3 DEF ReTrigger, Call
  <2> QED  BY <2>1, <2>2, <2>3 DEF Request
<1>3. /\ \A q \in Procs \ {p} : proc'[q] = proc[q]
      /\ proc'[p].pc = pc /\ proc'[p].tx = u
  BY <1>1, <1>2 DEF Resting
<1>4. /\ records' = records /\ details' = details
      /\ shown' = shown /\ audit' = audit
  BY DEF Request, GetKnown, GetUnknown, ReTrigger
<1>5. \/ recon'[t] = recon[t]
      \/ u = t /\ recon[t] # NoRow /\ recon'[t] # NoRow /\ recon'[t].count = recon[t].count
  <2>1. CASE UNCHANGED recon
    BY <2>1
  <2>2. CASE ReTrigger(p, u) /\ recon[u] # NoRow
    <3> DEFINE row == [recon[u] EXCEPT !.status = "PENDING", !.retry = 0]
    <3>1. row \in Row /\ row.count = recon[u].count
      BY <1>1, <2>2 DEF Row, Status
    <3>2. recon' = [recon EXCEPT ![u] = row]
      BY <2>2 DEF ReTrigger
    <3> HIDE DEF row
    <3>3. recon'[u] = row /\ \A v \in Tx \ {u} : recon'[v] = recon[v]
      BY <1>1, <3>2
    <3> QED  BY <2>2, <3>1, <3>3, RowAssumption
  <2> QED  BY <2>1, <2>2 DEF Request, GetKnown, GetUnknown, ReTrigger
<1>6. CASE u # t \/ pc = "fetch"
  <2>1. ~Attempting(p, t)'
    BY <1>3, <1>6 DEF Attempting
  <2>2. recon'[t] = recon[t]
    BY <1>2, <1>5, <1>6 DEF GetKnown
  <2> QED  BY <1>1, <1>3, <1>4, <2>1, <2>2, BusyElsewhere, SparesFrame
<1>7. CASE u = t /\ pc # "fetch"
  <2>1. Joins(p, t) /\ pc \in {"old", "mark"}
    BY <1>2, <1>7 DEF Request, GetUnknown, ReTrigger
  <2>2. proc'[p].pc \in {"old", "mark"} /\ proc'[p].tx = t
    BY <1>3, <1>7, <2>1
  <2>3. \/ recon'[t] = recon[t]
        \/ recon[t] # NoRow /\ recon'[t] # NoRow /\ recon'[t].count = recon[t].count
    BY <1>5
  <2> QED  BY <1>1, <1>3, <1>4, <2>1, <2>2, <2>3, StartKeeps
<1> QED  BY <1>6, <1>7

LEMMA TakeUpKeeps ==
  ASSUME TypeOK, NEW t \in Tx, Undisturbed(t), t \notin disturbed', TakeUp
  PROVE  Undisturbed(t)'
<1>1. /\ proc \in [Procs -> Local] /\ Worker \in Procs /\ proc[Worker].pc = "idle"
      /\ records' = records /\ details' = details /\ recon' = recon
      /\ shown' = shown /\ audit' = audit
  BY DEF TypeOK, Procs, TakeUp, tables
<1>2. PICK u \in batch : /\ proc' = [proc EXCEPT ![Worker] =
                              [Resting EXCEPT !.pc = "old", !.tx = u, !.call = "worker"]]
                         /\ Joins(Worker, u)
  BY DEF TakeUp
<1>3. /\ \A q \in Procs \ {Worker} : proc'[q] = proc[q]
      /\ proc'[Worker].pc = "old" /\ proc'[Worker].tx = u
  BY <1>1, <1>2 DEF Resting
<1>4. CASE u # t
  <2>1. ~Attempting(Worker, t) /\ ~Attempting(Worker, t)'
    BY <1>1, <1>3, <1>4 DEF Attempting
  <2> QED  BY <1>1, <1>3, <2>1, BusyElsewhere, SparesFrame
<1>5. CASE u = t
  <2>1. Joins(Worker, t) /\ proc'[Worker].pc \in {"old", "mark"} /\ proc'[Worker].tx = t
    BY <1>2, <1>3, <1>5
  <2> QED  BY <1>1, <1>3, <2>1, StartKeeps
<1> QED  BY <1>4, <1>5

LEMMA FailureKeeps ==
  ASSUME TypeOK, NEW t \in Tx, Undisturbed(t), t \notin disturbed',
         Crash \/ \E p \in Procs : Fault(p) \/ (p \in Rpc /\ Answer(p))
  PROVE  Undisturbed(t)'
<1>1. /\ proc \in [Procs -> Local]
      /\ records' = records /\ details' = details /\ recon' = recon
      /\ shown' = shown /\ audit' = audit
  BY DEF TypeOK, Crash, Fault, Answer, tables
<1>2. CASE Crash
  <2>1. \A q \in Procs : ~Attempting(q, t) /\ proc'[q] = Resting
    BY <1>2 DEF Crash
  <2>2. \A q \in Procs : ~Attempting(q, t)'
    BY <2>1 DEF Attempting, Resting
  <2>3. Spares(t)
    BY <1>1, <2>1, <2>2 DEF Spares
  <2> QED  BY <2>3, SparesFrame
<1>3. ASSUME NEW p \in Procs, Fault(p) \/ (p \in Rpc /\ Answer(p)) PROVE Undisturbed(t)'
  <2>1. ~Attempting(p, t)
    <3>1. CASE Fault(p)
      BY <3>1 DEF Fault, Attempting
    <3>2. CASE Answer(p)
      BY <3>2 DEF Answer, Attempting
    <3> QED  BY <1>3, <3>1, <3>2
  <2>2. \/ proc' = [proc EXCEPT ![p].pc = "old"] /\ proc[p].pc = "mark"
        \/ proc' = [proc EXCEPT ![p] = Resting]
        \/ proc' = AttemptFailed(p)
    BY <1>3 DEF Fault, Answer
  <2>3. (\A q \in Procs \ {p} : proc'[q] = proc[q]) /\ ~Attempting(p, t)'
    <3>1. CASE proc' = [proc EXCEPT ![p].pc = "old"] /\ proc[p].pc = "mark"
      <4>1. proc[p] \in Local /\ proc[p].tx # t
        BY <1>1, <2>1, <3>1 DEF Attempting
      <4> QED  BY <1>1, <3>1, <4>1 DEF Attempting, Local
    <3>2. CASE proc' = [proc EXCEPT ![p] = Resting]
      BY <1>1, <3>2 DEF Attempting, Resting
    <3>3. CASE proc' = AttemptFailed(p)
      BY <3>3, AttemptOver DEF Attempting
    <3> QED  BY <2>2, <3>1, <3>2, <3>3
  <2> QED  BY <1>1, <2>1, <2>3, BusyElsewhere, SparesFrame
<1> QED  BY <1>2, <1>3

LEMMA UndisturbedStep ==
  ASSUME TypeOK, [Next]_vars, NEW t \in Tx, Undisturbed(t), t \notin disturbed'
  PROVE  Undisturbed(t)'
<1>0. Worker \in Procs /\ Rpc \subseteq Procs /\ records \in [Tx -> Seq(Inputs)]
      /\ shown \in [Tx -> Seq(Status)]
  BY DEF Procs, TypeOK
<1>1. CASE UNCHANGED vars \/ Tick \/ Poll
  <2>1. Spares(t)
    BY <1>1 DEF vars, Tick, Poll, tables, Spares
  <2> QED  BY <2>1, SparesFrame
<1>2. ASSUME NEW u \in Tx, NEW r \in Inputs, Ingest(u, r) PROVE Undisturbed(t)'
  <2>1. CASE u = t
    BY <1>2, <2>1, IngestKeeps
  <2>2. CASE u # t
    <3>1. Spares(t)
      BY <1>0, <1>2, <2>2 DEF Ingest, Spares
    <3> QED  BY <3>1, SparesFrame
  <2> QED  BY <2>1, <2>2
<1>3. CASE TakeUp
  BY <1>3, TakeUpKeeps
<1>4. ASSUME NEW p \in Procs, Reconcile(p) \/ AuditReTrigger(p) PROVE Undisturbed(t)'
  <2>1. CASE proc[p].tx # t
    BY <1>4, <2>1, ReconcileSpares, SparesFrame
  <2>2. CASE proc[p].tx = t
    BY <1>4, <2>2, EarlyStatementKeeps, FindNoRecordsKeeps, ReadAndMatchKeeps,
       UpsertStateKeeps, UpsertDetailKeeps, AuditAttemptKeeps, PropagateKeeps DEF Reconcile
  <2> QED  BY <2>1, <2>2
<1>5. ASSUME NEW p \in Rpc, NEW u \in Tx, Request(p, u) PROVE Undisturbed(t)'
  BY <1>5, RequestKeeps
<1>6. CASE Crash \/ \E p \in Procs : Fault(p) \/ (p \in Rpc /\ Answer(p))
  BY <1>6, FailureKeeps
<1> QED
  BY <1>0, <1>1, <1>2, <1>3, <1>4, <1>5, <1>6 DEF Next, WorkerStep, Handle

LEMMA RestInit == Init => RestInv
<1> SUFFICES ASSUME Init, NEW t \in Tx PROVE Undisturbed(t)
  BY DEF RestInv
<1>1. recon[t] = NoRow /\ (\A s \in Systems : details[t][s] = "none")
      /\ \A p \in Procs : proc[p] = Resting
  BY DEF Init
<1> QED  BY <1>1 DEF Undisturbed, Counted, Attempting, Resting

LEMMA RestStep == TypeOK /\ RestInv /\ [Next]_vars => RestInv'
<1> SUFFICES ASSUME TypeOK, RestInv, [Next]_vars, NEW t \in Tx \ disturbed'
             PROVE  Undisturbed(t)'
  BY DEF RestInv
<1>1. t \in Tx \ disturbed
  BY DisturbedGrows
<1> QED  BY <1>1, UndisturbedStep DEF RestInv

\* Whatever else happens to the engine: once the attempts on a transaction are
\* over, and none of them overlapped with another or was cut short, the state
\* row, the audit log, the details and the status column of ingestion_records
\* agree on it.
THEOREM RestingTablesAgree == Spec => []RestingAgreement
<1>1. RestInv => RestingAgreement
  BY DEF RestInv, Undisturbed, Story, Logged, RestingAgreement
<1> QED  BY <1>1, RestInit, RestStep, TypeCorrect, PTL DEF Spec

\* A row is never replaced by one drawn from fewer records while attempts do
\* not overlap: an attempt counts no fewer records than the row it replaces.
THEOREM CountsGrow == Spec => CountGrows
<1>1. ASSUME TypeOK, RestInv, [Next]_vars, NEW t \in Tx \ disturbed', recon[t] # NoRow
      PROVE  recon'[t] # NoRow /\ recon'[t].count >= recon[t].count
  <2>1. Undisturbed(t) /\ Undisturbed(t)' /\ recon[t] \in Row
    BY <1>1, DisturbedGrows, UndisturbedStep DEF RestInv, TypeOK
  <2>2. recon[t].count \in Nat
    BY <2>1 DEF Row
  <2>3. CASE recon'[t] = recon[t]
    BY <1>1, <2>2, <2>3
  <2>4. CASE recon'[t] = [recon[t] EXCEPT !.status = "PENDING", !.retry = 0]
    <3> DEFINE row == [recon[t] EXCEPT !.status = "PENDING", !.retry = 0]
    <3>1. row \in Row /\ row.count = recon[t].count
      BY <1>1, <2>1 DEF Row, Status
    <3> HIDE DEF row
    <3>2. recon'[t] = row
      BY <2>4 DEF row
    <3> QED  BY <2>2, <3>1, <3>2, RowAssumption
  <2>5. ASSUME NEW p \in Procs, proc[p].pc = "upsert", proc[p].tx = t,
               recon'[t] = Upserted(t, proc[p].out, proc[p].seen)
        PROVE  recon'[t] # NoRow /\ recon'[t].count >= recon[t].count
    <3>1. recon'[t].count = proc[p].seen
      BY <2>5 DEF Upserted
    <3>2. Attempting(p, t) /\ proc[p].seen \in Nat
      BY <1>1, <2>5 DEF Attempting, TypeOK, Local
    <3>3. recon[t].count =< proc[p].seen
      BY <1>1, <2>1, <2>5, <3>2 DEF Undisturbed, Progress
    <3>4. recon'[t] # NoRow
      BY <1>1, <2>5, UpsertIsRow
    <3> QED  BY <2>2, <3>1, <3>2, <3>3, <3>4
  <2> QED  BY <1>1, <2>3, <2>4, <2>5, ReconStep
<1>2. TypeOK /\ RestInv /\ [Next]_vars
        => [\A t \in Tx \ disturbed' : recon[t] # NoRow =>
              recon'[t] # NoRow /\ recon'[t].count >= recon[t].count]_vars
  BY <1>1
<1> QED  BY <1>2, RestInit, RestStep, TypeCorrect, PTL DEF Spec, CountGrows
=============================================================================
