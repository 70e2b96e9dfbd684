---------------------------- MODULE EngineProof ----------------------------
(***************************************************************************)
(* Proofs about the reconciliation engine, for every number of             *)
(* transactions, handlers and records, every rule set and every value of   *)
(* max_retries, retry_backoff_secs, pending_timeout_secs and batch_size.   *)
(***************************************************************************)
EXTENDS Engine, FiniteSetTheorems, SequenceTheorems, TLAPS

-----------------------------------------------------------------------------
(* What the matcher returns                                                *)

\* Compared answers MATCHED or MISMATCHED, about the sources it is given.
LEMMA ComparedType ==
  ASSUME NEW results \in SUBSET Systems, NEW flagged \in SUBSET Systems
  PROVE  Compared(results, flagged) \in Outcome
  BY DEF Compared, Mismatched, Outcome

\* Each strategy flags only sources that have an amount or a place in the walk.
LEMMA StrategiesType ==
  ASSUME NEW amt, DOMAIN amt \subseteq Systems,
         NEW order, \A i \in DOMAIN order : order[i] \in Systems
  PROVE  /\ CompareExact(order, amt) \in Outcome
         /\ CompareWithTolerance(Rules, order, amt) \in Outcome
         /\ CompareMajority(Rules, order, amt) \in Outcome
<1>1. CompareExact(order, amt) \in Outcome
  <2> DEFINE flagged == {s \in Priced(amt) : amt[s] # Reference(order, amt)}
  <2>1. flagged \subseteq Systems
    BY DEF Priced
  <2>2. CompareExact(order, amt) = Compared(DOMAIN amt, flagged)
    BY DEF CompareExact
  <2> QED  BY <2>1, <2>2, ComparedType
<1>2. CompareWithTolerance(Rules, order, amt) \in Outcome
  <2> DEFINE flagged == {s \in Priced(amt) : ~Within(Rules, amt[s], Reference(order, amt))}
  <2>1. flagged \subseteq Systems
    BY DEF Priced
  <2>2. CompareWithTolerance(Rules, order, amt) = Compared(DOMAIN amt, flagged)
    BY DEF CompareWithTolerance
  <2> QED  BY <2>1, <2>2, ComparedType
<1>3. CompareMajority(Rules, order, amt) \in Outcome
  <2> DEFINE size == [i \in DOMAIN order |-> BucketSize(Buckets(Rules, order, amt), i)]
             losers == {k \in DOMAIN order : \E j \in DOMAIN order : size[j] > size[k]}
             flagged == {order[i] : i \in losers}
  <2>1. flagged \subseteq Systems
    OBVIOUS
  <2>2. CompareMajority(Rules, order, amt) = Compared(DOMAIN amt, flagged)
    BY DEF CompareMajority
  <2> HIDE DEF flagged
  <2> QED  BY <2>1, <2>2, ComparedType
<1> QED  BY <1>1, <1>2, <1>3

\* Whatever the records, the walk and the clock: an outcome that is not an
\* error is one of the three verdicts, about sources of the records.
LEMMA MatchRecordsType ==
  ASSUME NEW recs \in Seq(Inputs), NEW order \in Orders(recs), NEW late \in BOOLEAN,
         MatchRecords(recs, Rules, order, late).status # "ERROR"
  PROVE  MatchRecords(recs, Rules, order, late) \in Outcome
<1> DEFINE S == Sources(recs)
           Amt == [s \in S |-> Latest(recs)[s].amt]
<1>1. S \subseteq Systems
  BY DEF Sources, Systems
<1>2. \A i \in DOMAIN order : order[i] \in Systems
  BY <1>1 DEF Orders, SetToSeqs
<1>3. DOMAIN Amt \subseteq Systems
  BY <1>1
<1>4. /\ CompareExact(order, Amt) \in Outcome
      /\ CompareWithTolerance(Rules, order, Amt) \in Outcome
      /\ CompareMajority(Rules, order, Amt) \in Outcome
  <2> HIDE DEF Amt
  <2> QED  BY <1>2, <1>3, StrategiesType
<1>5. Pending \in Outcome /\ Mismatched(S, {}) \in Outcome /\ Mismatched(S, S) \in Outcome
  BY <1>1 DEF Pending, Mismatched, Outcome
<1>6. InvalidAmount.status = "ERROR"
  BY DEF InvalidAmount
<1>7. MatchRecords(recs, Rules, order, late) \in
        {Pending, Mismatched(S, {}), InvalidAmount, Mismatched(S, S),
         CompareExact(order, Amt), CompareWithTolerance(Rules, order, Amt),
         CompareMajority(Rules, order, Amt)}
  <2>1. Rules.strategy \in {"Exact", "Tolerance", "Majority"}
    BY EngineAssumption DEF IsRuleSet
  <2> QED  BY <2>1 DEF MatchRecords
<1> HIDE DEF S, Amt
<1> QED  BY <1>4, <1>5, <1>6, <1>7

\* Reading the records by their stamps gives the same records: as many of them,
\* from the same sources, so that the matcher's walks are the same too.
LEMMA ReadingIs ==
  ASSUME NEW recs \in Seq(Inputs), NEW read \in Readings(recs)
  PROVE  read \in Seq(Inputs) /\ Sources(read) = Sources(recs) /\ Orders(read) = Orders(recs)
<1>1. PICK q \in Bijection(DOMAIN recs, DOMAIN recs) : read = [i \in DOMAIN recs |-> recs[q[i]]]
  BY DEF Readings
<1>2. /\ q \in [DOMAIN recs -> DOMAIN recs]
      /\ \A j \in DOMAIN recs : \E i \in DOMAIN recs : q[i] = j
  BY DEF Bijection, Surjection
<1>3. /\ DOMAIN recs = 1..Len(recs) /\ Len(recs) \in Nat
      /\ \A i \in DOMAIN recs : recs[i] \in Inputs
  OBVIOUS
<1>4. DOMAIN read = 1..Len(recs) /\ \A i \in DOMAIN recs : read[i] = recs[q[i]]
  BY <1>1, <1>3
<1>5. read \in Seq(Inputs)
  <2>1. read \in [1..Len(recs) -> Inputs]
    BY <1>1, <1>2, <1>3
  <2> QED  BY <1>3, <2>1
<1>6. Sources(read) = Sources(recs)
  <2>1. \A i \in DOMAIN read : read[i].src \in Sources(recs)
    BY <1>2, <1>3, <1>4 DEF Sources
  <2>2. \A j \in DOMAIN recs : recs[j].src \in Sources(read)
    BY <1>2, <1>3, <1>4 DEF Sources
  <2> QED  BY <2>1, <2>2 DEF Sources
<1> QED  BY <1>5, <1>6 DEF Orders

\* What the matcher says is what it says of some reading, in some walk.
LEMMA OutcomeOf ==
  ASSUME NEW recs \in Seq(Inputs), NEW late \in BOOLEAN, NEW out \in Outcomes(recs, late)
  PROVE  \E read \in Seq(Inputs) : \E order \in Orders(read) :
           /\ Sources(read) = Sources(recs)
           /\ out = MatchRecords(read, Rules, order, late)
<1>1. PICK read \in Readings(recs) : \E order \in Orders(recs) :
        out = MatchRecords(read, Rules, order, late)
  BY DEF Outcomes
<1>2. read \in Seq(Inputs) /\ Sources(read) = Sources(recs) /\ Orders(read) = Orders(recs)
  BY ReadingIs
<1> QED  BY <1>1, <1>2

\* An outcome that is not an error is one of the three verdicts.
LEMMA OutcomesType ==
  ASSUME NEW recs \in Seq(Inputs), NEW late \in BOOLEAN, NEW out \in Outcomes(recs, late),
         out.status # "ERROR"
  PROVE  out \in Outcome
<1>1. PICK read \in Seq(Inputs) : \E order \in Orders(read) :
        out = MatchRecords(read, Rules, order, late)
  BY OutcomeOf
<1> QED  BY <1>1, MatchRecordsType

-----------------------------------------------------------------------------
(* Type correctness, in two halves: the processes and the rest             *)

ProcOK ==
  /\ proc \in [Procs -> Local]
  /\ \A p \in Procs : proc[p].pc # "idle" => proc[p].tx \in Tx

DataOK ==
  /\ records \in [Tx -> Seq(Inputs)]
  /\ shown \in [Tx -> Seq(Status)]
  /\ \A t \in Tx : Len(shown[t]) = Len(records[t])
  /\ recon \in [Tx -> Row \cup {NoRow}]
  /\ details \in [Tx -> [Systems -> {"none", "agrees", "deviates"}]]
  /\ audit \in [Tx -> Seq(AuditEntry)]
  /\ age \in [Tx -> Nat]
  /\ idle \in [Tx -> Nat]
  /\ batch \subseteq Tx
  /\ calls \in Nat /\ faults \in Nat
  /\ disturbed \subseteq Tx

LEMMA TypeHalves == TypeOK <=> ProcOK /\ DataOK
  BY DEF TypeOK, ProcOK, DataOK

LEMMA RestingType == Resting \in Local /\ Resting.pc = "idle"
  BY DEF Resting, Local, Steps, Pending, Outcome, Status

\* A step of a process changes its own locals, to locals that can be.
LEMMA LocalType ==
  ASSUME ProcOK, NEW p \in Procs, NEW l \in Local, l.pc # "idle" => l.tx \in Tx,
         proc' = [proc EXCEPT ![p] = l]
  PROVE  ProcOK'
  BY DEF ProcOK

\* Where a process goes after an attempt is a place it can be.
LEMMA AttemptEndType ==
  ASSUME ProcOK, NEW p \in Procs, proc[p].pc # "idle",
         proc' = AttemptDone(p) \/ proc' = AttemptFailed(p)
  PROVE  ProcOK'
<1> DEFINE fetch == [Resting EXCEPT !.pc = "fetch", !.tx = proc[p].tx,
                                    !.call = proc[p].call]
<1>1. fetch \in Local /\ fetch.tx \in Tx
  <2>1. Resting \in Local /\ proc[p] \in Local /\ proc[p].tx \in Tx
    BY RestingType DEF ProcOK
  <2> QED  BY <2>1 DEF Local, Steps
<1>2. proc' = [proc EXCEPT ![p] = fetch] \/ proc' = [proc EXCEPT ![p] = Resting]
  <2>1. CASE proc' = AttemptDone(p)
    BY <2>1 DEF AttemptDone, Fetching
  <2>2. CASE proc' = AttemptFailed(p)
    BY <2>2 DEF AttemptFailed, Fetching
  <2> QED  BY <2>1, <2>2
<1> HIDE DEF fetch
<1> QED  BY <1>1, <1>2, RestingType, LocalType

LEMMA InitType == Init => TypeOK
<1> SUFFICES ASSUME Init PROVE ProcOK /\ DataOK
  BY TypeHalves
<1>1. \A t \in Tx : records[t] = <<>> /\ shown[t] = <<>> /\ Len(shown[t]) = Len(records[t])
  BY DEF Init
<1>2. ProcOK
  BY RestingType DEF Init, ProcOK
<1> QED  BY <1>1, <1>2, EngineAssumption DEF Init, DataOK, Status

\* The ghost only ever gains transactions.
LEMMA JoinsType ==
  ASSUME DataOK, NEW p \in Procs, NEW t \in Tx, Joins(p, t)
  PROVE  disturbed' \subseteq Tx
  BY DEF Joins, DataOK

\* Each statement of reconcile_one.
LEMMA ReconcileType ==
  ASSUME ProcOK, DataOK, NEW p \in Procs, Reconcile(p)
  PROVE  ProcOK' /\ DataOK'
<1> DEFINE l == proc[p]  t == proc[p].tx
<1> USE DEF tables
<1>0. l \in Local /\ l.pc \in Steps /\ (l.pc # "idle" => t \in Tx)
  BY DEF ProcOK, Local
<1>1. CASE ReadOldStatus(p)
  <2> DEFINE old == IF recon[t] = NoRow THEN "NEW" ELSE recon[t].status
             m == [l EXCEPT !.pc = "read", !.old = old]
  <2>1. t \in Tx
    BY <1>0, <1>1 DEF ReadOldStatus
  <2>2. old \in Status \cup {"NEW"}
    BY <2>1 DEF DataOK, Row
  <2>3. m \in Local /\ m.tx \in Tx
    <3> HIDE DEF old
    <3> QED  BY <1>0, <2>1, <2>2 DEF Local, Steps
  <2>4. proc' = [proc EXCEPT ![p] = m]
    BY <1>1 DEF ReadOldStatus
  <2>5. ProcOK'
    <3> HIDE DEF m
    <3> QED  BY <2>3, <2>4, LocalType
  <2> QED  BY <1>1, <2>5 DEF ReadOldStatus, DataOK
<1>2. CASE FindNoRecords(p)
  <2>1. ProcOK'
    BY <1>2, AttemptEndType DEF FindNoRecords
  <2> QED  BY <1>2, <2>1 DEF FindNoRecords, DataOK
<1>3. CASE ReadAndMatch(p)
  <2>1. t \in Tx /\ records[t] \in Seq(Inputs) /\ records[t] # <<>>
    BY <1>0, <1>3 DEF ReadAndMatch, DataOK
  <2> DEFINE late == age[t] >= Timeout
  <2>2. PICK out \in Outcomes(records[t], late) :
          \/ /\ out.status = "ERROR"
             /\ proc' = AttemptFailed(p)
             /\ disturbed' = disturbed \cup {t}
          \/ /\ out.status # "ERROR"
             /\ proc' = [proc EXCEPT ![p].pc = "upsert", ![p].out = out,
                                     ![p].seen = Len(records[t])]
             /\ UNCHANGED disturbed
    BY <1>3 DEF ReadAndMatch
  <2>3. CASE out.status = "ERROR"
    <3>1. ProcOK'
      BY <1>3, <2>2, <2>3, AttemptEndType DEF ReadAndMatch
    <3> QED  BY <1>3, <2>1, <2>2, <2>3, <3>1 DEF ReadAndMatch, DataOK
  <2>4. CASE out.status # "ERROR"
    <3>1. out \in Outcome
      <4>1. late \in BOOLEAN
        OBVIOUS
      <4> HIDE DEF late
      <4> QED  BY <2>1, <2>4, <4>1, OutcomesType
    <3> DEFINE m == [l EXCEPT !.pc = "upsert", !.out = out, !.seen = Len(records[t])]
    <3>2. m \in Local /\ m.tx \in Tx
      <4>1. Len(records[t]) \in Nat
        BY <2>1
      <4> QED  BY <1>0, <2>1, <3>1, <4>1 DEF Local, Steps
    <3>3. proc' = [proc EXCEPT ![p] = m] /\ UNCHANGED disturbed
      BY <2>2, <2>4
    <3>4. ProcOK'
      <4> HIDE DEF m
      <4> QED  BY <3>2, <3>3, LocalType
    <3> QED  BY <1>3, <3>3, <3>4 DEF ReadAndMatch, DataOK
  <2> QED  BY <2>2, <2>3, <2>4
<1>4. CASE UpsertState(p)
  <2>1. t \in Tx /\ l.out \in Outcome /\ l.seen \in Nat
    BY <1>0, <1>4 DEF UpsertState, Local
  <2>2. Retry(t) \in Nat /\ (recon[t] # NoRow => recon[t].resolved \in BOOLEAN)
    BY <2>1 DEF Retry, DataOK, Row
  <2>3. Upserted(t, l.out, l.seen) \in Row
    <3>1. /\ MatchedSources(l.out) \subseteq Systems
          /\ MismatchedSources(l.out) \subseteq Systems
          /\ l.out.status \in Status
      BY <2>1 DEF MatchedSources, MismatchedSources, Outcome, Status
    <3> QED  BY <2>1, <2>2, <3>1 DEF Upserted, Row
  <2> DEFINE m == [l EXCEPT !.todo = l.out.results,
                            !.pc = IF l.out.results = {} THEN "audit" ELSE "details"]
  <2>4. m \in Local /\ m.tx \in Tx
    BY <1>0, <2>1 DEF Local, Steps, Outcome
  <2>5. proc' = [proc EXCEPT ![p] = m]
    BY <1>4 DEF UpsertState
  <2>6. ProcOK'
    <3> HIDE DEF m
    <3> QED  BY <2>4, <2>5, LocalType
  <2> QED  BY <1>4, <2>1, <2>3, <2>6 DEF UpsertState, DataOK
<1>5. CASE UpsertDetail(p)
  <2>1. t \in Tx /\ l.todo \subseteq Systems
    BY <1>0, <1>5 DEF UpsertDetail, Local
  <2>2. PICK s \in l.todo :
          /\ details' = [details EXCEPT ![t][s] =
                           IF s \in l.out.flagged THEN "deviates" ELSE "agrees"]
          /\ proc' = [proc EXCEPT ![p].todo = @ \ {s},
                                  ![p].pc = IF l.todo = {s} THEN "audit" ELSE "details"]
    BY <1>5 DEF UpsertDetail
  <2> DEFINE m == [l EXCEPT !.todo = l.todo \ {s},
                            !.pc = IF l.todo = {s} THEN "audit" ELSE "details"]
  <2>3. m \in Local /\ m.tx \in Tx
    BY <1>0, <2>1 DEF Local, Steps
  <2>4. proc' = [proc EXCEPT ![p] = m]
    BY <2>2
  <2>5. ProcOK'
    <3> HIDE DEF m
    <3> QED  BY <2>3, <2>4, LocalType
  <2>6. details' \in [Tx -> [Systems -> {"none", "agrees", "deviates"}]]
    BY <2>1, <2>2 DEF DataOK
  <2> QED  BY <1>5, <2>5, <2>6 DEF UpsertDetail, DataOK
<1>6. CASE AuditAttempt(p)
  <2>1. t \in Tx /\ l.pc = "audit"
    BY <1>0, <1>6 DEF AuditAttempt
  <2>2. Entry("MATCH_ATTEMPT", l.old, l.out.status) \in AuditEntry
    BY <1>0 DEF Local, Outcome, AuditEntry, Entry, Status
  <2>3. ProcOK'
    <3>1. CASE l.out.status = "PENDING"
      BY <1>6, <2>1, <3>1, AttemptEndType DEF AuditAttempt
    <3>2. CASE l.out.status # "PENDING"
      <4> DEFINE m == [l EXCEPT !.pc = "propagate"]
      <4>1. m \in Local /\ m.tx \in Tx
        BY <1>0, <2>1 DEF Local, Steps
      <4>2. proc' = [proc EXCEPT ![p] = m]
        BY <1>6, <3>2 DEF AuditAttempt
      <4> HIDE DEF m
      <4> QED  BY <4>1, <4>2, LocalType
    <3> QED  BY <3>1, <3>2
  <2>4. audit' \in [Tx -> Seq(AuditEntry)]
    BY <1>6, <2>1, <2>2 DEF AuditAttempt, DataOK
  <2> QED  BY <1>6, <2>3, <2>4 DEF AuditAttempt, DataOK
<1>7. CASE Propagate(p)
  <2>1. t \in Tx /\ l.out.status \in Status
    BY <1>0, <1>7 DEF Propagate, Local, Outcome, Status
  <2>2. ProcOK'
    BY <1>7, AttemptEndType DEF Propagate
  <2> DEFINE sh == [i \in DOMAIN shown[t] |-> l.out.status]
  <2>3. sh \in Seq(Status) /\ Len(sh) = Len(shown[t])
    <3>1. shown[t] \in Seq(Status) /\ DOMAIN shown[t] = 1..Len(shown[t]) /\ Len(shown[t]) \in Nat
      BY <2>1 DEF DataOK
    <3> QED  BY <2>1, <3>1
  <2>4. shown' = [shown EXCEPT ![t] = sh]
    BY <1>7 DEF Propagate
  <2>5. shown' \in [Tx -> Seq(Status)] /\ \A u \in Tx : Len(shown'[u]) = Len(records[u])
    <3> HIDE DEF sh
    <3> QED  BY <2>1, <2>3, <2>4 DEF DataOK
  <2> QED  BY <1>7, <2>2, <2>5 DEF Propagate, DataOK
<1> QED  BY <1>1, <1>2, <1>3, <1>4, <1>5, <1>6, <1>7 DEF Reconcile

\* A call puts a handler at a step of its own, about the transaction asked for.
LEMMA CallType ==
  ASSUME ProcOK, DataOK, NEW p \in Rpc, NEW t \in Tx,
         NEW call \in {"get", "retrigger"}, NEW pc \in Steps, Call(p, t, call, pc)
  PROVE  ProcOK' /\ calls' \in Nat
<1> DEFINE m == [Resting EXCEPT !.pc = pc, !.tx = t, !.call = call]
<1>1. m \in Local /\ m.tx \in Tx
  BY RestingType DEF Local
<1>2. proc' = [proc EXCEPT ![p] = m] /\ p \in Procs /\ calls' = calls + 1
  BY DEF Call, Procs
<1>3. calls' \in Nat
  BY <1>2 DEF DataOK
<1> HIDE DEF m
<1> QED  BY <1>1, <1>2, <1>3, LocalType

LEMMA TypeStep == TypeOK /\ [Next]_vars => TypeOK'
<1> SUFFICES ASSUME ProcOK, DataOK, [Next]_vars PROVE ProcOK' /\ DataOK'
  BY DEF TypeOK, ProcOK, DataOK
<1> USE DEF tables
<1>a. \A n, m \in Nat : UpTo(n, m) \in Nat
  BY DEF UpTo
<1>b. Worker \in Procs /\ Rpc \subseteq Procs
  BY DEF Procs
<1>1. CASE UNCHANGED vars
  BY <1>1 DEF vars, ProcOK, DataOK
<1>2. ASSUME NEW t \in Tx, NEW r \in Inputs, Ingest(t, r) PROVE ProcOK' /\ DataOK'
  <2>1. records' \in [Tx -> Seq(Inputs)] /\ shown' \in [Tx -> Seq(Status)]
    BY <1>2 DEF Ingest, DataOK, Status
  <2>2. \A u \in Tx : Len(shown'[u]) = Len(records'[u])
    BY <1>2 DEF Ingest, DataOK, Status
  <2>3. age' \in [Tx -> Nat]
    <3>1. age[t] \in Nat /\ Timeout \in Nat
      BY EngineAssumption DEF DataOK
    <3>2. age' = age \/ \E older \in Nat : age' = [age EXCEPT ![t] = older]
      <4>1. age' = age \/ \E older \in age[t]..Timeout : age' = [age EXCEPT ![t] = older]
        BY <1>2 DEF Ingest
      <4>2. age[t]..Timeout \subseteq Nat
        BY <3>1
      <4> QED  BY <4>1, <4>2
    <3> QED  BY <3>2 DEF DataOK
  <2> QED  BY <1>2, <2>1, <2>2, <2>3 DEF Ingest, ProcOK, DataOK
<1>3. CASE Tick
  <2>1. Backoff + 1 \in Nat /\ Timeout \in Nat
    BY EngineAssumption
  <2>2. \A t \in Tx : age[t] + 1 \in Nat /\ idle[t] + 1 \in Nat
    BY DEF DataOK
  <2>3. age' \in [Tx -> Nat] /\ idle' \in [Tx -> Nat]
    BY <1>3, <1>a, <2>1, <2>2 DEF Tick
  <2> QED  BY <1>3, <2>3 DEF Tick, ProcOK, DataOK
<1>4. CASE Poll
  BY <1>4 DEF Poll, Lowest, ProcOK, DataOK
<1>5. CASE TakeUp
  <2>1. PICK t \in batch : /\ batch' = batch \ {t}
                           /\ proc' = [proc EXCEPT ![Worker] =
                                [Resting EXCEPT !.pc = "old", !.tx = t, !.call = "worker"]]
                           /\ Joins(Worker, t)
    BY <1>5 DEF TakeUp
  <2> DEFINE m == [Resting EXCEPT !.pc = "old", !.tx = t, !.call = "worker"]
  <2>2. t \in Tx
    BY DEF DataOK
  <2>3. m \in Local /\ m.tx \in Tx
    BY <2>2, RestingType DEF Local, Steps
  <2>4. ProcOK'
    <3>1. proc' = [proc EXCEPT ![Worker] = m]
      BY <2>1
    <3> HIDE DEF m
    <3> QED  BY <1>b, <2>3, <3>1, LocalType
  <2>5. disturbed' \subseteq Tx
    BY <1>b, <2>1, <2>2, JoinsType
  <2> QED  BY <1>5, <2>1, <2>4, <2>5 DEF TakeUp, DataOK
<1>6. CASE Reconcile(Worker)
  BY <1>6, <1>b, ReconcileType
<1>7. ASSUME NEW p \in Rpc, Handle(p) PROVE ProcOK' /\ DataOK'
  <2>1. CASE Reconcile(p)
    BY <1>b, <2>1, ReconcileType
  <2>2. CASE AuditReTrigger(p)
    <3> DEFINE t == proc[p].tx  m == [proc[p] EXCEPT !.pc = "old"]
    <3>1. t \in Tx /\ m \in Local
      BY <1>b, <2>2 DEF AuditReTrigger, ProcOK, Local, Steps
    <3>2. ProcOK'
      <4>1. proc' = [proc EXCEPT ![p] = m] /\ m.tx \in Tx
        BY <1>b, <2>2, <3>1 DEF AuditReTrigger, ProcOK, Local
      <4> HIDE DEF m
      <4> QED  BY <1>b, <3>1, <4>1, LocalType
    <3>3. Entry("RETRIGGER", "none", "PENDING") \in AuditEntry
      BY DEF Entry, AuditEntry, Status
    <3>4. audit' \in [Tx -> Seq(AuditEntry)]
      BY <2>2, <3>1, <3>3 DEF AuditReTrigger, DataOK
    <3> QED  BY <2>2, <3>2, <3>4 DEF AuditReTrigger, DataOK
  <2>3. CASE Answer(p)
    <3>1. proc' = [proc EXCEPT ![p] = Resting] /\ p \in Procs
      BY <1>b, <2>3 DEF Answer
    <3>2. ProcOK'
      BY <3>1, RestingType, LocalType
    <3> QED  BY <2>3, <3>2 DEF Answer, DataOK
  <2> QED  BY <1>7, <2>1, <2>2, <2>3 DEF Handle
<1>8. ASSUME NEW p \in Rpc, NEW t \in Tx, Request(p, t) PROVE ProcOK' /\ DataOK'
  <2>1. CASE GetKnown(p, t)
    <3>1. ProcOK' /\ calls' \in Nat
      BY <2>1, CallType DEF GetKnown, Steps
    <3> QED  BY <2>1, <3>1 DEF GetKnown, DataOK
  <2>2. CASE GetUnknown(p, t)
    <3>1. ProcOK' /\ calls' \in Nat
      BY <2>2, CallType DEF GetUnknown, Steps
    <3>2. disturbed' \subseteq Tx
      BY <1>b, <2>2, JoinsType DEF GetUnknown
    <3> QED  BY <2>2, <3>1, <3>2 DEF GetUnknown, DataOK
  <2>3. CASE ReTrigger(p, t)
    <3>1. ProcOK' /\ calls' \in Nat
      BY <2>3, CallType DEF ReTrigger, Steps
    <3>2. disturbed' \subseteq Tx
      BY <1>b, <2>3, JoinsType DEF ReTrigger
    <3>3. recon' \in [Tx -> Row \cup {NoRow}]
      <4>1. CASE recon[t] = NoRow
        BY <2>3, <4>1 DEF ReTrigger, DataOK
      <4>2. CASE recon[t] # NoRow
        <5> DEFINE row == [recon[t] EXCEPT !.status = "PENDING", !.retry = 0]
        <5>1. row \in Row
          BY <4>2 DEF DataOK, Row, Status
        <5>2. recon' = [recon EXCEPT ![t] = row]
          BY <2>3, <4>2 DEF ReTrigger
        <5> HIDE DEF row
        <5> QED  BY <5>1, <5>2 DEF DataOK
      <4> QED  BY <4>1, <4>2
    <3>4. idle' \in [Tx -> Nat]
      BY <2>3, EngineAssumption DEF ReTrigger, DataOK
    <3> QED  BY <2>3, <3>1, <3>2, <3>3, <3>4 DEF ReTrigger, DataOK
  <2> QED  BY <1>8, <2>1, <2>2, <2>3 DEF Request
<1>9. ASSUME NEW p \in Procs, Fault(p) PROVE ProcOK' /\ DataOK'
  <2>1. proc[p].pc # "idle" /\ proc[p] \in Local /\ proc[p].tx \in Tx
    BY <1>9 DEF Fault, ProcOK
  <2>2. ProcOK'
    <3> DEFINE m == [proc[p] EXCEPT !.pc = "old"]
    <3>1. m \in Local /\ m.tx \in Tx
      BY <2>1 DEF Local, Steps
    <3>2. \/ proc' = [proc EXCEPT ![p] = m]
          \/ proc' = [proc EXCEPT ![p] = Resting]
          \/ proc' = AttemptFailed(p)
      BY <1>9 DEF Fault
    <3> HIDE DEF m
    <3> QED  BY <2>1, <3>1, <3>2, LocalType, AttemptEndType, RestingType
  <2> QED  BY <1>9, <2>1, <2>2 DEF Fault, DataOK
<1>10. CASE Crash
  <2>1. ProcOK'
    BY <1>10, RestingType DEF Crash, ProcOK
  <2> QED  BY <1>10, <2>1 DEF Crash, DataOK
<1> QED
  BY <1>1, <1>2, <1>3, <1>4, <1>5, <1>6, <1>7, <1>8, <1>9, <1>10 DEF Next, WorkerStep

\* Every reachable state of the engine is well typed: in particular a verdict
\* names known sources, the status column has one entry per record, and a
\* process that runs knows its transaction.
THEOREM TypeCorrect == Spec => []TypeOK
  BY InitType, TypeStep, PTL DEF Spec

-----------------------------------------------------------------------------
(* What a step can do to one process                                       *)

\* AttemptDone and AttemptFailed leave a process idle or about to fetch, and
\* touch no other.
LEMMA AttemptEndLocal ==
  ASSUME TypeOK, NEW p \in Procs, NEW q \in Procs,
         proc' = AttemptDone(p) \/ proc' = AttemptFailed(p)
  PROVE  proc'[q] = proc[q] \/ proc'[q].pc \in {"idle", "fetch"}
<1>1. proc \in [Procs -> Local]
  BY DEF TypeOK
<1>2. CASE proc' = AttemptDone(p)
  BY <1>1, <1>2 DEF AttemptDone, Fetching, Resting
<1>3. CASE proc' = AttemptFailed(p)
  BY <1>1, <1>3 DEF AttemptFailed, Fetching, Resting
<1> QED  BY <1>2, <1>3

\* A process comes to hold an outcome it is about to write only by matching,
\* and one it is about to propagate only by writing the audit entry.
LEMMA ProcStep ==
  ASSUME TypeOK, [Next]_vars, NEW q \in Procs
  PROVE  \/ proc'[q] = proc[q]
         \/ proc'[q].pc \in {"idle", "fetch", "mark", "old", "read", "details", "audit"}
         \/ ReadAndMatch(q) /\ proc'[q].pc = "upsert"
         \/ AuditAttempt(q) /\ proc'[q].pc = "propagate"
<1> DEFINE Goal == \/ proc'[q] = proc[q]
                   \/ proc'[q].pc \in {"idle", "fetch", "mark", "old", "read", "details", "audit"}
                   \/ ReadAndMatch(q) /\ proc'[q].pc = "upsert"
                   \/ AuditAttempt(q) /\ proc'[q].pc = "propagate"
<1>0. proc \in [Procs -> Local] /\ Worker \in Procs /\ Rpc \subseteq Procs
  BY DEF TypeOK, Procs
<1>1. CASE UNCHANGED vars
  BY <1>1 DEF vars
<1>2. CASE \E t \in Tx, r \in Inputs : Ingest(t, r)
  BY <1>2 DEF Ingest
<1>3. CASE Tick \/ Poll
  BY <1>3 DEF Tick, Poll
<1>4. CASE TakeUp
  BY <1>0, <1>4 DEF TakeUp, Resting
<1>5. ASSUME NEW p \in Procs, Reconcile(p) PROVE Goal
  <2>1. proc[p] \in Local
    BY <1>0
  <2>2. CASE ReadOldStatus(p)
    BY <1>0, <2>1, <2>2 DEF ReadOldStatus, Local
  <2>3. CASE FindNoRecords(p)
    BY <2>3, AttemptEndLocal DEF FindNoRecords
  <2>4. CASE ReadAndMatch(p)
    <3>1. \/ proc' = AttemptFailed(p)
          \/ \E out, seen : proc' = [proc EXCEPT ![p].pc = "upsert", ![p].out = out,
                                                 ![p].seen = seen]
      BY <2>4 DEF ReadAndMatch
    <3>2. CASE proc' = AttemptFailed(p)
      BY <3>2, AttemptEndLocal
    <3>3. ASSUME NEW out, NEW seen, proc' = [proc EXCEPT ![p].pc = "upsert", ![p].out = out,
                                                         ![p].seen = seen]
          PROVE  Goal
      <4>1. CASE p = q
        <5>1. proc'[q].pc = "upsert"
          BY <1>0, <2>1, <3>3, <4>1 DEF Local
        <5> QED  BY <2>4, <4>1, <5>1
      <4>2. CASE p # q
        BY <1>0, <3>3, <4>2
      <4> QED  BY <4>1, <4>2
    <3> QED  BY <3>1, <3>2, <3>3
  <2>5. CASE UpsertState(p)
    BY <1>0, <2>1, <2>5 DEF UpsertState, Local
  <2>6. CASE UpsertDetail(p)
    <3>1. PICK s \in proc[p].todo :
             proc' = [proc EXCEPT ![p].todo = @ \ {s},
                        ![p].pc = IF proc[p].todo = {s} THEN "audit" ELSE "details"]
      BY <2>6 DEF UpsertDetail
    <3> QED  BY <1>0, <2>1, <3>1 DEF Local
  <2>7. CASE AuditAttempt(p)
    <3>1. CASE proc[p].out.status = "PENDING"
      BY <2>7, <3>1, AttemptEndLocal DEF AuditAttempt
    <3>2. CASE proc[p].out.status # "PENDING"
      <4>1. proc' = [proc EXCEPT ![p].pc = "propagate"]
        BY <2>7, <3>2 DEF AuditAttempt
      <4>2. CASE p = q
        <5>1. proc'[q].pc = "propagate"
          BY <1>0, <2>1, <4>1, <4>2 DEF Local
        <5> QED  BY <2>7, <4>2, <5>1
      <4>3. CASE p # q
        BY <1>0, <4>1, <4>3
      <4> QED  BY <4>2, <4>3
    <3> QED  BY <3>1, <3>2
  <2>8. CASE Propagate(p)
    BY <2>8, AttemptEndLocal DEF Propagate
  <2> QED  BY <1>5, <2>2, <2>3, <2>4, <2>5, <2>6, <2>7, <2>8 DEF Reconcile
<1>6. ASSUME NEW p \in Rpc, AuditReTrigger(p) \/ Answer(p) PROVE Goal
  <2>1. p \in Procs /\ proc[p] \in Local
    BY <1>0
  <2>2. CASE AuditReTrigger(p)
    <3>1. proc' = [proc EXCEPT ![p].pc = "old"]
      BY <2>2 DEF AuditReTrigger
    <3> QED  BY <1>0, <2>1, <3>1 DEF Local
  <2>3. CASE Answer(p)
    BY <1>0, <2>1, <2>3 DEF Answer, Resting
  <2> QED  BY <1>6, <2>2, <2>3
<1>7. ASSUME NEW p \in Rpc, NEW t \in Tx, Request(p, t) PROVE Goal
  <2>1. PICK pc \in {"fetch", "old", "mark"}, call \in {"get", "retrigger"} :
           proc' = [proc EXCEPT ![p] = [Resting EXCEPT !.pc = pc, !.tx = t, !.call = call]]
    BY <1>7 DEF Request, GetKnown, GetUnknown, ReTrigger, Call
  <2> QED  BY <1>0, <2>1 DEF Resting
<1>8. ASSUME NEW p \in Procs, Fault(p) PROVE Goal
  <2>1. \/ proc' = [proc EXCEPT ![p].pc = "old"]
        \/ proc' = [proc EXCEPT ![p] = Resting]
        \/ proc' = AttemptFailed(p)
    BY <1>8 DEF Fault
  <2>2. CASE proc' = [proc EXCEPT ![p].pc = "old"]
    BY <1>0, <2>2 DEF Local
  <2>3. CASE proc' = [proc EXCEPT ![p] = Resting]
    BY <1>0, <2>3 DEF Resting
  <2>4. CASE proc' = AttemptFailed(p)
    BY <2>4, AttemptEndLocal
  <2> QED  BY <2>1, <2>2, <2>3, <2>4
<1>9. CASE Crash
  BY <1>9 DEF Crash, Resting
<1> QED
  BY <1>0, <1>1, <1>2, <1>3, <1>4, <1>5, <1>6, <1>7, <1>8, <1>9 DEF Next, WorkerStep, Handle

-----------------------------------------------------------------------------
(* What is shown is audited                                                *)

Audited(log, status) ==
  \E j \in DOMAIN log : log[j].event = "MATCH_ATTEMPT" /\ log[j].new = status

\* ShownIsAudited is not inductive: a process between its audit entry and its
\* update of the status column must already be covered by the log.
AuditInv ==
  /\ ShownIsAudited
  /\ \A p \in Procs : proc[p].pc = "propagate" => Audited(audit[proc[p].tx], proc[p].out.status)

\* The audit log is append-only.
LEMMA AuditGrows ==
  ASSUME TypeOK, [Next]_vars, NEW t \in Tx
  PROVE  audit'[t] = audit[t] \/ \E e \in AuditEntry : audit'[t] = Append(audit[t], e)
<1> USE DEF tables
<1> DEFINE Goal == audit'[t] = audit[t] \/ \E e \in AuditEntry : audit'[t] = Append(audit[t], e)
<1>0. audit \in [Tx -> Seq(AuditEntry)] /\ proc \in [Procs -> Local]
  BY DEF TypeOK
<1>a. Worker \in Procs /\ Rpc \subseteq Procs
  BY DEF Procs
<1>1. ASSUME UNCHANGED audit PROVE Goal
  BY <1>1
<1>2. ASSUME NEW p \in Procs, Reconcile(p) PROVE Goal
  <2>1. CASE AuditAttempt(p)
    <3> DEFINE e == Entry("MATCH_ATTEMPT", proc[p].old, proc[p].out.status)
    <3>1. e \in AuditEntry
      BY <1>0 DEF Local, Outcome, AuditEntry, Entry, Status
    <3>2. audit' = [audit EXCEPT ![proc[p].tx] = Append(@, e)]
      BY <2>1 DEF AuditAttempt
    <3> HIDE DEF e
    <3> QED  BY <1>0, <3>1, <3>2
  <2>2. CASE ~AuditAttempt(p)
    BY <1>1, <1>2, <2>2 DEF Reconcile, ReadOldStatus, FindNoRecords, ReadAndMatch, UpsertState,
                      UpsertDetail, Propagate
  <2> QED  BY <2>1, <2>2
<1>3. ASSUME NEW p \in Rpc, AuditReTrigger(p) PROVE Goal
  <2> DEFINE e == Entry("RETRIGGER", "none", "PENDING")
  <2>1. e \in AuditEntry
    BY DEF AuditEntry, Entry, Status
  <2>2. audit' = [audit EXCEPT ![proc[p].tx] = Append(@, e)]
    BY <1>3 DEF AuditReTrigger
  <2> HIDE DEF e
  <2> QED  BY <1>0, <2>1, <2>2
<1>4. ASSUME NEW p \in Rpc, NEW u \in Tx, Request(p, u) PROVE Goal
  BY <1>1, <1>4 DEF Request, GetKnown, GetUnknown, ReTrigger
<1>5. CASE UNCHANGED vars
  BY <1>1, <1>5 DEF vars
<1>6. CASE \E u \in Tx, r \in Inputs : Ingest(u, r)
  BY <1>1, <1>6 DEF Ingest
<1>7. CASE Tick \/ Poll \/ TakeUp \/ Crash
  BY <1>1, <1>7 DEF Tick, Poll, TakeUp, Crash
<1>8. CASE \E p \in Rpc : Answer(p)
  BY <1>1, <1>8 DEF Answer
<1>9. CASE \E p \in Procs : Fault(p)
  BY <1>1, <1>9 DEF Fault
<1> QED
  BY <1>a, <1>2, <1>3, <1>4, <1>5, <1>6, <1>7, <1>8, <1>9 DEF Next, WorkerStep, Handle

LEMMA AuditedStays ==
  ASSUME TypeOK, [Next]_vars, NEW t \in Tx, NEW status, Audited(audit[t], status)
  PROVE  Audited(audit'[t], status)
<1>1. audit[t] \in Seq(AuditEntry)
  BY DEF TypeOK
<1>2. PICK j \in DOMAIN audit[t] :
         audit[t][j].event = "MATCH_ATTEMPT" /\ audit[t][j].new = status
  BY DEF Audited
<1>3. j \in DOMAIN audit'[t] /\ audit'[t][j] = audit[t][j]
  <2>1. CASE audit'[t] = audit[t]
    BY <2>1, <1>2
  <2>2. ASSUME NEW e \in AuditEntry, audit'[t] = Append(audit[t], e)
        PROVE  j \in DOMAIN audit'[t] /\ audit'[t][j] = audit[t][j]
    BY <1>1, <1>2, <2>2, AppendProperties
  <2> QED  BY <2>1, <2>2, AuditGrows
<1> QED  BY <1>2, <1>3 DEF Audited

\* The status column changes only by a new row and by a propagation.
LEMMA ShownStep ==
  ASSUME TypeOK, [Next]_vars, NEW t \in Tx, NEW i \in DOMAIN shown'[t],
         shown'[t][i] # "PENDING"
  PROVE  \/ i \in DOMAIN shown[t] /\ shown'[t][i] = shown[t][i]
         \/ \E p \in Procs : /\ proc[p].pc = "propagate" /\ proc[p].tx = t
                             /\ shown'[t][i] = proc[p].out.status
<1> USE DEF tables
<1> DEFINE Goal == \/ i \in DOMAIN shown[t] /\ shown'[t][i] = shown[t][i]
                   \/ \E p \in Procs : /\ proc[p].pc = "propagate" /\ proc[p].tx = t
                                       /\ shown'[t][i] = proc[p].out.status
<1>0. shown \in [Tx -> Seq(Status)] /\ proc \in [Procs -> Local]
  BY DEF TypeOK
<1>a. Worker \in Procs /\ Rpc \subseteq Procs
  BY DEF Procs
<1>1. ASSUME UNCHANGED shown PROVE Goal
  BY <1>1
<1>2. ASSUME NEW p \in Procs, Reconcile(p) PROVE Goal
  <2>1. CASE Propagate(p)
    <3>1. CASE proc[p].tx = t
      BY <1>0, <2>1, <3>1 DEF Propagate
    <3>2. CASE proc[p].tx # t
      BY <1>0, <2>1, <3>2 DEF Propagate
    <3> QED  BY <3>1, <3>2
  <2>2. CASE ~Propagate(p)
    BY <1>1, <1>2, <2>2 DEF Reconcile, ReadOldStatus, FindNoRecords, ReadAndMatch, UpsertState,
                      UpsertDetail, AuditAttempt
  <2> QED  BY <2>1, <2>2
<1>3. ASSUME NEW u \in Tx, NEW r \in Inputs, Ingest(u, r) PROVE Goal
  <2>1. shown' = [shown EXCEPT ![u] = Append(@, "PENDING")]
    BY <1>3 DEF Ingest
  <2>2. CASE u # t
    BY <1>0, <2>1, <2>2
  <2>3. CASE u = t
    <3>1. shown[t] \in Seq(Status) /\ shown'[t] = Append(shown[t], "PENDING")
      BY <1>0, <2>1, <2>3
    <3>2. i \in 1..(Len(shown[t]) + 1)
      BY <3>1
    <3>3. i # Len(shown[t]) + 1
      BY <3>1
    <3> QED  BY <3>1, <3>2, <3>3
  <2> QED  BY <2>2, <2>3
<1>4. ASSUME NEW p \in Rpc, NEW u \in Tx, Request(p, u) PROVE Goal
  BY <1>1, <1>4 DEF Request, GetKnown, GetUnknown, ReTrigger
<1>5. CASE UNCHANGED vars
  BY <1>1, <1>5 DEF vars
<1>6. CASE Tick \/ Poll \/ TakeUp \/ Crash
  BY <1>1, <1>6 DEF Tick, Poll, TakeUp, Crash
<1>7. CASE \E p \in Rpc : Answer(p) \/ AuditReTrigger(p)
  BY <1>1, <1>7 DEF Answer, AuditReTrigger
<1>8. CASE \E p \in Procs : Fault(p)
  BY <1>1, <1>8 DEF Fault
<1> QED
  BY <1>a, <1>2, <1>3, <1>4, <1>5, <1>6, <1>7, <1>8 DEF Next, WorkerStep, Handle

LEMMA AuditStep == TypeOK /\ TypeOK' /\ AuditInv /\ [Next]_vars => AuditInv'
<1> SUFFICES ASSUME TypeOK, TypeOK', AuditInv, [Next]_vars PROVE AuditInv'
  OBVIOUS
<1>1. ASSUME NEW t \in Tx, NEW i \in DOMAIN shown'[t], shown'[t][i] # "PENDING"
      PROVE  Audited(audit'[t], shown'[t][i])
  <2>1. CASE i \in DOMAIN shown[t] /\ shown'[t][i] = shown[t][i]
    <3>1. Audited(audit[t], shown[t][i])
      BY <1>1, <2>1 DEF AuditInv, ShownIsAudited, Audited
    <3> QED  BY <2>1, <3>1, AuditedStays
  <2>2. ASSUME NEW p \in Procs, proc[p].pc = "propagate", proc[p].tx = t,
               shown'[t][i] = proc[p].out.status
        PROVE  Audited(audit'[t], shown'[t][i])
    <3>1. Audited(audit[t], proc[p].out.status)
      BY <2>2 DEF AuditInv
    <3> QED  BY <2>2, <3>1, AuditedStays
  <2> QED  BY <1>1, <2>1, <2>2, ShownStep
<1>2. ASSUME NEW p \in Procs, proc'[p].pc = "propagate"
      PROVE  Audited(audit'[proc'[p].tx], proc'[p].out.status)
  <2>1. CASE proc'[p] = proc[p]
    <3>1. proc[p].tx \in Tx /\ Audited(audit[proc[p].tx], proc[p].out.status)
      BY <1>2, <2>1 DEF AuditInv, TypeOK
    <3> QED  BY <2>1, <3>1, AuditedStays
  <2>2. CASE AuditAttempt(p)
    <3> DEFINE t == proc[p].tx
               e == Entry("MATCH_ATTEMPT", proc[p].old, proc[p].out.status)
    <3>1. t \in Tx /\ audit[t] \in Seq(AuditEntry)
      BY <2>2 DEF AuditAttempt, TypeOK
    <3>2. audit'[t] = Append(audit[t], e)
      BY <2>2, <3>1 DEF AuditAttempt, TypeOK
    <3>3. /\ Len(audit[t]) + 1 \in DOMAIN audit'[t]
          /\ audit'[t][Len(audit[t]) + 1] = e
      <4> HIDE DEF e
      <4> QED  BY <3>1, <3>2
    <3>4. proc'[p].tx = proc[p].tx /\ proc'[p].out = proc[p].out
      <4>1. proc[p] \in Local /\ proc \in [Procs -> Local]
        BY DEF TypeOK
      <4>2. proc' # AttemptDone(p) \/ proc'[p] = proc[p]
        BY <1>2, AttemptEndLocal
      <4>3. proc'[p] = proc[p] \/ proc' = [proc EXCEPT ![p].pc = "propagate"]
        BY <2>2, <4>2 DEF AuditAttempt
      <4> QED  BY <4>1, <4>3 DEF Local
    <3>5. e.event = "MATCH_ATTEMPT" /\ e.new = proc[p].out.status
      BY DEF Entry
    <3> QED  BY <3>3, <3>4, <3>5 DEF Audited
  <2> QED  BY <1>2, <2>1, <2>2, ProcStep
<1> QED  BY <1>1, <1>2 DEF AuditInv, ShownIsAudited, Audited

\* No verdict is shown to readers of ingestion_records that the audit log does
\* not hold, whatever overlaps, fails or crashes.
THEOREM ShownAudited == Spec => []ShownIsAudited
<1>1. Init => AuditInv
  BY DEF Init, AuditInv, ShownIsAudited, Resting, Audited
<1>2. AuditInv => ShownIsAudited
  BY DEF AuditInv
<1> QED  BY <1>1, <1>2, AuditStep, TypeCorrect, PTL DEF Spec

-----------------------------------------------------------------------------
(* Verdicts come from the records they count                               *)

\* An outcome is one the matcher gives for these records, at one time or another.
Judged(recs, out) == \E late \in BOOLEAN : out \in Outcomes(recs, late)

\* The row of t records a verdict that its first count records justify.
RowJustified(row, recs) ==
  row.status # "PENDING" =>
    \E late \in BOOLEAN : \E out \in Outcomes(SubSeq(recs, 1, row.count), late) :
      /\ row.status = out.status
      /\ row.matched = MatchedSources(out)
      /\ row.mismatched = MismatchedSources(out)

\* VerdictFromSnapshot is not inductive: the outcome in the hands of a process
\* about to write it must be judged from its records too, and no row may count records that
\* are not there, since those that arrive later would come to justify it.
SnapshotInv ==
  /\ \A p \in Procs : proc[p].pc = "upsert" =>
       /\ proc[p].seen =< Len(records[proc[p].tx])
       /\ Judged(SubSeq(records[proc[p].tx], 1, proc[p].seen), proc[p].out)
  /\ \A t \in Tx : recon[t] # NoRow =>
       /\ recon[t].count =< Len(records[t])
       /\ RowJustified(recon[t], records[t])

\* Records are never changed or removed.
LEMMA RecordsGrow ==
  ASSUME TypeOK, [Next]_vars, NEW t \in Tx
  PROVE  records'[t] = records[t] \/ \E r \in Inputs : records'[t] = Append(records[t], r)
<1> USE DEF tables
<1> DEFINE Goal == records'[t] = records[t] \/ \E r \in Inputs : records'[t] = Append(records[t], r)
<1>1. ASSUME UNCHANGED records PROVE Goal
  BY <1>1
<1>2. ASSUME NEW u \in Tx, NEW r \in Inputs, Ingest(u, r) PROVE Goal
  BY <1>2 DEF Ingest, TypeOK
<1>3. CASE UNCHANGED vars
  BY <1>1, <1>3 DEF vars
<1>4. CASE Tick \/ Poll \/ TakeUp \/ Crash
  BY <1>1, <1>4 DEF Tick, Poll, TakeUp, Crash
<1>5. CASE \E p \in Procs : Reconcile(p)
  BY <1>1, <1>5 DEF Reconcile, ReadOldStatus, FindNoRecords, ReadAndMatch, UpsertState,
                    UpsertDetail, AuditAttempt, Propagate
<1>6. CASE \E p \in Rpc : Answer(p) \/ AuditReTrigger(p) \/ \E u \in Tx : Request(p, u)
  BY <1>1, <1>6 DEF Answer, AuditReTrigger, Request, GetKnown, GetUnknown, ReTrigger
<1>7. CASE \E p \in Procs : Fault(p)
  BY <1>1, <1>7 DEF Fault
<1> QED
  BY <1>2, <1>3, <1>4, <1>5, <1>6, <1>7 DEF Next, WorkerStep, Handle, Procs

\* So a prefix that a process has read stays the prefix.
LEMMA PrefixStays ==
  ASSUME TypeOK, [Next]_vars, NEW t \in Tx, NEW n \in Nat, n =< Len(records[t])
  PROVE  /\ n =< Len(records'[t])
         /\ SubSeq(records'[t], 1, n) = SubSeq(records[t], 1, n)
<1>1. records[t] \in Seq(Inputs)
  BY DEF TypeOK
<1>2. ASSUME NEW r \in Inputs, records'[t] = Append(records[t], r)
      PROVE  /\ n =< Len(records'[t])
             /\ SubSeq(records'[t], 1, n) = SubSeq(records[t], 1, n)
  <2>1. /\ Append(records[t], r) \in Seq(Inputs)
        /\ Len(Append(records[t], r)) = Len(records[t]) + 1
        /\ \A i \in 1..Len(records[t]) : Append(records[t], r)[i] = records[t][i]
    BY <1>1, AppendProperties
  <2>2. \A i \in 1..n : Append(records[t], r)[i] = records[t][i]
    BY <1>1, <2>1
  <2> QED  BY <1>1, <1>2, <2>1, <2>2
<1> QED  BY <1>1, <1>2, RecordsGrow

\* A row changes by a reset or by the upsert of an attempt.
LEMMA ReconStep ==
  ASSUME TypeOK, [Next]_vars, NEW t \in Tx
  PROVE  \/ recon'[t] = recon[t]
         \/ recon[t] # NoRow /\ recon'[t] = [recon[t] EXCEPT !.status = "PENDING", !.retry = 0]
         \/ \E p \in Procs : /\ proc[p].pc = "upsert" /\ proc[p].tx = t
                             /\ recon'[t] = Upserted(t, proc[p].out, proc[p].seen)
<1> USE DEF tables
<1> DEFINE Goal ==
      \/ recon'[t] = recon[t]
      \/ recon[t] # NoRow /\ recon'[t] = [recon[t] EXCEPT !.status = "PENDING", !.retry = 0]
      \/ \E p \in Procs : /\ proc[p].pc = "upsert" /\ proc[p].tx = t
                          /\ recon'[t] = Upserted(t, proc[p].out, proc[p].seen)
<1>0. recon \in [Tx -> Row \cup {NoRow}]
  BY DEF TypeOK
<1>1. ASSUME UNCHANGED recon PROVE Goal
  BY <1>1
<1>2. ASSUME NEW p \in Procs, Reconcile(p) PROVE Goal
  <2>1. CASE UpsertState(p)
    <3>1. recon' = [recon EXCEPT ![proc[p].tx] =
                      Upserted(proc[p].tx, proc[p].out, proc[p].seen)]
      BY <2>1 DEF UpsertState
    <3>2. CASE proc[p].tx = t
      BY <1>0, <2>1, <3>1, <3>2 DEF UpsertState
    <3>3. CASE proc[p].tx # t
      BY <1>0, <3>1, <3>3
    <3> QED  BY <3>2, <3>3
  <2>2. CASE ~UpsertState(p)
    BY <1>1, <1>2, <2>2 DEF Reconcile, ReadOldStatus, FindNoRecords, ReadAndMatch,
                            UpsertDetail, AuditAttempt, Propagate
  <2> QED  BY <2>1, <2>2
<1>3. ASSUME NEW p \in Rpc, NEW u \in Tx, Request(p, u) PROVE Goal
  <2>1. CASE ReTrigger(p, u)
    <3>1. recon' = IF recon[u] = NoRow THEN recon
                   ELSE [recon EXCEPT ![u] = [@ EXCEPT !.status = "PENDING", !.retry = 0]]
      <4>1. CASE recon[u] = NoRow
        BY <2>1, <4>1 DEF ReTrigger
      <4>2. CASE recon[u] # NoRow
        BY <1>0, <2>1, <4>2 DEF ReTrigger
      <4> QED  BY <4>1, <4>2
    <3> QED  BY <1>0, <3>1
  <2>2. CASE ~ReTrigger(p, u)
    BY <1>1, <1>3, <2>2 DEF Request, GetKnown, GetUnknown
  <2> QED  BY <2>1, <2>2
<1>4. CASE UNCHANGED vars
  BY <1>1, <1>4 DEF vars
<1>5. CASE (\E u \in Tx, r \in Inputs : Ingest(u, r)) \/ Tick \/ Poll \/ TakeUp \/ Crash
  BY <1>1, <1>5 DEF Ingest, Tick, Poll, TakeUp, Crash
<1>6. CASE \E p \in Rpc : Answer(p) \/ AuditReTrigger(p)
  BY <1>1, <1>6 DEF Answer, AuditReTrigger
<1>7. CASE \E p \in Procs : Fault(p)
  BY <1>1, <1>7 DEF Fault
<1> QED
  BY <1>2, <1>3, <1>4, <1>5, <1>6, <1>7 DEF Next, WorkerStep, Handle, Procs

LEMMA SnapshotStep == TypeOK /\ SnapshotInv /\ [Next]_vars => SnapshotInv'
<1> SUFFICES ASSUME TypeOK, SnapshotInv, [Next]_vars PROVE SnapshotInv'
  OBVIOUS
<1>0. proc \in [Procs -> Local] /\ recon \in [Tx -> Row \cup {NoRow}]
      /\ records \in [Tx -> Seq(Inputs)]
  BY DEF TypeOK
<1>1. ASSUME NEW p \in Procs, proc'[p].pc = "upsert"
      PROVE  /\ proc'[p].seen =< Len(records'[proc'[p].tx])
             /\ Judged(SubSeq(records'[proc'[p].tx], 1, proc'[p].seen), proc'[p].out)
  <2>1. CASE proc'[p] = proc[p]
    <3>1. proc[p].tx \in Tx /\ proc[p].seen \in Nat
      BY <1>1, <2>1 DEF TypeOK, Local
    <3> QED  BY <1>1, <2>1, <3>1, PrefixStays DEF SnapshotInv
  <2>2. CASE ReadAndMatch(p)
    <3> DEFINE t == proc[p].tx
    <3>1. t \in Tx /\ records[t] \in Seq(Inputs) /\ records' = records
      BY <1>0, <2>2 DEF ReadAndMatch, TypeOK, tables
    <3>2. PICK out \in Outcomes(records[t], age[t] >= Timeout) :
            \/ proc' = AttemptFailed(p)
            \/ proc' = [proc EXCEPT ![p].pc = "upsert", ![p].out = out,
                                    ![p].seen = Len(records[t])]
      BY <2>2 DEF ReadAndMatch
    <3>3. CASE proc' = AttemptFailed(p)
      <4>1. proc'[p] = proc[p]
        BY <1>1, <3>3, AttemptEndLocal
      <4> QED  BY <2>1, <4>1
    <3>4. CASE proc' = [proc EXCEPT ![p].pc = "upsert", ![p].out = out,
                                    ![p].seen = Len(records[t])]
      <4>1. proc'[p].tx = t /\ proc'[p].out = out /\ proc'[p].seen = Len(records[t])
        BY <1>0, <3>4 DEF Local
      <4>2. SubSeq(records[t], 1, Len(records[t])) = records[t] /\ Len(records[t]) \in Nat
        BY <3>1, SubSeqFull
      <4>3. Judged(records[t], out)
        <5>1. (age[t] >= Timeout) \in BOOLEAN
          OBVIOUS
        <5> QED  BY <3>2, <5>1 DEF Judged
      <4>4. records'[proc'[p].tx] = records[t]
        BY <3>1, <4>1
      <4>5. proc'[p].seen =< Len(records'[proc'[p].tx])
        BY <4>1, <4>2, <4>4
      <4>6. SubSeq(records'[proc'[p].tx], 1, proc'[p].seen) = records[t]
        BY <4>1, <4>2, <4>4
      <4> QED  BY <4>1, <4>3, <4>5, <4>6
    <3> QED  BY <3>2, <3>3, <3>4
  <2> QED  BY <1>1, <2>1, <2>2, ProcStep
<1>2. ASSUME NEW t \in Tx, recon'[t] # NoRow
      PROVE  recon'[t].count =< Len(records'[t]) /\ RowJustified(recon'[t], records'[t])
  <2>1. ASSUME recon[t] # NoRow,
               recon'[t] = recon[t]
                 \/ recon'[t] = [recon[t] EXCEPT !.status = "PENDING", !.retry = 0]
        PROVE  recon'[t].count =< Len(records'[t]) /\ RowJustified(recon'[t], records'[t])
    <3>1. recon[t] \in Row /\ recon[t].count \in Nat /\ recon'[t].count = recon[t].count
      BY <1>0, <2>1 DEF Row
    <3>2. /\ recon[t].count =< Len(records'[t])
          /\ SubSeq(records'[t], 1, recon[t].count) = SubSeq(records[t], 1, recon[t].count)
      BY <2>1, <3>1, PrefixStays DEF SnapshotInv
    <3>3. recon'[t] = recon[t] \/ recon'[t].status = "PENDING"
      BY <2>1, <3>1 DEF Row
    <3>4. RowJustified(recon[t], records[t])
      BY <2>1 DEF SnapshotInv
    <3> QED  BY <3>1, <3>2, <3>3, <3>4 DEF RowJustified
  <2>2. ASSUME NEW p \in Procs, proc[p].pc = "upsert", proc[p].tx = t,
               recon'[t] = Upserted(t, proc[p].out, proc[p].seen)
        PROVE  recon'[t].count =< Len(records'[t]) /\ RowJustified(recon'[t], records'[t])
    <3> DEFINE out == proc[p].out  n == proc[p].seen
    <3>1. out \in Outcome /\ n \in Nat
      BY <1>0 DEF Local
    <3>2. /\ n =< Len(records'[t])
          /\ Judged(SubSeq(records'[t], 1, n), out)
      BY <2>2, <3>1, PrefixStays DEF SnapshotInv
    <3>3. /\ recon'[t].count = n /\ recon'[t].status = out.status
          /\ recon'[t].matched = MatchedSources(out)
          /\ recon'[t].mismatched = MismatchedSources(out)
      BY <2>2 DEF Upserted
    <3> HIDE DEF out, n
    <3> QED  BY <3>2, <3>3 DEF Judged, RowJustified
  <2>3. recon[t] = NoRow /\ recon'[t] = recon[t] => FALSE
    BY <1>2
  <2> QED  BY <2>1, <2>2, <2>3, ReconStep
<1> QED  BY <1>1, <1>2 DEF SnapshotInv

\* Every verdict on record is one the matcher gives for exactly the records
\* the row counts, however attempts overlap, fail or crash.
THEOREM VerdictsFromSnapshots == Spec => []VerdictFromSnapshot
<1>1. Init => SnapshotInv
  BY DEF Init, SnapshotInv, Resting
<1>2. SnapshotInv => VerdictFromSnapshot
  BY DEF SnapshotInv, VerdictFromSnapshot, RowJustified
<1> QED  BY <1>1, <1>2, SnapshotStep, TypeCorrect, PTL DEF Spec
=============================================================================
