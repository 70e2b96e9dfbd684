------------------------------- MODULE Engine -------------------------------
(***************************************************************************)
(* The reconciliation engine (services/engine): the polling worker and the *)
(* gRPC handlers GetReconState and ReTriggerMatch, which run the same      *)
(* reconcile_one concurrently against PostgreSQL.  No two statements share *)
(* a transaction, so each SQL statement is one action here; what a process *)
(* read and has not yet written lives in its local state.                  *)
(*                                                                         *)
(* Time is kept as two saturating ages per transaction: the code only asks *)
(* whether the oldest record is at least pending_timeout_secs old and      *)
(* whether last_processed_at is more than retry_backoff_secs ago.          *)
(*                                                                         *)
(* A record is one of Matcher's with the stamp server_received_at, at,     *)
(* which ingestion puts on it before it inserts it: records become visible *)
(* in any order of their stamps, and the engine reads them by stamp.       *)
(***************************************************************************)
EXTENDS Matcher

CONSTANTS
  Tx,          \* transaction_refs, as numbers: the query sorts by them
  Worker,      \* the polling worker, one task
  Rpc,         \* the gRPC handlers that can be running at once
  Inputs,      \* the rows that ingestion may store, with their stamps
  Rules,       \* the compiled rule set
  MaxRetries,  \* engine.max_retries
  Backoff,     \* engine.retry_backoff_secs, in ticks
  Timeout,     \* engine.pending_timeout_secs, in ticks
  BatchSize,   \* engine.batch_size
  NoRow, NoTx, \* "no such row", "no transaction"
  MaxRecords,  \* bound: records per transaction
  MaxCalls,    \* bound: gRPC calls
  MaxFaults    \* bound: failed statements and crashes

ASSUME EngineAssumption ==
  /\ Tx \subseteq Nat
  /\ Worker \notin Rpc
  /\ IsFiniteSet(Rpc)
  /\ IsRuleSet(Rules)
  /\ \A r \in Inputs : r.at \in Nat
  /\ MaxRetries \in Nat \ {0}
  /\ Backoff \in Nat /\ Timeout \in Nat
  /\ BatchSize \in Nat
  /\ MaxRecords \in Nat /\ MaxCalls \in Nat /\ MaxFaults \in Nat
  /\ NoTx \notin Tx

Procs == Rpc \cup {Worker}

Systems == {r.src : r \in Inputs}

VARIABLES
  records,    \* ingestion_records of each transaction, as they became visible
  shown,      \* ingestion_records.status of each of those rows
  recon,      \* recon_state: a row or NoRow
  details,    \* recon_match_details.discrepancy_found per source
  audit,      \* recon_audit_log
  age,        \* time since the oldest stamp among the records, up to Timeout
  idle,       \* time since last_processed_at, up to Backoff + 1 (also for NULL)
  batch,      \* the refs the worker has polled and not yet taken up
  proc,       \* the local state of each process
  calls,      \* gRPC calls made so far
  faults,     \* failures so far
  disturbed   \* ghost: transactions on which two attempts have overlapped, or
              \* one was cut short by a failure

tables == <<records, shown, recon, details, audit, age, idle>>
vars   == <<records, shown, recon, details, audit, age, idle,
            batch, proc, calls, faults, disturbed>>

Resting == [pc |-> "idle", tx |-> NoTx, call |-> "none", old |-> "NEW", seen |-> 0,
            out |-> Pending, todo |-> {}]

Init ==
  /\ records   = [t \in Tx |-> <<>>]
  /\ shown     = [t \in Tx |-> <<>>]
  /\ recon     = [t \in Tx |-> NoRow]
  /\ details   = [t \in Tx |-> [s \in Systems |-> "none"]]
  /\ audit     = [t \in Tx |-> <<>>]
  /\ age       = [t \in Tx |-> 0]
  /\ idle      = [t \in Tx |-> Backoff + 1]
  /\ batch     = {}
  /\ proc      = [p \in Procs |-> Resting]
  /\ calls     = 0
  /\ faults    = 0
  /\ disturbed = {}

-----------------------------------------------------------------------------
(* The environment: ingestion stores records, time passes                  *)

\* A record becomes visible, once (its key is UNIQUE); when it is stamped before
\* all others, the oldest is now this one, of any age that is no less.
Ingest(t, r) ==
  LET oldest == \A i \in DOMAIN records[t] : r.at < records[t][i].at IN
  /\ Len(records[t]) < MaxRecords
  /\ r \notin Range(records[t])
  /\ records' = [records EXCEPT ![t] = Append(@, r)]
  /\ shown' = [shown EXCEPT ![t] = Append(@, "PENDING")]
  /\ \/ UNCHANGED age
     \/ oldest /\ \E older \in age[t]..Timeout : age' = [age EXCEPT ![t] = older]
  /\ UNCHANGED <<recon, details, audit, idle, batch, proc, calls, faults, disturbed>>

UpTo(bound, n) == IF n < bound THEN n ELSE bound

Tick ==
  /\ age' = [t \in Tx |-> IF records[t] = <<>> THEN 0 ELSE UpTo(Timeout, age[t] + 1)]
  /\ idle' = [t \in Tx |-> UpTo(Backoff + 1, idle[t] + 1)]
  /\ UNCHANGED <<records, shown, recon, details, audit, batch, proc, calls, faults, disturbed>>

-----------------------------------------------------------------------------
(* Where a process goes next                                               *)

\* The statements of an attempt, from the first one that prepares it.
Attempting(p, t) ==
  /\ proc[p].tx = t
  /\ proc[p].pc \in {"mark", "old", "read", "upsert", "details", "audit", "propagate"}

\* The ghost: p starts an attempt on t; an overlap disturbs t for good.
Joins(p, t) ==
  disturbed' = IF \E q \in Procs \ {p} : Attempting(q, t)
               THEN disturbed \cup {t} ELSE disturbed

\* Mutant: the handler forgets which transaction it was asked about.
FetchingNothing(p) ==
  [proc EXCEPT ![p] = [Resting EXCEPT !.pc = "fetch", !.call = proc[p].call]]

\* reconcile_one has returned and its locals are gone: a handler goes on to
\* fetch the state it will answer with.
Fetching(p) ==
  [proc EXCEPT ![p] = [Resting EXCEPT !.pc = "fetch", !.tx = proc[p].tx,
                                     !.call = proc[p].call]]

\* The attempt ended well: the worker turns to the next ref of its batch.
AttemptDone(p) == IF p = Worker THEN [proc EXCEPT ![p] = Resting] ELSE Fetching(p)

\* The attempt ended in an error: the worker logs it and goes on,
\* GetReconState swallows it, ReTriggerMatch answers INTERNAL.
AttemptFailed(p) ==
  IF proc[p].call = "get" THEN Fetching(p) ELSE [proc EXCEPT ![p] = Resting]

-----------------------------------------------------------------------------
(* The worker                                                              *)

\* Mutants: an OR binds the wrong conditions; max_retries is not checked; checked one
\* attempt early; the query joins recon_state instead of left-joining it.
EligibleDecided(t) ==
  /\ records[t] # <<>>
  /\ \/ recon[t] = NoRow \/ idle[t] > Backoff
     \/ recon[t].status = "PENDING" /\ recon[t].retry < MaxRetries

EligibleForever(t) ==
  /\ records[t] # <<>>
  /\ recon[t] = NoRow \/ (recon[t].status = "PENDING" /\ idle[t] > Backoff)

EligibleOnceLess(t) ==
  /\ records[t] # <<>>
  /\ \/ recon[t] = NoRow
     \/ recon[t].status = "PENDING" /\ recon[t].retry + 1 < MaxRetries /\ idle[t] > Backoff

EligibleJoined(t) ==
  /\ records[t] # <<>> /\ recon[t] # NoRow
  /\ recon[t].status = "PENDING" /\ recon[t].retry < MaxRetries /\ idle[t] > Backoff

Eligible(t) ==
  /\ records[t] # <<>>
  /\ \/ recon[t] = NoRow
     \/ /\ recon[t].status = "PENDING"
        /\ recon[t].retry < MaxRetries
        /\ idle[t] > Backoff

\* ORDER BY transaction_ref LIMIT n
Lowest(n, S) == {t \in S : Cardinality({u \in S : u < t}) < n}

Poll ==
  /\ proc[Worker].pc = "idle"
  /\ batch = {}
  /\ batch' = Lowest(BatchSize, {t \in Tx : Eligible(t)})
  /\ UNCHANGED <<tables, proc, calls, faults, disturbed>>

TakeUp ==
  /\ proc[Worker].pc = "idle"
  /\ \E t \in batch :
       /\ \A u \in batch : t =< u
       /\ batch' = batch \ {t}
       /\ proc' = [proc EXCEPT ![Worker] =
                     [Resting EXCEPT !.pc = "old", !.tx = t, !.call = "worker"]]
       /\ Joins(Worker, t)
  /\ UNCHANGED <<tables, calls, faults>>

-----------------------------------------------------------------------------
(* reconcile_one, statement by statement                                   *)

\* 1. The status before the attempt, for the audit log.
ReadOldStatus(p) ==
  LET row == recon[proc[p].tx] IN
  /\ proc[p].pc = "old"
  /\ proc' = [proc EXCEPT ![p].pc = "read",
                          ![p].old = IF row = NoRow THEN "NEW" ELSE row.status]
  /\ UNCHANGED <<tables, batch, calls, faults, disturbed>>

\* 2. No records: nothing to do.
FindNoRecords(p) ==
  /\ proc[p].pc = "read"
  /\ records[proc[p].tx] = <<>>
  /\ proc' = AttemptDone(p)
  /\ UNCHANGED <<tables, batch, calls, faults, disturbed>>

\* ORDER BY server_received_at: the records by their stamps, those with equal
\* stamps in any order.
Readings(recs) ==
  {[i \in DOMAIN recs |-> recs[q[i]]] :
     q \in {p \in Bijection(DOMAIN recs, DOMAIN recs) :
             \A i, j \in DOMAIN recs : i < j => recs[p[i]].at =< recs[p[j]].at}}

\* What the matcher may say of these records, read so and walked in some order.
Outcomes(recs, late) ==
  {MatchRecords(read, Rules, order, late) : read \in Readings(recs), order \in Orders(recs)}

\* 2-4. The records are read and matched; an amount that does not parse ends
\* the attempt before anything is written.
ReadAndMatch(p) ==
  LET t == proc[p].tx IN
  /\ proc[p].pc = "read"
  /\ records[t] # <<>>
  /\ \E out \in Outcomes(records[t], age[t] >= Timeout) :
       \/ /\ out.status = "ERROR"
          /\ proc' = AttemptFailed(p)
          /\ disturbed' = disturbed \cup {t}
       \/ /\ out.status # "ERROR"
          /\ proc' = [proc EXCEPT ![p].pc = "upsert", ![p].out = out,
                                  ![p].seen = Len(records[t])]
          /\ UNCHANGED disturbed
  /\ UNCHANGED <<tables, batch, calls, faults>>

Retry(t) == IF recon[t] = NoRow THEN 0 ELSE recon[t].retry

\* Mutant: the records are counted again when the row is written.
UpsertedRecounted(t, out, seen) ==
  [status     |-> out.status,
   count      |-> Len(records[t]),
   matched    |-> MatchedSources(out),
   mismatched |-> MismatchedSources(out),
   retry      |-> Retry(t) + 1,
   resolved   |-> out.status = "MATCHED" \/ (recon[t] # NoRow /\ recon[t].resolved)]

\* The row an upsert leaves: everything from the outcome, one more attempt,
\* and resolved_at kept unless the outcome is a match.
Upserted(t, out, seen) ==
  [status     |-> out.status,
   count      |-> seen,
   matched    |-> MatchedSources(out),
   mismatched |-> MismatchedSources(out),
   retry      |-> Retry(t) + 1,
   resolved   |-> out.status = "MATCHED" \/ (recon[t] # NoRow /\ recon[t].resolved)]

\* 5. recon_state
UpsertState(p) ==
  LET t == proc[p].tx  out == proc[p].out IN
  /\ proc[p].pc = "upsert"
  /\ recon' = [recon EXCEPT ![t] = Upserted(t, out, proc[p].seen)]
  /\ idle' = [idle EXCEPT ![t] = 0]
  /\ proc' = [proc EXCEPT ![p].todo = out.results,
                          ![p].pc = IF out.results = {} THEN "audit" ELSE "details"]
  /\ UNCHANGED <<records, shown, details, audit, age, batch, calls, faults, disturbed>>

\* Mutant: the audit log is skipped once the details are written.
UpsertDetailUnlogged(p) ==
  LET t == proc[p].tx IN
  /\ proc[p].pc = "details"
  /\ \E s \in proc[p].todo :
       /\ details' = [details EXCEPT ![t][s] =
                        IF s \in proc[p].out.flagged THEN "deviates" ELSE "agrees"]
       /\ proc' = [proc EXCEPT ![p].todo = @ \ {s},
                        ![p].pc = IF proc[p].todo = {s} THEN "propagate" ELSE "details"]
  /\ UNCHANGED <<records, shown, recon, audit, age, idle, batch, calls, faults, disturbed>>

\* 6. recon_match_details, one statement per source, in the walk's order
UpsertDetail(p) ==
  LET t == proc[p].tx IN
  /\ proc[p].pc = "details"
  /\ \E s \in proc[p].todo :
       /\ details' = [details EXCEPT ![t][s] =
                        IF s \in proc[p].out.flagged THEN "deviates" ELSE "agrees"]
       /\ proc' = [proc EXCEPT ![p].todo = @ \ {s},
                               ![p].pc = IF proc[p].todo = {s} THEN "audit" ELSE "details"]
  /\ UNCHANGED <<records, shown, recon, audit, age, idle, batch, calls, faults, disturbed>>

Entry(event, old, new) == [event |-> event, old |-> old, new |-> new]

\* 7. recon_audit_log; a pending outcome ends the attempt here.
AuditAttempt(p) ==
  LET t == proc[p].tx  new == proc[p].out.status IN
  /\ proc[p].pc = "audit"
  /\ audit' = [audit EXCEPT ![t] = Append(@, Entry("MATCH_ATTEMPT", proc[p].old, new))]
  /\ proc' = IF new = "PENDING" THEN AttemptDone(p) ELSE [proc EXCEPT ![p].pc = "propagate"]
  /\ UNCHANGED <<records, shown, recon, details, age, idle, batch, calls, faults, disturbed>>

\* Mutant: only the newest row is updated.
PropagateToLast(p) ==
  LET t == proc[p].tx IN
  /\ proc[p].pc = "propagate"
  /\ shown' = [shown EXCEPT ![t][Len(shown[t])] = proc[p].out.status]
  /\ proc' = AttemptDone(p)
  /\ UNCHANGED <<records, recon, details, audit, age, idle, batch, calls, faults, disturbed>>

\* 8. ingestion_records.status of every row the transaction has by now
Propagate(p) ==
  LET t == proc[p].tx IN
  /\ proc[p].pc = "propagate"
  /\ shown' = [shown EXCEPT ![t] = [i \in DOMAIN @ |-> proc[p].out.status]]
  /\ proc' = AttemptDone(p)
  /\ UNCHANGED <<records, recon, details, audit, age, idle, batch, calls, faults, disturbed>>

Reconcile(p) ==
  \/ ReadOldStatus(p) \/ FindNoRecords(p) \/ ReadAndMatch(p) \/ UpsertState(p)
  \/ UpsertDetail(p) \/ AuditAttempt(p) \/ Propagate(p)

-----------------------------------------------------------------------------
(* The gRPC handlers                                                       *)

Call(p, t, call, pc) ==
  /\ proc[p].pc = "idle"
  /\ calls < MaxCalls
  /\ calls' = calls + 1
  /\ proc' = [proc EXCEPT ![p] = [Resting EXCEPT !.pc = pc, !.tx = t, !.call = call]]

\* GetReconState of a transaction that has a row only reads.
GetKnown(p, t) ==
  /\ recon[t] # NoRow
  /\ Call(p, t, "get", "fetch")
  /\ UNCHANGED <<tables, batch, faults, disturbed>>

\* GetReconState of one that has none reconciles inline.
GetUnknown(p, t) ==
  /\ recon[t] = NoRow
  /\ Call(p, t, "get", "old")
  /\ Joins(p, t)
  /\ UNCHANGED <<tables, batch, faults>>

\* Mutant: the reset deletes the row.
ReTriggerDeletes(p, t) ==
  /\ Call(p, t, "retrigger", "mark")
  /\ recon' = [recon EXCEPT ![t] = NoRow]
  /\ idle' = [idle EXCEPT ![t] = Backoff + 1]
  /\ Joins(p, t)
  /\ UNCHANGED <<records, shown, details, audit, age, batch, faults>>

\* ReTriggerMatch first resets the row, whatever its status.
ReTrigger(p, t) ==
  /\ Call(p, t, "retrigger", "mark")
  /\ recon' = IF recon[t] = NoRow THEN recon
              ELSE [recon EXCEPT ![t].status = "PENDING", ![t].retry = 0]
  /\ idle' = IF recon[t] = NoRow THEN idle ELSE [idle EXCEPT ![t] = Backoff + 1]
  /\ Joins(p, t)
  /\ UNCHANGED <<records, shown, details, audit, age, batch, faults>>

AuditReTrigger(p) ==
  LET t == proc[p].tx IN
  /\ proc[p].pc = "mark"
  /\ audit' = [audit EXCEPT ![t] = Append(@, Entry("RETRIGGER", "none", "PENDING"))]
  /\ proc' = [proc EXCEPT ![p].pc = "old"]
  /\ UNCHANGED <<records, shown, recon, details, age, idle, batch, calls, faults, disturbed>>

\* The row and its details are read and returned; without a row the call ends
\* in NOT_FOUND, or in INTERNAL from ReTriggerMatch.  Either way nothing is kept.
Answer(p) ==
  /\ proc[p].pc = "fetch"
  /\ proc' = [proc EXCEPT ![p] = Resting]
  /\ UNCHANGED <<tables, batch, calls, faults, disturbed>>

Handle(p) == Reconcile(p) \/ AuditReTrigger(p) \/ Answer(p)

-----------------------------------------------------------------------------
(* Failures                                                                *)

\* The statement p is about to run returns an error.  The RETRIGGER entry is
\* best effort; the answer's reads fail the call; any other ends the attempt.
Fault(p) ==
  /\ faults < MaxFaults
  /\ faults' = faults + 1
  /\ proc[p].pc # "idle"
  /\ proc' = CASE proc[p].pc = "mark" -> [proc EXCEPT ![p].pc = "old"]
              [] proc[p].pc = "fetch" -> [proc EXCEPT ![p] = Resting]
              [] OTHER -> AttemptFailed(p)
  /\ disturbed' = IF Attempting(p, proc[p].tx) THEN disturbed \cup {proc[p].tx} ELSE disturbed
  /\ UNCHANGED <<tables, batch, calls>>

\* The engine dies and is started again: only the tables survive.
Crash ==
  /\ faults < MaxFaults
  /\ faults' = faults + 1
  /\ proc' = [p \in Procs |-> Resting]
  /\ batch' = {}
  /\ disturbed' = disturbed \cup {t \in Tx : \E p \in Procs : Attempting(p, t)}
  /\ UNCHANGED <<tables, calls>>

-----------------------------------------------------------------------------
WorkerStep == Poll \/ TakeUp \/ Reconcile(Worker)

Request(p, t) == GetKnown(p, t) \/ GetUnknown(p, t) \/ ReTrigger(p, t)

Next ==
  \/ \E t \in Tx, r \in Inputs : Ingest(t, r)
  \/ Tick
  \/ WorkerStep
  \/ \E p \in Rpc : Handle(p) \/ \E t \in Tx : Request(p, t)
  \/ \E p \in Procs : Fault(p)
  \/ Crash

Spec == Init /\ [][Next]_vars

\* The worker's loop and the handlers' tasks are scheduled by the runtime and
\* the clock runs; nobody has to call, to store a record, or to fail.
FairSpec ==
  /\ Spec
  /\ WF_vars(Tick)
  /\ WF_vars(WorkerStep)
  /\ \A p \in Rpc : WF_vars(Handle(p))

-----------------------------------------------------------------------------
(* Properties                                                              *)

Row == [status : Status, count : Nat, matched : SUBSET Systems,
        mismatched : SUBSET Systems, retry : Nat, resolved : BOOLEAN]

Outcome == [status : {"PENDING", "MATCHED", "MISMATCHED"},
            results : SUBSET Systems, flagged : SUBSET Systems]

\* A missing row is none that a statement can write.
ASSUME RowAssumption == NoRow \notin Row

AuditEntry == [event : {"MATCH_ATTEMPT", "RETRIGGER"},
               old : Status \cup {"NEW", "none"}, new : Status]

Steps == {"idle", "mark", "old", "read", "upsert", "details", "audit", "propagate",
          "fetch"}

Local == [pc : Steps, tx : Tx \cup {NoTx}, call : {"none", "worker", "get", "retrigger"},
          old : Status \cup {"NEW"}, seen : Nat, out : Outcome, todo : SUBSET Systems]

\* Every variable has its type, the status column keeps pace with the rows,
\* and a busy process knows its transaction.
TypeOK ==
  /\ records \in [Tx -> Seq(Inputs)]
  /\ shown \in [Tx -> Seq(Status)]
  /\ \A t \in Tx : Len(shown[t]) = Len(records[t])
  /\ recon \in [Tx -> Row \cup {NoRow}]
  /\ details \in [Tx -> [Systems -> {"none", "agrees", "deviates"}]]
  /\ audit \in [Tx -> Seq(AuditEntry)]
  /\ age \in [Tx -> Nat]
  /\ idle \in [Tx -> Nat]
  /\ batch \subseteq Tx
  /\ proc \in [Procs -> Local]
  /\ \A p \in Procs : proc[p].pc # "idle" => proc[p].tx \in Tx
  /\ calls \in Nat /\ faults \in Nat
  /\ disturbed \subseteq Tx

\* max_retries is checked when the worker polls and counted when an attempt
\* writes, and handlers do not check it at all; still a transaction is never
\* attempted more than max_retries times since its last reset, plus once for
\* each handler (queries.rs, get_pending_transaction_refs, upsert_recon_state).
RetryBounded ==
  \A t \in Tx : Retry(t) =< MaxRetries + Cardinality(Rpc)

\* A verdict on record is one the matcher gives for exactly the records that
\* record_count counts, the first so many to become visible, in the order of
\* their stamps: status, sources and count are never mixed from two attempts,
\* however attempts overlap, fail or crash and however late a record comes in
\* (queries.rs, get_records_by_transaction_ref; worker.rs, steps 2 to 5).
VerdictFromSnapshot ==
  \A t \in Tx : recon[t] # NoRow /\ recon[t].status # "PENDING" =>
    \E late \in BOOLEAN : \E out \in Outcomes(SubSeq(records[t], 1, recon[t].count), late) :
      /\ recon[t].status = out.status
      /\ recon[t].matched = MatchedSources(out)
      /\ recon[t].mismatched = MismatchedSources(out)

\* External readers of ingestion_records never see a verdict that the audit
\* log does not hold (worker.rs, steps 7 and 8).
ShownIsAudited ==
  \A t \in Tx : \A i \in DOMAIN shown[t] :
    shown[t][i] # "PENDING" =>
      \E j \in DOMAIN audit[t] :
        audit[t][j].event = "MATCH_ATTEMPT" /\ audit[t][j].new = shown[t][i]

AtRest(t) == \A p \in Procs : ~Attempting(p, t)

Decided(t) == recon[t] # NoRow /\ recon[t].status \in {"MATCHED", "MISMATCHED"}

\* While no attempt runs on a transaction, and unless two attempts have
\* overlapped or one was cut short, its four tables tell the same story: the
\* last audit entry is the status, every record the verdict counts shows it
\* (the first so many to become visible, whatever their stamps), and the
\* flagged details are the mismatched sources.
RestingAgreement ==
  \A t \in Tx \ disturbed : AtRest(t) /\ recon[t] # NoRow =>
    /\ Last(audit[t]).new = recon[t].status
    /\ Decided(t) =>
         /\ \A i \in 1..recon[t].count : shown[t][i] = recon[t].status
         /\ {s \in Systems : details[t][s] # "none"} =
               Sources(SubSeq(records[t], 1, recon[t].count))
         /\ {s \in Systems : details[t][s] = "deviates"} = recon[t].mismatched

\* A row is never replaced by one drawn from fewer records, unless attempts
\* overlapped or one was cut short (worker.rs, steps 2 to 5).
CountGrows ==
  [][\A t \in Tx \ disturbed' : recon[t] # NoRow =>
        recon'[t] # NoRow /\ recon'[t].count >= recon[t].count]_vars

Unparsable(t) == \E i \in DOMAIN records[t] : records[t][i].amt = BadAmount

\* Transactions that may never get a row fill every batch ahead of t.
Starved(t) == Cardinality({u \in Tx : u < t /\ Unparsable(u)}) >= BatchSize

\* The worker reaches every transaction whose amounts parse: once it has a
\* record it gets a row, unless as many lower refs as fit into a batch have
\* amounts that do not parse; what else is polled ahead of it, again and again,
\* gets out of its way (queries.rs, get_pending_transaction_refs; worker.rs,
\* process_batch).
EveryTransactionAttempted ==
  \A t \in Tx :
    records[t] # <<>> ~> recon[t] # NoRow \/ Unparsable(t) \/ Starved(t)

\* default.toml:55, "Seconds after which a PENDING transaction is escalated to
\* MISMATCHED [...] (prevents transactions staying in PENDING forever when a
\* source goes silent)"; except where an amount does not parse, or as above.
PendingEscalates ==
  \A t \in Tx :
    recon[t] # NoRow ~> Decided(t) \/ Unparsable(t) \/ Starved(t)

-----------------------------------------------------------------------------
(* The contract with the resolution service                                *)

StatusOf == [t \in Tx |-> IF recon[t] = NoRow THEN "none" ELSE recon[t].status]

\* The transactions whose status some attempt, polled or begun, may still write.
InFlight ==
  {t \in Tx : \/ t \in batch
              \/ \E p \in Procs : /\ proc[p].tx = t
                                   /\ proc[p].pc \in {"mark", "old", "read", "upsert"}}

Life == INSTANCE Reconciliation
          WITH status <- StatusOf, engine <- InFlight, resolving <- {}

\* The engine keeps the contract: it changes a status only with the verdict of
\* an attempt, begun on a transaction without a verdict or on one whose row a
\* re-trigger has just reset, however attempts overlap, fail or are lost.
KeepsContract == Life!Spec
=============================================================================
