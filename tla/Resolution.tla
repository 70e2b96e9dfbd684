----------------------------- MODULE Resolution -----------------------------
(***************************************************************************)
(* The resolution service (services/resolution): ResolveManually (gRPC),   *)
(* autoResolve and enqueueRetry (HTTP), and the retry worker, which share  *)
(* recon_state with the engine and keep resolution_records and             *)
(* resolution_retry_queue.  As in the engine, every SQL statement is a     *)
(* step of its own: a process holds the script of the statements it has    *)
(* still to run, and a handler's control is the choice of that script.     *)
(* The rows this service adds to recon_audit_log are left out: it never    *)
(* reads them, and drops the error when one cannot be added.               *)
(*                                                                         *)
(* The engine is the other writer of recon_state.  Here it is what it is   *)
(* to this service: it takes up PENDING rows, now or when it is asked to   *)
(* re-trigger, and some time later overwrites the status with its verdict: *)
(* any step that the contract (Reconciliation) leaves to the engine.       *)
(***************************************************************************)
EXTENDS Integers, Sequences, FiniteSets

CONSTANTS
  Tx,            \* transaction_refs
  RetryWorker,   \* the retry worker
  Ops,           \* the gRPC and HTTP handlers that can be running at once
  Ceilings,      \* the values of max_attempts a request may carry
  Base, Cap,     \* retry.base_backoff_secs and max_backoff_secs, in ticks
  AutoApply,     \* auto_resolve.auto_apply_on_exhaustion
  NoTx,          \* "no transaction"
  MaxCalls,      \* bound: requests, and re-triggers by other callers
  MaxFaults,     \* bound: failed statements and crashes
  MaxCount       \* bound: attempt_count saturates here, where it is past every
                 \* ceiling and every backoff is capped, all it is used for

ASSUME ResolutionAssumption ==
  /\ RetryWorker \notin Ops
  /\ Ceilings \subseteq Nat \ {0}
  /\ Base \in Nat \ {0} /\ Cap \in Nat \ {0}
  /\ AutoApply \in BOOLEAN
  /\ NoTx \notin Tx
  /\ MaxCalls \in Nat /\ MaxFaults \in Nat
  /\ MaxCount \in Nat
  /\ \A c \in Ceilings : c =< MaxCount
  /\ Cap =< Base * 2^MaxCount

Procs == Ops \cup {RetryWorker}

VARIABLES
  recon,     \* recon_state.status of each transaction, or "none"
  verdict,   \* resolution_records: who decided, "none", "MANUAL" or "AUTO"
  queue,     \* resolution_retry_queue: a row, of status "none" if there is none
  engine,    \* transactions on which an attempt of the engine is in flight
  polled,    \* the rows the worker has polled and not yet taken up
  proc,      \* the local state of each process
  working,   \* the worker was started: not if retry is disabled, nor if the
             \* engine could not be reached when the service started
  calls, faults,  \* what the bounds count
  tries,     \* ghost: MISMATCHED answers since the queue row was last (re)opened
  settled    \* ghost: transactions that have been MATCHED or RESOLVED

tables == <<recon, verdict, queue>>
vars   == <<recon, verdict, queue, engine, polled, proc,
            working, calls, faults, tries, settled>>

NoEntry == [status |-> "none", count |-> 0, max |-> 0, wait |-> 0]

\* A process at rest.  by: "MANUAL" or "AUTO", what a resolution is filed
\* under; max: the ceiling to enqueue with, or the worker's polled one;
\* attempt: the worker's number of this attempt.
Resting == [script |-> <<>>, tx |-> NoTx, by |-> "AUTO", max |-> 0, attempt |-> 0]

Init ==
  /\ recon = [t \in Tx |-> "none"]
  /\ verdict = [t \in Tx |-> "none"]
  /\ queue = [t \in Tx |-> NoEntry]
  /\ engine = {}
  /\ polled = {}
  /\ proc = [p \in Procs |-> Resting]
  /\ working \in BOOLEAN
  /\ calls = 0 /\ faults = 0
  /\ tries = [t \in Tx |-> 0]
  /\ settled = {}

-----------------------------------------------------------------------------
(* Scripts                                                                 *)

\* Mutant: the state is updated before the decision is filed.
ManuallySwapped == <<"check", "update", "insert", "mark">>

Manually == <<"check", "insert", "update", "mark">>

Automatically == <<"check", "insert", "update", "mark">>

Enqueuing == <<"checkOpen", "enqueue">>

\* The call to the engine, seen from the engine: reset, match, answer.
Retrying == <<"reset", "match", "answer">>

Counting == <<"count">>

Exhausting ==
  IF AutoApply THEN <<"exhaust", "insert", "update", "mark">> ELSE <<"exhaust">>

\* Mutants: one attempt too many; PENDING taken for success.
AnsweredOneMore(status, attempt, max) ==
  CASE status \in {"MATCHED", "RESOLVED"} -> <<"mark">>
    [] status = "MISMATCHED" /\ attempt > max -> Exhausting
    [] OTHER -> Counting

AnsweredHopefully(status, attempt, max) ==
  CASE status = "MISMATCHED" /\ attempt >= max -> Exhausting
    [] status = "MISMATCHED" /\ attempt < max -> Counting
    [] OTHER -> <<"mark">>

\* retryOne, after the engine's answer
Answered(status, attempt, max) ==
  CASE status \in {"MATCHED", "RESOLVED"} -> <<"mark">>
    [] status = "MISMATCHED" /\ attempt >= max -> Exhausting
    [] OTHER -> Counting

\* Mutant: the backoff is not capped.
NextRetryUncapped(attempt) == Base * 2^(attempt - 1)

NextRetry(attempt) ==
  LET backoff == Base * 2^(attempt - 1) IN IF backoff > Cap THEN Cap ELSE backoff

\* p is about to run statement s; it has done so; it returns early.
At(p, s) == proc[p].script # <<>> /\ Head(proc[p].script) = s

Passed(p) ==
  LET l == proc[p] IN
  proc' = [proc EXCEPT ![p] = IF Len(l.script) = 1 THEN Resting
                                                   ELSE [l EXCEPT !.script = Tail(l.script)]]

Returned(p) == proc' = [proc EXCEPT ![p] = Resting]

-----------------------------------------------------------------------------
(* The statements                                                          *)

\* Mutant: any transaction that has a row is resolved.
CheckExists(p) ==
  /\ At(p, "check")
  /\ IF recon[proc[p].tx] # "none" THEN Passed(p) ELSE Returned(p)
  /\ UNCHANGED <<tables, engine, polled, working, calls, faults, tries, settled>>

\* Only MISMATCHED and RESOLVED transactions are resolved.
Check(p) ==
  LET open == recon[proc[p].tx] \notin {"none", "PENDING", "MATCHED"} IN
  /\ At(p, "check")
  /\ IF open THEN Passed(p) ELSE Returned(p)
  /\ UNCHANGED <<tables, engine, polled, working, calls, faults, tries, settled>>

\* Only MISMATCHED transactions are enqueued.
CheckOpen(p) ==
  /\ At(p, "checkOpen")
  /\ IF recon[proc[p].tx] = "MISMATCHED" THEN Passed(p) ELSE Returned(p)
  /\ UNCHANGED <<tables, engine, polled, working, calls, faults, tries, settled>>

\* The strategy finds no source to believe.  Its reads change nothing, so they
\* are no statements of their own: what they find is known at the insert.
ChooseNone(p) ==
  /\ At(p, "insert")
  /\ proc[p].by = "AUTO"
  /\ Returned(p)
  /\ UNCHANGED <<tables, engine, polled, working, calls, faults, tries, settled>>

\* InsertResolutionRecord: the last writer wins.
Insert(p) ==
  /\ At(p, "insert")
  /\ verdict' = [verdict EXCEPT ![proc[p].tx] = proc[p].by]
  /\ Passed(p)
  /\ UNCHANGED <<recon, queue, engine, polled, working, calls, faults, tries, settled>>

\* UpdateReconStateToResolved: whatever the status is by now.
Update(p) ==
  /\ At(p, "update")
  /\ recon' = [recon EXCEPT ![proc[p].tx] = "RESOLVED"]
  /\ settled' = settled \cup {proc[p].tx}
  /\ Passed(p)
  /\ UNCHANGED <<verdict, queue, engine, polled, working, calls, faults, tries>>

\* A statement on the queue row of t, which may not be there.
Requeued(t, row) == [queue EXCEPT ![t] = IF @.status = "none" THEN @ ELSE row]

\* MarkRetryResolved, MarkRetryExhausted: whatever the status is by now.
Mark(p) ==
  LET t == proc[p].tx IN
  /\ At(p, "mark")
  /\ queue' = Requeued(t, [queue[t] EXCEPT !.status = "RESOLVED"])
  /\ Passed(p)
  /\ UNCHANGED <<recon, verdict, engine, polled, working, calls, faults, tries, settled>>

Exhaust(p) ==
  LET t == proc[p].tx IN
  /\ At(p, "exhaust")
  /\ queue' = Requeued(t, [queue[t] EXCEPT !.status = "EXHAUSTED"])
  /\ Passed(p)
  /\ UNCHANGED <<recon, verdict, engine, polled, working, calls, faults, tries, settled>>

\* attempt_count + 1
Counted(n) == IF n < MaxCount THEN n + 1 ELSE n

\* IncrementRetryAttempt: counts from the row, waits by the polled attempt.
Count(p) ==
  LET t == proc[p].tx IN
  /\ At(p, "count")
  /\ queue' = Requeued(t, [queue[t] EXCEPT !.count = Counted(@),
                                           !.wait = NextRetry(proc[p].attempt)])
  /\ Passed(p)
  /\ UNCHANGED <<recon, verdict, engine, polled, working, calls, faults, tries, settled>>

\* EnqueueRetry: a new row, or the old one, due at once and with the new
\* ceiling; an exhausted one starts over, a resolved one stays resolved.
Enqueue(p) ==
  LET t == proc[p].tx  row == queue[proc[p].tx]
      reopened == row.status \in {"none", "EXHAUSTED"} IN
  /\ At(p, "enqueue")
  /\ queue' = [queue EXCEPT ![t] = [status |-> IF reopened THEN "PENDING" ELSE row.status,
                                    count  |-> IF reopened THEN 0 ELSE row.count,
                                    max    |-> proc[p].max,
                                    wait   |-> 0]]
  /\ tries' = IF reopened THEN [tries EXCEPT ![t] = 0] ELSE tries
  /\ Passed(p)
  /\ UNCHANGED <<recon, verdict, engine, polled, working, calls, faults, settled>>

-----------------------------------------------------------------------------
(* The retry worker                                                        *)

\* Mutant: the query also asks for attempt_count < max_attempts.
DueWithin(t) == queue[t].status = "PENDING" /\ queue[t].wait = 0 /\ queue[t].count < queue[t].max

\* GetPendingRetries
Due(t) == queue[t].status = "PENDING" /\ queue[t].wait = 0

\* runCycle: a snapshot of the rows that are due
Poll ==
  /\ working
  /\ proc[RetryWorker].script = <<>>
  /\ polled = {}
  /\ polled' = {[tx |-> t, count |-> queue[t].count, max |-> queue[t].max] :
                  t \in {u \in Tx : Due(u)}}
  /\ UNCHANGED <<tables, engine, proc, working, calls, faults, tries, settled>>

TakeUp ==
  /\ proc[RetryWorker].script = <<>>
  /\ \E e \in polled :
       /\ polled' = polled \ {e}
       /\ proc' = [proc EXCEPT ![RetryWorker] =
                     [script |-> Retrying, tx |-> e.tx, by |-> "AUTO", max |-> e.max,
                      attempt |-> e.count + 1]]
  /\ UNCHANGED <<tables, engine, working, calls, faults, tries, settled>>

\* The engine resets the row, whatever its status.
Reset(p) ==
  LET t == proc[p].tx IN
  /\ At(p, "reset")
  /\ recon' = [recon EXCEPT ![t] = IF @ = "none" THEN @ ELSE "PENDING"]
  /\ Passed(p)
  /\ UNCHANGED <<verdict, queue, engine, polled, working, calls, faults, tries, settled>>

Verdicts == {"PENDING", "MATCHED", "MISMATCHED"}

\* The engine's verdict s on t is written.
Decided(t, s) ==
  /\ recon' = [recon EXCEPT ![t] = s]
  /\ settled' = IF s = "MATCHED" THEN settled \cup {t} ELSE settled

\* It matches and writes its verdict.
Rematch(p) ==
  LET t == proc[p].tx IN
  /\ At(p, "match")
  /\ \E s \in Verdicts : Decided(t, s)
  /\ Passed(p)
  /\ UNCHANGED <<verdict, queue, engine, polled, working, calls, faults, tries>>

\* It answers with the status the row has by then.
Answer(p) ==
  LET t == proc[p].tx  l == proc[p] IN
  /\ At(p, "answer")
  /\ recon[t] # "none"
  /\ proc' = [proc EXCEPT ![p].script = Answered(recon[t], l.attempt, l.max)]
  /\ tries' = IF recon[t] = "MISMATCHED" THEN [tries EXCEPT ![t] = @ + 1] ELSE tries
  /\ UNCHANGED <<tables, engine, polled, working, calls, faults, settled>>

-----------------------------------------------------------------------------
(* Requests, the engine's own attempts, time and failures                  *)

Call(p, t, script, by, max) ==
  /\ proc[p].script = <<>>
  /\ calls < MaxCalls
  /\ calls' = calls + 1
  /\ proc' = [proc EXCEPT ![p] = [script |-> script, tx |-> t, by |-> by, max |-> max,
                                 attempt |-> 0]]
  /\ UNCHANGED <<tables, engine, polled, working, faults, tries, settled>>

ResolveManually(p, t) == Call(p, t, Manually, "MANUAL", 0)

AutoResolve(p, t) == Call(p, t, Automatically, "AUTO", 0)

EnqueueRetry(p, t) == \E max \in Ceilings : Call(p, t, Enqueuing, "AUTO", max)

\* The engine's worker takes up a row that is missing or PENDING.
EngineTakesUp(t) ==
  /\ t \notin engine
  /\ recon[t] \in {"none", "PENDING"}
  /\ engine' = engine \cup {t}
  /\ UNCHANGED <<tables, polled, proc, working, calls, faults, tries, settled>>

\* Another caller has the engine reset the row and match again.
OthersReTrigger(t) ==
  /\ calls < MaxCalls
  /\ calls' = calls + 1
  /\ recon' = [recon EXCEPT ![t] = IF @ = "none" THEN @ ELSE "PENDING"]
  /\ engine' = engine \cup {t}
  /\ UNCHANGED <<verdict, queue, polled, proc, working, faults, tries, settled>>

\* An attempt of the engine's writes its verdict; another may be in flight.
EngineWrites(t) ==
  /\ t \in engine
  /\ engine' \in {engine, engine \ {t}}
  /\ \E s \in Verdicts : Decided(t, s)
  /\ UNCHANGED <<verdict, queue, polled, proc, working, calls, faults, tries>>

\* The attempts on t have all ended, the last one perhaps in an error.
EngineEnds(t) ==
  /\ t \in engine
  /\ engine' = engine \ {t}
  /\ UNCHANGED <<tables, polled, proc, working, calls, faults, tries, settled>>

Tick ==
  /\ \E t \in Tx : queue[t].wait > 0
  /\ queue' = [t \in Tx |-> [queue[t] EXCEPT !.wait = IF @ = 0 THEN 0 ELSE @ - 1]]
  /\ UNCHANGED <<recon, verdict, engine, polled, proc, working, calls, faults, tries,
                 settled>>

\* What the engine is matching at the worker's request.
Asked == {t \in Tx : At(RetryWorker, "match") /\ proc[RetryWorker].tx = t}

\* The engine fails the worker's call or does not answer it in time: an attempt
\* that has begun may then go on without its caller.
CallFails(p) ==
  LET script == proc[p].script IN
  /\ script # <<>>
  /\ Head(script) \in {"reset", "match", "answer"}
  /\ proc' = [proc EXCEPT ![p].script = Counting]
  /\ \/ UNCHANGED engine
     \/ Head(script) = "match" /\ engine' = engine \cup {proc[p].tx}
  /\ UNCHANGED <<tables, polled, working, calls, faults, tries, settled>>

\* The statement p is about to run fails: only a failed mark is carried on from.
Fault(p) ==
  LET script == proc[p].script IN
  /\ faults < MaxFaults
  /\ faults' = faults + 1
  /\ script # <<>>
  /\ Head(script) \notin {"reset", "match", "answer"}
  /\ IF Head(script) = "mark" THEN Passed(p) ELSE Returned(p)
  /\ UNCHANGED <<tables, engine, polled, working, calls, tries, settled>>

\* The service dies and is started again, with its worker or without; an
\* attempt it had asked the engine for may go on.
Crash ==
  /\ faults < MaxFaults
  /\ faults' = faults + 1
  /\ proc' = [p \in Procs |-> Resting]
  /\ polled' = {}
  /\ engine' \in {engine, engine \cup Asked}
  /\ working' \in BOOLEAN
  /\ UNCHANGED <<tables, calls, tries, settled>>

-----------------------------------------------------------------------------
Statement(p) ==
  \/ Check(p) \/ CheckOpen(p) \/ ChooseNone(p) \/ Insert(p) \/ Update(p) \/ Mark(p)
  \/ Exhaust(p) \/ Count(p) \/ Enqueue(p)

WorkerStep ==
  \/ Poll \/ TakeUp
  \/ Reset(RetryWorker) \/ Rematch(RetryWorker) \/ Answer(RetryWorker)
  \/ Statement(RetryWorker)

Request(p, t) == ResolveManually(p, t) \/ AutoResolve(p, t) \/ EnqueueRetry(p, t)

EngineStep(t) == EngineTakesUp(t) \/ EngineWrites(t) \/ EngineEnds(t)

Next ==
  \/ WorkerStep
  \/ \E p \in Ops : Statement(p) \/ \E t \in Tx : Request(p, t)
  \/ \E t \in Tx : EngineStep(t) \/ OthersReTrigger(t)
  \/ Tick
  \/ CallFails(RetryWorker)
  \/ \E p \in Procs : Fault(p)
  \/ Crash

Spec == Init /\ [][Next]_vars

\* The worker's goroutine runs, handlers finish, a call to the engine
\* ends and the clock runs; nobody has to ask, to fail, or else to reconcile.
FairSpec ==
  /\ Spec
  /\ WF_vars(WorkerStep)
  /\ \A p \in Ops : WF_vars(Statement(p))
  /\ WF_vars(Tick)

-----------------------------------------------------------------------------
(* Properties                                                              *)

Statements ==
  {"check", "checkOpen", "insert", "update", "mark", "exhaust", "count", "enqueue",
   "reset", "match", "answer"}

\* Every variable has its type; no wait is longer than the cap, and an
\* attempt is numbered.
TypeOK ==
  /\ recon \in [Tx -> {"none", "PENDING", "MATCHED", "MISMATCHED", "RESOLVED"}]
  /\ verdict \in [Tx -> {"none", "MANUAL", "AUTO"}]
  /\ queue \in [Tx -> [status : {"none", "PENDING", "EXHAUSTED", "RESOLVED"},
                       count : Nat, max : {0} \cup Ceilings, wait : 0..Cap]]
  /\ engine \subseteq Tx
  /\ polled \subseteq [tx : Tx, count : Nat, max : Ceilings]
  /\ proc \in [Procs -> [script : Seq(Statements), tx : Tx \cup {NoTx},
                         by : {"MANUAL", "AUTO"}, max : {0} \cup Ceilings, attempt : Nat]]
  /\ \A p \in Procs : proc[p].script # <<>> => proc[p].tx \in Tx
  /\ \A p \in Procs : At(p, "count") => proc[p].attempt > 0
  /\ working \in BOOLEAN
  /\ calls \in Nat /\ faults \in Nat
  /\ tries \in [Tx -> Nat]
  /\ settled \subseteq Tx

\* A transaction is RESOLVED only when it is on file who resolved it, whatever
\* handlers and worker overlap, fail or die (server.go, ResolveManually;
\* handler.go, autoResolve; worker.go, applyAutoResolution).
ResolvedIsOnFile == \A t \in Tx : recon[t] = "RESOLVED" => verdict[t] # "none"

\* The queue gives up a transaction as RESOLVED only if it really has been
\* matched or resolved at some time, though the marks are not guarded by the
\* status they assume (worker.go, retryOne; db.go, MarkRetryResolved).
ClosedWasSettled == \A t \in Tx : queue[t].status = "RESOLVED" => t \in settled

\* The worker asks the engine about a queue row, up to the ceiling, and once
\* more for each failure that loses a count; and it never spends an attempt on
\* an exhausted row, though it works from a snapshot (worker.go, runCycle).
BudgetHolds ==
  \A t \in Tx :
    /\ \E max \in Ceilings \cup {0} : tries[t] =< max + faults
    /\ At(RetryWorker, "reset") /\ proc[RetryWorker].tx = t => queue[t].status # "EXHAUSTED"

\* An attempt that ends in no verdict: the engine failed, or answered PENDING.
NoVerdict ==
  \/ CallFails(RetryWorker)
  \/ Answer(RetryWorker) /\ recon[proc[RetryWorker].tx] = "PENDING"

\* From some time on the worker runs, statements succeed and the engine answers
\* the worker with verdicts.
Steady == <>[]working /\ <>[][UNCHANGED faults /\ ~NoVerdict]_vars

\* A transaction does not wait in the queue for ever: its row is closed or
\* exhausted, as it is by resolution-service.md:80 ("Ceiling; when reached ->
\* EXHAUSTED"); but only where an attempt comes to a verdict again, since one
\* that does not is counted past every ceiling (worker.go, retryOne), and only
\* where the worker was started (main.go).  Then neither ceilings that are
\* moved nor counts that are past them, lost or reset keep it there.
QueueDrains ==
  Steady => \A t \in Tx : queue[t].status = "PENDING" ~> queue[t].status # "PENDING"

\* server.go:117, "mark it RESOLVED so the worker does not attempt further
\* re-matching": a step of the worker never takes RESOLVED back from a
\* transaction whose queue row is marked RESOLVED.
ResolutionStands ==
  [][\A t \in Tx :
       recon[t] = "RESOLVED" /\ queue[t].status = "RESOLVED" /\ WorkerStep
         => recon'[t] = "RESOLVED"]_vars

-----------------------------------------------------------------------------
(* The contract with the engine                                            *)

\* The transactions somebody has admitted to resolution and may still write.
Resolving ==
  {t \in Tx : \E p \in Procs :
     /\ proc[p].tx = t
     /\ \E i \in DOMAIN proc[p].script : proc[p].script[i] = "update"
     /\ \A i \in DOMAIN proc[p].script : proc[p].script[i] # "check"}

Life == INSTANCE Reconciliation
          WITH status <- recon, engine <- engine \cup Asked, resolving <- Resolving

\* The service keeps the contract: only a transaction that was seen MISMATCHED
\* or RESOLVED is ever written RESOLVED, by hand, by request or on exhaustion,
\* and all else that happens to a status here the engine may do.
KeepsContract == Life!Spec
=============================================================================
