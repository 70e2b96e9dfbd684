# A TLA+ verification of ReconX

ReconX reconciles what several business systems report about one transaction.
This directory holds TLA+ models of its services, TLC configurations that check
them on small instances, and proofs of what holds on instances of any size.

## 1. The system

Four services, all state in one PostgreSQL database. **No service ever opens an
SQL transaction**: each statement commits on its own, so every gap between two
statements is a point where another service, another handler or a crash can
come in. This is the fact most of the project is about.

| Component | State it keeps | Operations | What is hard | What makes it correct |
|---|---|---|---|---|
| Ingestion: `SubmitRecord`, `BulkStreamIngest` (`services/ingestion/internal/server`) | `ingestion_records`, `ingestion_idempotency`, `ingestion_dlq` | rate limit, idempotency check, pipeline, insert, idempotency entry or DLQ | overlapping submissions of a key, failed statements, expiry | what is answered is stored; one id per key |
| Ingestion: adapters and their queue (`cmd/main.go`, `internal/adapters`) | a bounded channel in memory | webhook and file handlers push, one consumer submits | back-pressure, restart, refusals after acceptance | what is queued is dealt with |
| Ingestion: Kafka consumer (`adapters/kafka.go`) | the reader's offsets, the group's offset at the broker | fetch, convert, push, commit | commits before processing, restart without an offset | offsets follow the queue |
| Engine: matcher (`services/engine/src/engine/matcher.rs`, `rules.rs`) | none, a pure function | deduplicate, check sources, timeout, currency, compare | `HashMap` iteration order, tolerance that is not transitive | the verdict does not depend on accidents |
| Engine: worker (`engine/worker.rs`, `db/queries.rs`) | `recon_state`, `recon_match_details`, `recon_audit_log`, `ingestion_records.status` | poll, then `reconcile_one` per ref | overlap with the handlers, failures between statements, records that come in late, retry budget and timeout | tables agree; verdicts come from records; everything is decided |
| Engine: gRPC (`grpc/server.rs`) | the same tables | `GetReconState` (reconciles inline), `ReTriggerMatch` (resets, then reconciles) | runs `reconcile_one` concurrently with the worker | as above |
| Resolution: handlers (`services/resolution/internal/server`, `api`) | `resolution_records`, `resolution_retry_queue`, and `recon_state` of the engine | `ResolveManually`, `autoResolve`, `enqueueRetry` | check-then-act against engine and worker | a resolution is on file and stands |
| Resolution: listings (`db.go`, `server.go`, `api/handler.go`) | none; a page is two queries | `ListMismatches` (gRPC stream, HTTP), `GetRetryQueue` (HTTP) | rows come, go and are re-stamped between pages and between the two queries of a page | what stands is listed, once, as asked; the pages end |
| Resolution: retry worker (`internal/retry`) | the queue | poll, re-trigger through the engine, count, back off, exhaust, resolve automatically | works from a snapshot, calls that time out, ceilings that move, no worker at all | the budget holds, the queue drains |
| Ingestion: pipeline (`internal/pipeline`) | none, a pure function | enrich, validate, normalise | the order: fields are filled only by the last stage | what is stored passed the rules |
| Ingestion: rate limiter (`internal/ratelimit`) | a map of token buckets in memory | `Allow` | the lookup and the creation of a bucket are two critical sections | a source gets its burst and its rate, no more and no less for others' traffic |
| Ingestion: bodies (`adapters/webhook.go`, `file.go`) | what has been queued of a body when it turns out damaged or too large | JSON object, array, NDJSON, CSV | partial uploads, bodies cut off at a limit, retries of them, clients that leave | the answer tells what was queued; a repeated upload stores nothing twice |
| Gateway (`services/gateway`) | none | `submitRecord`, `listMismatches` (buffers a stream), proxies | a stream that breaks after some records | who follows the tokens misses nothing |

Interaction: ingestion writes `ingestion_records`, which the engine polls; the
engine writes `recon_state` and back into `ingestion_records.status`; resolution
reads `recon_state`, overwrites its status with `RESOLVED`, and calls the
engine's `ReTriggerMatch` over gRPC; the gateway calls all three.

Two modules describe the two writers of `recon_state`, and a third,
`Reconciliation`, the contract that joins them: `Engine` and `Resolution` are
each shown to implement it, so what one assumes of the other is what the other
does.

## 2. The modules

Each action is one SQL statement, queue operation or remote call, with the
control flow around it; what a process has read and not yet used is in its local
state (`proc`). Names follow the source. `PROJECT.json` maps definitions to lines.

**`Matcher`** - the matcher as operators. A record is `[src, amt, cur]`, amounts
are integers in the smallest unit. The code walks the values of a `HashMap`, so
every operator whose result can depend on the walk takes the order as parameter,
and `MatchRecords` is used under `\E order \in Orders(recs)`. There is no
RECURSIVE operator: buckets are a recursive function.

**`MatchRun`** - one life of the matcher's input: records arrive, the timeout may
pass, the matcher is run.

**`Engine`** (extends `Matcher`) - worker and handlers over the tables. `Poll`,
`TakeUp` are `process_batch`; `ReadOldStatus`, `ReadAndMatch`, `UpsertState`,
`UpsertDetail`, `AuditAttempt`, `Propagate` are the statements of
`reconcile_one`; `GetKnown`, `GetUnknown`, `ReTrigger`, `AuditReTrigger`,
`Answer` the handlers; `Fault` makes the next statement of a process fail along
the error path the code takes; `Crash` loses everything but the tables.
A record carries the stamp `server_received_at` (`at`), which ingestion puts on it
before it inserts it (`normalize.go:139`, `storage.go:97`): `records` lists them as
they become visible (`Ingest`), in any order of the stamps, and the engine reads them
in the order of their stamps (`Readings`, with equal stamps in any order), so a
record that becomes visible later may come first, may be the older one of its source,
and may set `first_seen_at` back. Time is two saturating ages per
transaction, because the code only compares ages with two thresholds. `disturbed`
is a ghost: transactions on which attempts overlapped or one was cut short.

**`Resolution`** - each process holds its *script*: the statements it has still
to run. A handler is the choice of a script (`Manually`, `Automatically`,
`Enqueuing`), a guard that fails drops the rest, and the worker's script is
chosen by the engine's answer (`Answered`). The engine appears as what it is to
this service: it takes up PENDING rows and later overwrites the status with a
verdict of its choice. A call to it may fail at any of its steps, any number of times
(`CallFails`), which is counted like an attempt, as a PENDING answer is. `working`
is whether the service was started with its worker: `main.go` starts none when
retry is disabled or the engine cannot be reached, at the first start as after a
crash. `settled` and `tries` are ghosts.

**`Reconciliation`** - the abstract specification: what may happen to the status of
a transaction, and who may still write it. `TakeUp`, `ReTrigger`, `Write` are the
engine's, `Admit` and `Resolve` the resolution service's, `GiveUp` is an error or
a crash of either. `Engine` maps to it the statuses of `recon_state` and the
transactions with an attempt in flight (`Life == INSTANCE Reconciliation WITH
...`), `Resolution` the statuses, the engine's attempts (its own and those the
worker waits for) and the transactions whose process has passed its check and
not yet written (`Resolving`). The property is `KeepsContract` in both.

**`Listing`** - one listing read page by page while the tables change: `Select`
is the first query of a page (with the cursor, the filter and the page size as
the code clamps it), `ReadDetails` the second, `Deliver`, `Answered` and
`Received` how a page reaches the client over each door, `QueryFails` and `Break`
the failures, after which the client asks again. `StatusWritten`,
`DetailWritten` and `QueueWritten` are what the other modules do to the rows.

**`Pipeline`** - the stages as operators on classes of values, in the order of
`main.go`.

**`Uploads`** (extends `Pipeline`) - bodies in every form and with every end: whole,
damaged, or past `MaxBodyBytes`, where the webhook silently stops reading
(`io.LimitReader`, `webhook.go:71`), between two records (`cut`) or inside one
(`torn`). `Records` is what the handler makes of the body, `Status` its answer;
`Upload` begins one, `Send` queues the next record, `Finish` answers, `GoAway` is a
client that leaves, `Call` the gateway's single submission, `Consume` the consumer
with the pipeline and the idempotency check.

**`Limiter`** - `Allow` in its steps (`Lookup`, `Create`, `Take`), which hold the
lock one at a time; the buckets of `golang.org/x/time/rate` are external. Tokens are counted in fractions, so that rates below
one and bursts that are rounded up occur.

**`Ingestion`** - concurrent submissions (`Check`, `Insert`, `Remember`, `Bury`),
the webhook (`Accept`), the consumer (`Take`, `TakeRefused`), the Kafka reader
(`Fetch`, `Discard`, `Push`, `Flush`), expiry and purge, `Fault` and `Restart`.
A record is its idempotency key; whether the pipeline passes it is a fact about
the key. `answers`, `accepted`, `lost`, `skipped`, `disturbed` are ghosts.

**`MatcherProof`, `EngineProof`, `EngineAttemptsProof`, `ResolutionProof`,
`IngestionProof`, `ListingProof`, `LimiterProof`, `UploadsProof`** - theorems
about the modules they extend (`EngineAttemptsProof` continues `EngineProof`).

**`MCMatch`, `MCEngine`, `MCResolution`, `MCIngestion`, `MCListing`, `MCLimiter`,
`MCUploads`** - constants for TLC.

Operators commented "Mutant" are plausible bugs used to test the properties:
with the operator in place of the definition that follows it, TLC finds the
property violated. No specification uses them.

## 3. What the runs check

| Run | Question | Result |
|---|---|---|
| `match` | What may a verdict depend on, and what does it imply? | `PairOrderIndependent`, `LatestRecordCounts`, `ExactIffEqual`, `MatchedSpread` (a tolerance match spreads over at most *two* tolerances), `FlaggedDisagrees`, `StrictMajorityUnflagged` hold |
| `engine` | Do the tables agree under overlap, failure and crash? Does the engine keep the contract? | `VerdictFromSnapshot`, `ShownIsAudited`, `RetryBounded`, `KeepsContract` always; `RestingAgreement`, `CountGrows` unless attempts overlapped or were cut short |
| `engine_live` | Is every transaction attempted and decided? | yes, if the retries outlast the timeout, its amounts parse, and the lower refs whose amounts do not parse do not fill a batch (`Starved`) |
| `resolution` | Do handlers, worker and engine keep resolutions and queue in order, and the contract? | `ResolvedIsOnFile`, `ClosedWasSettled`, `BudgetHolds`, `KeepsContract` hold; `QueueDrains` where the worker runs and attempts end in verdicts again (`Steady`) |
| `listing` | Does a listing miss, repeat or misplace a row while the tables change, and does it end? | for the mismatches `StandingListed`, `ListedOnce`, `ListedQualified` hold, and `ListingEnds` for both; the retry queue gives no such promise (see below) |
| `ingestion` | Is what is answered stored, what is queued dealt with? | `AnsweredIsStored`, `OneIdPerKey`, `NothingVanishes`, `CommittedWasQueued`, `AcceptedSettles`, `CommitsCatchUp` hold |
| `uploads` | What has become of a body when its sender is answered, or leaves? | `QueuedIsPrefix` (all that was *read* if the answer is 202, see below), `StoredOnce`, `UploadEnds` hold |
| `limiter` | Does the race for a new bucket give a source more, or other sources' traffic give it less? | neither: `AdmittedBounded`, `RefusedHasSpent` hold |

Runs in which the code does not do what a comment, document or test says:

| Run | Statement | What happens |
|---|---|---|
| `match_two_vs_one` | unit test `majority_two_vs_one`: two against one is MATCHED | MISMATCHED: every outlier makes a mismatch |
| `engine_timeout` | `default.toml:55`: PENDING is escalated after 300 s | three retries 30 s apart are over first; nobody looks again |
| `resolution_stands` | `server.go:117`: a resolved queue row is not re-matched | the worker's snapshot is older than the resolution |
| `uploads_valid` | `validate.go:39-40`: an unknown currency and a time in the future are refused | the fields are empty when they are validated; a record with currency XXX is stored |

Met while modelling, in the models, and not worth a run of their own:

- A failure between the status and its audit entry leaves a transition that
  `recon_audit_log` never shows (`reconciliation-engine.md:121` says every one is).
- `EnqueueRetry` never reopens a row closed as RESOLVED, so a transaction that
  mismatches again later is not retried.
- Overlapping submissions of one key are answered with internal ids of their own;
  `OneIdPerKey` therefore speaks of undisturbed keys.
- A record that the limiter refuses after the adapter has accepted it is dropped,
  not put in the DLQ (`lost` in `Ingestion`).
- The retry-queue listing orders by `next_retry_at` and continues after a
  `transaction_ref`: its pages skip and repeat rows even when nothing changes.
  `StandingListed` and `ListedOnce` are for this reason stated of the mismatches.
- A webhook body of several JSON lines begins with `{` and is taken for one
  record (`Merges` in `Uploads`): the answer is 202, and the merged record, of which
  no field can be read (`Illegible`), fails in the pipeline. `webhook.go:46-49` and
  `ingestion-service.md:214-223` promise one record per line; only a body whose first
  byte is neither `{` nor `[` is read in lines.
- Lines past `MaxBodyBytes` are dropped and the answer is 202 nevertheless, with the
  number queued as the only hint; a line torn by the limit is queued and fails in
  the pipeline (`webhook.go:71`, `126-140`). `QueuedIsPrefix` says so; that
  all of a body is queued when the answer is 202 is false.
- As many transactions with low refs and an amount that does not parse as fit into
  a batch keep the worker from ever reaching a later one (`queries.rs:91-118`): they
  never get a row and are polled again in every cycle. `EveryTransactionAttempted` and
  `PendingEscalates` except the starved by name.
- `resolution-service.md:80` and `worker.go:10` say that a row whose attempts reach the
  ceiling becomes EXHAUSTED. Failed calls (`worker.go:147-155`) and PENDING answers
  (`worker.go:207-218`) are counted past the ceiling and never exhaust a row, so an
  engine that stays away, or a transaction that stays PENDING, keeps its row in the
  queue for ever.
- A resolution service that cannot reach the engine when it starts runs without
  a retry worker until it is restarted (`main.go:109-116`, `180-190`).
- The comment on `nextRetryTime` says `baseSecs * 2^attempt`; the code computes
  `2^(attempt - 1)`, as `NextRetry` does.

### Bounds, and why they are enough

- `match`: three sources, up to four records (so that a source can report twice
  and still be compared with two others), amounts up to three units apart with a
  tolerance of one unit or 50 percent: near, just within, just outside, and
  non-transitive chains all occur; one missing and one unreadable amount, one
  second currency. `MaxRecords` is the only bound on behaviours.
- `engine`: one transaction, the worker and one handler (two attempts overlap),
  one call, one failure; three records, one of the first source and two of the second
  with different amounts, stamped so that each may become visible before or after
  what it is read before: a late record can be the newest of its source or
  an older one, and can change a MATCHED verdict or not. Transactions share no rows,
  so a second one only matters to the batch; `engine_live` has two.
- `engine_live`: two transactions and batches of one, so that one whose
  amount does not parse fills the batch and starves the other; two retries and a
  timeout of one tick, so that the budget does outlast the timeout.
  `engine_timeout` has the proportions of the defaults.
- `resolution`: one transaction, two handlers and the worker, two requests,
  ceilings of one or two attempts (a request can raise or lower the ceiling of a
  row the worker holds), two database faults or crashes (a failure
  in what another failure left behind). Failed calls and PENDING answers are not
  bounded. `attempt_count` stops at `MaxCount`: it is only compared with the
  ceilings and used for the backoff, and `ResolutionAssumption` asks that at
  `MaxCount` it is no less than any ceiling and every further wait is capped, so a
  count beyond it acts like one at it. `AutoApply` is TRUE, which includes what
  happens without it up to the exhaustion; rows of different transactions share
  nothing but the worker's snapshot, and the theorems of section 4 hold for any number.
- `listing`: three rows, so that there is one before, on and after a cursor;
  effective page sizes of one and two, by way of none given, one, and more than
  the maximum; two changes between any two statements (a row leaves and another
  comes, or one leaves and returns) and one failure.
- `limiter`: three callers, two of which can both miss the bucket that a third
  creates; bursts of one and two; six seconds, enough to refill what was spent.
- `uploads`: two clients, two uploads, room for one record in the queue, bodies
  of up to two records: a damaged, cut or torn body has something before its end, and
  an upload can be repeated whole, cut short, or by another client at once. Each form
  has every end that makes a difference to it.
- `ingestion`: one handler beside the consumer (two submissions overlap), three
  requests, two keys, one of which the pipeline rejects, a queue of one slot
  (always full or empty), an empty and a good Kafka message, one expiry, one
  fault or restart.
- `MaxCalls`, `MaxFaults`, `MaxExpiries`, `MaxChanges`,
  `MaxUploads`, `MaxNow` only bound what the
  environment does; they make the runs finite. When they are used up the
  ingestion service may have nothing left to do, a listing is over, and a resolution
  service without its worker rests, which is why these runs do not check for
  deadlock; the engine's runs do.

### Fairness

Only what the runtime schedules is fair, and only weakly: the workers' loops
(`tokio::spawn`, `go worker.Start`), started handlers, the consumer and the
Kafka reader, the clock. Requests, failures, refusals and the arrival of records
are never forced. A client who lists goes on (`WF` of `Reading`), though nothing forces
the changes or failures he meets. A handler that waits for room in the adapter
queue is strongly fair: a Go channel serves waiting senders in the order they
came, so one that finds room again and again gets it (`Send` in `Uploads`; the
rest of the handler, `Finish`, and the consumer are weakly fair). Fairness is never
asked of the engine's own attempts in `Resolution`; that the worker's call ends is
the call's timeout. What the code's scheduling does not give is a premise of
`QueueDrains` (`Steady`): from some time on the worker runs (after a restart it may
not), statements succeed, and the engine answers the worker with verdicts. Without
the first or the last of the three TLC finds a row that stays in the queue for ever
(the second, `MaxFaults` gives the run anyway). Nothing is assumed
of what happened before: ceilings may have moved, counts may be far past them, lost
or reset, and the row must still be closed or exhausted. Likewise
`EveryTransactionAttempted` and `PendingEscalates` hold by fairness alone (the second
where the retries outlast the timeout), except for the transactions that do not parse or
are starved.

## 4. What is proved

Every safety invariant and every action property of a passing run is a theorem,
as is each refinement; what is left to TLC is liveness (see the end of the section).

Of `Spec` of `MatchRun`, for any sources, records, rule sets and orders of the walk
(`InputsAssumption`, `RuleSetsAssumption`):

- **`ExactIffEqualInvariant`**, **`FlaggedDisagreesInvariant`**,
  **`StrictMajorityUnflaggedInvariant`**, **`MatchedSpreadInvariant`**,
  **`PairOrderIndependentInvariant`**, **`LatestRecordCountsInvariant`**: `[]` of the
  properties of run `match`. `MatchInv` is small (a finished run has the matcher's
  result for some walk); the work is in lemmas about the matcher. A tolerance match
  asks every source against the reference, so two of them are at most two tolerances
  apart (`Triangle`). A majority verdict flags only what another bucket outnumbers
  (`MajorityFlags`), equal amounts share a bucket (`EqualTogether`), so more than
  half is never outnumbered. The latest records alone have the same sources and
  amounts, and the walks are over those (`KeptIs`).
- The buckets of the majority strategy are a recursive function. The library's
  induction theorems take an operator as a parameter, which the provers cannot
  instantiate; what the function computes along a walk is shown by least
  counterexample instead: the set of positions at which it is undefined, or at which
  equal amounts part, has no least element (`LeastExists`, from `WFMin`).

For all values of the constants that satisfy `EngineAssumption` (any number of
transactions, any finite set of handlers, any records, any rule set, any
bounds), of `Spec` of `Engine`:

- **`TypeCorrect`**: `[]TypeOK`. `TypeOK` is inductive. It is split into the part about
  `proc` and the part about the tables; the matcher's results are typed by lemmas
  (`ComparedType`, `StrategiesType`, `MatchRecordsType`), and carry over to records
  read in the order of their stamps because a reading has the same records in
  another order (`ReadingIs`, `OutcomeOf`, `OutcomesType`).
- **`ShownAudited`**: `[]ShownIsAudited`. Not inductive: nothing in it says why
  the status about to be shown is in the log. `AuditInv` adds that a process at
  "propagate" has its outcome in the audit log of its transaction; the log only grows
  (`AuditGrows`), so what another process does cannot undo it.
- **`VerdictsFromSnapshots`**: `[]VerdictFromSnapshot`. `SnapshotInv` adds the
  same for outcomes still in flight: a process at "upsert" holds a result that the matcher
  gives for the `seen` records that were visible when it read them, in the order of
  their stamps. What was visible stays so: a record that comes in later may be stamped
  earlier, but `records` lists them by visibility and only grows at its end
  (`RecordsGrow`, `PrefixStays`).
- **`RetriesBounded`**: `[]RetryBounded`. The inductive invariant charges each
  process that is on its way to the upsert of a transaction (`Coming`) to that
  transaction: retries so far plus those coming never exceed `MaxRetries` plus
  the number of handlers. A ref waiting in the worker's batch counts as one
  coming attempt, so the invariant also says that the worker is not already on
  its way with a ref of its batch: each process is then charged once. The
  eligibility test of the poll gives the bound when the worker takes a ref into
  its batch, the reset to 0 when a handler re-triggers, and the missing row when
  a handler reconciles inline.

- **`RestingTablesAgree`** and **`CountsGrow`**: `[]RestingAgreement` and
  `CountGrows`, of the transactions that are not `disturbed`. Neither is inductive:
  the four tables disagree in the middle of an attempt, so the invariant must know
  what the attempt has left behind at each of its statements. `RestInv` says of an
  undisturbed transaction (`Undisturbed`) that at most one process works on it,
  how far that process is and what it has written (`Progress`: the row is its own,
  the details are marked but for those still to do, the log ends with its status),
  that at rest the tables tell one story (`Story`), and that rows and details are of records
  that are there (`Counted`). Each statement is one lemma (`UpsertStateKeeps`,
  `UpsertDetailKeeps`, `AuditAttemptKeeps`, `PropagateKeeps`, ...); steps about other
  transactions are one more (`SparesFrame`). `ComparedShape` is the fact
  about the matcher that joins the details to the sources of the records, and
  `OutcomesShape` carries it to any reading of them.
  `CountsGrow` follows: an attempt counts the records it has read, and the row it
  replaces counted a prefix of them.
- **`EngineKeepsContract`**: `Spec => KeepsContract`. `TypeOK` is all it needs: a
  status changes only in an upsert or a re-trigger (`ReconChanges`), and a transaction
  is newly in flight only when it is polled, re-triggered or read without a row
  (`InFlightGrows`).

Of `Spec` of `Resolution`, from `ResolutionAssumption` (any transactions, handlers,
ceilings, backoff and bounds):

- **`ResolvedOnFile`**: `[]ResolvedIsOnFile`, and **`ClosedSettled`**:
  `[]ClosedWasSettled`. Neither is inductive, because the update and the mark
  check nothing when they are run. `Inv` adds what the order of a script
  guarantees: every script is a suffix of one of the handlers' or the worker's
  (`Scripts`), who is about to update has filed his decision, who is about to mark knows the
  transaction to be settled (`InOrder`), and what is MATCHED or RESOLVED is
  settled. Decisions and settlement are never undone, so other processes cannot
  disturb this (`MovesInOrder`).
- **`ResolutionKeepsContract`**: `Spec => KeepsContract`. `AdmittedKnown` turns the
  mapping's quantifiers over scripts into a set of scripts; then each statement
  is the contract's `Admit` or `Resolve`, or gives up at most what it has
  (`MovesGiveUp`). Together with `EngineKeepsContract`: the two services, written
  apart, agree on how a status may change.

- **`BudgetKept`**: `[]BudgetHolds`, and **`ResolutionTypeOK`**: `[]TypeOK`. The
  tally of a row is not bounded by anything `BudgetHolds` mentions. `Account` keeps
  the books: an answer of the engine is paid for by the count of the row, by a
  failure, or by the worker on its way to count it (`Owed`); while the worker may still
  ask (`Open`: the row is PENDING, in the snapshot, or in hand), some ceiling leaves room for
  one more answer, or the worker is about to exhaust the row (`Spent`). The room
  comes from the number of the attempt, which is one more than the count of
  the row: that is why the invariant says that the snapshot holds each row once with
  its present count, that nobody but the worker counts or exhausts (`Slip`),
  and that a handler reopens a row only when the worker has let go of it. A ceiling
  may be lowered below the count at any time, so the bound names some ceiling, not the
  row's. For `TypeOK` a power of two must be a natural number: it is the number of
  subsets of a finite set (`PowerNat`), which needs no induction here.

Of `Spec` of `Ingestion`, from `IngestionAssumption` (any keys, handlers, topic,
queue and bounds): **`IngestionTypeOK`**, **`AnswersStored`**, **`OneId`**,
**`QueuedStays`**, **`CommitsFollowQueue`**: `[]` of `TypeOK`, `AnsweredIsStored`,
`OneIdPerKey`, `NothingVanishes` and `CommittedWasQueued`. One invariant carries
them: entries are of stored records, offsets are in order and cover what they
say (`OffsetsFollow`), and an undisturbed key lives one submission at a time
(`KeyLife`).

Of `Spec` of `Listing`, from `ListingAssumption`: **`ListingTypeOK`** (with the
bound on a page), **`NothingMissed`**, **`NothingTwice`**, **`OnlyQualified`**. The
invariant divides the transactions at the cursor: what stands at or below it has
been given (`Behind`), and the page under way has the rest up to where it ends
(`Gapless`).

Of `Spec` of `Limiter`, from `LimiterAssumption`: **`LimiterTypeOK`**,
**`SourceBounded`**, **`SourceIsolated`**. A source has one bucket at most (`OneBucket`: the second
look under the write lock), and what it has been admitted and what that bucket
holds add up, from above to the burst and the time (`NoMore`), from below to a
burst (`NoLess`).

Of `Spec` of `Uploads`, from `UploadsAssumption`: **`UploadsTypeOK`**,
**`PrefixQueued`**, **`KeyedOnce`**. `PrefixQueued` says what a 202 means for any body: all
that was read is queued, which of lines past the limit is not all there is
(`SentQueued` has a case for each way a body is read). A record that came with a key still
has it in the queue and in the table (`QueueKept`, `RowsKept`), the table has each
key once (`KeysUnique`), and what a handler has sent are the first of the records it
reads out of its body (`Progress`).

Only model-checked: the liveness properties (`EveryTransactionAttempted`,
`PendingEscalates`, `QueueDrains`, `ListingEnds`, `AcceptedSettles`,
`CommitsCatchUp`, `UploadEnds`), since fairness and ENABLED are outside
the prover; and the violations of section 3, which are counterexamples. The
inductive invariants were checked by TLC on the instances of section 3 before they
were proved (`RestInv` also with two calls, `Tallied` also with two transactions).

## 5. What is not modelled

- The rows `Resolution` adds to `recon_audit_log` (never read back), the batch
  limit of its poll, the audit-trail query and the queue statistics (one SELECT
  each).
- Which source a resolver strategy chooses: pure reads. The queries for the
  highest and the lowest amount name a column that `recon_match_details` lacks
  (`db.go:633`), so those two always fail; `ChooseNone` and `Fault` cover what
  follows.
- The text of bodies: a body is the list of its records and how it ends. That the CSV reader ignores a `source_system` column (`file.go:170`)
  and that `normalize.go` does not read times in milliseconds concern data the
  properties do not tell apart ("unreadable").
- Rebalancing of the Kafka group.
- DLQ replay and the REST and database pollers: nothing calls or starts them.
- A failed statement of the engine or of the resolution service that took effect
  nevertheless; the ingestion module has this case for the insert.
- The gateway's forwarders that make one call and translate its answer,
  authentication and health; the gauge `active_mismatches`, which only grows because
  a re-trigger hides the mismatch from it; start-up, configuration, logging,
  generated code.

## 6. Plan

1. (done) `Matcher`, `MatchRun`; `Engine` with its proofs; `Resolution`;
   `Ingestion`; their runs.
2. (done) `Pipeline` and `Uploads`, `Limiter`, `Listing`, with their proofs.
3. (done) `Reconciliation`, and that engine and resolution service implement it,
   checked and proved; the safety invariants of `Resolution` and `Ingestion`
   proved.
4. (done) The matcher's properties, `RestingAgreement`, `CountGrows`, and
   `BudgetHolds` and `TypeOK` of `Resolution` proved.
5. A module for the gauges (`active_mismatches`, queue depth) as counters beside the
   tables they count; the choice of the resolver strategies against a reference
   definition.
