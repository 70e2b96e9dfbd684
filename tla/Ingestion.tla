------------------------------ MODULE Ingestion ------------------------------
(***************************************************************************)
(* The ingestion service (services/ingestion): concurrent gRPC handlers    *)
(* running SubmitRecord; the HTTP adapters and the Kafka consumer, which   *)
(* put records on one bounded in-memory queue; and the goroutine that      *)
(* takes them off it and submits them too.  Each SQL statement and each    *)
(* queue or offset operation is a step; the tables and the broker's        *)
(* offsets survive a restart, the queue does not.                          *)
(*                                                                         *)
(* A record is its idempotency key.  Whether it passes the pipeline        *)
(* (Enrich, Validate, Normalize) is a fact about the key, and the rate     *)
(* limiter may refuse any submission.                                      *)
(***************************************************************************)
EXTENDS Integers, Sequences

CONSTANTS
  Keys,         \* idempotency keys
  Bad,          \* those of records the pipeline rejects
  Handlers,     \* the gRPC handlers that can be running at once
  Consumer,     \* consumeAdapterQueue
  Topic,        \* the messages of the Kafka partition, in order
  Empty,        \* a message without a value
  QueueCap,     \* capacity of the adapter queue
  NoKey, NoId,  \* "no record", "no internal_id"
  MaxCalls,     \* bound: gRPC and HTTP requests
  MaxExpiries,  \* bound: idempotency entries that outlive their TTL
  MaxFaults     \* bound: failed statements and restarts

ASSUME IngestionAssumption ==
  /\ Bad \subseteq Keys
  /\ Consumer \notin Handlers
  /\ Topic \in Seq(Keys \cup {Empty})
  /\ QueueCap \in Nat \ {0}
  /\ NoKey \notin Keys /\ Empty \notin Keys /\ NoKey # Empty
  /\ NoId \notin Nat
  /\ MaxCalls \in Nat /\ MaxExpiries \in Nat /\ MaxFaults \in Nat

Procs == Handlers \cup {Consumer}

VARIABLES
  stored,     \* ingestion_records: the internal_id under each key, or NoId
  cached,     \* ingestion_idempotency: [id, live] under each key, id NoId if none
  dead,       \* ingestion_dlq: the keys it holds
  queue,      \* the adapter queue
  produced,   \* the topic as far as it has been written
  fetched,    \* the topic as far as the reader has fetched it
  held,       \* the message the reader has fetched and not yet queued
  marked,     \* the offset the reader will commit next
  committed,  \* the consumer group's offset at the broker, 0 if it has none
  proc,       \* the local state of each submission
  ids,        \* the internal_ids drawn so far
  calls, expiries, faults,  \* what the bounds count
  answers,    \* ghost: <<key, id>> for every success answered
  accepted,   \* ghost: keys that have been put on the queue
  lost,       \* ghost: keys refused, or dropped in a failure, after that
  skipped,    \* ghost: messages the reader has skipped at a restart
  disturbed   \* ghost: keys submitted twice at once, or through a failure, or
              \* whose idempotency entry has expired

kafka  == <<produced, fetched, held, marked, committed, skipped>>
tables == <<stored, cached, dead>>
bounds == <<calls, expiries, faults>>
ghosts == <<answers, accepted, lost, disturbed>>
vars   == <<tables, kafka, queue, proc, ids, bounds, ghosts>>

NoEntry == [id |-> NoId, live |-> FALSE]

Resting == [pc |-> "idle", key |-> NoKey, id |-> NoId]

Init ==
  /\ stored = [k \in Keys |-> NoId]
  /\ cached = [k \in Keys |-> NoEntry]
  /\ dead = {} /\ queue = <<>>
  /\ produced = 0 /\ fetched = 0 /\ held = NoKey /\ marked = 0 /\ committed = 0
  /\ proc = [p \in Procs |-> Resting]
  /\ ids = 0 /\ calls = 0 /\ expiries = 0 /\ faults = 0
  /\ answers = {} /\ accepted = {} /\ lost = {} /\ skipped = {} /\ disturbed = {}

-----------------------------------------------------------------------------
(* SubmitRecord                                                            *)

\* p starts on key k, which disturbs it if another submission is at it.
Begins(p, k) ==
  /\ proc' = [proc EXCEPT ![p] = [Resting EXCEPT !.pc = "check", !.key = k]]
  /\ disturbed' = IF \E q \in Procs \ {p} : proc[q].key = k THEN disturbed \cup {k}
                                                         ELSE disturbed

Finished(p) == proc' = [proc EXCEPT ![p] = Resting]

Moves(p, pc) == proc' = [proc EXCEPT ![p].pc = pc]

\* A new internal_id is drawn and the pipeline runs.
Proceeds(p) ==
  /\ ids' = ids + 1
  /\ proc' = [proc EXCEPT ![p].id = ids + 1,
                          ![p].pc = IF proc[p].key \in Bad THEN "bury" ELSE "insert"]

\* SubmitRecord, or one record of BulkStreamIngest; a call that the limiter
\* refuses changes nothing.
Submit(p, k) ==
  /\ proc[p].pc = "idle"
  /\ calls < MaxCalls
  /\ calls' = calls + 1
  /\ Begins(p, k)
  /\ UNCHANGED <<tables, kafka, queue, ids, expiries, faults, answers, accepted, lost>>

\* Mutant: a live entry counts as a miss.
HitNever(k) == FALSE

Hit(k) == cached[k].live

\* The idempotency check: a live entry is the answer.
Check(p) ==
  LET k == proc[p].key IN
  /\ proc[p].pc = "check"
  /\ \/ /\ Hit(k)
        /\ answers' = answers \cup {<<k, cached[k].id>>}
        /\ Finished(p)
        /\ UNCHANGED ids
     \/ /\ ~Hit(k)
        /\ Proceeds(p)
        /\ UNCHANGED answers
  /\ UNCHANGED <<tables, kafka, queue, bounds, accepted, lost, disturbed>>

\* storeRecord: ON CONFLICT (idempotency_key) DO NOTHING
Stored(p) == [stored EXCEPT ![proc[p].key] = IF @ = NoId THEN proc[p].id ELSE @]

Insert(p) ==
  /\ proc[p].pc = "insert"
  /\ stored' = Stored(p)
  /\ Moves(p, "remember")
  /\ UNCHANGED <<cached, dead, kafka, queue, ids, bounds, ghosts>>

\* idempotency.Set: DO NOTHING even if the entry has expired.  The answer
\* carries the id that was drawn.
Remember(p) ==
  LET k == proc[p].key IN
  /\ proc[p].pc = "remember"
  /\ cached' = [cached EXCEPT ![k] = IF @ = NoEntry THEN [id |-> proc[p].id, live |-> TRUE]
                                                  ELSE @]
  /\ answers' = answers \cup {<<k, proc[p].id>>}
  /\ Finished(p)
  /\ UNCHANGED <<stored, dead, kafka, queue, ids, bounds, accepted, lost, disturbed>>

\* Mutant: the failed record is only logged.
BuryNot(p) ==
  /\ proc[p].pc = "bury"
  /\ Finished(p)
  /\ UNCHANGED <<tables, kafka, queue, ids, bounds, ghosts>>

\* dlq.Enqueue; the submission fails.
Bury(p) ==
  /\ proc[p].pc = "bury"
  /\ dead' = dead \cup {proc[p].key}
  /\ Finished(p)
  /\ UNCHANGED <<stored, cached, kafka, queue, ids, bounds, ghosts>>

SubmitStep(p) == Check(p) \/ Insert(p) \/ Remember(p) \/ Bury(p)

-----------------------------------------------------------------------------
(* The adapter queue and its consumer                                      *)

\* Mutant: a full queue does not hold the handler up.
AcceptUnbounded(k) ==
  /\ calls < MaxCalls
  /\ calls' = calls + 1
  /\ queue' = Append(queue, k)
  /\ accepted' = accepted \cup {k}
  /\ UNCHANGED <<tables, kafka, proc, ids, expiries, faults, answers, lost, disturbed>>

\* A webhook or file record; the handler waits while the queue is full.
Accept(k) ==
  /\ calls < MaxCalls
  /\ calls' = calls + 1
  /\ Len(queue) < QueueCap
  /\ queue' = Append(queue, k)
  /\ accepted' = accepted \cup {k}
  /\ UNCHANGED <<tables, kafka, proc, ids, expiries, faults, answers, lost, disturbed>>

\* Mutant: the last record waits for another to push it out.
ReadyBehind == proc[Consumer].pc = "idle" /\ Len(queue) > 1

Ready == proc[Consumer].pc = "idle" /\ queue # <<>>

Take ==
  /\ Ready
  /\ queue' = Tail(queue)
  /\ Begins(Consumer, Head(queue))
  /\ UNCHANGED <<tables, kafka, ids, bounds, answers, accepted, lost>>

\* The limiter refuses the record: it is logged and gone.
TakeRefused ==
  /\ Ready
  /\ queue' = Tail(queue)
  /\ lost' = lost \cup {Head(queue)}
  /\ UNCHANGED <<tables, kafka, proc, ids, bounds, answers, accepted, disturbed>>

\* The keys that wait in the queue.
Queued == {queue[i] : i \in 1..Len(queue)}

ConsumerStep == Take \/ TakeRefused \/ SubmitStep(Consumer)

-----------------------------------------------------------------------------
(* The Kafka consumer                                                      *)

Produce ==
  /\ produced < Len(Topic)
  /\ produced' = produced + 1
  /\ UNCHANGED <<tables, fetched, held, marked, committed, queue, proc, ids, bounds, ghosts,
                 skipped>>

\* Mutant: the offset is committed as the message is fetched.
FetchMarking ==
  /\ held = NoKey
  /\ fetched < produced
  /\ fetched' = fetched + 1
  /\ held' = Topic[fetched + 1]
  /\ marked' = fetched + 1
  /\ UNCHANGED <<tables, produced, committed, queue, proc, ids, bounds, ghosts, skipped>>

Fetch ==
  /\ held = NoKey
  /\ fetched < produced
  /\ fetched' = fetched + 1
  /\ held' = Topic[fetched + 1]
  /\ UNCHANGED <<tables, produced, marked, committed, queue, proc, ids, bounds, ghosts,
                 skipped>>

\* A message without a value cannot be converted: it is committed unqueued.
Discard ==
  /\ held = Empty
  /\ held' = NoKey
  /\ marked' = fetched
  /\ UNCHANGED <<tables, produced, fetched, committed, queue, proc, ids, bounds, ghosts,
                 skipped>>

\* Mutant: the commit is forgotten.
PushUnmarked ==
  /\ held \in Keys
  /\ Len(queue) < QueueCap
  /\ queue' = Append(queue, held)
  /\ accepted' = accepted \cup {held}
  /\ held' = NoKey
  /\ UNCHANGED <<tables, produced, fetched, marked, committed, proc, ids, bounds, answers,
                 lost, skipped, disturbed>>

\* The others are queued, when there is room, and committed.
Push ==
  /\ held \in Keys
  /\ Len(queue) < QueueCap
  /\ queue' = Append(queue, held)
  /\ accepted' = accepted \cup {held}
  /\ held' = NoKey
  /\ marked' = fetched
  /\ UNCHANGED <<tables, produced, fetched, committed, proc, ids, bounds, answers, lost,
                 skipped, disturbed>>

\* The reader sends its offset to the broker once per CommitInterval.
Flush ==
  /\ marked > committed
  /\ committed' = marked
  /\ UNCHANGED <<tables, produced, fetched, held, marked, queue, proc, ids, bounds, ghosts,
                 skipped>>

KafkaStep == Fetch \/ Discard \/ Push \/ Flush

-----------------------------------------------------------------------------
(* Time and failures                                                       *)

\* expires_at passes
Expire(k) ==
  /\ expiries < MaxExpiries
  /\ expiries' = expiries + 1
  /\ cached[k].live
  /\ cached' = [cached EXCEPT ![k].live = FALSE]
  /\ disturbed' = disturbed \cup {k}
  /\ UNCHANGED <<stored, dead, kafka, queue, proc, ids, calls, faults, answers, accepted,
                 lost>>

Kept(k) == IF cached[k].live THEN cached[k] ELSE NoEntry

Purge ==
  /\ \E k \in Keys : cached[k] # NoEntry /\ ~cached[k].live
  /\ cached' = [k \in Keys |-> Kept(k)]
  /\ UNCHANGED <<stored, dead, kafka, queue, proc, ids, bounds, ghosts>>

\* Mutant: a record that could not be stored is answered as if it were.
AfterInsertErrorRemember(p) == Moves(p, "remember")

AfterInsertError(p) == Moves(p, "bury")

\* The statement p is about to run returns an error.  A failed check counts
\* as a miss; a failed insert, which may have taken effect, sends the record
\* to the DLQ; the errors of the last statements are dropped.
Fault(p) ==
  LET k == proc[p].key IN
  /\ faults < MaxFaults
  /\ faults' = faults + 1
  /\ proc[p].pc # "idle"
  /\ \/ /\ proc[p].pc = "check"
        /\ Proceeds(p)
        /\ UNCHANGED <<stored, answers, lost>>
     \/ /\ proc[p].pc = "insert"
        /\ AfterInsertError(p)
        /\ stored' \in {stored, Stored(p)}
        /\ UNCHANGED <<ids, answers, lost>>
     \/ /\ proc[p].pc = "remember"
        /\ Finished(p)
        /\ answers' = answers \cup {<<k, proc[p].id>>}
        /\ UNCHANGED <<stored, ids, lost>>
     \/ /\ proc[p].pc = "bury"
        /\ Finished(p)
        /\ lost' = lost \cup {k}
        /\ UNCHANGED <<stored, ids, answers>>
  /\ disturbed' = disturbed \cup {k}
  /\ UNCHANGED <<cached, dead, kafka, queue, calls, expiries, accepted>>

\* The service dies, or is shut down, which cancels the consumer before it
\* has emptied the queue, and starts again.  A group with an offset reads on
\* from there, one without from the end of the topic.
Restart ==
  LET from == IF committed = 0 THEN produced ELSE committed IN
  /\ faults < MaxFaults
  /\ faults' = faults + 1
  /\ proc' = [p \in Procs |-> Resting]
  /\ queue' = <<>>
  /\ held' = NoKey
  /\ fetched' = from
  /\ marked' = committed
  /\ skipped' = skipped \cup ((committed + 1)..from)
  /\ lost' = lost \cup Queued \cup ({proc[Consumer].key} \ {NoKey})
  /\ disturbed' = disturbed \cup ({proc[p].key : p \in Procs} \ {NoKey})
  /\ UNCHANGED <<tables, produced, committed, ids, calls, expiries, answers, accepted>>

-----------------------------------------------------------------------------
Next ==
  \/ \E p \in Handlers : SubmitStep(p) \/ \E k \in Keys : Submit(p, k)
  \/ ConsumerStep
  \/ KafkaStep \/ Produce
  \/ \E k \in Keys : Accept(k) \/ Expire(k)
  \/ Purge
  \/ \E p \in Procs : Fault(p)
  \/ Restart

Spec == Init /\ [][Next]_vars

\* The goroutines are scheduled; nobody has to send a record, and the clock
\* and the failures need not strike.
FairSpec ==
  /\ Spec
  /\ WF_vars(ConsumerStep)
  /\ \A p \in Handlers : WF_vars(SubmitStep(p))
  /\ WF_vars(KafkaStep)

-----------------------------------------------------------------------------
(* Properties                                                              *)

Id == Nat \cup {NoId}

Offset == 0..Len(Topic)

\* Every variable has its type; a busy submission has a key, and one past the
\* check an internal_id.
TypeOK ==
  /\ stored \in [Keys -> Id]
  /\ cached \in [Keys -> [id : Id, live : BOOLEAN]]
  /\ dead \subseteq Keys
  /\ queue \in Seq(Keys) /\ Len(queue) =< QueueCap
  /\ {produced, fetched, marked, committed} \subseteq Offset
  /\ held \in Keys \cup {Empty, NoKey}
  /\ proc \in [Procs -> [pc : {"idle", "check", "insert", "remember", "bury"},
                         key : Keys \cup {NoKey}, id : Id]]
  /\ \A p \in Procs : /\ proc[p].pc # "idle" => proc[p].key \in Keys
                      /\ proc[p].pc \in {"insert", "remember"} => proc[p].id \in Nat
  /\ {ids, calls, expiries, faults} \subseteq Nat
  /\ answers \subseteq Keys \X Nat
  /\ UNION {accepted, lost, disturbed} \subseteq Keys
  /\ skipped \subseteq Offset

\* Success is never answered for a record that is not in ingestion_records,
\* whichever submissions overlap, fail or are cut short and whenever entries
\* expire or are purged (server.go, SubmitRecord).
AnsweredIsStored == \A a \in answers : stored[a[1]] # NoId

\* A key that was submitted by one at a time, without failures and within the
\* TTL, has one internal_id: every answer and the idempotency entry carry the
\* one in ingestion_records (server.go, SubmitRecord; idempotency.go).
OneIdPerKey ==
  \A k \in Keys \ disturbed :
    /\ \A a \in answers : a[1] = k => a[2] = stored[k]
    /\ cached[k] # NoEntry => cached[k].id = stored[k]

\* A record that was put on the queue does not vanish: it is still there, being
\* submitted, stored or in the DLQ, unless the limiter refused it, the DLQ
\* failed as well or the service went down (main.go, consumeAdapterQueue).
NothingVanishes ==
  \A k \in accepted :
    \/ k \in Queued \/ proc[Consumer].key = k
    \/ stored[k] # NoId \/ k \in dead \/ k \in lost

\* An offset the broker holds is of a message that has been queued before, had
\* no value, or lies where the reader skipped (kafka.go, Start: "Commit after
\* successful queue insertion").
CommittedWasQueued ==
  \A i \in (1..committed) \ skipped : Topic[i] = Empty \/ Topic[i] \in accepted

\* Every record put on the queue is dealt with some time: stored, buried, or
\* refused or lost in a failure (main.go, consumeAdapterQueue).
AcceptedSettles ==
  \A k \in Keys : k \in accepted ~> stored[k] # NoId \/ k \in dead \/ k \in lost

\* The group's offset catches up with every message of the topic, or a restart
\* skips it: a full queue holds the reader up, never for good (kafka.go, Start).
CommitsCatchUp ==
  \A i \in 1..Len(Topic) : produced >= i ~> committed >= i \/ i \in skipped
=============================================================================
