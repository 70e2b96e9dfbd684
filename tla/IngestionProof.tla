--------------------------- MODULE IngestionProof ---------------------------
(***************************************************************************)
(* What is answered is stored, what is queued does not vanish, what is     *)
(* committed was queued, and an undisturbed key has one internal_id: for   *)
(* any keys, handlers, topic, queue and bounds.                            *)
(***************************************************************************)
EXTENDS Ingestion, SequenceTheorems, TLAPS

Local == [pc : {"idle", "check", "insert", "remember", "bury"},
          key : Keys \cup {NoKey}, id : Id]

\* The types, split into what concerns submissions and the rest.
ProcsTyped ==
  /\ proc \in [Procs -> Local]
  /\ \A p \in Procs : /\ proc[p].pc # "idle" => proc[p].key \in Keys
                      /\ proc[p].pc \in {"insert", "remember"} => proc[p].id \in Nat

TablesTyped ==
  /\ stored \in [Keys -> Id]
  /\ cached \in [Keys -> [id : Id, live : BOOLEAN]]
  /\ dead \subseteq Keys
  /\ ids \in Nat /\ calls \in Nat /\ expiries \in Nat /\ faults \in Nat
  /\ answers \subseteq Keys \X Nat
  /\ accepted \subseteq Keys /\ lost \subseteq Keys /\ disturbed \subseteq Keys

StreamTyped ==
  /\ queue \in Seq(Keys) /\ Len(queue) =< QueueCap
  /\ produced \in Offset /\ fetched \in Offset /\ marked \in Offset /\ committed \in Offset
  /\ held \in Keys \cup {Empty, NoKey}
  /\ skipped \subseteq Offset

\* A process at rest has no record.
RestingKeyless == \A p \in Procs : proc[p].pc = "idle" => proc[p].key = NoKey

\* An idempotency entry, live or not, is of a stored record, and so is one that
\* is about to be written.
EntriesStored ==
  /\ \A k \in Keys : cached[k] # NoEntry => cached[k].id \in Nat /\ stored[k] # NoId
  /\ \A p \in Procs : proc[p].pc = "remember" => stored[proc[p].key] # NoId

\* A message at offset i has been dealt with as far as the offsets go.
Passes(i) == Topic[i] = Empty \/ Topic[i] \in accepted

\* The offsets are in order, and the message in hand is the last one fetched.
OffsetsFollow ==
  /\ committed =< marked /\ marked =< fetched
  /\ held # NoKey => fetched > 0 /\ held = Topic[fetched]
  /\ \A i \in (1..marked) \ skipped : Passes(i)
  /\ \A i \in (1..fetched) \ skipped : Passes(i) \/ (i = fetched /\ held # NoKey)

\* The life of a key that nothing disturbs: one submission at a time, which
\* finds an entry if the record is stored, and else inserts the id it answers.
KeyLife(k) ==
  /\ \A p, q \in Procs : proc[p].key = k /\ proc[q].key = k => p = q
  /\ stored[k] # NoId
       => cached[k].live \/ \E p \in Procs : proc[p].key = k /\ proc[p].pc = "remember"
  /\ \A p \in Procs : proc[p].key = k =>
       /\ proc[p].pc = "insert" => stored[k] = NoId
       /\ proc[p].pc = "remember" => stored[k] = proc[p].id
  /\ cached[k] # NoEntry => cached[k].live /\ cached[k].id = stored[k]
  /\ \A a \in answers : a[1] = k => a[2] = stored[k]

OneLife == \A k \in Keys \ disturbed : KeyLife(k)

Inv ==
  ProcsTyped /\ TablesTyped /\ StreamTyped
    /\ RestingKeyless /\ EntriesStored /\ AnsweredIsStored /\ NothingVanishes
    /\ OffsetsFollow /\ OneLife

-----------------------------------------------------------------------------
LEMMA InitInv == ASSUME IngestionAssumption, Init PROVE Inv
<1>1. ProcsTyped /\ TablesTyped /\ StreamTyped
  <2>1. <<>> \in Seq(Keys) /\ Len(<<>>) = 0 /\ Len(Topic) \in Nat
    BY LenProperties DEF IngestionAssumption
  <2>2. proc \in [Procs -> [pc : {"idle", "check", "insert", "remember", "bury"},
                            key : Keys \cup {NoKey}, id : Id]]
    BY DEF Init, Resting, Id
  <2>3. cached \in [Keys -> [id : Id, live : BOOLEAN]] /\ stored \in [Keys -> Id]
    BY DEF Init, NoEntry, Id
  <2>4. \A p \in Procs : proc[p].pc = "idle"
    BY DEF Init, Resting
  <2> QED BY <2>1, <2>2, <2>3, <2>4 DEF Init, ProcsTyped, TablesTyped, StreamTyped, Local, Offset,
               IngestionAssumption
<1>2. RestingKeyless /\ EntriesStored /\ AnsweredIsStored /\ NothingVanishes
  BY DEF Init, Resting, NoEntry, RestingKeyless, EntriesStored, AnsweredIsStored, NothingVanishes
<1>3. OffsetsFollow
  BY DEF Init, OffsetsFollow
<1>4. OneLife
  <2> SUFFICES ASSUME NEW k \in Keys PROVE KeyLife(k)
    BY DEF OneLife
  <2>1. \A p \in Procs : proc[p].key = NoKey
    BY DEF Init, Resting
  <2>2. k # NoKey
    BY DEF IngestionAssumption
  <2> QED BY <2>1, <2>2 DEF Init, NoEntry, KeyLife
<1> QED BY <1>1, <1>2, <1>3, <1>4 DEF Inv

-----------------------------------------------------------------------------
(* SubmitRecord                                                            *)

LEMMA TypeParts == ProcsTyped /\ TablesTyped /\ StreamTyped => TypeOK
BY DEF TypeOK, ProcsTyped, TablesTyped, StreamTyped, Local

\* A submission that begins leaves every other as it is.
LEMMA BeginsInv ==
  ASSUME IngestionAssumption, Inv, NEW p \in Procs, NEW k \in Keys,
         proc[p].pc = "idle", Begins(p, k), UNCHANGED <<tables, answers>>
  PROVE  /\ ProcsTyped' /\ RestingKeyless' /\ EntriesStored' /\ OneLife'
         /\ disturbed' \subseteq Keys
<1> DEFINE started == [Resting EXCEPT !.pc = "check", !.key = k]
<1>1. started.pc = "check" /\ started.key = k /\ started \in Local
  BY DEF Resting, Local, Id
<1>2. proc' = [proc EXCEPT ![p] = started]
  BY DEF Begins
<1> HIDE DEF started
<1>3. ProcsTyped'
  BY <1>1, <1>2 DEF Inv, ProcsTyped
<1>4. \A q \in Procs : proc'[q] = IF q = p THEN started ELSE proc[q]
  BY <1>2 DEF Inv, ProcsTyped
<1>5. RestingKeyless'
  BY <1>1, <1>4 DEF Inv, RestingKeyless
<1>6. EntriesStored'
  BY <1>1, <1>4 DEF Inv, EntriesStored, tables
<1>7. proc[p].key = NoKey
  BY DEF Inv, RestingKeyless
<1>8. OneLife'
  <2> SUFFICES ASSUME NEW j \in Keys, j \notin disturbed' PROVE KeyLife(j)'
    BY DEF OneLife
  <2>1. j \notin disturbed /\ (j = k => \A q \in Procs \ {p} : proc[q].key # j)
    BY DEF Begins
  <2>2. KeyLife(j)
    BY <2>1 DEF Inv, OneLife
  <2>3. j # NoKey
    BY DEF IngestionAssumption
  <2> QED BY <1>1, <1>4, <1>7, <2>1, <2>2, <2>3 DEF KeyLife, tables
<1>9. disturbed' \subseteq Keys
  BY DEF Begins, Inv, TablesTyped
<1> QED BY <1>3, <1>5, <1>6, <1>8, <1>9

LEMMA SubmitInv ==
  ASSUME IngestionAssumption, Inv, NEW p \in Handlers, NEW k \in Keys, Submit(p, k)
  PROVE  Inv'
<1>1. p \in Procs /\ Consumer \in Procs /\ p # Consumer
  BY DEF Procs, IngestionAssumption
<1>2. /\ ProcsTyped' /\ RestingKeyless' /\ EntriesStored' /\ OneLife'
      /\ disturbed' \subseteq Keys
  BY <1>1, BeginsInv DEF Submit
<1>3. TablesTyped'
  BY <1>2 DEF Submit, tables, Inv, TablesTyped, Id
<1>4. StreamTyped' /\ OffsetsFollow'
  BY DEF Submit, kafka, Inv, StreamTyped, OffsetsFollow, Passes, Offset
<1>5. proc'[Consumer] = proc[Consumer]
  BY <1>1 DEF Submit, Begins, Inv, ProcsTyped
<1>6. AnsweredIsStored' /\ NothingVanishes'
  BY <1>5 DEF Submit, tables, Inv, AnsweredIsStored, NothingVanishes, Queued
<1> QED BY <1>2, <1>3, <1>4, <1>6 DEF Inv

\* A submission that ends frees its key.
LEMMA FinishedProcs ==
  ASSUME Inv, NEW p \in Procs, Finished(p)
  PROVE  /\ \A q \in Procs : proc'[q] = IF q = p THEN Resting ELSE proc[q]
         /\ Resting.pc = "idle" /\ Resting.key = NoKey
         /\ ProcsTyped' /\ RestingKeyless'
<1>1. Resting.pc = "idle" /\ Resting.key = NoKey /\ Resting \in Local
  BY DEF Resting, Local, Id
<1>2. \A q \in Procs : proc'[q] = IF q = p THEN Resting ELSE proc[q]
  BY DEF Finished, Inv, ProcsTyped
<1>3. ProcsTyped'
  BY <1>1 DEF Finished, Inv, ProcsTyped
<1> QED BY <1>1, <1>2, <1>3 DEF Inv, RestingKeyless

\* A new id, and on to the table or to the DLQ.
LEMMA ProceedsProcs ==
  ASSUME Inv, NEW p \in Procs, proc[p].pc = "check", Proceeds(p)
  PROVE  /\ ids' \in Nat /\ proc'[p].id \in Nat
         /\ proc'[p].key = proc[p].key /\ proc'[p].pc \in {"insert", "bury"}
         /\ \A q \in Procs \ {p} : proc'[q] = proc[q]
         /\ ProcsTyped' /\ RestingKeyless'
<1> DEFINE pc == IF proc[p].key \in Bad THEN "bury" ELSE "insert"
           on == [pc |-> pc, key |-> proc[p].key, id |-> ids + 1]
<1>1. ids + 1 \in Nat /\ ids' = ids + 1
  BY DEF Inv, TablesTyped, Proceeds
<1>2. proc[p] \in Local /\ proc \in [Procs -> Local]
  BY DEF Inv, ProcsTyped
<1>3. on \in Local /\ on.key \in Keys
  BY <1>1, <1>2 DEF Local, Id, Inv, ProcsTyped
<1>4. proc' = [proc EXCEPT ![p] = on]
  BY <1>2 DEF Proceeds, Local
<1> QED BY <1>1, <1>2, <1>3, <1>4 DEF Inv, ProcsTyped, RestingKeyless

LEMMA CheckInv ==
  ASSUME IngestionAssumption, Inv, NEW p \in Procs, Check(p)
  PROVE  Inv'
<1> DEFINE k == proc[p].key
<1>0. k \in Keys /\ k # NoKey
  BY DEF Check, Inv, ProcsTyped, IngestionAssumption
<1>1. StreamTyped' /\ OffsetsFollow'
  BY DEF Check, kafka, Inv, StreamTyped, OffsetsFollow, Passes, Offset
<1>2. CASE Hit(k) /\ answers' = answers \cup {<<k, cached[k].id>>} /\ Finished(p) /\ UNCHANGED ids
  <2> HIDE DEF k
  <2>1. cached[k] # NoEntry /\ cached[k].id \in Nat /\ stored[k] # NoId
    BY <1>0, <1>2 DEF Hit, NoEntry, Inv, EntriesStored
  <2>2. UNCHANGED <<tables, bounds, queue, accepted, lost, disturbed>>
    BY DEF Check
  <2>3. TablesTyped'
    BY <1>0, <1>2, <2>1, <2>2 DEF tables, bounds, Inv, TablesTyped, Id
  <2>4. /\ \A q \in Procs : proc'[q] = IF q = p THEN Resting ELSE proc[q]
        /\ Resting.pc = "idle" /\ Resting.key = NoKey
        /\ ProcsTyped' /\ RestingKeyless'
    BY <1>2, FinishedProcs
  <2>5. EntriesStored' /\ AnsweredIsStored'
    BY <1>2, <2>1, <2>2, <2>4 DEF tables, Inv, EntriesStored, AnsweredIsStored
  <2>6. NothingVanishes'
    BY <1>0, <2>1, <2>2, <2>4 DEF tables, k, Inv, NothingVanishes, Queued, Procs
  <2>7. OneLife'
    <3> SUFFICES ASSUME NEW j \in Keys, j \notin disturbed' PROVE KeyLife(j)'
      BY DEF OneLife
    <3>1. KeyLife(j) /\ j # NoKey
      BY <2>2 DEF Inv, OneLife, IngestionAssumption
    <3>2. proc[p].pc = "check"
      BY DEF Check
    <3> QED BY <1>2, <2>1, <2>2, <2>4, <3>1, <3>2 DEF KeyLife, tables
  <2> QED BY <1>1, <2>3, <2>4, <2>5, <2>6, <2>7 DEF Inv
<1>3. CASE ~Hit(k) /\ Proceeds(p) /\ UNCHANGED answers
  <2>1. /\ ids' \in Nat /\ proc'[p].id \in Nat
        /\ proc'[p].key = k /\ proc'[p].pc \in {"insert", "bury"}
        /\ \A q \in Procs \ {p} : proc'[q] = proc[q]
        /\ ProcsTyped' /\ RestingKeyless'
    BY <1>3, ProceedsProcs DEF Check
  <2>2. UNCHANGED <<tables, bounds, queue, accepted, lost, disturbed, answers>>
    BY <1>3 DEF Check
  <2>3. TablesTyped'
    BY <2>1, <2>2 DEF tables, bounds, Inv, TablesTyped, Id
  <2>4. EntriesStored' /\ AnsweredIsStored'
    BY <2>1, <2>2 DEF tables, Inv, EntriesStored, AnsweredIsStored
  <2>5. NothingVanishes'
    BY <2>1, <2>2 DEF tables, Inv, NothingVanishes, Queued, Procs
  <2>6. OneLife'
    <3> SUFFICES ASSUME NEW j \in Keys, j \notin disturbed' PROVE KeyLife(j)'
      BY DEF OneLife
    <3>1. KeyLife(j) /\ proc[p].pc = "check"
      BY <2>2 DEF Inv, OneLife, Check
    <3>2. j = k => stored[j] = NoId
      BY <1>3, <3>1 DEF KeyLife, Hit
    <3> HIDE DEF k
    <3>3. \A q \in Procs : proc'[q].key = proc[q].key
      BY <2>1 DEF k
    <3>4. \A q \in Procs : proc[q].pc = "remember" => proc'[q] = proc[q]
      BY <2>1, <3>1
    <3> QED BY <2>1, <2>2, <3>1, <3>2, <3>3, <3>4 DEF KeyLife, tables
  <2> QED BY <1>1, <2>1, <2>3, <2>4, <2>5, <2>6 DEF Inv
<1> QED BY <1>2, <1>3 DEF Check

\* A submission that moves on keeps its key and id.
LEMMA MovesProcs ==
  ASSUME Inv, NEW p \in Procs, NEW pc \in {"remember", "bury"}, Moves(p, pc),
         proc[p].pc = "insert"
  PROVE  /\ proc'[p].pc = pc /\ proc'[p].key = proc[p].key /\ proc'[p].id = proc[p].id
         /\ \A q \in Procs \ {p} : proc'[q] = proc[q]
         /\ ProcsTyped' /\ RestingKeyless'
<1> DEFINE on == [pc |-> pc, key |-> proc[p].key, id |-> proc[p].id]
<1>1. proc[p] \in Local /\ proc \in [Procs -> Local]
  BY DEF Inv, ProcsTyped
<1>2. on \in Local /\ on.key \in Keys /\ on.id \in Nat
  BY <1>1 DEF Local, Inv, ProcsTyped
<1>3. proc' = [proc EXCEPT ![p] = on]
  <2>1. [proc[p] EXCEPT !.pc = pc] = on
    BY <1>1 DEF Local
  <2>2. proc' = [proc EXCEPT ![p] = [proc[p] EXCEPT !.pc = pc]]
    BY DEF Moves
  <2> QED BY <2>1, <2>2
<1>4. on.pc = pc /\ on.key = proc[p].key /\ on.id = proc[p].id
  OBVIOUS
<1> HIDE DEF on
<1>5. \A q \in Procs : proc'[q] = IF q = p THEN on ELSE proc[q]
  BY <1>1, <1>3
<1>6. proc' \in [Procs -> Local]
  BY <1>1, <1>2, <1>3
<1> QED BY <1>2, <1>4, <1>5, <1>6 DEF Inv, ProcsTyped, RestingKeyless

\* What an insert leaves in the table.
LEMMA StoredTable ==
  ASSUME Inv, NEW p \in Procs, proc[p].pc = "insert"
  PROVE  /\ Stored(p) \in [Keys -> Id] /\ Stored(p)[proc[p].key] # NoId
         /\ \A k \in Keys : stored[k] # NoId => Stored(p)[k] = stored[k]
         /\ \A k \in Keys : k # proc[p].key => Stored(p)[k] = stored[k]
         /\ stored[proc[p].key] = NoId => Stored(p)[proc[p].key] = proc[p].id
<1>1. proc[p].key \in Keys /\ proc[p].id \in Nat /\ stored \in [Keys -> Id]
  BY DEF Inv, ProcsTyped, TablesTyped
<1> QED BY <1>1, IngestionAssumption DEF Stored, Id, IngestionAssumption

LEMMA InsertInv ==
  ASSUME IngestionAssumption, Inv, NEW p \in Procs, Insert(p)
  PROVE  Inv'
<1> DEFINE k == proc[p].key
<1>0. k \in Keys /\ proc[p].pc = "insert"
  BY DEF Insert, Inv, ProcsTyped
<1>1. /\ stored' \in [Keys -> Id] /\ stored'[k] # NoId
      /\ \A j \in Keys : stored[j] # NoId => stored'[j] = stored[j]
      /\ \A j \in Keys : j # k => stored'[j] = stored[j]
      /\ stored[k] = NoId => stored'[k] = proc[p].id
  BY <1>0, StoredTable DEF Insert
<1>2. /\ proc'[p].pc = "remember" /\ proc'[p].key = k /\ proc'[p].id = proc[p].id
      /\ \A q \in Procs \ {p} : proc'[q] = proc[q]
      /\ ProcsTyped' /\ RestingKeyless'
  BY <1>0, MovesProcs DEF Insert
<1>3. UNCHANGED <<cached, dead, kafka, queue, ids, bounds, ghosts>>
  BY DEF Insert
<1> HIDE DEF k
<1>4. StreamTyped' /\ OffsetsFollow'
  BY <1>3 DEF kafka, ghosts, Inv, StreamTyped, OffsetsFollow, Passes, Offset
<1>5. TablesTyped'
  BY <1>1, <1>3 DEF bounds, ghosts, Inv, TablesTyped, Id
<1>6. EntriesStored'
  <2>1. \A j \in Keys : stored[j] # NoId => stored'[j] # NoId
    BY <1>1
  <2>2. \A q \in Procs : proc[q].pc = "remember" => proc[q].key \in Keys
    BY DEF Inv, ProcsTyped
  <2>3. \A q \in Procs : proc'[q].pc = "remember" => stored'[proc'[q].key] # NoId
    BY <1>1, <1>2, <2>1, <2>2 DEF Inv, EntriesStored
  <2> QED BY <1>3, <2>1, <2>3 DEF Inv, EntriesStored
<1>7. AnsweredIsStored'
  BY <1>1, <1>3 DEF ghosts, Inv, AnsweredIsStored, TablesTyped
<1>8. NothingVanishes'
  <2>1. \A q \in Procs : proc'[q].key = proc[q].key
    BY <1>2 DEF k
  <2>2. Queued' = Queued /\ UNCHANGED <<accepted, dead, lost>> /\ accepted \subseteq Keys
    BY <1>3 DEF Queued, ghosts, Inv, TablesTyped
  <2>3. \A j \in Keys : stored[j] # NoId => stored'[j] # NoId
    BY <1>1
  <2>4. proc'[Consumer].key = proc[Consumer].key
    BY <2>1 DEF Procs
  <2> QED BY <2>2, <2>3, <2>4 DEF Inv, NothingVanishes
<1>9. OneLife'
  <2> SUFFICES ASSUME NEW j \in Keys, j \notin disturbed' PROVE KeyLife(j)'
    BY DEF OneLife
  <2>1. KeyLife(j)
    BY <1>3 DEF ghosts, Inv, OneLife
  <2>2. \A q \in Procs : proc'[q].key = proc[q].key
    BY <1>2 DEF k
  <2>3. CASE j = k
    <3>1. stored[k] = NoId /\ stored'[k] = proc[p].id
      BY <1>0, <1>1, <2>1, <2>3 DEF KeyLife, k
    <3>2. \A q \in Procs : proc[q].key = k => q = p
      BY <2>1, <2>3 DEF KeyLife, k
    <3>3. cached[k] = NoEntry
      BY <1>0, <3>1 DEF Inv, EntriesStored
    <3>4. \A a \in answers : a[1] # k
      BY <1>0, <3>1 DEF Inv, AnsweredIsStored
    <3> QED BY <1>2, <1>3, <2>2, <2>3, <3>1, <3>2, <3>3, <3>4 DEF KeyLife, ghosts
  <2>4. CASE j # k
    BY <1>1, <1>2, <1>3, <2>1, <2>2, <2>4 DEF KeyLife, ghosts, k
  <2> QED BY <2>3, <2>4
<1> QED BY <1>2, <1>4, <1>5, <1>6, <1>7, <1>8, <1>9 DEF Inv

LEMMA RememberInv ==
  ASSUME IngestionAssumption, Inv, NEW p \in Procs, Remember(p)
  PROVE  Inv'
<1> DEFINE k == proc[p].key
<1>0. k \in Keys /\ proc[p].pc = "remember" /\ proc[p].id \in Nat /\ stored[k] # NoId
  BY DEF Remember, Inv, ProcsTyped, EntriesStored
<1>1. /\ \A q \in Procs : proc'[q] = IF q = p THEN Resting ELSE proc[q]
      /\ Resting.pc = "idle" /\ Resting.key = NoKey
      /\ ProcsTyped' /\ RestingKeyless'
  BY FinishedProcs DEF Remember
<1>2. UNCHANGED <<stored, dead, kafka, queue, ids, bounds, accepted, lost, disturbed>>
  BY DEF Remember
<1> HIDE DEF k
<1>3. /\ cached' \in [Keys -> [id : Id, live : BOOLEAN]]
      /\ cached[k] # NoEntry => cached'[k] = cached[k]
      /\ cached[k] = NoEntry => cached'[k] = [id |-> proc[p].id, live |-> TRUE]
      /\ \A j \in Keys : j # k => cached'[j] = cached[j]
  <2>1. cached' = [cached EXCEPT ![k] = IF @ = NoEntry THEN [id |-> proc[p].id, live |-> TRUE]
                                                       ELSE @]
    BY DEF Remember, k
  <2> QED BY <1>0, <2>1 DEF Inv, TablesTyped, Id
<1>4. answers' = answers \cup {<<k, proc[p].id>>}
  BY DEF Remember, k
<1>5. StreamTyped' /\ OffsetsFollow'
  BY <1>2 DEF kafka, Inv, StreamTyped, OffsetsFollow, Passes, Offset
<1>6. TablesTyped'
  BY <1>0, <1>2, <1>3, <1>4 DEF bounds, Inv, TablesTyped, Id
<1>7. EntriesStored'
  <2>1. ASSUME NEW j \in Keys, cached'[j] # NoEntry
        PROVE  cached'[j].id \in Nat /\ stored'[j] # NoId
    <3>1. CASE j = k
      BY <1>0, <1>2, <1>3, <2>1, <3>1 DEF Inv, EntriesStored
    <3>2. CASE j # k
      BY <1>2, <1>3, <2>1, <3>2 DEF Inv, EntriesStored
    <3> QED BY <3>1, <3>2
  <2>2. \A q \in Procs : proc'[q].pc = "remember" => stored'[proc'[q].key] # NoId
    BY <1>1, <1>2 DEF Inv, EntriesStored
  <2> QED BY <2>1, <2>2 DEF EntriesStored
<1>8. AnsweredIsStored'
  BY <1>0, <1>2, <1>4 DEF Inv, AnsweredIsStored
<1>9. NothingVanishes'
  <2>1. Queued' = Queued
    BY <1>2 DEF Queued
  <2>2. proc[Consumer].key = proc'[Consumer].key \/ stored[proc[Consumer].key] # NoId
    BY <1>0, <1>1 DEF k, Procs
  <2> QED BY <1>2, <2>1, <2>2 DEF Inv, NothingVanishes
<1>10. OneLife'
  <2> SUFFICES ASSUME NEW j \in Keys, j \notin disturbed' PROVE KeyLife(j)'
    BY DEF OneLife
  <2>1. KeyLife(j) /\ j # NoKey
    BY <1>2 DEF Inv, OneLife, IngestionAssumption
  <2>2. CASE j = k
    <3>1. stored[k] = proc[p].id /\ (cached[k] # NoEntry => cached[k].live /\ cached[k].id = stored[k])
      BY <1>0, <2>1, <2>2 DEF KeyLife, k
    <3>2. cached'[k].live /\ cached'[k].id = stored[k]
      BY <1>3, <3>1
    <3>3. \A q \in Procs : proc'[q].key # k
      BY <1>1, <2>1, <2>2 DEF KeyLife, k
    <3> QED BY <1>2, <1>4, <2>1, <2>2, <3>1, <3>2, <3>3 DEF KeyLife
  <2>3. CASE j # k
    <3>1. cached'[j] = cached[j] /\ stored' = stored
      BY <1>2, <1>3, <2>3
    <3>2. \A a \in answers' : a[1] = j => a \in answers
      BY <1>4, <2>3
    <3>3. \A q \in Procs : proc[q].key = j \/ proc'[q].key = j => proc'[q] = proc[q]
      BY <1>1, <2>1, <2>3 DEF k
    <3> QED BY <2>1, <3>1, <3>2, <3>3 DEF KeyLife
  <2> QED BY <2>2, <2>3
<1> QED BY <1>1, <1>5, <1>6, <1>7, <1>8, <1>9, <1>10 DEF Inv

LEMMA BuryInv ==
  ASSUME IngestionAssumption, Inv, NEW p \in Procs, Bury(p)
  PROVE  Inv'
<1> DEFINE k == proc[p].key
<1>0. k \in Keys /\ proc[p].pc = "bury"
  BY DEF Bury, Inv, ProcsTyped
<1>1. /\ \A q \in Procs : proc'[q] = IF q = p THEN Resting ELSE proc[q]
      /\ Resting.pc = "idle" /\ Resting.key = NoKey
      /\ ProcsTyped' /\ RestingKeyless'
  BY FinishedProcs DEF Bury
<1>2. UNCHANGED <<stored, cached, kafka, queue, ids, bounds, ghosts>> /\ dead' = dead \cup {k}
  BY DEF Bury
<1> HIDE DEF k
<1>3. StreamTyped' /\ OffsetsFollow'
  BY <1>2 DEF kafka, ghosts, Inv, StreamTyped, OffsetsFollow, Passes, Offset
<1>4. TablesTyped'
  BY <1>0, <1>2 DEF bounds, ghosts, Inv, TablesTyped, Id
<1>5. EntriesStored' /\ AnsweredIsStored'
  BY <1>1, <1>2 DEF ghosts, Inv, EntriesStored, AnsweredIsStored
<1>6. NothingVanishes'
  <2>1. Queued' = Queued
    BY <1>2 DEF Queued
  <2>2. proc[Consumer].key = proc'[Consumer].key \/ proc[Consumer].key = k
    BY <1>1 DEF k, Procs
  <2> QED BY <1>2, <2>1, <2>2 DEF ghosts, Inv, NothingVanishes
<1>7. OneLife'
  <2> SUFFICES ASSUME NEW j \in Keys, j \notin disturbed' PROVE KeyLife(j)'
    BY DEF OneLife
  <2>1. KeyLife(j) /\ j # NoKey
    BY <1>2 DEF ghosts, Inv, OneLife, IngestionAssumption
  <2> QED BY <1>0, <1>1, <1>2, <2>1 DEF KeyLife, ghosts
<1> QED BY <1>1, <1>3, <1>4, <1>5, <1>6, <1>7 DEF Inv

-----------------------------------------------------------------------------
(* The queue                                                               *)

LEMMA TailQueued ==
  ASSUME StreamTyped, queue # <<>>, queue' = Tail(queue)
  PROVE  /\ queue' \in Seq(Keys) /\ Len(queue') =< QueueCap
         /\ Head(queue) \in Keys
         /\ Queued \subseteq Queued' \cup {Head(queue)}
<1>1. queue \in Seq(Keys) /\ Len(queue) =< QueueCap
  BY DEF StreamTyped
<1>2. /\ Tail(queue) \in Seq(Keys) /\ Len(Tail(queue)) = Len(queue) - 1
      /\ \A i \in 1..Len(Tail(queue)) : Tail(queue)[i] = queue[i + 1]
      /\ Head(queue) \in Keys
  BY <1>1, HeadTailProperties
<1>3. Len(queue) \in Nat \ {0} /\ Head(queue) = queue[1] /\ QueueCap \in Nat
  BY <1>1, EmptySeq, IngestionAssumption DEF IngestionAssumption
<1>4. ASSUME NEW i \in 1..Len(queue), i # 1 PROVE queue[i] \in Queued'
  <2>1. i - 1 \in 1..Len(Tail(queue)) /\ (i - 1) + 1 = i
    BY <1>2, <1>3, <1>4
  <2>2. queue'[i - 1] = queue[i]
    BY <1>2, <2>1
  <2> QED BY <2>1, <2>2 DEF Queued
<1>5. Queued \subseteq Queued' \cup {Head(queue)}
  BY <1>3, <1>4 DEF Queued
<1> QED BY <1>1, <1>2, <1>3, <1>5

LEMMA AppendQueued ==
  ASSUME StreamTyped, NEW k \in Keys, Len(queue) < QueueCap, queue' = Append(queue, k)
  PROVE  /\ queue' \in Seq(Keys) /\ Len(queue') =< QueueCap
         /\ Queued \subseteq Queued' /\ k \in Queued'
<1>1. queue \in Seq(Keys)
  BY DEF StreamTyped
<1>2. /\ queue' \in Seq(Keys) /\ Len(queue') = Len(queue) + 1 /\ queue'[Len(queue) + 1] = k
      /\ \A i \in 1..Len(queue) : queue'[i] = queue[i]
  BY <1>1, AppendProperties
<1>3. Len(queue) \in Nat /\ QueueCap \in Nat
  BY <1>1, LenProperties, IngestionAssumption DEF IngestionAssumption
<1>4. Len(queue) + 1 \in 1..Len(queue')
  BY <1>2, <1>3
<1>5. \A i \in 1..Len(queue) : i \in 1..Len(queue')
  BY <1>2, <1>3
<1> QED BY <1>2, <1>3, <1>4, <1>5 DEF Queued

LEMMA TakeInv == ASSUME IngestionAssumption, Inv, Take PROVE Inv'
<1> DEFINE k == Head(queue)
<1>1. /\ queue' \in Seq(Keys) /\ Len(queue') =< QueueCap /\ k \in Keys
      /\ Queued \subseteq Queued' \cup {k}
  BY TailQueued DEF Take, Ready, Inv
<1>2. /\ Consumer \in Procs /\ proc[Consumer].pc = "idle" /\ Begins(Consumer, k)
      /\ UNCHANGED <<tables, kafka, ids, bounds, answers, accepted, lost>>
  BY DEF Take, Ready, Procs
<1> HIDE DEF k
<1>3. UNCHANGED <<tables, answers>>
  BY <1>2
<1>4. /\ ProcsTyped' /\ RestingKeyless' /\ EntriesStored' /\ OneLife'
      /\ disturbed' \subseteq Keys
  BY <1>1, <1>2, <1>3, BeginsInv
<1>5. TablesTyped'
  BY <1>2, <1>4 DEF tables, bounds, Inv, TablesTyped, Id
<1>6. StreamTyped' /\ OffsetsFollow'
  BY <1>1, <1>2 DEF kafka, Inv, StreamTyped, OffsetsFollow, Passes, Offset
<1>7. AnsweredIsStored'
  BY <1>2 DEF tables, Inv, AnsweredIsStored
<1>8. NothingVanishes'
  <2>1. proc'[Consumer].key = k
    BY <1>2 DEF Begins, Inv, ProcsTyped, Resting
  <2>2. proc[Consumer].key = NoKey
    BY <1>2 DEF Inv, RestingKeyless
  <2>3. \A j \in accepted : j # NoKey
    BY DEF Inv, TablesTyped, IngestionAssumption
  <2> QED BY <1>1, <1>2, <2>1, <2>2, <2>3 DEF tables, Inv, NothingVanishes
<1> QED BY <1>4, <1>5, <1>6, <1>7, <1>8 DEF Inv

\* Steps that leave the submissions and the tables alone.
LEMMA SubmissionsStay ==
  ASSUME IngestionAssumption, Inv, UNCHANGED <<tables, proc, answers, disturbed>>
  PROVE  ProcsTyped' /\ RestingKeyless' /\ EntriesStored' /\ OneLife' /\ AnsweredIsStored'
BY DEF tables, Inv, ProcsTyped, RestingKeyless, EntriesStored, OneLife, KeyLife, AnsweredIsStored

LEMMA TakeRefusedInv == ASSUME IngestionAssumption, Inv, TakeRefused PROVE Inv'
<1> DEFINE k == Head(queue)
<1>1. /\ queue' \in Seq(Keys) /\ Len(queue') =< QueueCap /\ k \in Keys
      /\ Queued \subseteq Queued' \cup {k}
  BY TailQueued DEF TakeRefused, Ready, Inv
<1>2. /\ lost' = lost \cup {k}
      /\ UNCHANGED <<tables, kafka, proc, ids, bounds, answers, accepted, disturbed>>
  BY DEF TakeRefused
<1> HIDE DEF k
<1>3. ProcsTyped' /\ RestingKeyless' /\ EntriesStored' /\ OneLife' /\ AnsweredIsStored'
  BY <1>2, SubmissionsStay
<1>4. TablesTyped'
  BY <1>1, <1>2 DEF tables, bounds, Inv, TablesTyped, Id
<1>5. StreamTyped' /\ OffsetsFollow'
  BY <1>1, <1>2 DEF kafka, Inv, StreamTyped, OffsetsFollow, Passes, Offset
<1>6. NothingVanishes'
  BY <1>1, <1>2 DEF tables, Inv, NothingVanishes
<1> QED BY <1>3, <1>4, <1>5, <1>6 DEF Inv

LEMMA AcceptInv ==
  ASSUME IngestionAssumption, Inv, NEW k \in Keys, Accept(k)
  PROVE  Inv'
<1>1. /\ queue' \in Seq(Keys) /\ Len(queue') =< QueueCap
      /\ Queued \subseteq Queued' /\ k \in Queued'
  BY AppendQueued DEF Accept, Inv
<1>2. /\ accepted' = accepted \cup {k} /\ calls' = calls + 1
      /\ UNCHANGED <<tables, kafka, proc, ids, expiries, faults, answers, lost, disturbed>>
  BY DEF Accept
<1>3. ProcsTyped' /\ RestingKeyless' /\ EntriesStored' /\ OneLife' /\ AnsweredIsStored'
  BY <1>2, SubmissionsStay
<1>4. TablesTyped'
  BY <1>2 DEF tables, Inv, TablesTyped, Id
<1>5. StreamTyped' /\ OffsetsFollow'
  BY <1>1, <1>2 DEF kafka, Inv, StreamTyped, OffsetsFollow, Passes, Offset
<1>6. NothingVanishes'
  BY <1>1, <1>2 DEF tables, Inv, NothingVanishes
<1> QED BY <1>3, <1>4, <1>5, <1>6 DEF Inv

-----------------------------------------------------------------------------
(* The Kafka consumer                                                      *)

\* The arithmetic of offsets needs the length of the topic.
LEMMA TopicLength == Len(Topic) \in Nat /\ Offset = 0..Len(Topic)
BY IngestionAssumption, LenProperties DEF IngestionAssumption, Offset

LEMMA PushInv == ASSUME IngestionAssumption, Inv, Push PROVE Inv'
<1>1. /\ held \in Keys /\ held # NoKey /\ Len(queue) < QueueCap
      /\ queue' = Append(queue, held)
      /\ accepted' = accepted \cup {held} /\ held' = NoKey /\ marked' = fetched
      /\ UNCHANGED <<tables, produced, fetched, committed, proc, ids, bounds, answers, lost,
                     skipped, disturbed>>
  BY DEF Push, IngestionAssumption
<1>2. /\ queue' \in Seq(Keys) /\ Len(queue') =< QueueCap
      /\ Queued \subseteq Queued' /\ held \in Queued'
  BY <1>1, AppendQueued DEF Inv
<1>3. ProcsTyped' /\ RestingKeyless' /\ EntriesStored' /\ OneLife' /\ AnsweredIsStored'
  BY <1>1, SubmissionsStay
<1>4. TablesTyped'
  BY <1>1 DEF tables, bounds, Inv, TablesTyped, Id
<1>5. StreamTyped'
  BY <1>1, <1>2 DEF Inv, StreamTyped, Offset
<1>6. NothingVanishes'
  BY <1>1, <1>2 DEF tables, Inv, NothingVanishes
<1>7. OffsetsFollow'
  <2>1. \A i : Passes(i) => Passes(i)'
    BY <1>1 DEF Passes
  <2>2. Passes(fetched)'
    BY <1>1 DEF Inv, OffsetsFollow, Passes
  <2>3. committed =< fetched
    BY TopicLength DEF Inv, StreamTyped, OffsetsFollow
  <2>4. fetched =< fetched
    BY TopicLength DEF Inv, StreamTyped
  <2> QED BY <1>1, <2>1, <2>2, <2>3, <2>4 DEF Inv, OffsetsFollow
<1> QED BY <1>3, <1>4, <1>5, <1>6, <1>7 DEF Inv

\* The steps that move offsets only.
LEMMA OffsetsInv ==
  ASSUME IngestionAssumption, Inv, Produce \/ Fetch \/ Discard \/ Flush
  PROVE  Inv'
<1>1. UNCHANGED <<tables, queue, proc, ids, bounds, ghosts, skipped>>
  BY DEF Produce, Fetch, Discard, Flush
<1>2. ProcsTyped' /\ RestingKeyless' /\ EntriesStored' /\ OneLife' /\ AnsweredIsStored'
  BY <1>1, SubmissionsStay DEF ghosts
<1>3. TablesTyped' /\ NothingVanishes'
  BY <1>1 DEF tables, bounds, ghosts, Inv, TablesTyped, NothingVanishes, Queued, Id
<1>4. \A i : Passes(i)' <=> Passes(i)
  BY <1>1 DEF ghosts, Passes
<1>5. /\ produced \in 0..Len(Topic) /\ fetched \in 0..Len(Topic) /\ marked \in 0..Len(Topic)
      /\ committed \in 0..Len(Topic) /\ Len(Topic) \in Nat
      /\ committed =< marked /\ marked =< fetched
  BY TopicLength DEF Inv, StreamTyped, OffsetsFollow
<1>6. CASE Produce
  <2>1. StreamTyped'
    BY <1>1, <1>5, <1>6 DEF Produce, Inv, StreamTyped, Offset
  <2>2. OffsetsFollow'
    BY <1>1, <1>4, <1>6 DEF Produce, Inv, OffsetsFollow
  <2> QED BY <1>2, <1>3, <2>1, <2>2 DEF Inv
<1>7. CASE Fetch
  <2>1. fetched + 1 \in 1..Len(Topic) /\ Topic[fetched + 1] \in Keys \cup {Empty}
    BY <1>5, <1>7, ElementOfSeq DEF Fetch, IngestionAssumption
  <2>2. StreamTyped'
    BY <1>1, <1>5, <1>7, <2>1 DEF Fetch, Inv, StreamTyped, Offset
  <2>3. \A i \in (1..fetched) \ skipped : Passes(i)
    BY <1>7 DEF Fetch, Inv, OffsetsFollow
  <2>4. held' # NoKey
    BY <1>7, <2>1 DEF Fetch, IngestionAssumption
  <2>5. \A i \in (1..fetched') \ skipped' : Passes(i)' \/ (i = fetched' /\ held' # NoKey)
    BY <1>1, <1>4, <1>5, <1>7, <2>3, <2>4 DEF Fetch
  <2>6. committed' =< marked' /\ marked' =< fetched' /\ fetched' > 0 /\ held' = Topic[fetched']
    BY <1>5, <1>7 DEF Fetch
  <2>7. \A i \in (1..marked') \ skipped' : Passes(i)'
    BY <1>1, <1>4, <1>7 DEF Fetch, Inv, OffsetsFollow
  <2>8. OffsetsFollow'
    BY <2>5, <2>6, <2>7 DEF OffsetsFollow
  <2> QED BY <1>2, <1>3, <2>2, <2>8 DEF Inv
<1>8. CASE Discard
  <2>1. held = Empty /\ held # NoKey /\ held' = NoKey /\ marked' = fetched
        /\ UNCHANGED <<produced, fetched, committed>>
    BY <1>8 DEF Discard, IngestionAssumption
  <2>2. StreamTyped'
    BY <1>1, <1>5, <2>1 DEF Inv, StreamTyped, Offset
  <2>3. Passes(fetched)
    BY <2>1 DEF Inv, OffsetsFollow, Passes
  <2>4. committed =< fetched /\ fetched =< fetched
    BY <1>5
  <2>5. OffsetsFollow'
    BY <1>1, <1>4, <2>1, <2>3, <2>4 DEF Inv, OffsetsFollow
  <2> QED BY <1>2, <1>3, <2>2, <2>5 DEF Inv
<1>9. CASE Flush
  <2>1. committed' = marked /\ UNCHANGED <<produced, fetched, held, marked>>
    BY <1>9 DEF Flush
  <2>2. StreamTyped'
    BY <1>1, <1>5, <2>1 DEF Inv, StreamTyped, Offset
  <2>3. marked =< marked
    BY <1>5
  <2>4. OffsetsFollow'
    BY <1>1, <1>4, <2>1, <2>3 DEF Inv, OffsetsFollow
  <2> QED BY <1>2, <1>3, <2>2, <2>4 DEF Inv
<1> QED BY <1>6, <1>7, <1>8, <1>9

-----------------------------------------------------------------------------
(* Time and failures                                                       *)

LEMMA ExpireInv ==
  ASSUME IngestionAssumption, Inv, NEW k \in Keys, Expire(k)
  PROVE  Inv'
<1>1. /\ cached[k].live /\ expiries' = expiries + 1 /\ disturbed' = disturbed \cup {k}
      /\ UNCHANGED <<stored, dead, kafka, queue, proc, ids, calls, faults, answers, accepted,
                     lost>>
  BY DEF Expire
<1>2. cached[k] # NoEntry /\ cached[k] \in [id : Id, live : BOOLEAN]
  BY <1>1 DEF NoEntry, Inv, TablesTyped
<1>3. /\ cached' \in [Keys -> [id : Id, live : BOOLEAN]]
      /\ cached'[k].id = cached[k].id
      /\ \A j \in Keys : j # k => cached'[j] = cached[j]
  BY <1>2 DEF Expire, Inv, TablesTyped
<1>4. ProcsTyped' /\ RestingKeyless' /\ AnsweredIsStored'
  BY <1>1 DEF Inv, ProcsTyped, RestingKeyless, AnsweredIsStored
<1>5. TablesTyped'
  BY <1>1, <1>3 DEF Inv, TablesTyped, Id
<1>6. StreamTyped' /\ OffsetsFollow'
  BY <1>1 DEF kafka, Inv, StreamTyped, OffsetsFollow, Passes, Offset
<1>7. NothingVanishes'
  BY <1>1 DEF Inv, NothingVanishes, Queued
<1>8. EntriesStored'
  BY <1>1, <1>2, <1>3 DEF Inv, EntriesStored
<1>9. OneLife'
  BY <1>1, <1>3 DEF Inv, OneLife, KeyLife
<1> QED BY <1>4, <1>5, <1>6, <1>7, <1>8, <1>9 DEF Inv

LEMMA PurgeInv == ASSUME IngestionAssumption, Inv, Purge PROVE Inv'
<1>1. /\ cached' = [k \in Keys |-> Kept(k)]
      /\ UNCHANGED <<stored, dead, kafka, queue, proc, ids, bounds, ghosts>>
  BY DEF Purge
<1>2. \A k \in Keys : cached'[k] = cached[k] \/ (cached'[k] = NoEntry /\ ~cached[k].live)
  BY <1>1 DEF Kept
<1>3. cached' \in [Keys -> [id : Id, live : BOOLEAN]]
  BY <1>1 DEF Kept, NoEntry, Inv, TablesTyped, Id
<1>4. ProcsTyped' /\ RestingKeyless' /\ AnsweredIsStored'
  BY <1>1 DEF ghosts, Inv, ProcsTyped, RestingKeyless, AnsweredIsStored
<1>5. TablesTyped'
  BY <1>1, <1>3 DEF bounds, ghosts, Inv, TablesTyped, Id
<1>6. StreamTyped' /\ OffsetsFollow'
  BY <1>1 DEF kafka, ghosts, Inv, StreamTyped, OffsetsFollow, Passes, Offset
<1>7. NothingVanishes'
  BY <1>1 DEF ghosts, Inv, NothingVanishes, Queued
<1>8. EntriesStored'
  BY <1>1, <1>2 DEF Inv, EntriesStored
<1>9. OneLife'
  <2> SUFFICES ASSUME NEW k \in Keys, k \notin disturbed' PROVE KeyLife(k)'
    BY DEF OneLife
  <2>1. KeyLife(k)
    BY <1>1 DEF ghosts, Inv, OneLife
  <2> QED BY <1>1, <1>2, <2>1 DEF KeyLife, ghosts
<1> QED BY <1>4, <1>5, <1>6, <1>7, <1>8, <1>9 DEF Inv

\* A failure disturbs the key of its submission, and changes no other's life.
LEMMA OtherLives ==
  ASSUME IngestionAssumption, Inv, NEW p \in Procs, proc[p].key \in Keys,
         disturbed' = disturbed \cup {proc[p].key},
         \A q \in Procs \ {p} : proc'[q] = proc[q],
         proc'[p].key \in {proc[p].key, NoKey},
         \A j \in Keys \ {proc[p].key} : stored'[j] = stored[j],
         cached' = cached,
         \A a \in answers' : a \in answers \/ a[1] = proc[p].key
  PROVE  OneLife'
<1> SUFFICES ASSUME NEW j \in Keys, j \notin disturbed' PROVE KeyLife(j)'
  BY DEF OneLife
<1>1. KeyLife(j) /\ j # proc[p].key /\ j # NoKey
  BY DEF Inv, OneLife, IngestionAssumption
<1>2. stored'[j] = stored[j] /\ cached'[j] = cached[j]
  BY <1>1
<1>3. \A a \in answers' : a[1] = j => a \in answers
  BY <1>1
<1>4. \A q \in Procs : proc[q].key = j \/ proc'[q].key = j => proc'[q] = proc[q]
  BY <1>1
<1> QED BY <1>1, <1>2, <1>3, <1>4 DEF KeyLife

LEMMA FaultInv ==
  ASSUME IngestionAssumption, Inv, NEW p \in Procs, Fault(p)
  PROVE  Inv'
<1> DEFINE k == proc[p].key
<1>0. k \in Keys /\ proc[p].pc # "idle"
  BY DEF Fault, Inv, ProcsTyped
<1>1. /\ faults' = faults + 1 /\ disturbed' = disturbed \cup {k}
      /\ UNCHANGED <<cached, dead, kafka, queue, calls, expiries, accepted>>
  BY DEF Fault
<1>2. StreamTyped' /\ OffsetsFollow' /\ Queued' = Queued
  BY <1>1 DEF kafka, Inv, StreamTyped, OffsetsFollow, Passes, Offset, Queued
<1>3. CASE proc[p].pc = "check" /\ Proceeds(p) /\ UNCHANGED <<stored, answers, lost>>
  <2>1. /\ ids' \in Nat
        /\ proc'[p].key = k /\ proc'[p].pc \in {"insert", "bury"}
        /\ \A q \in Procs \ {p} : proc'[q] = proc[q]
        /\ ProcsTyped' /\ RestingKeyless'
    BY <1>3, ProceedsProcs
  <2>2. OneLife'
    BY <1>0, <1>1, <1>3, <2>1, OtherLives
  <2>3. TablesTyped'
    BY <1>0, <1>1, <1>3, <2>1 DEF Inv, TablesTyped, Id
  <2>4. EntriesStored' /\ AnsweredIsStored'
    BY <1>1, <1>3, <2>1 DEF Inv, EntriesStored, AnsweredIsStored
  <2>5. proc'[Consumer].key = proc[Consumer].key
    BY <2>1 DEF Procs
  <2>6. NothingVanishes'
    BY <1>1, <1>2, <1>3, <2>5 DEF Inv, NothingVanishes
  <2> QED BY <1>2, <2>1, <2>2, <2>3, <2>4, <2>6 DEF Inv
<1>4. CASE /\ proc[p].pc = "insert" /\ AfterInsertError(p) /\ stored' \in {stored, Stored(p)}
           /\ UNCHANGED <<ids, answers, lost>>
  <2>1. /\ proc'[p].key = k /\ proc'[p].pc = "bury"
        /\ \A q \in Procs \ {p} : proc'[q] = proc[q]
        /\ ProcsTyped' /\ RestingKeyless'
    BY <1>4, MovesProcs DEF AfterInsertError
  <2>2. /\ stored' \in [Keys -> Id]
        /\ \A j \in Keys : stored[j] # NoId => stored'[j] # NoId
        /\ \A j \in Keys \ {k} : stored'[j] = stored[j]
    BY <1>4, StoredTable DEF Inv, TablesTyped
  <2>3. OneLife'
    BY <1>0, <1>1, <1>4, <2>1, <2>2, OtherLives
  <2>4. TablesTyped'
    BY <1>0, <1>1, <1>4, <2>2 DEF Inv, TablesTyped, Id
  <2>5. EntriesStored'
    <3>1. \A q \in Procs : proc'[q].pc = "remember" => proc'[q] = proc[q] /\ proc[q].key \in Keys
      BY <2>1 DEF Inv, ProcsTyped
    <3> QED BY <1>1, <2>2, <3>1 DEF Inv, EntriesStored
  <2>6. AnsweredIsStored'
    BY <1>4, <2>2 DEF Inv, AnsweredIsStored, TablesTyped
  <2>7. proc'[Consumer].key = proc[Consumer].key /\ accepted \subseteq Keys
    BY <2>1 DEF Procs, Inv, TablesTyped
  <2>8. NothingVanishes'
    BY <1>1, <1>2, <1>4, <2>2, <2>7 DEF Inv, NothingVanishes
  <2> QED BY <1>2, <2>1, <2>3, <2>4, <2>5, <2>6, <2>8 DEF Inv
<1>5. CASE /\ proc[p].pc = "remember" /\ Finished(p)
           /\ answers' = answers \cup {<<k, proc[p].id>>} /\ UNCHANGED <<stored, ids, lost>>
  <2>1. stored[k] # NoId /\ proc[p].id \in Nat
    BY <1>5 DEF Inv, EntriesStored, ProcsTyped
  <2>2. /\ \A q \in Procs : proc'[q] = IF q = p THEN Resting ELSE proc[q]
        /\ Resting.pc = "idle" /\ Resting.key = NoKey
        /\ ProcsTyped' /\ RestingKeyless'
    BY <1>5, FinishedProcs
  <2>3. \A a \in answers' : a \in answers \/ a[1] = k
    BY <1>5
  <2>4. OneLife'
    BY <1>0, <1>1, <1>5, <2>2, <2>3, OtherLives
  <2>5. TablesTyped'
    BY <1>0, <1>1, <1>5, <2>1 DEF Inv, TablesTyped, Id
  <2>6. EntriesStored' /\ AnsweredIsStored'
    BY <1>1, <1>5, <2>1, <2>2 DEF Inv, EntriesStored, AnsweredIsStored
  <2>7. proc'[Consumer].key = proc[Consumer].key \/ proc[Consumer].key = k
    BY <2>2 DEF Procs
  <2>8. NothingVanishes'
    BY <1>1, <1>2, <1>5, <2>1, <2>7 DEF Inv, NothingVanishes
  <2> QED BY <1>2, <2>2, <2>4, <2>5, <2>6, <2>8 DEF Inv
<1>6. CASE /\ proc[p].pc = "bury" /\ Finished(p)
           /\ lost' = lost \cup {k} /\ UNCHANGED <<stored, ids, answers>>
  <2>1. /\ \A q \in Procs : proc'[q] = IF q = p THEN Resting ELSE proc[q]
        /\ Resting.pc = "idle" /\ Resting.key = NoKey
        /\ ProcsTyped' /\ RestingKeyless'
    BY <1>6, FinishedProcs
  <2>2. OneLife'
    BY <1>0, <1>1, <1>6, <2>1, OtherLives
  <2>3. TablesTyped'
    BY <1>0, <1>1, <1>6 DEF Inv, TablesTyped, Id
  <2>4. EntriesStored' /\ AnsweredIsStored'
    BY <1>1, <1>6, <2>1 DEF Inv, EntriesStored, AnsweredIsStored
  <2>5. proc'[Consumer].key = proc[Consumer].key \/ proc[Consumer].key = k
    BY <2>1 DEF Procs
  <2>6. NothingVanishes'
    BY <1>1, <1>2, <1>6, <2>5 DEF Inv, NothingVanishes
  <2> QED BY <1>2, <2>1, <2>2, <2>3, <2>4, <2>6 DEF Inv
<1> QED BY <1>3, <1>4, <1>5, <1>6 DEF Fault

LEMMA RestartInv == ASSUME IngestionAssumption, Inv, Restart PROVE Inv'
<1> DEFINE from == IF committed = 0 THEN produced ELSE committed
           held_ == {proc[p].key : p \in Procs} \ {NoKey}
<1>1. /\ faults' = faults + 1 /\ proc' = [p \in Procs |-> Resting]
      /\ queue' = <<>> /\ held' = NoKey /\ fetched' = from /\ marked' = committed
      /\ skipped' = skipped \cup ((committed + 1)..from)
      /\ lost' = lost \cup Queued \cup ({proc[Consumer].key} \ {NoKey})
      /\ disturbed' = disturbed \cup held_
      /\ UNCHANGED <<tables, produced, committed, ids, calls, expiries, answers, accepted>>
  BY DEF Restart
<1>2. Resting.pc = "idle" /\ Resting.key = NoKey /\ Resting \in Local
  BY DEF Resting, Local, Id
<1>3. \A p \in Procs : proc'[p] = Resting
  BY <1>1
<1>4. ProcsTyped' /\ RestingKeyless'
  BY <1>1, <1>2, <1>3 DEF ProcsTyped, RestingKeyless
<1>5. \A p \in Procs : proc[p].key \in Keys \cup {NoKey}
  BY DEF Inv, ProcsTyped, Local
<1>6. Queued \subseteq Keys /\ Consumer \in Procs
  BY ElementOfSeq DEF Queued, Inv, StreamTyped, Procs
<1>7. lost' \subseteq Keys /\ disturbed' \subseteq Keys
  BY <1>1, <1>5, <1>6 DEF Inv, TablesTyped
<1>8. TablesTyped'
  BY <1>1, <1>7 DEF tables, Inv, TablesTyped, Id
<1>9. /\ produced \in 0..Len(Topic) /\ committed \in 0..Len(Topic) /\ Len(Topic) \in Nat
      /\ skipped \subseteq 0..Len(Topic)
  BY TopicLength DEF Inv, StreamTyped
<1>10. from \in 0..Len(Topic) /\ committed =< from /\ (1..from) \ (1..committed) \subseteq skipped'
  BY <1>1, <1>9
<1>11. StreamTyped'
  <2>1. Len(<<>>) = 0 /\ <<>> \in Seq(Keys) /\ QueueCap \in Nat
    BY DEF IngestionAssumption
  <2>2. skipped' \subseteq 0..Len(Topic)
    BY <1>1, <1>9, <1>10
  <2> HIDE DEF from, held_
  <2> QED BY <1>1, <1>9, <1>10, <2>1, <2>2, TopicLength DEF StreamTyped, Offset
<1>12. OffsetsFollow'
  <2>1. \A i \in (1..committed) \ skipped : Passes(i)
    BY <1>9, TopicLength DEF Inv, OffsetsFollow, StreamTyped
  <2>2. \A i \in (1..committed) \ skipped' : Passes(i)'
    BY <1>1, <2>1 DEF Passes
  <2>3. \A i \in (1..from) \ skipped' : Passes(i)'
    BY <1>10, <2>2
  <2>4. committed =< committed
    BY <1>9
  <2> HIDE DEF from, held_
  <2> QED BY <1>1, <1>10, <2>2, <2>3, <2>4 DEF OffsetsFollow
<1>13. EntriesStored' /\ AnsweredIsStored'
  BY <1>1, <1>2, <1>3 DEF tables, Inv, EntriesStored, AnsweredIsStored
<1>14. NothingVanishes'
  <2>1. \A k \in accepted : k # NoKey
    BY DEF Inv, TablesTyped, IngestionAssumption
  <2> QED BY <1>1, <2>1 DEF tables, Inv, NothingVanishes
<1>15. OneLife'
  <2> SUFFICES ASSUME NEW j \in Keys, j \notin disturbed' PROVE KeyLife(j)'
    BY DEF OneLife
  <2>1. KeyLife(j) /\ j # NoKey /\ \A p \in Procs : proc[p].key # j
    BY <1>1 DEF Inv, OneLife, IngestionAssumption
  <2>2. UNCHANGED <<stored, cached, answers>> /\ \A p \in Procs : proc'[p].key # j
    BY <1>1, <1>2, <1>3, <2>1 DEF tables
  <2> QED BY <2>1, <2>2 DEF KeyLife
<1> QED BY <1>4, <1>8, <1>11, <1>12, <1>13, <1>14, <1>15 DEF Inv

LEMMA StutterInv == ASSUME IngestionAssumption, Inv, UNCHANGED vars PROVE Inv'
<1>1. UNCHANGED <<tables, kafka, queue, proc, ids, bounds, ghosts>>
  BY DEF vars
<1>2. ProcsTyped' /\ RestingKeyless' /\ EntriesStored' /\ OneLife' /\ AnsweredIsStored'
  BY <1>1, SubmissionsStay DEF ghosts
<1>3. TablesTyped' /\ NothingVanishes'
  BY <1>1 DEF tables, bounds, ghosts, Inv, TablesTyped, NothingVanishes, Queued, Id
<1>4. StreamTyped' /\ OffsetsFollow'
  BY <1>1 DEF kafka, ghosts, Inv, StreamTyped, OffsetsFollow, Passes, Offset
<1> QED BY <1>2, <1>3, <1>4 DEF Inv

LEMMA StepInv == ASSUME IngestionAssumption, Inv, [Next]_vars PROVE Inv'
<1>1. CASE \E p \in Handlers : SubmitStep(p) \/ \E k \in Keys : Submit(p, k)
  <2>1. \A p \in Handlers : p \in Procs
    BY DEF Procs
  <2> QED BY <1>1, <2>1, SubmitInv, CheckInv, InsertInv, RememberInv, BuryInv DEF SubmitStep
<1>2. CASE ConsumerStep
  <2>1. Consumer \in Procs
    BY DEF Procs
  <2> QED BY <1>2, <2>1, TakeInv, TakeRefusedInv, CheckInv, InsertInv, RememberInv, BuryInv
          DEF ConsumerStep, SubmitStep
<1>3. CASE KafkaStep \/ Produce
  BY <1>3, OffsetsInv, PushInv DEF KafkaStep
<1>4. CASE \E k \in Keys : Accept(k) \/ Expire(k)
  BY <1>4, AcceptInv, ExpireInv
<1>5. CASE Purge \/ Restart \/ \E p \in Procs : Fault(p)
  BY <1>5, PurgeInv, RestartInv, FaultInv
<1> QED BY <1>1, <1>2, <1>3, <1>4, <1>5, StutterInv DEF Next

-----------------------------------------------------------------------------
\* The invariant that carries the rest holds in every reachable state
\* (server.go, SubmitRecord; main.go, consumeAdapterQueue; kafka.go).
THEOREM IngestionInvariant == Spec => []Inv
<1>1. Init => Inv
  BY InitInv, IngestionAssumption
<1>2. Inv /\ [Next]_vars => Inv'
  BY StepInv, IngestionAssumption
<1> QED BY <1>1, <1>2, PTL DEF Spec

\* Every variable has its type: the queue never exceeds its capacity, and an id
\* is drawn before anything is written (server.go, SubmitRecord; main.go:134).
THEOREM IngestionTypeOK == Spec => []TypeOK
<1>1. Inv => TypeOK
  BY TypeParts DEF Inv
<1> QED BY <1>1, IngestionInvariant, PTL

\* Success is answered for stored records only, however many submissions
\* overlap, fail, die or meet an expired entry (server.go, SubmitRecord).
THEOREM AnswersStored == Spec => []AnsweredIsStored
<1>1. Inv => AnsweredIsStored
  BY DEF Inv
<1> QED BY <1>1, IngestionInvariant, PTL

\* A key nothing disturbs has one internal_id, in the table, in its
\* idempotency entry and in every answer (server.go; idempotency.go).
THEOREM OneId == Spec => []OneIdPerKey
<1>1. Inv => OneIdPerKey
  BY DEF Inv, OneLife, KeyLife, OneIdPerKey
<1> QED BY <1>1, IngestionInvariant, PTL

\* A record that was queued is queued, at work, stored, buried, or lost in one
\* of the ways that are known (main.go, consumeAdapterQueue).
THEOREM QueuedStays == Spec => []NothingVanishes
<1>1. Inv => NothingVanishes
  BY DEF Inv
<1> QED BY <1>1, IngestionInvariant, PTL

\* The broker is never told an offset past a message that was neither queued
\* nor empty nor skipped at a restart (kafka.go, Start).
THEOREM CommitsFollowQueue == Spec => []CommittedWasQueued
<1>1. Inv => CommittedWasQueued
  <2> SUFFICES ASSUME Inv, NEW i \in (1..committed) \ skipped PROVE Passes(i)
    BY DEF CommittedWasQueued, Passes
  <2>1. i \in (1..marked) \ skipped
    BY TopicLength DEF Inv, OffsetsFollow, StreamTyped
  <2> QED BY <2>1 DEF Inv, OffsetsFollow
<1> QED BY <1>1, IngestionInvariant, PTL
=============================================================================
