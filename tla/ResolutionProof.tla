-------------------------- MODULE ResolutionProof --------------------------
(***************************************************************************)
(* What is RESOLVED is on file, what the queue has closed was settled, the *)
(* resolution service implements the contract of Reconciliation, and the   *)
(* retry worker keeps within its budget: for any transactions, handlers,   *)
(* ceilings, backoff and bounds.                                           *)
(***************************************************************************)
EXTENDS Resolution, FiniteSetTheorems, TLAPS

\* What is left of a script after each of its statements.
Deciding == <<"insert", "update", "mark">>
Updating == <<"update", "mark">>
Marking  == <<"mark">>
AskingOn == <<"match", "answer">>
Awaiting == <<"answer">>

\* The scripts of the calls to the engine, which the worker alone makes.
Asking  == {Retrying, AskingOn, Awaiting}

Scripts ==
  {<<>>, Manually, Deciding, Updating, Marking, Enqueuing, <<"enqueue">>, Counting, Exhausting}
    \cup Asking

\* Scripts whose process may still write RESOLVED and no longer looks first.
Admitted == {Deciding, Updating, <<"exhaust", "insert", "update", "mark">>}

Local == [script : Scripts, tx : Tx \cup {NoTx}, by : {"MANUAL", "AUTO"}, max : Int,
          attempt : Int]

QueueRow == [status : {"none", "PENDING", "EXHAUSTED", "RESOLVED"}, count : Int, max : Int,
             wait : Int]

\* The types, as far as the arguments below need them.
ProcsTyped ==
  /\ proc \in [Procs -> Local]
  /\ \A p \in Procs : /\ proc[p].script # <<>> => proc[p].tx \in Tx
                      /\ proc[p].script \in Asking => p = RetryWorker

TablesTyped ==
  /\ recon \in [Tx -> {"none", "PENDING", "MATCHED", "MISMATCHED", "RESOLVED"}]
  /\ verdict \in [Tx -> {"none", "MANUAL", "AUTO"}]
  /\ queue \in [Tx -> QueueRow]
  /\ engine \subseteq Tx
  /\ polled \subseteq [tx : Tx, count : Int, max : Int]
  /\ settled \subseteq Tx

\* Who is about to write RESOLVED has filed the decision, and who is about to
\* close the queue row knows the transaction to be settled.
InOrder(l) ==
  /\ l.script = Updating => verdict[l.tx] # "none"
  /\ l.script = Marking => l.tx \in settled

AllInOrder == \A p \in Procs : InOrder(proc[p])

SettledSeen == \A t \in Tx : recon[t] \in {"MATCHED", "RESOLVED"} => t \in settled

Inv ==
  ProcsTyped /\ TablesTyped /\ AllInOrder /\ SettledSeen /\ ResolvedIsOnFile /\ ClosedWasSettled

-----------------------------------------------------------------------------
(* Scripts                                                                 *)

\* A script is known by the statement it begins with.
LEMMA HeadKnown ==
  ASSUME NEW s \in Scripts, s # <<>>
  PROVE  /\ Head(s) = "check" => s = Manually
         /\ Head(s) = "insert" => s = Deciding
         /\ Head(s) = "update" => s = Updating
         /\ Head(s) = "mark" => s = Marking
         /\ Head(s) = "checkOpen" => s = Enqueuing
         /\ Head(s) = "enqueue" => s = <<"enqueue">>
         /\ Head(s) = "count" => s = Counting
         /\ Head(s) = "exhaust" => s = Exhausting
         /\ Head(s) = "reset" => s = Retrying
         /\ Head(s) = "match" => s = AskingOn
         /\ Head(s) = "answer" => s = Awaiting
  BY DEF Scripts, Asking, Manually, Deciding, Updating, Marking, Enqueuing, Counting,
     Exhausting, Retrying, AskingOn, Awaiting

\* What is left of each after its first statement.
LEMMA Rests ==
  /\ Len(Manually) = 4 /\ Tail(Manually) = Deciding
  /\ Len(Deciding) = 3 /\ Tail(Deciding) = Updating
  /\ Len(Updating) = 2 /\ Tail(Updating) = Marking
  /\ Len(Marking) = 1 /\ Len(Counting) = 1 /\ Len(<<"enqueue">>) = 1
  /\ Len(Enqueuing) = 2 /\ Tail(Enqueuing) = <<"enqueue">>
  /\ Len(Retrying) = 3 /\ Tail(Retrying) = AskingOn
  /\ Len(AskingOn) = 2 /\ Tail(AskingOn) = Awaiting
  /\ IF AutoApply THEN Len(Exhausting) = 4 /\ Tail(Exhausting) = Deciding
                  ELSE Len(Exhausting) = 1
  BY DEF Manually, Deciding, Updating, Marking, Enqueuing, Counting, Exhausting, Retrying,
     AskingOn, Awaiting

LEMMA ScriptsDiffer ==
  /\ Manually # <<>> /\ Deciding # <<>> /\ Updating # <<>> /\ Marking # <<>> /\ Enqueuing # <<>>
  /\ Counting # <<>> /\ Exhausting # <<>> /\ Retrying # <<>> /\ AskingOn # <<>>
  /\ Awaiting # <<>> /\ <<"enqueue">> # <<>>
  /\ <<>> \notin Asking /\ <<>> \notin Admitted /\ <<>> \in Scripts
  /\ Admitted \cap Asking = {}
  /\ {Manually, Deciding, Enqueuing, <<"enqueue">>, Counting, Exhausting}
       \cap {Updating, Marking} = {}
  /\ Updating # Marking /\ Asking \cap {Updating, Marking} = {}
  /\ {Manually, Deciding, Updating, Marking, Enqueuing, <<"enqueue">>, Counting, Exhausting}
       \cap Asking = {}
  BY DEF Scripts, Admitted, Asking, Manually, Deciding, Updating, Marking, Enqueuing, Counting,
     Exhausting, Retrying, AskingOn, Awaiting

\* Which scripts may still write RESOLVED.
LEMMA AdmittedKnown ==
  ASSUME NEW s \in Scripts
  PROVE  s \in Admitted
           <=> /\ \E i \in DOMAIN s : s[i] = "update"
               /\ \A i \in DOMAIN s : s[i] # "check"
<1>1. CASE s = Manually \/ s = <<>>
  BY <1>1 DEF Admitted, Manually, Deciding, Updating
<1>2. CASE s = Deciding \/ s = Updating
  BY <1>2 DEF Admitted, Deciding, Updating
<1>3. CASE s = Marking \/ s = Enqueuing \/ s = <<"enqueue">> \/ s = Counting
  BY <1>3 DEF Admitted, Deciding, Updating, Marking, Enqueuing, Counting
<1>4. CASE s = Exhausting
  BY <1>4 DEF Admitted, Deciding, Updating, Exhausting
<1>5. CASE s \in Asking
  BY <1>5 DEF Admitted, Deciding, Updating, Asking, Retrying, AskingOn, Awaiting
<1> QED BY <1>1, <1>2, <1>3, <1>4, <1>5 DEF Scripts

-----------------------------------------------------------------------------
(* How a process moves                                                     *)

\* Only p moves, to l: what the invariant asks of it.
Moves(p, l) ==
  /\ l \in Local
  /\ l.script # <<>> => l.tx \in Tx
  /\ l.script \in Asking => p = RetryWorker
  /\ proc' = [proc EXCEPT ![p] = l]

LEMMA MovesTyped ==
  ASSUME ProcsTyped, NEW p \in Procs, NEW l, Moves(p, l)
  PROVE  /\ ProcsTyped'
         /\ proc'[p] = l
         /\ \A q \in Procs \ {p} : proc'[q] = proc[q]
<1>1. proc' = [proc EXCEPT ![p] = l]
  BY DEF Moves
<1>2. \A q \in Procs : proc'[q] = IF q = p THEN l ELSE proc[q]
  BY <1>1 DEF ProcsTyped
<1> QED BY <1>1, <1>2 DEF ProcsTyped, Moves

\* Decisions stay on file and what is settled stays so; then a move to a script
\* in order leaves all in order.
LEMMA MovesInOrder ==
  ASSUME ProcsTyped, AllInOrder, NEW p \in Procs, NEW l, Moves(p, l), InOrder(l)',
         settled \subseteq settled',
         \A t \in Tx : verdict[t] # "none" => verdict'[t] # "none"
  PROVE  AllInOrder'
<1> SUFFICES ASSUME NEW q \in Procs PROVE InOrder(proc[q])'
  BY DEF AllInOrder
<1>1. CASE q = p
  BY <1>1, MovesTyped DEF InOrder
<1>2. CASE q # p
  <2>1. proc'[q] = proc[q] /\ InOrder(proc[q])
    BY <1>2, MovesTyped DEF AllInOrder
  <2>2. proc[q].script \in {Updating, Marking} => proc[q].tx \in Tx
    BY ScriptsDiffer DEF ProcsTyped
  <2> QED BY <2>1, <2>2 DEF InOrder
<1> QED BY <1>1, <1>2

LEMMA RestingLocal ==
  /\ Resting \in Local /\ Resting.script = <<>> /\ Resting.tx = NoTx
  BY ScriptsDiffer DEF Resting, Local

\* A return drops the script.
LEMMA Returns ==
  ASSUME NEW p \in Procs, Returned(p)
  PROVE  Moves(p, Resting) /\ InOrder(Resting)'
  BY RestingLocal, ScriptsDiffer DEF Returned, Moves, InOrder

\* After the last statement of a script its process is at rest.
LEMMA PassesLast ==
  ASSUME NEW p \in Procs, Passed(p), Len(proc[p].script) = 1
  PROVE  Moves(p, Resting) /\ InOrder(Resting)'
<1>1. proc' = [proc EXCEPT ![p] = Resting]
  BY DEF Passed
<1> QED BY <1>1, RestingLocal, ScriptsDiffer DEF Moves, InOrder

With(l, s) == [script |-> s, tx |-> l.tx, by |-> l.by, max |-> l.max, attempt |-> l.attempt]

LEMMA WithLocal ==
  ASSUME NEW l \in Local, NEW s \in Scripts
  PROVE  /\ [l EXCEPT !.script = s] = With(l, s)
         /\ With(l, s) \in Local
         /\ With(l, s).script = s /\ With(l, s).tx = l.tx
  BY DEF With, Local

\* Any other statement leaves the rest of the script.
LEMMA PassesOn ==
  ASSUME ProcsTyped, NEW p \in Procs, Passed(p), NEW s \in Scripts,
         proc[p].script # <<>>, Len(proc[p].script) # 1, Tail(proc[p].script) = s,
         s \in Asking => p = RetryWorker
  PROVE  \E l \in Local : Moves(p, l) /\ l.script = s /\ l.tx = proc[p].tx
<1>1. proc[p] \in Local /\ proc[p].tx \in Tx
  BY DEF ProcsTyped
<1>2. proc' = [proc EXCEPT ![p] = [proc[p] EXCEPT !.script = s]]
  BY DEF Passed
<1>3. Moves(p, With(proc[p], s))
  BY <1>1, <1>2, WithLocal DEF Moves
<1> QED BY <1>1, <1>3, WithLocal

\* The statement that a process is at tells its script and its transaction.
LEMMA AtKnown ==
  ASSUME ProcsTyped, NEW p \in Procs, NEW h, At(p, h)
  PROVE  /\ proc[p] \in Local /\ proc[p].tx \in Tx
         /\ proc[p].script \in Scripts /\ proc[p].script # <<>> /\ Head(proc[p].script) = h
  BY DEF ProcsTyped, At, Local

-----------------------------------------------------------------------------
(* The invariant                                                           *)

LEMMA InitInv == Init => Inv
<1> SUFFICES ASSUME Init PROVE Inv
  OBVIOUS
<1>1. ProcsTyped
  BY RestingLocal, ScriptsDiffer DEF Init, ProcsTyped
<1>2. TablesTyped
  BY DEF Init, TablesTyped, NoEntry, QueueRow
<1>3. AllInOrder
  BY RestingLocal, ScriptsDiffer DEF Init, AllInOrder, InOrder
<1>4. SettledSeen /\ ResolvedIsOnFile /\ ClosedWasSettled
  BY DEF Init, NoEntry, SettledSeen, ResolvedIsOnFile, ClosedWasSettled
<1> QED BY <1>1, <1>2, <1>3, <1>4 DEF Inv

\* A step that changes no table.
LEMMA QuietInv ==
  ASSUME Inv, NEW p \in Procs, NEW l, Moves(p, l), InOrder(l)',
         UNCHANGED <<tables, settled>>, engine' \subseteq Tx,
         polled' \subseteq [tx : Tx, count : Int, max : Int]
  PROVE  Inv'
<1>1. ProcsTyped'
  BY MovesTyped DEF Inv
<1>2. TablesTyped'
  BY DEF Inv, TablesTyped, tables
<1>3. AllInOrder'
  BY MovesInOrder DEF Inv, tables
<1>4. SettledSeen' /\ ResolvedIsOnFile' /\ ClosedWasSettled'
  BY DEF Inv, tables, SettledSeen, ResolvedIsOnFile, ClosedWasSettled
<1> QED BY <1>1, <1>2, <1>3, <1>4 DEF Inv

LEMMA ReturnInv ==
  ASSUME Inv, NEW p \in Procs, Returned(p), UNCHANGED <<tables, engine, polled, settled>>
  PROVE  Inv'
<1>1. engine' \subseteq Tx /\ polled' \subseteq [tx : Tx, count : Int, max : Int]
  BY DEF Inv, TablesTyped
<1> QED BY <1>1, Returns, QuietInv

LEMMA CheckInv ==
  ASSUME Inv, NEW p \in Procs, Check(p)
  PROVE  Inv'
<1>1. CASE Returned(p)
  BY <1>1, ReturnInv DEF Check
<1>2. CASE Passed(p)
  <2>1. proc[p].script = Manually
    BY AtKnown, HeadKnown DEF Check, Inv
  <2>2. Deciding \in Scripts /\ Deciding \notin Asking /\ Deciding \notin {Updating, Marking}
    BY ScriptsDiffer DEF Scripts
  <2>3. PICK l \in Local : Moves(p, l) /\ l.script = Deciding
    <3>1. ProcsTyped
      BY DEF Inv
    <3>2. proc[p].script # <<>> /\ Len(proc[p].script) # 1 /\ Tail(proc[p].script) = Deciding
      BY <2>1, Rests, ScriptsDiffer
    <3> QED BY <1>2, <2>2, <3>1, <3>2, PassesOn
  <2>4. InOrder(l)'
    BY <2>2, <2>3 DEF InOrder
  <2>5. engine' \subseteq Tx /\ polled' \subseteq [tx : Tx, count : Int, max : Int]
    BY DEF Inv, TablesTyped, Check
  <2> QED BY <2>3, <2>4, <2>5, QuietInv DEF Check
<1> QED BY <1>1, <1>2 DEF Check

LEMMA CheckOpenInv ==
  ASSUME Inv, NEW p \in Procs, CheckOpen(p)
  PROVE  Inv'
<1>1. CASE Returned(p)
  BY <1>1, ReturnInv DEF CheckOpen
<1>2. CASE Passed(p)
  <2> DEFINE s == <<"enqueue">>
  <2>1. proc[p].script = Enqueuing
    BY AtKnown, HeadKnown DEF CheckOpen, Inv
  <2>2. s \in Scripts /\ s \notin Asking /\ s \notin {Updating, Marking}
    BY ScriptsDiffer DEF Scripts
  <2>3. Len(Enqueuing) # 1 /\ Tail(Enqueuing) = s /\ Enqueuing # <<>>
    BY Rests, ScriptsDiffer
  <2> HIDE DEF s
  <2>4. PICK l \in Local : Moves(p, l) /\ l.script = s
    BY <1>2, <2>1, <2>2, <2>3, PassesOn DEF Inv
  <2>5. InOrder(l)'
    BY <2>2, <2>4 DEF InOrder
  <2>6. engine' \subseteq Tx /\ polled' \subseteq [tx : Tx, count : Int, max : Int]
    BY DEF Inv, TablesTyped, CheckOpen
  <2> QED BY <2>4, <2>5, <2>6, QuietInv DEF CheckOpen
<1> QED BY <1>1, <1>2 DEF CheckOpen

LEMMA InsertInv ==
  ASSUME Inv, NEW p \in Procs, Insert(p)
  PROVE  Inv'
<1>1. PICK t \in Tx : t = proc[p].tx
  BY AtKnown DEF Insert, Inv
<1>0. proc[p].script = Deciding /\ proc[p] \in Local
  BY AtKnown, HeadKnown DEF Insert, Inv
<1>2. Updating \in Scripts /\ Updating \notin Asking /\ Updating # Marking
  BY ScriptsDiffer DEF Scripts
<1>3. PICK l \in Local : Moves(p, l) /\ l.script = Updating /\ l.tx = t
  <2>1. ProcsTyped /\ Passed(p)
    BY DEF Inv, Insert
  <2>2. proc[p].script # <<>> /\ Len(proc[p].script) # 1 /\ Tail(proc[p].script) = Updating
    BY <1>0, Rests, ScriptsDiffer
  <2> QED BY <1>1, <1>2, <2>1, <2>2, PassesOn
<1>5. verdict' = [verdict EXCEPT ![t] = proc[p].by] /\ proc[p].by \in {"MANUAL", "AUTO"}
  BY <1>0, <1>1 DEF Insert, Local
<1>6. /\ verdict' \in [Tx -> {"none", "MANUAL", "AUTO"}]
      /\ verdict'[t] # "none"
      /\ \A u \in Tx : verdict[u] # "none" => verdict'[u] # "none"
  BY <1>1, <1>5 DEF Inv, TablesTyped
<1>7. InOrder(l)'
  BY <1>2, <1>3, <1>6 DEF InOrder
<1>8. ProcsTyped' /\ AllInOrder'
  BY <1>3, <1>6, <1>7, MovesTyped, MovesInOrder DEF Inv, Insert
<1>9. TablesTyped'
  BY <1>6 DEF Inv, TablesTyped, Insert
<1>10. SettledSeen' /\ ResolvedIsOnFile' /\ ClosedWasSettled'
  BY <1>6 DEF Inv, Insert, SettledSeen, ResolvedIsOnFile, ClosedWasSettled
<1> QED BY <1>8, <1>9, <1>10 DEF Inv

LEMMA UpdateInv ==
  ASSUME Inv, NEW p \in Procs, Update(p)
  PROVE  Inv'
<1>1. PICK t \in Tx : t = proc[p].tx
  BY AtKnown DEF Update, Inv
<1>0. proc[p].script = Updating /\ proc[p] \in Local
  BY AtKnown, HeadKnown DEF Update, Inv
<1>2. Marking \in Scripts /\ Marking \notin Asking /\ Updating # Marking
  BY ScriptsDiffer DEF Scripts
<1>3. PICK l \in Local : Moves(p, l) /\ l.script = Marking /\ l.tx = t
  <2>1. ProcsTyped /\ Passed(p)
    BY DEF Inv, Update
  <2>2. proc[p].script # <<>> /\ Len(proc[p].script) # 1 /\ Tail(proc[p].script) = Marking
    BY <1>0, Rests, ScriptsDiffer
  <2> QED BY <1>1, <1>2, <2>1, <2>2, PassesOn
<1>5. verdict[t] # "none"
  BY <1>0, <1>1 DEF Inv, AllInOrder, InOrder
<1>6. recon' = [recon EXCEPT ![t] = "RESOLVED"] /\ settled' = settled \cup {t}
  BY <1>1 DEF Update
<1>7. InOrder(l)'
  BY <1>2, <1>3, <1>6 DEF InOrder
<1>8. ProcsTyped' /\ AllInOrder'
  BY <1>3, <1>6, <1>7, MovesTyped, MovesInOrder DEF Inv, Update
<1>9. /\ recon' \in [Tx -> {"none", "PENDING", "MATCHED", "MISMATCHED", "RESOLVED"}]
      /\ \A u \in Tx \ {t} : recon'[u] = recon[u]
  BY <1>1, <1>6 DEF Inv, TablesTyped
<1>10. TablesTyped'
  BY <1>1, <1>6, <1>9 DEF Inv, TablesTyped, Update
<1>11. SettledSeen' /\ ResolvedIsOnFile' /\ ClosedWasSettled'
  BY <1>5, <1>6, <1>9 DEF Inv, Update, SettledSeen, ResolvedIsOnFile, ClosedWasSettled
<1> QED BY <1>8, <1>10, <1>11 DEF Inv

\* A statement on the queue row of t changes that row at most.
LEMMA RequeuedTyped ==
  ASSUME TablesTyped, NEW t \in Tx, NEW row \in QueueRow
  PROVE  /\ Requeued(t, row) \in [Tx -> QueueRow]
         /\ \A u \in Tx : Requeued(t, row)[u].status \in {queue[u].status, row.status}
         /\ \A u \in Tx \ {t} : Requeued(t, row)[u] = queue[u]
  BY DEF Requeued, TablesTyped

\* A step that changes the queue only, and closes no row that is not settled.
LEMMA QueueInv ==
  ASSUME Inv, NEW p \in Procs, NEW l, Moves(p, l), InOrder(l)',
         queue' \in [Tx -> QueueRow],
         \A t \in Tx : queue'[t].status = "RESOLVED"
                        => queue[t].status = "RESOLVED" \/ t \in settled,
         UNCHANGED <<recon, verdict, engine, polled, settled>>
  PROVE  Inv'
<1>1. ProcsTyped' /\ AllInOrder'
  BY MovesTyped, MovesInOrder DEF Inv
<1>2. TablesTyped'
  BY DEF Inv, TablesTyped
<1>3. SettledSeen' /\ ResolvedIsOnFile' /\ ClosedWasSettled'
  BY DEF Inv, SettledSeen, ResolvedIsOnFile, ClosedWasSettled
<1> QED BY <1>1, <1>2, <1>3 DEF Inv

LEMMA MarkInv ==
  ASSUME Inv, NEW p \in Procs, Mark(p)
  PROVE  Inv'
<1> DEFINE t == proc[p].tx  row == [queue[t] EXCEPT !.status = "RESOLVED"]
<1>1. proc[p].script = Marking /\ t \in Tx
  BY AtKnown, HeadKnown DEF Mark, Inv
<1>2. Moves(p, Resting) /\ InOrder(Resting)'
  BY <1>1, Rests, PassesLast DEF Mark
<1>3. t \in settled
  BY <1>1 DEF Inv, AllInOrder, InOrder
<1>4. row \in QueueRow
  BY <1>1 DEF Inv, TablesTyped, QueueRow
<1>5. queue' = Requeued(t, row)
  BY DEF Mark
<1> HIDE DEF row, t
<1>6. /\ queue' \in [Tx -> QueueRow]
      /\ \A u \in Tx : queue'[u].status = "RESOLVED"
                        => queue[u].status = "RESOLVED" \/ u \in settled
  <2>1. queue' \in [Tx -> QueueRow] /\ \A u \in Tx \ {t} : queue'[u] = queue[u]
    BY <1>1, <1>4, <1>5, RequeuedTyped DEF Inv
  <2> QED BY <1>3, <2>1
<1> QED BY <1>2, <1>6, QueueInv DEF Mark

LEMMA CountInv ==
  ASSUME ResolutionAssumption, Inv, NEW p \in Procs, Count(p)
  PROVE  Inv'
<1> DEFINE t == proc[p].tx  n == proc[p].attempt
           row == [queue[t] EXCEPT !.count = Counted(@), !.wait = NextRetry(n)]
<1>1. proc[p].script = Counting /\ t \in Tx /\ n \in Int
  BY AtKnown, HeadKnown DEF Count, Inv, Local
<1>2. Moves(p, Resting) /\ InOrder(Resting)'
  BY <1>1, Rests, PassesLast DEF Count
<1>3. NextRetry(n) \in Int
  <2>1. 2^(n - 1) \in Int
    BY <1>1
  <2>2. Base \in Int /\ Cap \in Int
    BY DEF ResolutionAssumption
  <2> QED BY <2>1, <2>2 DEF NextRetry
<1>4. row \in QueueRow /\ row.status = queue[t].status
  <2> DEFINE old == queue[t]  counted == Counted(old.count)  wait == NextRetry(n)
  <2>1. old \in QueueRow /\ wait \in Int
    BY <1>1, <1>3 DEF Inv, TablesTyped
  <2> HIDE DEF old
  <2>2. counted \in Int
    BY <2>1 DEF QueueRow, Counted
  <2> HIDE DEF counted, wait
  <2>3. /\ [old EXCEPT !.count = counted, !.wait = wait] \in QueueRow
        /\ [old EXCEPT !.count = counted, !.wait = wait].status = old.status
    BY <2>1, <2>2 DEF QueueRow
  <2> QED BY <2>3 DEF old, counted, wait
<1>5. queue' = Requeued(t, row)
  BY DEF Count
<1> HIDE DEF row, t, n
<1>6. /\ queue' \in [Tx -> QueueRow]
      /\ \A u \in Tx : queue'[u].status = "RESOLVED" => queue[u].status = "RESOLVED"
  <2>1. /\ queue' \in [Tx -> QueueRow]
        /\ \A u \in Tx : queue'[u].status \in {queue[u].status, row.status}
        /\ \A u \in Tx \ {t} : queue'[u] = queue[u]
    <3>1. TablesTyped /\ t \in Tx /\ row \in QueueRow
      BY <1>1, <1>4 DEF Inv
    <3>2. /\ Requeued(t, row) \in [Tx -> QueueRow]
          /\ \A u \in Tx : Requeued(t, row)[u].status \in {queue[u].status, row.status}
          /\ \A u \in Tx \ {t} : Requeued(t, row)[u] = queue[u]
      BY <3>1, RequeuedTyped
    <3> QED BY <1>5, <3>2
  <2> QED BY <1>4, <2>1
<1> QED BY <1>2, <1>6, QueueInv DEF Count

LEMMA EnqueueInv ==
  ASSUME Inv, NEW p \in Procs, Enqueue(p)
  PROVE  Inv'
<1> DEFINE t == proc[p].tx  old == queue[t]
           reopened == old.status \in {"none", "EXHAUSTED"}
           row == [status |-> IF reopened THEN "PENDING" ELSE old.status,
                   count |-> IF reopened THEN 0 ELSE old.count,
                   max |-> proc[p].max, wait |-> 0]
<1>1. proc[p].script = <<"enqueue">> /\ t \in Tx /\ proc[p].max \in Int
  BY AtKnown, HeadKnown DEF Enqueue, Inv, Local
<1>2. Moves(p, Resting) /\ InOrder(Resting)'
  BY <1>1, Rests, PassesLast DEF Enqueue
<1>3. old \in QueueRow
  BY <1>1 DEF Inv, TablesTyped
<1>4. queue' = [queue EXCEPT ![t] = row]
  BY DEF Enqueue
<1>5. row \in QueueRow /\ row.status \in {"PENDING", old.status}
  <2> HIDE DEF old
  <2> QED BY <1>1, <1>3 DEF QueueRow
<1> HIDE DEF row, t
<1>6. /\ queue' \in [Tx -> QueueRow]
      /\ \A u \in Tx : queue'[u].status = "RESOLVED" => queue[u].status = "RESOLVED"
  BY <1>1, <1>4, <1>5 DEF Inv, TablesTyped
<1> QED BY <1>2, <1>6, QueueInv DEF Enqueue

LEMMA ExhaustInv ==
  ASSUME Inv, NEW p \in Procs, Exhaust(p)
  PROVE  Inv'
<1> DEFINE t == proc[p].tx  row == [queue[t] EXCEPT !.status = "EXHAUSTED"]
<1>1. proc[p].script = Exhausting /\ t \in Tx
  BY AtKnown, HeadKnown DEF Exhaust, Inv
<1>2. row \in QueueRow /\ row.status = "EXHAUSTED"
  BY <1>1 DEF Inv, TablesTyped, QueueRow
<1>3. queue' = Requeued(t, row)
  BY DEF Exhaust
<1> HIDE DEF row, t
<1>4. /\ queue' \in [Tx -> QueueRow]
      /\ \A u \in Tx : queue'[u].status = "RESOLVED" => queue[u].status = "RESOLVED"
  BY <1>1, <1>2, <1>3, RequeuedTyped DEF Inv
<1>5. \E l \in Local : Moves(p, l) /\ InOrder(l)'
  <2>1. CASE Len(Exhausting) = 1
    BY <1>1, <2>1, PassesLast, RestingLocal DEF Exhaust
  <2>2. CASE AutoApply
    <3>1. Len(Exhausting) = 4 /\ Tail(Exhausting) = Deciding /\ Exhausting # <<>>
      BY <2>2, Rests, ScriptsDiffer
    <3>2. Deciding \in Scripts /\ Deciding \notin Asking /\ Deciding \notin {Updating, Marking}
      BY ScriptsDiffer DEF Scripts
    <3>3. ProcsTyped /\ Passed(p)
      BY DEF Inv, Exhaust
    <3>4. proc[p].script # <<>> /\ Len(proc[p].script) # 1 /\ Tail(proc[p].script) = Deciding
      BY <1>1, <3>1
    <3>5. PICK l \in Local : Moves(p, l) /\ l.script = Deciding
      BY <3>2, <3>3, <3>4, PassesOn
    <3>6. InOrder(l)'
      BY <3>2, <3>5 DEF InOrder
    <3> QED BY <3>5, <3>6
  <2> QED BY <2>1, <2>2, Rests
<1> QED BY <1>4, <1>5, QueueInv DEF Exhaust

LEMMA StatementInv ==
  ASSUME ResolutionAssumption, Inv, NEW p \in Procs, Statement(p)
  PROVE  Inv'
<1>1. CASE ChooseNone(p)
  BY <1>1, ReturnInv DEF ChooseNone
<1> QED BY <1>1, CheckInv, CheckOpenInv, InsertInv, UpdateInv, MarkInv, ExhaustInv, CountInv,
           EnqueueInv DEF Statement

-----------------------------------------------------------------------------
(* The worker, requests, the engine and failures                           *)

\* What the engine does to the tables: it writes no RESOLVED, and what it has
\* MATCHED is settled.
Engines ==
  /\ TablesTyped' /\ UNCHANGED verdict
  /\ settled \subseteq settled'
  /\ \A t \in Tx : /\ recon'[t] = "RESOLVED" => recon[t] = "RESOLVED"
                   /\ recon'[t] = "MATCHED" => recon[t] = "MATCHED" \/ t \in settled'
                   /\ queue'[t].status = queue[t].status

LEMMA EnginesInv ==
  ASSUME Inv, Engines
  PROVE  TablesTyped' /\ SettledSeen' /\ ResolvedIsOnFile' /\ ClosedWasSettled'
  BY DEF Inv, Engines, SettledSeen, ResolvedIsOnFile, ClosedWasSettled

LEMMA StillInv ==
  ASSUME Inv, Engines, proc' = proc
  PROVE  Inv'
<1>1. ProcsTyped'
  BY DEF Inv, ProcsTyped
<1>2. AllInOrder'
  BY DEF Inv, Engines, AllInOrder, InOrder
<1> QED BY <1>1, <1>2, EnginesInv DEF Inv

LEMMA MovedInv ==
  ASSUME Inv, Engines, NEW p \in Procs, NEW l, Moves(p, l), InOrder(l)'
  PROVE  Inv'
<1>1. ProcsTyped' /\ AllInOrder'
  BY MovesTyped, MovesInOrder DEF Inv, Engines
<1> QED BY <1>1, EnginesInv DEF Inv

\* Every verdict that the engine writes is one of these.
LEMMA DecidedEngines ==
  ASSUME Inv, NEW t \in Tx, NEW s \in Verdicts, Decided(t, s), engine' \subseteq Tx,
         UNCHANGED <<verdict, queue, polled>>
  PROVE  Engines
<1>1. recon' = [recon EXCEPT ![t] = s] /\ s \in {"PENDING", "MATCHED", "MISMATCHED"}
  BY DEF Decided, Verdicts
<1>2. settled' = IF s = "MATCHED" THEN settled \cup {t} ELSE settled
  BY DEF Decided
<1> QED BY <1>1, <1>2 DEF Inv, TablesTyped, Engines

\* So is a reset.
LEMMA ResetEngines ==
  ASSUME Inv, NEW t \in Tx, engine' \subseteq Tx,
         recon' = [recon EXCEPT ![t] = IF @ = "none" THEN @ ELSE "PENDING"],
         UNCHANGED <<verdict, queue, polled, settled>>
  PROVE  Engines
<1>1. \A u \in Tx : recon'[u] \in {recon[u], "PENDING"}
  BY DEF Inv, TablesTyped
<1>2. recon' \in [Tx -> {"none", "PENDING", "MATCHED", "MISMATCHED", "RESOLVED"}]
  BY DEF Inv, TablesTyped
<1> QED BY <1>1, <1>2 DEF Inv, TablesTyped, Engines

LEMMA PollInv ==
  ASSUME Inv, Poll
  PROVE  Inv'
<1>1. \A t \in Tx : queue[t].count \in Int /\ queue[t].max \in Int
  BY DEF Inv, TablesTyped, QueueRow
<1>2. polled' \subseteq [tx : Tx, count : Int, max : Int]
  BY <1>1 DEF Poll
<1>3. Engines
  BY <1>2 DEF Inv, TablesTyped, Engines, Poll, tables
<1> QED BY <1>3, StillInv DEF Poll

LEMMA TakeUpMoves ==
  ASSUME Inv, TakeUp
  PROVE  \E l \in Local : Moves(RetryWorker, l) /\ l.script = Retrying
<1>1. PICK e \in polled :
        proc' = [proc EXCEPT ![RetryWorker] =
                   [script |-> Retrying, tx |-> e.tx, by |-> "AUTO", max |-> e.max,
                    attempt |-> e.count + 1]]
  BY DEF TakeUp
<1> DEFINE l == [script |-> Retrying, tx |-> e.tx, by |-> "AUTO", max |-> e.max,
                 attempt |-> e.count + 1]
<1>2. e.tx \in Tx /\ e.max \in Int /\ e.count + 1 \in Int
  BY DEF Inv, TablesTyped
<1>3. Retrying \in Scripts
  BY DEF Scripts, Asking
<1>4. l \in Local /\ l.script = Retrying /\ l.tx = e.tx
  BY <1>2, <1>3 DEF Local
<1> HIDE DEF l
<1>5. Moves(RetryWorker, l)
  BY <1>1, <1>2, <1>4 DEF Moves, l
<1> QED BY <1>4, <1>5

LEMMA TakeUpInv ==
  ASSUME Inv, TakeUp
  PROVE  Inv'
<1>1. PICK l \in Local : Moves(RetryWorker, l) /\ l.script = Retrying
  BY TakeUpMoves
<1>2. InOrder(l)'
  BY <1>1, ScriptsDiffer DEF InOrder, Asking
<1>3. RetryWorker \in Procs /\ polled' \subseteq [tx : Tx, count : Int, max : Int]
  BY DEF TakeUp, Inv, TablesTyped, Procs
<1> QED BY <1>1, <1>2, <1>3, QuietInv DEF TakeUp, Inv, TablesTyped

LEMMA ResetInv ==
  ASSUME Inv, Reset(RetryWorker)
  PROVE  Inv'
<1>1. RetryWorker \in Procs
  BY DEF Procs
<1>2. PICK t \in Tx : t = proc[RetryWorker].tx
  BY <1>1, AtKnown DEF Reset, Inv
<1>3. proc[RetryWorker].script = Retrying
  BY <1>1, AtKnown, HeadKnown DEF Reset, Inv
<1>4. AskingOn \in Scripts /\ AskingOn \notin {Updating, Marking}
  BY ScriptsDiffer DEF Scripts, Asking
<1>5. PICK l \in Local : Moves(RetryWorker, l) /\ l.script = AskingOn
  <2>1. ProcsTyped /\ Passed(RetryWorker)
    BY DEF Inv, Reset
  <2>2. /\ proc[RetryWorker].script # <<>> /\ Len(proc[RetryWorker].script) # 1
        /\ Tail(proc[RetryWorker].script) = AskingOn
    BY <1>3, Rests, ScriptsDiffer
  <2> QED BY <1>1, <1>4, <2>1, <2>2, PassesOn
<1>6. InOrder(l)'
  BY <1>4, <1>5 DEF InOrder
<1>7. Engines
  BY <1>2, ResetEngines DEF Reset, Inv, TablesTyped
<1> QED BY <1>1, <1>5, <1>6, <1>7, MovedInv

LEMMA RematchInv ==
  ASSUME Inv, Rematch(RetryWorker)
  PROVE  Inv'
<1>1. RetryWorker \in Procs
  BY DEF Procs
<1>2. PICK t \in Tx : t = proc[RetryWorker].tx
  BY <1>1, AtKnown DEF Rematch, Inv
<1>3. proc[RetryWorker].script = AskingOn
  BY <1>1, AtKnown, HeadKnown DEF Rematch, Inv
<1>4. Awaiting \in Scripts /\ Awaiting \notin {Updating, Marking}
  BY ScriptsDiffer DEF Scripts, Asking
<1>5. PICK l \in Local : Moves(RetryWorker, l) /\ l.script = Awaiting
  <2>1. ProcsTyped /\ Passed(RetryWorker)
    BY DEF Inv, Rematch
  <2>2. /\ proc[RetryWorker].script # <<>> /\ Len(proc[RetryWorker].script) # 1
        /\ Tail(proc[RetryWorker].script) = Awaiting
    BY <1>3, Rests, ScriptsDiffer
  <2> QED BY <1>1, <1>4, <2>1, <2>2, PassesOn
<1>6. InOrder(l)'
  BY <1>4, <1>5 DEF InOrder
<1>7. PICK s \in Verdicts : Decided(t, s)
  BY <1>2 DEF Rematch
<1>8. Engines
  BY <1>7, DecidedEngines DEF Rematch, Inv, TablesTyped
<1> QED BY <1>1, <1>5, <1>6, <1>8, MovedInv

\* What the worker does after the engine's answer: it closes the row only of a
\* transaction that it has seen MATCHED or RESOLVED.
LEMMA AnsweredKnown ==
  ASSUME NEW status, NEW n, NEW max
  PROVE  \/ Answered(status, n, max) = Marking /\ status \in {"MATCHED", "RESOLVED"}
         \/ Answered(status, n, max) = Exhausting /\ status = "MISMATCHED"
         \/ Answered(status, n, max) = Counting
  BY DEF Answered, Marking

LEMMA AnswerInv ==
  ASSUME Inv, Answer(RetryWorker)
  PROVE  Inv'
<1>1. RetryWorker \in Procs
  BY DEF Procs
<1>2. PICK old \in Local, t \in Tx : old = proc[RetryWorker] /\ t = old.tx
  BY <1>1, AtKnown DEF Answer, Inv
<1>3. PICK status : status = recon[t]
  OBVIOUS
<1>4. PICK s : s = Answered(status, old.attempt, old.max)
  OBVIOUS
<1>5. /\ s \in Scripts /\ s \notin Asking /\ s # Updating
      /\ s = Marking => status \in {"MATCHED", "RESOLVED"}
  BY <1>4, AnsweredKnown, ScriptsDiffer DEF Scripts
<1>6. PICK l \in Local : l = With(old, s) /\ l.script = s /\ l.tx = t
  BY <1>2, <1>5, WithLocal
<1>7. Moves(RetryWorker, l)
  <2>1. proc' = [proc EXCEPT ![RetryWorker] = [old EXCEPT !.script = s]]
    BY <1>1, <1>2, <1>3, <1>4 DEF Answer, Inv, ProcsTyped
  <2> QED BY <1>2, <1>5, <1>6, <2>1, WithLocal DEF Moves
<1>8. InOrder(l)'
  BY <1>3, <1>5, <1>6 DEF InOrder, Inv, SettledSeen, Answer
<1> QED BY <1>1, <1>7, <1>8, QuietInv DEF Answer, Inv, TablesTyped

LEMMA CallMoves ==
  ASSUME NEW p \in Ops, NEW t \in Tx, NEW s \in {Manually, Enqueuing},
         NEW by \in {"MANUAL", "AUTO"}, NEW max \in Int, Call(p, t, s, by, max)
  PROVE  /\ \E l \in Local : Moves(p, l) /\ l.script = s
         /\ UNCHANGED <<tables, engine, polled, settled>>
<1> DEFINE l == [script |-> s, tx |-> t, by |-> by, max |-> max, attempt |-> 0]
<1>1. s \in Scripts /\ s \notin Asking
  BY ScriptsDiffer DEF Scripts
<1>2. l \in Local /\ l.script = s /\ l.tx = t
  BY <1>1 DEF Local
<1>3. proc' = [proc EXCEPT ![p] = l]
  BY DEF Call
<1> HIDE DEF l
<1>4. Moves(p, l)
  BY <1>1, <1>2, <1>3 DEF Moves
<1>5. UNCHANGED <<tables, engine, polled, settled>>
  BY DEF Call
<1> QED BY <1>2, <1>4, <1>5

LEMMA RequestMoves ==
  ASSUME ResolutionAssumption, NEW p \in Ops, NEW t \in Tx, Request(p, t)
  PROVE  /\ \E l \in Local : Moves(p, l) /\ l.script \in {Manually, Enqueuing}
         /\ UNCHANGED <<tables, engine, polled, settled>>
<1>1. CASE ResolveManually(p, t)
  <2>1. Call(p, t, Manually, "MANUAL", 0)
    BY <1>1 DEF ResolveManually
  <2>2. 0 \in Int /\ "MANUAL" \in {"MANUAL", "AUTO"} /\ "AUTO" \in {"MANUAL", "AUTO"}
    OBVIOUS
  <2>3. Manually \in {Manually, Enqueuing}
    OBVIOUS
  <2> QED BY <2>1, <2>2, <2>3, CallMoves
<1>2. CASE AutoResolve(p, t)
  <2>1. Call(p, t, Manually, "AUTO", 0)
    BY <1>2 DEF AutoResolve, Automatically, Manually
  <2>2. 0 \in Int /\ "MANUAL" \in {"MANUAL", "AUTO"} /\ "AUTO" \in {"MANUAL", "AUTO"}
    OBVIOUS
  <2>3. Manually \in {Manually, Enqueuing}
    OBVIOUS
  <2> QED BY <2>1, <2>2, <2>3, CallMoves
<1>3. CASE EnqueueRetry(p, t)
  <2>1. PICK max \in Ceilings : Call(p, t, Enqueuing, "AUTO", max)
    BY <1>3 DEF EnqueueRetry
  <2>2. max \in Int
    BY DEF ResolutionAssumption
  <2> QED BY <2>1, <2>2, CallMoves
<1> QED BY <1>1, <1>2, <1>3 DEF Request

LEMMA RequestInv ==
  ASSUME ResolutionAssumption, Inv, NEW p \in Ops, NEW t \in Tx, Request(p, t)
  PROVE  Inv'
<1>1. PICK l \in Local : Moves(p, l) /\ l.script \in {Manually, Enqueuing}
  BY RequestMoves
<1>2. InOrder(l)'
  BY <1>1, ScriptsDiffer DEF InOrder
<1>3. p \in Procs /\ UNCHANGED <<tables, engine, polled, settled>>
  BY RequestMoves DEF Procs
<1> QED BY <1>1, <1>2, <1>3, QuietInv DEF Inv, TablesTyped

LEMMA EngineInv ==
  ASSUME Inv, NEW t \in Tx, EngineStep(t) \/ OthersReTrigger(t)
  PROVE  Inv'
<1>1. CASE EngineTakesUp(t) \/ EngineEnds(t)
  <2>1. Engines
    BY <1>1 DEF EngineTakesUp, EngineEnds, tables, Inv, TablesTyped, Engines
  <2> QED BY <1>1, <2>1, StillInv DEF EngineTakesUp, EngineEnds
<1>2. CASE EngineWrites(t)
  <2>1. PICK s \in Verdicts : Decided(t, s)
    BY <1>2 DEF EngineWrites
  <2>2. engine' \subseteq Tx
    BY <1>2 DEF EngineWrites, Inv, TablesTyped
  <2> QED BY <1>2, <2>1, <2>2, DecidedEngines, StillInv DEF EngineWrites
<1>3. CASE OthersReTrigger(t)
  <2>1. engine' \subseteq Tx
    BY <1>3 DEF OthersReTrigger, Inv, TablesTyped
  <2> QED BY <1>3, <2>1, ResetEngines, StillInv DEF OthersReTrigger
<1> QED BY <1>1, <1>2, <1>3 DEF EngineStep

LEMMA TickInv ==
  ASSUME Inv, Tick
  PROVE  Inv'
<1>1. ASSUME NEW t \in Tx
      PROVE  queue'[t] \in QueueRow /\ queue'[t].status = queue[t].status
  <2> DEFINE old == queue[t]  wait == IF old.wait = 0 THEN 0 ELSE old.wait - 1
  <2>1. old \in QueueRow
    BY DEF Inv, TablesTyped
  <2>2. queue'[t] = [old EXCEPT !.wait = wait]
    BY DEF Tick
  <2> HIDE DEF old
  <2>3. wait \in Int
    BY <2>1 DEF QueueRow
  <2> HIDE DEF wait
  <2>4. [old EXCEPT !.wait = wait] \in QueueRow /\ [old EXCEPT !.wait = wait].status = old.status
    BY <2>1, <2>3 DEF QueueRow
  <2> QED BY <2>2, <2>4 DEF old
<1>2. queue' = [t \in Tx |-> queue'[t]]
  BY DEF Tick
<1>3. queue' \in [Tx -> QueueRow]
  BY <1>1, <1>2
<1>4. Engines
  BY <1>1, <1>3 DEF Tick, Inv, TablesTyped, Engines
<1> QED BY <1>4, StillInv DEF Tick

LEMMA CallFailsInv ==
  ASSUME Inv, NEW p \in Procs, CallFails(p)
  PROVE  Inv'
<1>1. engine' \subseteq Tx /\ polled' \subseteq [tx : Tx, count : Int, max : Int]
  BY DEF CallFails, Inv, TablesTyped, ProcsTyped
<1>2. PICK old \in Local : old = proc[p] /\ old.tx \in Tx
  BY DEF CallFails, Inv, ProcsTyped
<1>3. Counting \in Scripts /\ Counting \notin Asking /\ Counting \notin {Updating, Marking}
  BY ScriptsDiffer DEF Scripts
<1>4. PICK l \in Local : l = With(old, Counting) /\ l.script = Counting /\ l.tx = old.tx
  BY <1>3, WithLocal
<1>5. proc' = [proc EXCEPT ![p] = [old EXCEPT !.script = Counting]]
  BY <1>2 DEF CallFails, Inv, ProcsTyped
<1>6. Moves(p, l) /\ InOrder(l)'
  BY <1>2, <1>3, <1>4, <1>5, WithLocal DEF Moves, InOrder
<1> QED BY <1>1, <1>6, QuietInv DEF CallFails

LEMMA FaultInv ==
  ASSUME Inv, NEW p \in Procs, Fault(p)
  PROVE  Inv'
<1>1. engine' \subseteq Tx /\ polled' \subseteq [tx : Tx, count : Int, max : Int]
  BY DEF Fault, Inv, TablesTyped
<1>2. CASE Head(proc[p].script) = "mark"
  <2>1. proc[p].script = Marking
    BY <1>2, HeadKnown DEF Fault, Inv, ProcsTyped, Local
  <2>2. Moves(p, Resting) /\ InOrder(Resting)'
    BY <1>2, <2>1, Rests, PassesLast DEF Fault
  <2> QED BY <1>1, <2>2, QuietInv DEF Fault
<1>3. CASE Returned(p)
  <2>1. Moves(p, Resting) /\ InOrder(Resting)'
    BY <1>3, Returns
  <2> QED BY <1>1, <2>1, QuietInv DEF Fault
<1> QED BY <1>2, <1>3 DEF Fault

LEMMA CrashInv ==
  ASSUME Inv, Crash
  PROVE  Inv'
<1>1. ProcsTyped'
  BY RestingLocal, ScriptsDiffer DEF Crash, ProcsTyped
<1>2. AllInOrder'
  BY RestingLocal, ScriptsDiffer DEF Crash, AllInOrder, InOrder
<1>3. TablesTyped'
  BY DEF Crash, tables, Asked, Inv, TablesTyped
<1>4. SettledSeen' /\ ResolvedIsOnFile' /\ ClosedWasSettled'
  BY DEF Crash, tables, Inv, SettledSeen, ResolvedIsOnFile, ClosedWasSettled
<1> QED BY <1>1, <1>2, <1>3, <1>4 DEF Inv

LEMMA NextInv ==
  ASSUME ResolutionAssumption, Inv, [Next]_vars
  PROVE  Inv'
<1>1. CASE UNCHANGED vars
  BY <1>1 DEF vars, tables, Inv, ProcsTyped, TablesTyped, AllInOrder, InOrder, SettledSeen,
       ResolvedIsOnFile, ClosedWasSettled
<1>2. CASE WorkerStep
  <2>1. RetryWorker \in Procs
    BY DEF Procs
  <2> QED BY <1>2, <2>1, PollInv, TakeUpInv, ResetInv, RematchInv, AnswerInv, StatementInv
          DEF WorkerStep
<1>3. CASE \E p \in Ops : Statement(p) \/ \E t \in Tx : Request(p, t)
  BY <1>3, StatementInv, RequestInv DEF Procs
<1>4. CASE \E t \in Tx : EngineStep(t) \/ OthersReTrigger(t)
  BY <1>4, EngineInv
<1>5. CASE Tick \/ Crash \/ CallFails(RetryWorker) \/ \E p \in Procs : Fault(p)
  BY <1>5, TickInv, CrashInv, CallFailsInv, FaultInv DEF Procs
<1> QED BY <1>1, <1>2, <1>3, <1>4, <1>5 DEF Next

THEOREM ResolutionInvariant == Spec => []Inv
<1>1. Init => Inv
  BY InitInv
<1>2. Inv /\ [Next]_vars => Inv'
  BY NextInv, ResolutionAssumption
<1> QED BY <1>1, <1>2, PTL DEF Spec

\* A transaction is RESOLVED only when it is on file who resolved it, whatever
\* handlers, worker and engine overlap, fail or die.
THEOREM ResolvedOnFile == Spec => []ResolvedIsOnFile
<1>1. Inv => ResolvedIsOnFile
  BY DEF Inv
<1> QED BY <1>1, ResolutionInvariant, PTL

\* The retry queue closes only what has been MATCHED or RESOLVED, although the
\* statement that closes a row checks nothing.
THEOREM ClosedSettled == Spec => []ClosedWasSettled
<1>1. Inv => ClosedWasSettled
  BY DEF Inv
<1> QED BY <1>1, ResolutionInvariant, PTL

-----------------------------------------------------------------------------
(* The contract                                                            *)

Writing == engine \cup Asked

Lifecycle == <<recon, Writing, Resolving>>

\* The mapped state in terms of the scripts.
AdmittedTx == {t \in Tx : \E p \in Procs : proc[p].tx = t /\ proc[p].script \in Admitted}

AskedTx == {t \in Tx : proc[RetryWorker].tx = t /\ proc[RetryWorker].script = AskingOn}

LEMMA ResolvingKnown == ProcsTyped => Resolving = AdmittedTx
<1> SUFFICES ASSUME ProcsTyped PROVE Resolving = AdmittedTx
  OBVIOUS
<1>1. \A p \in Procs : proc[p].script \in Scripts
  BY DEF ProcsTyped, Local
<1>2. \A p \in Procs :
        proc[p].script \in Admitted
          <=> /\ \E i \in DOMAIN proc[p].script : proc[p].script[i] = "update"
              /\ \A i \in DOMAIN proc[p].script : proc[p].script[i] # "check"
  BY <1>1, AdmittedKnown
<1> QED BY <1>2 DEF Resolving, AdmittedTx

LEMMA AskedKnown == ProcsTyped => Asked = AskedTx
<1> SUFFICES ASSUME ProcsTyped PROVE Asked = AskedTx
  OBVIOUS
<1>1. RetryWorker \in Procs
  BY DEF Procs
<1>2. proc[RetryWorker].script \in Scripts
  BY <1>1 DEF ProcsTyped, Local
<1>3. At(RetryWorker, "match") <=> proc[RetryWorker].script = AskingOn
  BY <1>2, HeadKnown, ScriptsDiffer DEF At, AskingOn
<1> QED BY <1>3 DEF Asked, AskedTx

LEMMA KnownAfter == ProcsTyped' => Resolving' = AdmittedTx' /\ Asked' = AskedTx'
<1>1. (ProcsTyped => Resolving = AdmittedTx)'
  BY ResolvingKnown, PTL
<1>2. (ProcsTyped => Asked = AskedTx)'
  BY AskedKnown, PTL
<1> QED BY <1>1, <1>2

\* What a move does to them.  Scripts that are not admitted add nothing, and an
\* admitted one adds its transaction.
LEMMA MovesResolving ==
  ASSUME Inv, NEW p \in Procs, NEW l, Moves(p, l)
  PROVE  /\ l.script \notin Admitted => Resolving' \subseteq Resolving
         /\ l.script \in Admitted => Resolving' \subseteq Resolving \cup {l.tx} /\ l.tx \in Resolving'
         /\ \A t \in Resolving : t \in Resolving' \/ (t = proc[p].tx /\ proc[p].script \in Admitted)
<1>1. ProcsTyped' /\ proc'[p] = l /\ \A q \in Procs \ {p} : proc'[q] = proc[q]
  BY MovesTyped DEF Inv
<1>2. Resolving' = {t \in Tx : \E q \in Procs : proc'[q].tx = t /\ proc'[q].script \in Admitted}
  BY <1>1, KnownAfter DEF AdmittedTx
<1>3. Resolving = {t \in Tx : \E q \in Procs : proc[q].tx = t /\ proc[q].script \in Admitted}
  BY ResolvingKnown DEF Inv, AdmittedTx
<1>4. l.script \in Admitted => l.tx \in Tx
  BY ScriptsDiffer DEF Moves
<1> QED BY <1>1, <1>2, <1>3, <1>4

LEMMA MovesAsked ==
  ASSUME Inv, NEW p \in Procs, NEW l, Moves(p, l)
  PROVE  /\ p # RetryWorker => Asked' = Asked
         /\ p = RetryWorker /\ l.script # AskingOn => Asked' = {}
         /\ p = RetryWorker /\ l.script = AskingOn => Asked' = {l.tx}
         /\ p = RetryWorker /\ proc[p].script # AskingOn => Asked = {}
         /\ p = RetryWorker /\ proc[p].script = AskingOn => Asked = {proc[p].tx}
<1>1. ProcsTyped' /\ proc'[p] = l /\ \A q \in Procs \ {p} : proc'[q] = proc[q]
  BY MovesTyped DEF Inv
<1>2. Asked' = {t \in Tx : proc'[RetryWorker].tx = t /\ proc'[RetryWorker].script = AskingOn}
  BY <1>1, KnownAfter DEF AskedTx
<1>3. Asked = {t \in Tx : proc[RetryWorker].tx = t /\ proc[RetryWorker].script = AskingOn}
  BY AskedKnown DEF Inv, AskedTx
<1>4. RetryWorker \in Procs /\ (p = RetryWorker /\ l.script = AskingOn => l.tx \in Tx)
  BY ScriptsDiffer DEF Procs, Moves
<1>5. p = RetryWorker /\ proc[p].script = AskingOn => proc[p].tx \in Tx
  BY ScriptsDiffer DEF Inv, ProcsTyped
<1> QED BY <1>1, <1>2, <1>3, <1>4, <1>5

LEMMA ContractInit == Init => Life!Init
<1> SUFFICES ASSUME Init PROVE Life!Init
  OBVIOUS
<1>1. \A p \in Procs : proc[p] = Resting /\ RetryWorker \in Procs
  BY DEF Init, Procs
<1>2. Asked = {}
  BY <1>1, RestingLocal DEF Asked, At, Procs
<1>3. ProcsTyped
  BY InitInv DEF Inv
<1>4. Resolving = {}
  BY <1>1, <1>3, RestingLocal, ResolvingKnown, ScriptsDiffer DEF AdmittedTx
<1> QED BY <1>2, <1>4 DEF Init, Life!Init

\* A step that moves a process and is no step of the contract's: what it may
\* write is given up at most.
LEMMA MovesGiveUp ==
  ASSUME Inv, NEW p \in Procs, NEW l, Moves(p, l), UNCHANGED recon,
         engine' \subseteq Writing, l.script # AskingOn,
         l.script \in Admitted => proc[p].script \in Admitted /\ l.tx = proc[p].tx
  PROVE  Life!GiveUp
<1>1. Writing' \subseteq Writing
  BY MovesAsked DEF Writing
<1>2. Resolving' \subseteq Resolving
  <2>1. CASE l.script \notin Admitted
    BY <2>1, MovesResolving
  <2>2. CASE l.script \in Admitted
    <3>1. proc[p].tx \in Tx
      BY <2>2, ScriptsDiffer DEF Inv, ProcsTyped
    <3>2. l.tx \in Resolving
      BY <2>2, <3>1, ResolvingKnown DEF Inv, AdmittedTx
    <3> QED BY <2>2, <3>2, MovesResolving
  <2> QED BY <2>1, <2>2
<1> QED BY <1>1, <1>2 DEF Life!GiveUp, Writing

LEMMA AdmittedScripts ==
  /\ Deciding \in Admitted /\ Updating \in Admitted
  /\ Marking \notin Admitted /\ Manually \notin Admitted /\ Enqueuing \notin Admitted
  /\ <<"enqueue">> \notin Admitted /\ Counting \notin Admitted
  /\ AutoApply => Exhausting \in Admitted
  /\ Awaiting # AskingOn /\ Retrying # AskingOn
  BY DEF Admitted, Deciding, Updating, Marking, Manually, Enqueuing, Counting, Exhausting, Awaiting,
     Retrying, AskingOn

\* A statement that is run leaves a script that is no longer than it, and
\* admitted only if it was before or the status has just been checked.
LEMMA PassedAdmits ==
  ASSUME Inv, NEW p \in Procs, NEW h, At(p, h), Passed(p), h \notin {"reset", "match", "answer"}
  PROVE  \E l \in Local :
           /\ Moves(p, l) /\ l.script \notin Asking
           /\ l.script \in Admitted => /\ l.tx = proc[p].tx
                                       /\ proc[p].script \in Admitted \/ h = "check"
           /\ h = "check" => l.script \in Admitted
           /\ h = "update" => l.script \notin Admitted
<1> DEFINE s == proc[p].script
<1>1. /\ ProcsTyped /\ proc[p] \in Local /\ proc[p].tx \in Tx
      /\ s \in Scripts /\ s # <<>> /\ Head(s) = h
  BY AtKnown DEF Inv
<1>2. CASE Len(s) = 1 /\ h \notin {"check", "update"}
  BY <1>2, PassesLast, RestingLocal, ScriptsDiffer
<1>3. ASSUME NEW r \in Scripts, r \notin Asking, Len(s) # 1, Tail(s) = r,
             r \in Admitted => s \in Admitted \/ h = "check",
             h = "check" => r \in Admitted, h = "update" => r \notin Admitted
      PROVE  \E l \in Local :
               /\ Moves(p, l) /\ l.script \notin Asking
               /\ l.script \in Admitted => l.tx = proc[p].tx /\ (s \in Admitted \/ h = "check")
               /\ h = "check" => l.script \in Admitted
               /\ h = "update" => l.script \notin Admitted
  <2>1. PICK l \in Local : Moves(p, l) /\ l.script = r /\ l.tx = proc[p].tx
    BY <1>1, <1>3, PassesOn
  <2> QED BY <1>3, <2>1
<1> HIDE DEF s
<1>4. CASE s = Manually
  <2>1. Deciding \in Scripts /\ h = "check"
    BY <1>1, <1>4 DEF Scripts, Manually
  <2> QED BY <1>3, <1>4, <2>1, Rests, AdmittedScripts, ScriptsDiffer DEF s
<1>5. CASE s = Deciding
  <2>1. Updating \in Scripts /\ h = "insert"
    BY <1>1, <1>5 DEF Scripts, Deciding
  <2> QED BY <1>3, <1>5, <2>1, Rests, AdmittedScripts, ScriptsDiffer DEF s
<1>6. CASE s = Updating
  <2>1. Marking \in Scripts /\ h = "update"
    BY <1>1, <1>6 DEF Scripts, Updating
  <2> QED BY <1>3, <1>6, <2>1, Rests, AdmittedScripts, ScriptsDiffer DEF s
<1>7. CASE s = Enqueuing
  <2> DEFINE r == <<"enqueue">>
  <2>1. r \in Scripts /\ h = "checkOpen"
    BY <1>1, <1>7 DEF Scripts, Enqueuing
  <2>2. r \notin Asking /\ r \notin Admitted /\ Len(s) # 1 /\ Tail(s) = r
    BY <1>7, Rests, AdmittedScripts, ScriptsDiffer
  <2> HIDE DEF r
  <2> QED BY <1>3, <2>1, <2>2 DEF s
<1>8. CASE s = Exhausting
  <2>1. Deciding \in Scripts /\ h = "exhaust"
    BY <1>1, <1>8 DEF Scripts, Exhausting
  <2>2. CASE Len(Exhausting) = 1
    BY <1>2, <1>8, <2>1, <2>2 DEF s
  <2>3. CASE AutoApply
    <3>1. Deciding \notin Asking /\ s \in Admitted
      BY <1>8, <2>3, AdmittedScripts, ScriptsDiffer
    <3>2. Len(s) = 4 /\ Tail(s) = Deciding
      BY <1>8, <2>3, Rests
    <3> QED BY <1>3, <2>1, <3>1, <3>2 DEF s
  <2> QED BY <2>2, <2>3, Rests
<1>9. CASE s \in {Marking, Counting, <<"enqueue">>}
  <2>1. Len(s) = 1 /\ h \notin {"check", "update"}
    BY <1>1, <1>9 DEF Marking, Counting
  <2> QED BY <1>2, <2>1 DEF s
<1>10. CASE s \in Asking
  BY <1>1, <1>10 DEF Asking, Retrying, AskingOn, Awaiting
<1> QED BY <1>1, <1>4, <1>5, <1>6, <1>7, <1>8, <1>9, <1>10 DEF Scripts

LEMMA ReturnContract ==
  ASSUME Inv, NEW p \in Procs, Returned(p), UNCHANGED <<recon, engine>>
  PROVE  Life!GiveUp
<1>1. Moves(p, Resting)
  BY Returns
<1>2. Resting.script # AskingOn /\ Resting.script \notin Admitted
  BY RestingLocal, ScriptsDiffer
<1> QED BY <1>1, <1>2, MovesGiveUp DEF Writing

\* A check that passes admits the transaction it has seen.
LEMMA CheckAdmits ==
  ASSUME Inv, NEW p \in Procs, Check(p), recon[proc[p].tx] \notin {"none", "PENDING", "MATCHED"}
  PROVE  \E t \in Tx : Life!Admit(t)
<1>1. Passed(p) /\ At(p, "check") /\ UNCHANGED <<recon, engine>>
  BY DEF Check, tables
<1>2. PICK t \in Tx : t = proc[p].tx
  BY <1>1, AtKnown DEF Inv
<1>3. recon[t] \in {"MISMATCHED", "RESOLVED"}
  BY <1>2 DEF Inv, TablesTyped
<1>4. PICK l \in Local :
        Moves(p, l) /\ l.script \notin Asking /\ l.script \in Admitted /\ l.tx = t
  BY <1>1, <1>2, PassedAdmits
<1>5. proc[p].script = Manually
  BY <1>1, AtKnown, HeadKnown DEF Inv
<1>6. proc[p].script \notin Admitted /\ proc[p].script # AskingOn /\ l.script # AskingOn
  BY <1>4, <1>5, AdmittedScripts, ScriptsDiffer DEF Asking
<1>7. Resolving' = Resolving \cup {t}
  BY <1>4, <1>6, MovesResolving
<1>8. Writing' = Writing
  BY <1>1, <1>4, <1>6, MovesAsked DEF Writing
<1> QED BY <1>1, <1>3, <1>7, <1>8 DEF Life!Admit, Writing

LEMMA UpdateResolves ==
  ASSUME Inv, NEW p \in Procs, Update(p)
  PROVE  \E t \in Tx : Life!Resolve(t)
<1>1. Passed(p) /\ At(p, "update") /\ UNCHANGED engine
  BY DEF Update
<1>2. PICK t \in Tx : t = proc[p].tx
  BY <1>1, AtKnown DEF Inv
<1>3. recon' = [recon EXCEPT ![t] = "RESOLVED"]
  BY <1>2 DEF Update
<1>4. PICK l \in Local : Moves(p, l) /\ l.script \notin Asking /\ l.script \notin Admitted
  BY <1>1, PassedAdmits
<1>5. proc[p].script = Updating
  BY <1>1, AtKnown, HeadKnown DEF Inv
<1>6. proc[p].script \in Admitted /\ proc[p].script # AskingOn /\ l.script # AskingOn
  BY <1>4, <1>5, AdmittedScripts, ScriptsDiffer DEF Asking
<1>7. t \in Resolving
  BY <1>2, <1>6, ResolvingKnown DEF Inv, AdmittedTx
<1>8. Resolving' \in {Resolving, Resolving \ {t}}
  <2>1. Resolving' \subseteq Resolving /\ \A u \in Resolving : u \in Resolving' \/ u = t
    BY <1>2, <1>4, MovesResolving
  <2> QED BY <2>1
<1>9. Writing' = Writing
  BY <1>1, <1>4, <1>6, MovesAsked DEF Writing
<1> QED BY <1>3, <1>7, <1>8, <1>9 DEF Life!Resolve, Writing

\* What resolution does to a status, and how it gets there.
LEMMA StatementContract ==
  ASSUME Inv, NEW p \in Procs, Statement(p)
  PROVE  Life!Next
<1>1. CASE Returned(p) /\ UNCHANGED <<recon, engine>>
  BY <1>1, ReturnContract DEF Life!Next
<1>2. ASSUME NEW h, At(p, h), Passed(p), h \notin {"reset", "match", "answer", "check", "update"},
             UNCHANGED <<recon, engine>>
      PROVE  Life!GiveUp
  <2>1. PICK l \in Local :
          /\ Moves(p, l) /\ l.script \notin Asking
          /\ l.script \in Admitted => l.tx = proc[p].tx /\ proc[p].script \in Admitted
    BY <1>2, PassedAdmits
  <2>2. l.script # AskingOn
    BY <2>1 DEF Asking
  <2> QED BY <1>2, <2>1, <2>2, MovesGiveUp DEF Writing
<1>3. CASE Check(p)
  <2>1. CASE recon[proc[p].tx] \notin {"none", "PENDING", "MATCHED"}
    BY <1>3, <2>1, CheckAdmits DEF Life!Next
  <2>2. CASE recon[proc[p].tx] \in {"none", "PENDING", "MATCHED"}
    BY <1>1, <1>3, <2>2 DEF Check, tables
  <2> QED BY <2>1, <2>2
<1>4. CASE CheckOpen(p) \/ ChooseNone(p)
  BY <1>1, <1>2, <1>4 DEF CheckOpen, ChooseNone, tables, Life!Next
<1>5. CASE Update(p)
  BY <1>5, UpdateResolves DEF Life!Next
<1>6. CASE Insert(p) \/ Mark(p)
  BY <1>2, <1>6 DEF Insert, Mark, Life!Next
<1>7. CASE Exhaust(p) \/ Count(p) \/ Enqueue(p)
  BY <1>2, <1>7 DEF Exhaust, Count, Enqueue, Life!Next
<1> QED BY <1>3, <1>4, <1>5, <1>6, <1>7 DEF Statement

\* The worker has the engine reset the row, match and answer.
LEMMA ResetReTriggers ==
  ASSUME Inv, Reset(RetryWorker)
  PROVE  \E t \in Tx : Life!ReTrigger(t)
<1>1. RetryWorker \in Procs
  BY DEF Procs
<1>2. PICK t \in Tx : t = proc[RetryWorker].tx
  BY <1>1, AtKnown DEF Reset, Inv
<1>3. proc[RetryWorker].script = Retrying
  BY <1>1, AtKnown, HeadKnown DEF Reset, Inv
<1>4. PICK l \in Local : Moves(RetryWorker, l) /\ l.script = AskingOn /\ l.tx = t
  <2>1. ProcsTyped /\ Passed(RetryWorker) /\ AskingOn \in Scripts
    BY DEF Inv, Reset, Scripts, Asking
  <2>2. /\ proc[RetryWorker].script # <<>> /\ Len(proc[RetryWorker].script) # 1
        /\ Tail(proc[RetryWorker].script) = AskingOn
    BY <1>3, Rests, ScriptsDiffer
  <2> QED BY <1>1, <1>2, <2>1, <2>2, PassesOn
<1>5. Asked = {} /\ Asked' = {t}
  BY <1>1, <1>3, <1>4, MovesAsked, AdmittedScripts
<1>6. Resolving' = Resolving
  BY <1>1, <1>3, <1>4, MovesResolving, ScriptsDiffer DEF Asking
<1> QED BY <1>2, <1>5, <1>6 DEF Life!ReTrigger, Reset

LEMMA RematchWrites ==
  ASSUME Inv, Rematch(RetryWorker)
  PROVE  \E t \in Tx : Life!Write(t)
<1>1. RetryWorker \in Procs
  BY DEF Procs
<1>2. PICK t \in Tx : t = proc[RetryWorker].tx
  BY <1>1, AtKnown DEF Rematch, Inv
<1>3. proc[RetryWorker].script = AskingOn
  BY <1>1, AtKnown, HeadKnown DEF Rematch, Inv
<1>4. PICK l \in Local : Moves(RetryWorker, l) /\ l.script = Awaiting
  <2>1. ProcsTyped /\ Passed(RetryWorker) /\ Awaiting \in Scripts
    BY DEF Inv, Rematch, Scripts, Asking
  <2>2. /\ proc[RetryWorker].script # <<>> /\ Len(proc[RetryWorker].script) # 1
        /\ Tail(proc[RetryWorker].script) = Awaiting
    BY <1>3, Rests, ScriptsDiffer
  <2> QED BY <1>1, <2>1, <2>2, PassesOn
<1>5. Asked = {t} /\ Asked' = {}
  BY <1>1, <1>2, <1>3, <1>4, MovesAsked, AdmittedScripts
<1>6. Resolving' = Resolving
  BY <1>1, <1>3, <1>4, MovesResolving, ScriptsDiffer DEF Asking
<1>7. UNCHANGED engine /\ \E s \in Life!Verdicts : recon' = [recon EXCEPT ![t] = s]
  BY <1>2 DEF Rematch, Decided, Verdicts, Life!Verdicts
<1>8. t \in Writing /\ Writing' \in {Writing, Writing \ {t}}
  BY <1>5, <1>7 DEF Writing
<1> QED BY <1>6, <1>7, <1>8 DEF Life!Write, Writing

\* An exhausted transaction is admitted by the answer, if resolutions are then
\* applied; any other answer gives up what was asked.
LEMMA AnswerContract ==
  ASSUME Inv, Answer(RetryWorker)
  PROVE  Life!Next
<1>1. RetryWorker \in Procs
  BY DEF Procs
<1>2. PICK old \in Local, t \in Tx : old = proc[RetryWorker] /\ t = old.tx
  BY <1>1, AtKnown DEF Answer, Inv
<1>3. PICK s : s = Answered(recon[t], old.attempt, old.max)
  OBVIOUS
<1>4. /\ s \in Scripts /\ s \notin Asking
      /\ s \in Admitted => recon[t] = "MISMATCHED"
  BY <1>3, AnsweredKnown, AdmittedScripts, ScriptsDiffer DEF Scripts
<1>5. PICK l \in Local : l = With(old, s) /\ l.script = s /\ l.tx = t
  BY <1>2, <1>4, WithLocal
<1>6. Moves(RetryWorker, l)
  <2>1. proc' = [proc EXCEPT ![RetryWorker] = [old EXCEPT !.script = s]]
    BY <1>1, <1>2, <1>3 DEF Answer, Inv, ProcsTyped
  <2> QED BY <1>2, <1>4, <1>5, <2>1, WithLocal DEF Moves
<1>7. UNCHANGED <<recon, engine>> /\ l.script # AskingOn
  BY <1>4, <1>5 DEF Answer, tables, Asking
<1>8. CASE s \notin Admitted
  <2>1. Life!GiveUp
    BY <1>1, <1>5, <1>6, <1>7, <1>8, MovesGiveUp DEF Writing
  <2> QED BY <2>1 DEF Life!Next
<1>9. CASE s \in Admitted
  <2>1. proc[RetryWorker].script = Awaiting
    BY <1>1, AtKnown, HeadKnown DEF Answer, Inv
  <2>2. proc[RetryWorker].script \notin Admitted /\ proc[RetryWorker].script # AskingOn
    BY <2>1, AdmittedScripts, ScriptsDiffer DEF Asking
  <2>3. Resolving' = Resolving \cup {t}
    BY <1>1, <1>5, <1>6, <1>9, <2>2, MovesResolving
  <2>4. Asked' = Asked
    BY <1>1, <1>6, <1>7, <2>2, MovesAsked
  <2> QED BY <1>4, <1>7, <1>9, <2>3, <2>4 DEF Life!Admit, Life!Next
<1> QED BY <1>8, <1>9

\* What changes no status and admits nothing.
LEMMA RequestContract ==
  ASSUME ResolutionAssumption, Inv, NEW p \in Ops, NEW t \in Tx, Request(p, t)
  PROVE  Life!GiveUp
<1>1. PICK l \in Local : Moves(p, l) /\ l.script \in {Manually, Enqueuing}
  BY RequestMoves
<1>2. l.script \notin Admitted /\ l.script # AskingOn
  BY <1>1, AdmittedScripts, ScriptsDiffer DEF Asking
<1>3. p \in Procs /\ UNCHANGED <<recon, engine>>
  BY RequestMoves DEF Procs, tables
<1> QED BY <1>1, <1>2, <1>3, MovesGiveUp DEF Writing

LEMMA TakeUpContract ==
  ASSUME Inv, TakeUp
  PROVE  Life!GiveUp
<1>1. PICK l \in Local : Moves(RetryWorker, l) /\ l.script = Retrying
  BY TakeUpMoves
<1>2. l.script \notin Admitted /\ l.script # AskingOn
  BY <1>1, AdmittedScripts, ScriptsDiffer DEF Asking
<1>3. RetryWorker \in Procs /\ UNCHANGED <<recon, engine>>
  BY DEF TakeUp, Procs, tables
<1> QED BY <1>1, <1>2, <1>3, MovesGiveUp DEF Writing

\* An attempt that fails or is not waited for may go on as the engine's own.
LEMMA CallFailsContract ==
  ASSUME Inv, NEW p \in Procs, CallFails(p)
  PROVE  Life!GiveUp
<1>1. UNCHANGED recon /\ proc[p].script # <<>>
  BY DEF CallFails, tables
<1>2. PICK old \in Local : old = proc[p] /\ old.tx \in Tx
  BY <1>1 DEF Inv, ProcsTyped
<1>3. PICK l \in Local : l = With(old, Counting) /\ l.script = Counting /\ l.tx = old.tx
  BY WithLocal DEF Scripts
<1>4. Counting \in Scripts /\ Counting \notin Asking /\ Counting # <<>>
  BY ScriptsDiffer DEF Scripts
<1>5. proc' = [proc EXCEPT ![p] = [old EXCEPT !.script = Counting]]
  BY <1>2 DEF CallFails, Inv, ProcsTyped
<1>6. Moves(p, l)
  BY <1>2, <1>3, <1>4, <1>5, WithLocal DEF Moves
<1>7. engine' \subseteq Writing
  <2>1. CASE UNCHANGED engine
    BY <2>1 DEF Writing
  <2>2. CASE Head(proc[p].script) = "match" /\ engine' = engine \cup {proc[p].tx}
    <3>1. proc[p].script = AskingOn
      BY <1>1, <1>2, <2>2, HeadKnown DEF Local
    <3>2. p = RetryWorker
      BY <3>1 DEF Inv, ProcsTyped, Asking
    <3>3. proc[p].tx \in Asked
      BY <1>2, <3>1, <3>2, AskedKnown DEF AskedTx, Inv
    <3> QED BY <2>2, <3>3 DEF Writing
  <2> QED BY <2>1, <2>2 DEF CallFails
<1>8. l.script # AskingOn /\ l.script \notin Admitted
  BY <1>3, <1>4, AdmittedScripts DEF Asking
<1> QED BY <1>1, <1>6, <1>7, <1>8, MovesGiveUp

\* A handler or the worker that gives up does not change a status.
LEMMA FaultContract ==
  ASSUME Inv, NEW p \in Procs, Fault(p)
  PROVE  Life!GiveUp
<1>1. UNCHANGED <<recon, engine>> /\ proc[p].script # <<>>
  BY DEF Fault, tables
<1>2. PICK old \in Local : old = proc[p] /\ old.tx \in Tx
  BY <1>1 DEF Inv, ProcsTyped
<1>3. CASE Head(proc[p].script) = "mark" /\ Passed(p)
  <2>1. proc[p].script = Marking
    BY <1>1, <1>2, <1>3, HeadKnown DEF Local
  <2>2. Moves(p, Resting)
    BY <1>3, <2>1, Rests, PassesLast
  <2>3. Resting.script # AskingOn /\ Resting.script \notin Admitted
    BY RestingLocal, ScriptsDiffer
  <2> QED BY <1>1, <2>2, <2>3, MovesGiveUp DEF Writing
<1>4. CASE Returned(p)
  BY <1>1, <1>4, ReturnContract
<1> QED BY <1>3, <1>4 DEF Fault

LEMMA CrashContract ==
  ASSUME Inv, Crash
  PROVE  Life!GiveUp
<1>1. ProcsTyped'
  BY CrashInv DEF Inv
<1>2. \A p \in Procs : proc'[p] = Resting /\ RetryWorker \in Procs
  BY DEF Crash, Procs
<1>3. Asked' = {}
  BY <1>1, <1>2, KnownAfter, RestingLocal, ScriptsDiffer DEF AskedTx, Procs
<1>4. Resolving' = {}
  BY <1>1, <1>2, KnownAfter, RestingLocal, ScriptsDiffer DEF AdmittedTx
<1> QED BY <1>3, <1>4 DEF Crash, tables, Life!GiveUp

\* The engine's own steps are the contract's; no process moves.
LEMMA EngineContract ==
  ASSUME Inv, NEW t \in Tx, EngineStep(t) \/ OthersReTrigger(t)
  PROVE  Life!Next
<1>1. Asked' = Asked /\ Resolving' = Resolving
  BY DEF EngineStep, EngineTakesUp, EngineWrites, EngineEnds, OthersReTrigger, Asked, Resolving, At
<1>2. CASE EngineTakesUp(t)
  BY <1>1, <1>2 DEF EngineTakesUp, tables, Life!TakeUp, Life!Next
<1>3. CASE EngineEnds(t)
  BY <1>1, <1>3 DEF EngineEnds, tables, Life!GiveUp, Life!Next
<1>4. CASE OthersReTrigger(t)
  BY <1>1, <1>4 DEF OthersReTrigger, Life!ReTrigger, Life!Next
<1>5. CASE EngineWrites(t)
  <2>1. t \in Writing /\ Writing' \in {Writing, Writing \ {t}}
    BY <1>1, <1>5 DEF EngineWrites, Writing
  <2>2. \E s \in Life!Verdicts : recon' = [recon EXCEPT ![t] = s]
    BY <1>5 DEF EngineWrites, Decided, Verdicts, Life!Verdicts
  <2> QED BY <1>1, <2>1, <2>2 DEF Life!Write, Life!Next, Writing
<1> QED BY <1>2, <1>3, <1>4, <1>5 DEF EngineStep

LEMMA ContractStep ==
  ASSUME ResolutionAssumption, Inv, [Next]_vars
  PROVE  [Life!Next]_Lifecycle
<1>1. ASSUME UNCHANGED <<recon, engine, proc>>
      PROVE  UNCHANGED Lifecycle
  BY <1>1 DEF Lifecycle, Writing, Asked, Resolving, At
<1>2. CASE UNCHANGED vars \/ Poll \/ Tick
  BY <1>1, <1>2 DEF vars, tables, Poll, Tick
<1>3. CASE TakeUp \/ Reset(RetryWorker) \/ Rematch(RetryWorker) \/ Answer(RetryWorker)
  BY <1>3, TakeUpContract, ResetReTriggers, RematchWrites, AnswerContract DEF Life!Next
<1>4. CASE \E p \in Procs : Statement(p)
  BY <1>4, StatementContract
<1>5. CASE \E p \in Ops, t \in Tx : Request(p, t)
  BY <1>5, RequestContract DEF Life!Next
<1>6. CASE \E t \in Tx : EngineStep(t) \/ OthersReTrigger(t)
  BY <1>6, EngineContract
<1>7. CASE Crash \/ CallFails(RetryWorker) \/ \E p \in Procs : Fault(p)
  BY <1>7, CrashContract, CallFailsContract, FaultContract DEF Life!Next, Procs
<1> QED BY <1>2, <1>3, <1>4, <1>5, <1>6, <1>7 DEF Next, WorkerStep, Procs

\* The resolution service implements the contract of Reconciliation: what TLC
\* checks as KeepsContract on a small instance.
THEOREM ResolutionKeepsContract == Spec => KeepsContract
<1>1. Inv /\ [Next]_vars => [Life!Next]_Life!lifecycle
  BY ContractStep, ResolutionAssumption DEF Lifecycle, Writing, Life!lifecycle
<1>2. Init => Life!Init
  BY ContractInit
<1> QED BY <1>1, <1>2, ResolutionInvariant, PTL DEF Spec, KeepsContract, Life!Spec
-----------------------------------------------------------------------------
(* The budget                                                              *)

Entry == [status : {"none", "PENDING", "EXHAUSTED", "RESOLVED"}, count : Nat,
          max : {0} \cup Ceilings, wait : 0..Cap]

\* From the call to the engine until it is accounted for, the worker holds the
\* queue row of its transaction.
Stations == Asking \cup {Counting, Exhausting}

Holds(t) == proc[RetryWorker].script \in Stations /\ proc[RetryWorker].tx = t

Asks(t) == proc[RetryWorker].script \in Asking /\ proc[RetryWorker].tx = t

Listed(t) == \E e \in polled : e.tx = t

\* The attempts on t that are answered and not yet counted; that are the last.
Owed(t) ==
  IF proc[RetryWorker].script \in {Counting, Exhausting} /\ proc[RetryWorker].tx = t THEN 1 ELSE 0

Spent(t) ==
  IF proc[RetryWorker].script = Exhausting /\ proc[RetryWorker].tx = t THEN 1 ELSE 0

\* The worker may still ask about t.
Open(t) == queue[t].status = "PENDING" \/ Holds(t) \/ Listed(t)

Below(n) == \E max \in Ceilings : n < max

\* BudgetHolds is not inductive: an answer is paid for by the count of the row
\* or by a failure, and while the worker may still ask, a ceiling leaves room
\* for another.  That needs to know what the worker's snapshot and its own
\* numbering of the attempts have to do with the row.
Account(t) ==
  /\ queue[t] \in Entry
  /\ queue[t].status # "none" => queue[t].max \in Ceilings
  /\ \A e \in polled : e.tx = t =>
       e.count = queue[t].count /\ ~Holds(t) /\ \A f \in polled : f.tx = t => f = e
  /\ Holds(t) \/ Listed(t) => queue[t].status \in {"PENDING", "RESOLVED"}
  /\ Asks(t) => proc[RetryWorker].attempt = queue[t].count + 1
  /\ queue[t].status = "none" => tries[t] = 0
  /\ queue[t].status # "none" => Below(tries[t] - faults - 1)
  /\ Open(t) => /\ tries[t] =< queue[t].count + faults + Owed(t)
                /\ Below(tries[t] - faults - Spent(t))

\* What a process carries: a ceiling, and the number of an attempt; and only
\* the worker holds a row.
Slip(p, l) ==
  /\ l.max \in {0} \cup Ceilings /\ l.attempt \in Nat
  /\ l.script \in Asking \cup {Enqueuing, <<"enqueue">>} => l.max \in Ceilings
  /\ l.script \in Asking \cup {Counting} => l.attempt > 0
  /\ l.script \in Stations => p = RetryWorker

Slips == \A p \in Procs : Slip(p, proc[p])

Counters ==
  /\ polled \subseteq [tx : Tx, count : Nat, max : Ceilings]
  /\ working \in BOOLEAN
  /\ calls \in Nat /\ faults \in Nat
  /\ tries \in [Tx -> Nat]

Tallied == Slips /\ Counters /\ \A t \in Tx : Account(t)

\* A power of two is a natural number: so many subsets has a set of n.
LEMMA PowerNat ==
  ASSUME NEW n \in Nat
  PROVE  2^n \in Nat
<1>1. IsFiniteSet(1..n) /\ Cardinality(1..n) = n
  BY FS_Interval
<1>2. IsFiniteSet(SUBSET (1..n)) /\ Cardinality(SUBSET (1..n)) = 2^n
  BY <1>1, FS_SUBSET
<1> QED BY <1>2, FS_CardinalityType

\* No wait is longer than the cap.
LEMMA NextRetryCapped ==
  ASSUME ResolutionAssumption, NEW n \in Nat \ {0}
  PROVE  NextRetry(n) \in 0..Cap
<1>1. PICK k \in Nat : k = 2^(n - 1)
  BY PowerNat
<1>2. Base * k \in Nat
  BY DEF ResolutionAssumption
<1>3. NextRetry(n) = IF Base * k > Cap THEN Cap ELSE Base * k
  BY <1>1 DEF NextRetry
<1> QED BY <1>2, <1>3 DEF ResolutionAssumption

\* Where a statement takes its process.
LEMMA StatementProc ==
  ASSUME Inv, NEW p \in Procs, Statement(p)
  PROVE  /\ \A q \in Procs \ {p} : proc'[q] = proc[q]
         /\ \/ proc'[p] = Resting
            \/ \E s \in {Deciding, Updating, Marking, <<"enqueue">>} :
                 /\ proc'[p] = With(proc[p], s)
                 /\ s = <<"enqueue">> => proc[p].script = Enqueuing
<1>1. proc \in [Procs -> Local] /\ ProcsTyped
  BY DEF Inv, ProcsTyped
<1>2. PICK h \in {"check", "checkOpen", "insert", "update", "mark", "exhaust", "count", "enqueue"} :
        At(p, h) /\ (Passed(p) \/ Returned(p))
  BY DEF Statement, Check, CheckOpen, ChooseNone, Insert, Update, Mark, Exhaust, Count, Enqueue
<1>3. CASE Returned(p)
  BY <1>1, <1>3 DEF Returned
<1>4. CASE Passed(p)
  <2>1. PICK old \in Local : old = proc[p]
    BY <1>1
  <2>2. old.script \in {Manually, Enqueuing, Deciding, Updating, Marking, Exhausting, Counting,
                        <<"enqueue">>}
    BY <1>1, <1>2, <2>1, AtKnown, HeadKnown
  <2>3. \/ Len(old.script) = 1
        \/ /\ Len(old.script) # 1
           /\ Tail(old.script) \in {Deciding, Updating, Marking, <<"enqueue">>}
           /\ Tail(old.script) = <<"enqueue">> => old.script = Enqueuing
    <3>1. <<"enqueue">> \notin {Deciding, Updating, Marking}
      BY DEF Deciding, Updating, Marking
    <3> QED BY <2>2, <3>1, Rests
  <2>4. proc' = [proc EXCEPT ![p] = IF Len(old.script) = 1 THEN Resting
                                    ELSE [old EXCEPT !.script = Tail(old.script)]]
    BY <1>4, <2>1 DEF Passed
  <2>5. CASE Len(old.script) = 1
    BY <1>1, <2>4, <2>5
  <2>6. CASE Len(old.script) # 1
    <3>1. PICK s \in Scripts : s = Tail(old.script)
      BY <2>3, <2>6 DEF Scripts
    <3>2. proc' = [proc EXCEPT ![p] = With(old, s)]
      BY <2>4, <2>6, <3>1, WithLocal
    <3> QED BY <1>1, <2>1, <2>3, <2>6, <3>1, <3>2
  <2> QED BY <2>5, <2>6
<1> QED BY <1>2, <1>3, <1>4

\* A step that does not deal with the row of t: it may only close it, and what
\* the worker owes it is written off against a failure.
Undealt(t) ==
  /\ queue'[t] \in Entry /\ queue'[t].count = queue[t].count
  /\ queue'[t].max = queue[t].max \/ queue'[t].max \in Ceilings
  /\ queue'[t].status = queue[t].status
       \/ (queue[t].status # "none" /\ queue'[t].status = "RESOLVED")
  /\ tries'[t] = tries[t] /\ faults' \in Nat /\ faults =< faults'
  /\ \A e \in polled' : e.tx = t => e \in polled

\* What the worker does with the row of t meanwhile.
Kept(t) ==
  /\ Holds(t)' => Holds(t)
  /\ Asks(t)' => Asks(t) /\ proc'[RetryWorker].attempt = proc[RetryWorker].attempt
  /\ Owed(t) + faults =< Owed(t)' + faults'
  /\ Spent(t) + faults =< Spent(t)' + faults'

LEMMA BelowLess ==
  ASSUME ResolutionAssumption, NEW n \in Int, NEW m \in Int, Below(n), m =< n
  PROVE  Below(m)
<1>1. PICK max \in Ceilings : n < max
  BY DEF Below
<1>2. max \in Nat
  BY DEF ResolutionAssumption
<1> QED BY <1>1, <1>2 DEF Below

LEMMA OwedNat ==
  ASSUME NEW t
  PROVE  Owed(t) \in 0..1 /\ Spent(t) \in 0..1
  BY DEF Owed, Spent

LEMMA UndealtKeeps ==
  ASSUME ResolutionAssumption, Counters, NEW t \in Tx, Account(t), Undealt(t), Kept(t)
  PROVE  Account(t)'
<1>1. /\ Owed(t) \in Int /\ Spent(t) \in Int /\ Owed(t)' \in Int /\ Spent(t)' \in Int
      /\ tries[t] \in Int /\ faults \in Int /\ faults' \in Int /\ queue[t].count \in Int
      /\ tries'[t] = tries[t] /\ faults =< faults' /\ queue'[t].count = queue[t].count
  BY OwedNat DEF Counters, Account, Entry, Undealt, Owed, Spent
<1>2. Listed(t)' => Listed(t)
  BY DEF Listed, Undealt
<1>3. /\ queue'[t].status # "none" <=> queue[t].status # "none"
      /\ queue'[t].status # "none" => queue'[t].max \in Ceilings
  BY DEF Undealt, Account
<1>4. \A e \in polled' : e.tx = t =>
        e.count = queue'[t].count /\ ~Holds(t)' /\ \A f \in polled' : f.tx = t => f = e
  BY DEF Undealt, Kept, Account
<1>5. Holds(t)' \/ Listed(t)' => queue'[t].status \in {"PENDING", "RESOLVED"}
  BY <1>2 DEF Undealt, Kept, Account
<1>6. Asks(t)' => proc'[RetryWorker].attempt = queue'[t].count + 1
  BY <1>1 DEF Kept, Account
<1>7. queue'[t].status = "none" => tries'[t] = 0
  BY <1>1, <1>3 DEF Account
<1>8. queue'[t].status # "none" => Below(tries'[t] - faults' - 1)
  BY <1>1, <1>3, BelowLess DEF Account
<1>9. Open(t)' => Open(t)
  BY <1>2 DEF Open, Undealt, Kept
<1>10. Open(t)' => /\ tries'[t] =< queue'[t].count + faults' + Owed(t)'
                   /\ Below(tries'[t] - faults' - Spent(t)')
  <2> SUFFICES ASSUME Open(t)' PROVE /\ tries'[t] =< queue'[t].count + faults' + Owed(t)'
                                     /\ Below(tries'[t] - faults' - Spent(t)')
    OBVIOUS
  <2>1. /\ tries[t] =< queue[t].count + faults + Owed(t)
        /\ Below(tries[t] - faults - Spent(t))
    BY <1>9 DEF Account
  <2>2. Owed(t) + faults =< Owed(t)' + faults' /\ Spent(t) + faults =< Spent(t)' + faults'
    BY DEF Kept
  <2>3. tries'[t] =< queue'[t].count + faults' + Owed(t)'
    BY <1>1, <2>1, <2>2
  <2>4. tries'[t] - faults' - Spent(t)' =< tries[t] - faults - Spent(t)
    BY <1>1, <2>2
  <2> QED BY <1>1, <2>1, <2>3, <2>4, BelowLess
<1> QED BY <1>3, <1>4, <1>5, <1>6, <1>7, <1>8, <1>10 DEF Account, Undealt

\* The worker goes on with something else, or not at all.
LEMMA WorkerStill ==
  ASSUME proc'[RetryWorker] = proc[RetryWorker], faults \in Nat, faults' \in Nat,
         faults =< faults', NEW t
  PROVE  Kept(t)
<1>1. Owed(t) \in 0..1 /\ Spent(t) \in 0..1
  BY OwedNat
<1>2. Owed(t)' = Owed(t) /\ Spent(t)' = Spent(t)
  BY DEF Owed, Spent
<1>3. Owed(t) + faults =< Owed(t) + faults' /\ Spent(t) + faults =< Spent(t) + faults'
  BY <1>1
<1> QED BY <1>2, <1>3 DEF Kept, Holds, Asks

\* It rests, or is at a statement at which it holds no row.
LEMMA WorkerLets ==
  ASSUME proc'[RetryWorker].script \notin Stations, faults \in Nat, faults' \in Nat,
         faults =< faults', NEW t,
         proc[RetryWorker].script \notin {Counting, Exhausting}
           \/ proc[RetryWorker].tx # t \/ faults < faults'
  PROVE  Kept(t)
<1>1. Owed(t) \in 0..1 /\ Spent(t) \in 0..1 /\ Owed(t)' = 0 /\ Spent(t)' = 0
  BY OwedNat DEF Owed, Spent, Stations
<1>2. ~Holds(t)' /\ ~Asks(t)'
  BY DEF Holds, Asks, Stations
<1>3. Owed(t) + faults =< faults' /\ Spent(t) + faults =< faults'
  <2>1. CASE faults < faults'
    BY <1>1, <2>1
  <2>2. CASE ~(faults < faults')
    <3>1. Owed(t) = 0 /\ Spent(t) = 0
      BY <2>2 DEF Owed, Spent
    <3> QED BY <3>1
  <2> QED BY <2>1, <2>2
<1> QED BY <1>1, <1>2, <1>3 DEF Kept

\* No other script is one of the worker's own.
LEMMA StationsDiffer ==
  /\ {<<>>, Manually, Deciding, Updating, Marking, Enqueuing, <<"enqueue">>} \cap Stations = {}
  /\ Counting # Exhausting /\ {Counting, Exhausting} \cap Asking = {}
  /\ Resting.script = <<>> /\ Resting.script \notin Stations
  /\ Marking # Enqueuing /\ Marking # <<"enqueue">>
  BY DEF Stations, Asking, Manually, Deciding, Updating, Marking, Enqueuing, Counting,
     Exhausting, Retrying, AskingOn, Awaiting, Resting

LEMMA RestingSlip ==
  ASSUME NEW p
  PROVE  Slip(p, Resting)
<1>1. /\ Resting.max = 0 /\ Resting.attempt = 0 /\ Resting.script = <<>>
      /\ <<>> \notin Stations /\ <<>> # Enqueuing /\ <<>> # <<"enqueue">>
  BY StationsDiffer, ScriptsDiffer DEF Resting
<1> QED BY <1>1 DEF Slip, Stations

LEMMA SlipsMove ==
  ASSUME Slips, NEW p \in Procs, \A q \in Procs \ {p} : proc'[q] = proc[q], Slip(p, proc'[p])
  PROVE  Slips'
<1> SUFFICES ASSUME NEW q \in Procs PROVE Slip(q, proc'[q])
  BY DEF Slips, Slip
<1> QED BY DEF Slips

LEMMA TalliedInit == ResolutionAssumption /\ Init => Tallied
<1> SUFFICES ASSUME ResolutionAssumption, Init PROVE Tallied
  OBVIOUS
<1>1. Slips
  BY RestingSlip DEF Init, Slips
<1>2. Counters
  BY DEF Init, Counters
<1>3. ASSUME NEW t \in Tx PROVE Account(t)
  <2>1. queue[t] = NoEntry /\ polled = {} /\ tries[t] = 0 /\ proc[RetryWorker] = Resting
    BY DEF Init, Procs
  <2>2. ~Holds(t) /\ ~Asks(t) /\ ~Listed(t) /\ ~Open(t)
    BY <2>1, StationsDiffer DEF Holds, Asks, Listed, Open, Stations, NoEntry
  <2>3. NoEntry \in Entry
    BY DEF NoEntry, Entry, ResolutionAssumption
  <2> QED BY <2>1, <2>2, <2>3 DEF Account, NoEntry
<1> QED BY <1>1, <1>2, <1>3 DEF Tallied

\* A statement leaves its process with the rest of a script, or at rest.
LEMMA StatementSlips ==
  ASSUME Inv, Slips, NEW p \in Procs, Statement(p)
  PROVE  Slips' /\ proc'[p].script \notin Stations
<1>1. CASE proc'[p] = Resting
  BY <1>1, StatementProc, StationsDiffer, RestingSlip, SlipsMove
<1>2. CASE proc'[p] # Resting
  <2>1. PICK s \in {Deciding, Updating, Marking, <<"enqueue">>} :
          /\ proc'[p] = With(proc[p], s)
          /\ s = <<"enqueue">> => proc[p].script = Enqueuing
    BY <1>2, StatementProc
  <2>2. /\ proc'[p].script = s /\ proc'[p].max = proc[p].max
        /\ proc'[p].attempt = proc[p].attempt
    BY <2>1 DEF With
  <2>3. s \notin Stations /\ (s = Enqueuing => s = <<"enqueue">>)
    BY StationsDiffer DEF Deciding, Updating, Marking, Enqueuing
  <2>4. Slip(p, proc[p])
    BY DEF Slips
  <2>5. Slip(p, proc'[p])
    BY <2>1, <2>2, <2>3, <2>4 DEF Slip, Stations
  <2> QED BY <2>2, <2>3, <2>5, StatementProc, SlipsMove
<1> QED BY <1>1, <1>2

\* Who runs another statement than the count or the exhaustion held no row.
LEMMA StatementKept ==
  ASSUME Inv, Tallied, NEW p \in Procs, Statement(p), faults' = faults, NEW t,
         \/ proc[p].script \notin {Counting, Exhausting}
         \/ proc[p].tx # t
  PROVE  Kept(t)
<1>0. faults \in Nat /\ faults' \in Nat /\ faults =< faults'
  BY DEF Tallied, Counters
<1>1. CASE p = RetryWorker
  <2>1. proc'[RetryWorker].script \notin Stations
    BY <1>1, StatementSlips DEF Tallied
  <2> QED BY <1>0, <1>1, <2>1, WorkerLets
<1>2. CASE p # RetryWorker
  <2>1. proc'[RetryWorker] = proc[RetryWorker]
    BY <1>2, StatementProc DEF Procs
  <2> QED BY <1>0, <2>1, WorkerStill
<1> QED BY <1>1, <1>2

\* What a step leaves of the row, the snapshot and the tally of t.
LEMMA LeftAlone ==
  ASSUME Tallied, NEW t \in Tx, queue'[t] = queue[t], tries'[t] = tries[t],
         polled' \subseteq polled, faults' \in Nat, faults =< faults'
  PROVE  Undealt(t)
  BY DEF Tallied, Account, Undealt

LEMMA QuietTallied ==
  ASSUME Inv, Tallied, NEW p \in Procs,
         Check(p) \/ CheckOpen(p) \/ ChooseNone(p) \/ Insert(p) \/ Update(p)
  PROVE  \A t \in Tx : Account(t)'
<1> SUFFICES ASSUME NEW t \in Tx PROVE Account(t)'
  OBVIOUS
<1>1. /\ queue' = queue /\ polled' = polled /\ tries' = tries /\ faults' = faults
      /\ Statement(p)
  BY DEF Check, CheckOpen, ChooseNone, Insert, Update, Statement, tables
<1>2. proc[p].script \notin {Counting, Exhausting}
  <2>1. PICK h \in {"check", "checkOpen", "insert", "update"} : At(p, h)
    BY DEF Check, CheckOpen, ChooseNone, Insert, Update
  <2>2. Head(Counting) = "count" /\ Head(Exhausting) = "exhaust"
    BY DEF Counting, Exhausting
  <2> QED BY <2>1, <2>2 DEF At
<1>3. Undealt(t)
  BY <1>1, LeftAlone DEF Tallied, Counters
<1>4. Kept(t)
  BY <1>1, <1>2, StatementKept
<1> QED BY <1>3, <1>4, UndealtKeeps, ResolutionAssumption DEF Tallied

LEMMA RequeuedIs ==
  ASSUME TablesTyped, NEW t \in Tx, NEW row
  PROVE  /\ Requeued(t, row)[t] = IF queue[t].status = "none" THEN queue[t] ELSE row
         /\ \A u \in Tx \ {t} : Requeued(t, row)[u] = queue[u]
  BY DEF Requeued, TablesTyped

LEMMA MarkTallied ==
  ASSUME Inv, Tallied, NEW p \in Procs, Mark(p)
  PROVE  \A t \in Tx : Account(t)'
<1> SUFFICES ASSUME NEW t \in Tx PROVE Account(t)'
  OBVIOUS
<1>1. PICK u \in Tx : u = proc[p].tx
  BY AtKnown DEF Mark, Inv
<1>2. proc[p].script = Marking /\ Statement(p)
  BY AtKnown, HeadKnown DEF Mark, Inv, Statement
<1>3. polled' = polled /\ tries' = tries /\ faults' = faults /\ faults \in Nat
  BY DEF Mark, Tallied, Counters
<1>4. PICK old \in Entry : old = queue[u]
  BY DEF Tallied, Account
<1> DEFINE row == [old EXCEPT !.status = "RESOLVED"]
<1>5. row \in Entry /\ row.status = "RESOLVED" /\ row.count = old.count /\ row.max = old.max
  BY DEF Entry
<1>6. queue' = Requeued(u, row)
  BY <1>1, <1>4 DEF Mark
<1> HIDE DEF row
<1>7. /\ queue'[u] = IF old.status = "none" THEN old ELSE row
      /\ \A v \in Tx \ {u} : queue'[v] = queue[v]
  BY <1>4, <1>6, RequeuedIs DEF Inv
<1>8. Undealt(t)
  <2>1. CASE t = u
    BY <1>3, <1>4, <1>5, <1>7, <2>1 DEF Undealt
  <2>2. CASE t # u
    BY <1>3, <1>7, <2>2, LeftAlone
  <2> QED BY <2>1, <2>2
<1>9. Kept(t)
  BY <1>2, <1>3, StationsDiffer, StatementKept DEF Stations
<1> QED BY <1>8, <1>9, UndealtKeeps, ResolutionAssumption DEF Tallied

\* Who counts or exhausts is the worker, and then it lets go of the row.
LEMMA WorkerHolds ==
  ASSUME Inv, Tallied, NEW p \in Procs, NEW t \in Tx, t = proc[p].tx,
         proc[p].script \in {Counting, Exhausting}, Statement(p), polled' = polled
  PROVE  /\ p = RetryWorker /\ Holds(t) /\ ~Asks(t) /\ Owed(t) = 1
         /\ \A e \in polled : e.tx # t
         /\ \A u \in Tx : ~Holds(u)' /\ ~Asks(u)' /\ Owed(u)' = 0 /\ Spent(u)' = 0
<1>1. p = RetryWorker
  BY DEF Tallied, Slips, Slip, Stations
<1>2. Holds(t) /\ ~Asks(t) /\ Owed(t) = 1
  BY <1>1, StationsDiffer DEF Holds, Asks, Owed, Stations
<1>3. proc'[RetryWorker].script \notin Stations
  BY <1>1, StatementSlips DEF Tallied
<1>4. \A u \in Tx : ~Holds(u)' /\ ~Asks(u)' /\ Owed(u)' = 0 /\ Spent(u)' = 0
  BY <1>3 DEF Holds, Asks, Owed, Spent, Stations
<1>5. \A e \in polled : e.tx # t
  BY <1>2 DEF Tallied, Account
<1> QED BY <1>1, <1>2, <1>4, <1>5

LEMMA CountTallied ==
  ASSUME Inv, Tallied, NEW p \in Procs, Count(p)
  PROVE  \A t \in Tx : Account(t)'
<1>1. PICK t \in Tx, n \in Int : t = proc[p].tx /\ n = proc[p].attempt
  BY AtKnown DEF Count, Inv, Local
<1>2. proc[p].script = Counting /\ Statement(p)
  BY AtKnown, HeadKnown DEF Count, Inv, Statement
<1>3. /\ polled' = polled /\ tries' = tries /\ faults' = faults /\ faults \in Nat
      /\ tries[t] \in Nat
  BY DEF Count, Tallied, Counters
<1>4. PICK old \in Entry : old = queue[t]
  BY DEF Tallied, Account
<1>5. n \in Nat \ {0}
  BY <1>1, <1>2 DEF Tallied, Slips, Slip
<1> DEFINE counted == Counted(old.count)  wait == NextRetry(n)
           row == [old EXCEPT !.count = counted, !.wait = wait]
<1>6. counted \in Nat /\ wait \in 0..Cap
  BY <1>5, NextRetryCapped, ResolutionAssumption DEF Entry, Counted
<1>7. queue' = Requeued(t, [old EXCEPT !.count = counted, !.wait = wait])
  BY <1>1, <1>4 DEF Count
<1> HIDE DEF counted, wait
<1>8. row \in Entry /\ row.status = old.status /\ row.count = counted /\ row.max = old.max
  BY <1>6 DEF Entry
<1> HIDE DEF row
<1>9. /\ p = RetryWorker /\ Holds(t) /\ ~Asks(t) /\ Owed(t) = 1
      /\ \A e \in polled : e.tx # t
      /\ \A u \in Tx : ~Holds(u)' /\ ~Asks(u)' /\ Owed(u)' = 0 /\ Spent(u)' = 0
  BY <1>1, <1>2, <1>3, WorkerHolds
<1>10. Account(t) /\ old.status # "none"
  BY <1>4, <1>9 DEF Tallied, Account
<1>11. queue'[t] = row /\ \A u \in Tx \ {t} : queue'[u] = queue[u]
  BY <1>4, <1>7, <1>10, RequeuedIs DEF Inv, row
<1>12. Account(t)'
  <2>1. Spent(t) = 0
    BY <1>2, <1>9, StationsDiffer DEF Spent
  <2>2. tries[t] =< old.count + faults + 1 /\ Below(tries[t] - faults - 0)
    BY <1>4, <1>9, <1>10, <2>1 DEF Account, Open
  <2>3. tries[t] =< counted + faults + 0
    <3>1. CASE old.count < MaxCount
      <4>1. counted = old.count + 1
        BY <3>1 DEF counted, Counted
      <4> QED BY <1>3, <2>2, <4>1 DEF Entry
    <3>2. CASE ~(old.count < MaxCount)
      <4>1. counted = old.count /\ old.count \in Nat /\ MaxCount \in Nat
        BY <3>2, ResolutionAssumption DEF counted, Counted, Entry, ResolutionAssumption
      <4>2. PICK max \in Ceilings : tries[t] - faults - 0 < max
        BY <2>2 DEF Below
      <4>3. max \in Nat /\ max =< MaxCount
        BY ResolutionAssumption DEF ResolutionAssumption
      <4> QED BY <1>3, <3>2, <4>1, <4>2, <4>3
    <3> QED BY <3>1, <3>2
  <2>4. Below(tries[t] - faults - 1)
    BY <1>4, <1>10 DEF Account
  <2>5. old.max \in Ceilings
    BY <1>4, <1>10 DEF Account
  <2>6. ~Listed(t)'
    BY <1>3, <1>9 DEF Listed
  <2> QED BY <1>3, <1>8, <1>9, <1>10, <1>11, <2>2, <2>3, <2>4, <2>5, <2>6 DEF Account
<1>13. ASSUME NEW u \in Tx \ {t} PROVE Account(u)'
  BY <1>1, <1>2, <1>3, <1>11, LeftAlone, StatementKept, UndealtKeeps, ResolutionAssumption
     DEF Tallied
<1> QED BY <1>12, <1>13

LEMMA ExhaustTallied ==
  ASSUME Inv, Tallied, NEW p \in Procs, Exhaust(p)
  PROVE  \A t \in Tx : Account(t)'
<1>1. PICK t \in Tx : t = proc[p].tx
  BY AtKnown DEF Exhaust, Inv
<1>2. proc[p].script = Exhausting /\ Statement(p)
  BY AtKnown, HeadKnown DEF Exhaust, Inv, Statement
<1>3. /\ polled' = polled /\ tries' = tries /\ faults' = faults /\ faults \in Nat
      /\ tries[t] \in Nat
  BY DEF Exhaust, Tallied, Counters
<1>4. PICK old \in Entry : old = queue[t]
  BY DEF Tallied, Account
<1> DEFINE row == [old EXCEPT !.status = "EXHAUSTED"]
<1>5. row \in Entry /\ row.status = "EXHAUSTED" /\ row.max = old.max
  BY DEF Entry
<1>6. queue' = Requeued(t, row)
  BY <1>1, <1>4 DEF Exhaust
<1> HIDE DEF row
<1>7. /\ p = RetryWorker /\ Holds(t) /\ ~Asks(t) /\ Owed(t) = 1
      /\ \A e \in polled : e.tx # t
      /\ \A u \in Tx : ~Holds(u)' /\ ~Asks(u)' /\ Owed(u)' = 0 /\ Spent(u)' = 0
  BY <1>1, <1>2, <1>3, WorkerHolds
<1>8. Account(t) /\ old.status # "none" /\ Open(t)
  BY <1>4, <1>7 DEF Tallied, Account, Open
<1>9. queue'[t] = row /\ \A u \in Tx \ {t} : queue'[u] = queue[u]
  BY <1>4, <1>6, <1>8, RequeuedIs DEF Inv
<1>10. Account(t)'
  <2>1. Spent(t) = 1
    BY <1>1, <1>2, <1>7 DEF Spent
  <2>2. Below(tries[t] - faults - 1) /\ old.max \in Ceilings
    BY <1>4, <1>8, <2>1 DEF Account
  <2>3. ~Listed(t)' /\ ~Open(t)'
    BY <1>3, <1>5, <1>7, <1>9 DEF Listed, Open
  <2> QED BY <1>3, <1>5, <1>7, <1>9, <2>2, <2>3 DEF Account
<1>11. ASSUME NEW u \in Tx \ {t} PROVE Account(u)'
  BY <1>1, <1>2, <1>3, <1>9, LeftAlone, StatementKept, UndealtKeeps, ResolutionAssumption
     DEF Tallied
<1> QED BY <1>10, <1>11

LEMMA EnqueueTallied ==
  ASSUME Inv, Tallied, NEW p \in Procs, Enqueue(p)
  PROVE  \A t \in Tx : Account(t)'
<1>1. PICK t \in Tx : t = proc[p].tx
  BY AtKnown DEF Enqueue, Inv
<1>2. proc[p].script = <<"enqueue">> /\ Statement(p)
  BY AtKnown, HeadKnown DEF Enqueue, Inv, Statement
<1>3. /\ polled' = polled /\ faults' = faults /\ faults \in Nat
      /\ tries \in [Tx -> Nat]
  BY DEF Enqueue, Tallied, Counters
<1>4. PICK old \in Entry, max \in Ceilings : old = queue[t] /\ max = proc[p].max
  BY <1>2 DEF Tallied, Account, Slips, Slip
<1> DEFINE reopened == old.status \in {"none", "EXHAUSTED"}
           row == [status |-> IF reopened THEN "PENDING" ELSE old.status,
                   count |-> IF reopened THEN 0 ELSE old.count, max |-> max, wait |-> 0]
<1>5. row \in Entry
  <2>1. 0 \in 0..Cap
    BY ResolutionAssumption DEF ResolutionAssumption
  <2> QED BY <2>1 DEF Entry
<1>6. queue' = [queue EXCEPT ![t] = row]
  BY <1>1, <1>4 DEF Enqueue
<1>7. tries' = IF reopened THEN [tries EXCEPT ![t] = 0] ELSE tries
  BY <1>1, <1>4 DEF Enqueue
<1>8. row.max = max /\ row.status = (IF reopened THEN "PENDING" ELSE old.status)
      /\ row.count = (IF reopened THEN 0 ELSE old.count)
  OBVIOUS
<1> HIDE DEF row
<1>9. queue'[t] = row /\ \A u \in Tx \ {t} : queue'[u] = queue[u] /\ tries'[u] = tries[u]
  BY <1>3, <1>6, <1>7 DEF Inv, TablesTyped
<1>10. \A u \in Tx : Kept(u)
  BY <1>2, <1>3, StationsDiffer, StatementKept DEF Stations
<1>11. ASSUME reopened PROVE Account(t)'
  <2>1. Account(t) /\ ~Holds(t) /\ ~Listed(t)
    BY <1>4, <1>11 DEF Tallied, Account
  <2>2. ~Holds(t)' /\ ~Asks(t)' /\ ~Listed(t)' /\ Owed(t)' \in 0..1 /\ Spent(t)' \in 0..1
    BY <1>3, <1>10, <2>1 DEF Kept, Holds, Asks, Listed, Stations, Owed, Spent
  <2>3. tries'[t] = 0 /\ row.status = "PENDING" /\ row.count = 0
    BY <1>3, <1>7, <1>8, <1>11
  <2>4. max \in Nat \ {0}
    BY ResolutionAssumption DEF ResolutionAssumption
  <2>5. Below(0 - faults - 1) /\ Below(0 - faults - Spent(t)')
    BY <1>3, <2>2, <2>4 DEF Below
  <2>6. 0 =< 0 + faults + Owed(t)'
    BY <1>3, <2>2
  <2>7. queue'[t] \in Entry /\ queue'[t].max \in Ceilings /\ queue'[t].status = "PENDING"
    BY <1>5, <1>8, <1>9, <2>3
  <2>8. \A e \in polled' : e.tx # t
    BY <2>2 DEF Listed
  <2>9. Below(tries'[t] - faults' - 1) /\ Below(tries'[t] - faults' - Spent(t)')
    BY <1>3, <2>3, <2>5
  <2>10. tries'[t] =< queue'[t].count + faults' + Owed(t)'
    BY <1>3, <1>9, <2>3, <2>6
  <2> QED BY <2>2, <2>7, <2>8, <2>9, <2>10 DEF Account
<1>12. ASSUME ~reopened PROVE Account(t)'
  <2>1. Undealt(t)
    BY <1>3, <1>4, <1>5, <1>7, <1>8, <1>9, <1>12 DEF Undealt
  <2>2. Account(t) /\ Counters /\ Kept(t)
    BY <1>10 DEF Tallied
  <2> QED BY <2>1, <2>2, UndealtKeeps, ResolutionAssumption
<1>13. Account(t)'
  BY <1>11, <1>12
<1>14. ASSUME NEW u \in Tx \ {t} PROVE Account(u)'
  BY <1>3, <1>9, <1>10, LeftAlone, UndealtKeeps, ResolutionAssumption DEF Tallied
<1> QED BY <1>13, <1>14

LEMMA StatementTallied ==
  ASSUME Inv, Tallied, NEW p \in Procs, Statement(p)
  PROVE  Tallied'
<1>1. Slips'
  BY StatementSlips DEF Tallied
<1>2. Counters'
  <2>1. /\ UNCHANGED <<polled, calls, working, faults>>
        /\ tries' = tries \/ tries' = [tries EXCEPT ![proc[p].tx] = 0]
    BY DEF Statement, Check, CheckOpen, ChooseNone, Insert, Update, Mark, Exhaust, Count, Enqueue
  <2> QED BY <2>1 DEF Tallied, Counters
<1>3. \A t \in Tx : Account(t)'
  BY QuietTallied, MarkTallied, ExhaustTallied, CountTallied, EnqueueTallied DEF Statement
<1> QED BY <1>1, <1>2, <1>3 DEF Tallied

LEMMA PollTallied ==
  ASSUME Inv, Tallied, Poll
  PROVE  Tallied'
<1>1. /\ UNCHANGED <<queue, proc, calls, working, faults, tries>>
      /\ proc[RetryWorker].script = <<>>
      /\ polled' = {[tx |-> t, count |-> queue[t].count, max |-> queue[t].max] :
                       t \in {u \in Tx : Due(u)}}
  BY DEF Poll, tables
<1>2. ASSUME NEW t \in Tx, Due(t) PROVE queue[t].count \in Nat /\ queue[t].max \in Ceilings
  BY <1>2 DEF Due, Tallied, Account, Entry
<1>3. Counters'
  BY <1>1, <1>2 DEF Tallied, Counters
<1>4. ASSUME NEW t \in Tx PROVE Account(t)'
  <2>1. ~Holds(t) /\ ~Asks(t) /\ Owed(t) = 0 /\ Spent(t) = 0
    BY <1>1, StationsDiffer, ScriptsDiffer DEF Holds, Asks, Owed, Spent, Stations
  <2>2. ~Holds(t)' /\ ~Asks(t)' /\ Owed(t)' = 0 /\ Spent(t)' = 0
    BY <1>1, <2>1 DEF Holds, Asks, Owed, Spent
  <2>3. Listed(t)' => queue[t].status = "PENDING"
    BY <1>1 DEF Listed, Due
  <2>4. \A e \in polled' : e.tx = t
                 => e = [tx |-> t, count |-> queue[t].count, max |-> queue[t].max]
    BY <1>1
  <2>5. Account(t) /\ (Open(t)' => Open(t))
    BY <1>1, <2>2, <2>3 DEF Tallied, Open
  <2> QED BY <1>1, <2>1, <2>2, <2>3, <2>4, <2>5 DEF Account
<1> QED BY <1>1, <1>3, <1>4 DEF Tallied, Slips, Slip

LEMMA TakeUpTallied ==
  ASSUME Inv, Tallied, TakeUp
  PROVE  Tallied'
<1>1. /\ UNCHANGED <<queue, calls, working, faults, tries>>
      /\ proc[RetryWorker].script = <<>> /\ RetryWorker \in Procs
  BY DEF TakeUp, tables, Procs
<1>2. PICK e \in polled :
        /\ polled' = polled \ {e}
        /\ proc' = [proc EXCEPT ![RetryWorker] =
                      [script |-> Retrying, tx |-> e.tx, by |-> "AUTO", max |-> e.max,
                       attempt |-> e.count + 1]]
  BY DEF TakeUp
<1>3. PICK t \in Tx, count \in Nat, max \in Ceilings : t = e.tx /\ count = e.count /\ max = e.max
  BY DEF Tallied, Counters
<1>4. /\ \A q \in Procs \ {RetryWorker} : proc'[q] = proc[q]
      /\ proc'[RetryWorker].script = Retrying /\ proc'[RetryWorker].tx = t
      /\ proc'[RetryWorker].max = max /\ proc'[RetryWorker].attempt = count + 1
  BY <1>1, <1>2, <1>3 DEF Inv, ProcsTyped
<1>5. Retrying \in Asking /\ Retrying \in Stations /\ Retrying \notin {Counting, Exhausting}
  BY StationsDiffer DEF Asking, Stations
<1>6. Slips'
  <2>1. Slip(RetryWorker, proc'[RetryWorker])
    BY <1>4, <1>5 DEF Slip
  <2> QED BY <1>1, <1>4, <2>1, SlipsMove DEF Tallied
<1>7. Counters'
  BY <1>1, <1>2 DEF Tallied, Counters
<1>8. \A u \in Tx : ~Holds(u) /\ ~Asks(u) /\ Owed(u) = 0 /\ Spent(u) = 0
  BY <1>1, StationsDiffer, ScriptsDiffer DEF Holds, Asks, Owed, Spent, Stations
<1>9. \A u \in Tx : Owed(u)' = 0 /\ Spent(u)' = 0
  BY <1>4, <1>5 DEF Owed, Spent
<1>10. Account(t)'
  <2>1. Account(t) /\ Listed(t) /\ Open(t)
    BY <1>3 DEF Tallied, Listed, Open
  <2>2. \A f \in polled' : f.tx # t
    BY <1>2, <1>3, <2>1 DEF Account
  <2>3. count = queue[t].count
    BY <1>3, <2>1 DEF Account
  <2>4. Account(t)' <=>
         /\ queue'[t] \in Entry
         /\ queue'[t].status # "none" => queue'[t].max \in Ceilings
         /\ queue'[t].status \in {"PENDING", "RESOLVED"}
         /\ proc'[RetryWorker].attempt = queue'[t].count + 1
         /\ queue'[t].status # "none" => Below(tries'[t] - faults' - 1)
         /\ tries'[t] =< queue'[t].count + faults' + Owed(t)'
         /\ Below(tries'[t] - faults' - Spent(t)')
    BY <1>4, <1>5, <2>2 DEF Account, Open, Holds, Asks, Listed
  <2> QED BY <1>1, <1>4, <1>8, <1>9, <2>1, <2>3, <2>4 DEF Account
<1>11. ASSUME NEW u \in Tx \ {t} PROVE Account(u)'
  <2>0. faults \in Nat /\ ~Holds(u)' /\ ~Asks(u)'
    BY <1>4 DEF Holds, Asks, Tallied, Counters
  <2>1. Kept(u)
    BY <1>1, <1>8, <1>9, <2>0 DEF Kept
  <2>2. Undealt(u)
    BY <1>1, <1>2, LeftAlone DEF Tallied, Counters
  <2> QED BY <2>1, <2>2, UndealtKeeps, ResolutionAssumption DEF Tallied
<1> QED BY <1>6, <1>7, <1>10, <1>11 DEF Tallied

\* A step that changes neither the worker, the queue, the snapshot nor the tally.
LEMMA StillTallied ==
  ASSUME Tallied, UNCHANGED <<queue, polled, tries, faults>>, Slips',
         proc'[RetryWorker] = proc[RetryWorker], calls' \in Nat, working' \in BOOLEAN
  PROVE  Tallied'
<1>1. Counters' /\ faults \in Nat
  BY DEF Tallied, Counters
<1>2. ASSUME NEW t \in Tx PROVE Account(t)'
  <2>1. Kept(t)
    BY <1>1, WorkerStill
  <2>2. Undealt(t)
    BY <1>1, LeftAlone
  <2> QED BY <2>1, <2>2, UndealtKeeps, ResolutionAssumption DEF Tallied
<1> QED BY <1>1, <1>2 DEF Tallied

\* The worker goes on with its call to the engine.
LEMMA AskingTallied ==
  ASSUME Inv, Tallied, NEW s \in {AskingOn, Awaiting},
         proc[RetryWorker].script \in Asking,
         proc' = [proc EXCEPT ![RetryWorker] = With(proc[RetryWorker], s)],
         UNCHANGED <<queue, polled, tries, faults>>, calls' \in Nat, working' \in BOOLEAN
  PROVE  Tallied'
<1>1. /\ \A q \in Procs \ {RetryWorker} : proc'[q] = proc[q]
      /\ proc'[RetryWorker] = With(proc[RetryWorker], s) /\ RetryWorker \in Procs
  BY DEF Inv, ProcsTyped, Procs
<1>2. /\ proc'[RetryWorker].script = s /\ proc'[RetryWorker].tx = proc[RetryWorker].tx
      /\ proc'[RetryWorker].max = proc[RetryWorker].max
      /\ proc'[RetryWorker].attempt = proc[RetryWorker].attempt
  BY <1>1 DEF With
<1>3. s \in Asking
  BY DEF Asking
<1>4. Slips'
  <2>1. Slip(RetryWorker, proc[RetryWorker])
    BY <1>1 DEF Tallied, Slips
  <2>2. Slip(RetryWorker, proc'[RetryWorker])
    BY <1>2, <1>3, <2>1 DEF Slip
  <2> QED BY <1>1, <2>2, SlipsMove DEF Tallied
<1>5. Counters' /\ faults \in Nat
  BY DEF Tallied, Counters
<1>6. ASSUME NEW t \in Tx PROVE Account(t)'
  <2>1. Owed(t) = 0 /\ Spent(t) = 0 /\ Owed(t)' = 0 /\ Spent(t)' = 0
    BY <1>2, <1>3, StationsDiffer DEF Owed, Spent
  <2>2. Kept(t)
    BY <1>2, <1>3, <1>5, <2>1 DEF Kept, Holds, Asks, Stations
  <2>3. Undealt(t)
    BY <1>5, LeftAlone
  <2> QED BY <2>2, <2>3, UndealtKeeps, ResolutionAssumption DEF Tallied
<1> QED BY <1>4, <1>5, <1>6 DEF Tallied

LEMMA CallTallied ==
  ASSUME Inv, Tallied, Reset(RetryWorker) \/ Rematch(RetryWorker)
  PROVE  Tallied'
<1>1. RetryWorker \in Procs
  BY DEF Procs
<1>2. PICK old \in Local : old = proc[RetryWorker]
  BY <1>1 DEF Inv, ProcsTyped
<1>3. \/ old.script = Retrying \/ old.script = AskingOn
  BY <1>1, <1>2, AtKnown, HeadKnown DEF Reset, Rematch, Inv
<1>4. PICK s : Tail(old.script) = s /\ s \in {AskingOn, Awaiting} /\ Len(old.script) # 1
  <2> PICK rest, n : rest = Tail(old.script) /\ n = Len(old.script)
    OBVIOUS
  <2>1. CASE old.script = Retrying
    <3>1. rest = AskingOn /\ n = 3
      BY <2>1, Rests
    <3> QED BY <3>1
  <2>2. CASE old.script = AskingOn
    <3>1. rest = Awaiting /\ n = 2
      BY <2>2, Rests
    <3> QED BY <3>1
  <2> QED BY <1>3, <2>1, <2>2
<1>5. s \in Scripts
  BY <1>4 DEF Scripts, Asking
<1>6. proc' = [proc EXCEPT ![RetryWorker] = With(old, s)]
  <2>1. proc' = [proc EXCEPT ![RetryWorker] = [old EXCEPT !.script = s]]
    BY <1>2, <1>4 DEF Reset, Rematch, Passed
  <2> QED BY <1>5, <2>1, WithLocal
<1>7. UNCHANGED <<queue, polled, tries, faults>> /\ calls' \in Nat /\ working' \in BOOLEAN
  <2>1. calls \in Nat /\ working \in BOOLEAN
    BY DEF Tallied, Counters
  <2>2. CASE Reset(RetryWorker)
    BY <2>1, <2>2 DEF Reset
  <2>3. CASE Rematch(RetryWorker)
    BY <2>1, <2>3 DEF Rematch
  <2> QED BY <2>2, <2>3
<1> QED BY <1>2, <1>3, <1>4, <1>6, <1>7, AskingTallied DEF Asking

\* What follows a mismatch, and what an answer that is none.
LEMMA MismatchAnswered ==
  ASSUME NEW n \in Nat, NEW max \in Nat
  PROVE  /\ Answered("MISMATCHED", n, max) = IF n >= max THEN Exhausting ELSE Counting
         /\ Answered("PENDING", n, max) = Counting
         /\ Answered("MATCHED", n, max) = Marking /\ Answered("RESOLVED", n, max) = Marking
  BY DEF Answered, Marking

LEMMA AnswerTallied ==
  ASSUME Inv, Tallied, Answer(RetryWorker)
  PROVE  Tallied'
<1>1. RetryWorker \in Procs
  BY DEF Procs
<1>2. PICK old \in Local, t \in Tx : old = proc[RetryWorker] /\ t = old.tx
  BY <1>1, AtKnown DEF Answer, Inv
<1>3. PICK status \in {"PENDING", "MATCHED", "MISMATCHED", "RESOLVED"} : status = recon[t]
  BY <1>2 DEF Answer, Inv, TablesTyped
<1>4. PICK s : s = Answered(status, old.attempt, old.max)
  OBVIOUS
<1>5. old.script = Awaiting /\ Awaiting \in Asking
  BY <1>1, <1>2, AtKnown, HeadKnown DEF Answer, Inv, Asking
<1>6. Slip(RetryWorker, old)
  BY <1>1, <1>2 DEF Tallied, Slips
<1>7. PICK n \in Nat, max \in Ceilings : n = old.attempt /\ max = old.max /\ n > 0 /\ max \in Nat
  BY <1>5, <1>6, ResolutionAssumption DEF Slip
<1>8. s = IF status = "MISMATCHED" THEN IF n >= max THEN Exhausting ELSE Counting
          ELSE IF status = "PENDING" THEN Counting ELSE Marking
  BY <1>3, <1>4, <1>7, MismatchAnswered
<1>9. s \in Scripts
  BY <1>8 DEF Scripts
<1>10. /\ \A q \in Procs \ {RetryWorker} : proc'[q] = proc[q]
       /\ proc'[RetryWorker].script = s /\ proc'[RetryWorker].tx = t
       /\ proc'[RetryWorker].max = max /\ proc'[RetryWorker].attempt = n
  <2>1. proc' = [proc EXCEPT ![RetryWorker] = [old EXCEPT !.script = s]]
    BY <1>1, <1>2, <1>3, <1>4 DEF Answer, Inv, ProcsTyped
  <2>2. proc' = [proc EXCEPT ![RetryWorker] = With(old, s)]
    BY <1>9, <2>1, WithLocal
  <2> QED BY <1>1, <1>2, <1>7, <2>2 DEF Inv, ProcsTyped, With
<1>11. /\ UNCHANGED <<queue, polled, faults, calls, working>>
       /\ tries' = IF status = "MISMATCHED" THEN [tries EXCEPT ![t] = @ + 1] ELSE tries
       /\ tries \in [Tx -> Nat] /\ faults \in Nat
  BY <1>2, <1>3 DEF Answer, tables, Tallied, Counters
<1>12. Slips'
  <2>1. s \notin Asking /\ s # Enqueuing /\ s # <<"enqueue">>
    BY <1>8, StationsDiffer, ScriptsDiffer DEF Stations
  <2>2. Slip(RetryWorker, proc'[RetryWorker])
    BY <1>7, <1>10, <2>1 DEF Slip
  <2> QED BY <1>1, <1>10, <2>2, SlipsMove DEF Tallied
<1>13. Counters'
  BY <1>11 DEF Tallied, Counters
<1>14. /\ Account(t) /\ Holds(t) /\ Asks(t) /\ Open(t) /\ ~Listed(t)
       /\ Owed(t) = 0 /\ Spent(t) = 0
  BY <1>2, <1>5, StationsDiffer DEF Tallied, Account, Holds, Asks, Open, Listed, Owed, Spent,
     Stations
<1>15. CASE status # "MISMATCHED"
  <2>1. ASSUME NEW u \in Tx PROVE Undealt(u)
    BY <1>11, <1>15, LeftAlone
  <2>2. ASSUME NEW u \in Tx PROVE Kept(u)
    <3>1. CASE s = Marking
      BY <1>5, <1>10, <1>2, <1>11, <3>1, StationsDiffer, WorkerLets DEF Stations
    <3>2. CASE s = Counting
      <4>1. ~Asks(u)' /\ (Holds(u)' => Holds(u)) /\ Spent(u)' = 0 /\ Owed(u)' \in 0..1
        BY <1>2, <1>5, <1>10, <3>2, StationsDiffer DEF Asks, Holds, Spent, Owed, Stations
      <4>2. Spent(u) = 0 /\ Owed(u) = 0
        BY <1>2, <1>5, StationsDiffer DEF Spent, Owed
      <4> QED BY <1>11, <4>1, <4>2 DEF Kept
    <3> QED BY <1>8, <1>15, <3>1, <3>2
  <2>3. ASSUME NEW u \in Tx PROVE Account(u)'
    BY <2>1, <2>2, UndealtKeeps, ResolutionAssumption DEF Tallied
  <2> QED BY <1>12, <1>13, <2>3 DEF Tallied
<1>16. CASE status = "MISMATCHED"
  <2>1. PICK k \in Nat : k = tries[t]
    BY <1>11
  <2>2. PICK row \in Entry : row = queue[t]
    BY <1>14 DEF Account
  <2>3. tries'[t] = k + 1 /\ \A u \in Tx \ {t} : tries'[u] = tries[u]
    BY <1>11, <1>16, <2>1
  <2>4. /\ s \in {Counting, Exhausting} /\ s \notin Asking /\ s \in Stations
        /\ s = Exhausting \/ n < max
    BY <1>7, <1>8, <1>16, StationsDiffer DEF Stations
  <2>5. /\ Holds(t)' /\ ~Asks(t)' /\ Owed(t)' = 1 /\ Open(t)' /\ ~Listed(t)'
        /\ Spent(t)' = IF s = Exhausting THEN 1 ELSE 0
    BY <1>10, <1>11, <1>14, <2>4, StationsDiffer DEF Holds, Asks, Owed, Spent, Open, Listed
  <2>6. /\ n = row.count + 1 /\ row.count \in Nat
        /\ row.status \in {"PENDING", "RESOLVED"} /\ row.max \in Ceilings
        /\ k =< row.count + faults + 0 /\ Below(k - faults - 0)
    BY <1>2, <1>7, <1>14, <2>1, <2>2 DEF Account, Entry
  <2>7. k + 1 =< row.count + faults + 1
    BY <1>11, <2>6
  <2>8. Below((k + 1) - faults - 1)
    <3>1. (k + 1) - faults - 1 = k - faults - 0
      BY <1>11
    <3> QED BY <2>6, <3>1
  <2>9. Below((k + 1) - faults - Spent(t)')
    <3>1. CASE s = Exhausting
      BY <2>5, <2>8, <3>1
    <3>2. CASE s # Exhausting
      <4>1. (k + 1) - faults - 0 < max
        BY <1>7, <1>11, <2>4, <2>6, <3>2
      <4> QED BY <2>5, <3>2, <4>1 DEF Below
    <3> QED BY <3>1, <3>2
  <2>10. Account(t)'
    <3>1. \A e \in polled' : e.tx # t
      BY <2>5 DEF Listed
    <3>2. queue'[t] = row /\ faults' = faults
      BY <1>11, <2>2
    <3> QED BY <2>2, <2>3, <2>5, <2>6, <2>7, <2>8, <2>9, <3>1, <3>2 DEF Account
  <2>11. ASSUME NEW u \in Tx \ {t} PROVE Account(u)'
    <3>1. Undealt(u)
      BY <1>11, <2>3, LeftAlone
    <3>2. /\ ~Holds(u)' /\ ~Asks(u)'
          /\ Owed(u) = 0 /\ Spent(u) = 0 /\ Owed(u)' = 0 /\ Spent(u)' = 0
      BY <1>2, <1>10 DEF Holds, Asks, Owed, Spent
    <3>3. Kept(u)
      BY <1>11, <3>2 DEF Kept
    <3> QED BY <3>1, <3>3, UndealtKeeps, ResolutionAssumption DEF Tallied
  <2> QED BY <1>12, <1>13, <2>10, <2>11 DEF Tallied
<1> QED BY <1>15, <1>16

LEMMA RequestTallied ==
  ASSUME Inv, Tallied, NEW p \in Ops, NEW t \in Tx, Request(p, t)
  PROVE  Tallied'
<1>1. p \in Procs /\ p # RetryWorker
  BY ResolutionAssumption DEF Procs, ResolutionAssumption
<1>2. \E s \in {Manually, Enqueuing}, by \in {"MANUAL", "AUTO"}, max \in {0} \cup Ceilings :
        Call(p, t, s, by, max) /\ (s = Enqueuing => max \in Ceilings)
  <2>1. Manually # Enqueuing
    BY DEF Manually, Enqueuing
  <2>2. CASE ResolveManually(p, t)
    BY <2>1, <2>2 DEF ResolveManually
  <2>3. CASE AutoResolve(p, t)
    BY <2>1, <2>3 DEF AutoResolve, Automatically, Manually
  <2>4. CASE EnqueueRetry(p, t)
    BY <2>4 DEF EnqueueRetry
  <2> QED BY <2>2, <2>3, <2>4 DEF Request
<1>3. PICK s \in {Manually, Enqueuing}, by \in {"MANUAL", "AUTO"}, max \in {0} \cup Ceilings :
        Call(p, t, s, by, max) /\ (s = Enqueuing => max \in Ceilings)
  BY <1>2
<1>4. proc' = [proc EXCEPT ![p] = [script |-> s, tx |-> t, by |-> by, max |-> max,
                                  attempt |-> 0]]
  BY <1>3 DEF Call
<1>5. /\ \A q \in Procs \ {p} : proc'[q] = proc[q]
      /\ proc'[p].script = s /\ proc'[p].max = max /\ proc'[p].attempt = 0
  BY <1>1, <1>4 DEF Inv, ProcsTyped
<1>6. s \notin Stations /\ s # <<"enqueue">>
  BY StationsDiffer DEF Manually, Enqueuing
<1>7. Slips'
  <2>1. Slip(p, proc'[p])
    BY <1>3, <1>5, <1>6 DEF Slip, Stations
  <2> QED BY <1>1, <1>5, <2>1, SlipsMove DEF Tallied
<1>8. /\ UNCHANGED <<queue, polled, tries, faults>> /\ calls' \in Nat /\ working' \in BOOLEAN
      /\ proc'[RetryWorker] = proc[RetryWorker]
  BY <1>1, <1>3, <1>5 DEF Call, tables, Tallied, Counters, Procs
<1> QED BY <1>7, <1>8, StillTallied

LEMMA EngineTallied ==
  ASSUME Inv, Tallied, NEW t \in Tx, EngineStep(t) \/ OthersReTrigger(t)
  PROVE  Tallied'
<1>1. calls \in Nat /\ working \in BOOLEAN
  BY DEF Tallied, Counters
<1>2. UNCHANGED <<queue, polled, tries, faults, proc>> /\ calls' \in Nat /\ working' \in BOOLEAN
  <2>1. CASE EngineTakesUp(t) \/ EngineEnds(t)
    BY <1>1, <2>1 DEF EngineTakesUp, EngineEnds, tables
  <2>2. CASE EngineWrites(t)
    BY <1>1, <2>2 DEF EngineWrites
  <2>3. CASE OthersReTrigger(t)
    BY <1>1, <2>3 DEF OthersReTrigger
  <2> QED BY <2>1, <2>2, <2>3 DEF EngineStep
<1>3. Slips'
  BY <1>2 DEF Tallied, Slips, Slip
<1> QED BY <1>2, <1>3, StillTallied

LEMMA TickTallied ==
  ASSUME Inv, Tallied, Tick
  PROVE  Tallied'
<1>1. UNCHANGED <<polled, tries, faults, proc, calls, working>> /\ faults \in Nat
  BY DEF Tick, Tallied, Counters
<1>2. Slips' /\ Counters'
  BY <1>1 DEF Tallied, Slips, Slip, Counters
<1>3. ASSUME NEW t \in Tx PROVE Account(t)'
  <2>1. PICK old \in Entry : old = queue[t]
    BY DEF Tallied, Account
  <2> DEFINE wait == IF old.wait = 0 THEN 0 ELSE old.wait - 1
  <2>2. queue'[t] = [old EXCEPT !.wait = wait]
    BY <2>1 DEF Tick
  <2>3. wait \in 0..Cap
    BY ResolutionAssumption DEF Entry, ResolutionAssumption
  <2> HIDE DEF wait
  <2>4. /\ queue'[t] \in Entry /\ queue'[t].count = old.count
        /\ queue'[t].max = old.max /\ queue'[t].status = old.status
    BY <2>2, <2>3 DEF Entry
  <2>5. Undealt(t)
    BY <1>1, <2>1, <2>4 DEF Undealt
  <2>6. Kept(t)
    BY <1>1, WorkerStill
  <2> QED BY <2>5, <2>6, UndealtKeeps, ResolutionAssumption DEF Tallied
<1> QED BY <1>2, <1>3 DEF Tallied

\* A call that fails is counted, as one that is answered.
LEMMA CallFailsTallied ==
  ASSUME Inv, Tallied, CallFails(RetryWorker)
  PROVE  Tallied'
<1>1. /\ UNCHANGED <<queue, polled, tries, calls, working, faults>> /\ faults \in Nat
      /\ RetryWorker \in Procs
  BY DEF CallFails, tables, Tallied, Counters, Procs
<1>2. Counters'
  BY <1>1 DEF Tallied, Counters
<1>3. PICK old \in Local : old = proc[RetryWorker] /\ Slip(RetryWorker, old)
  BY <1>1 DEF Inv, ProcsTyped, Tallied, Slips
<1>4. old.script \in Asking
  BY <1>3, HeadKnown DEF CallFails, Local, Asking
<1>5. proc' = [proc EXCEPT ![RetryWorker] = With(old, Counting)]
  <2>1. proc' = [proc EXCEPT ![RetryWorker] = [old EXCEPT !.script = Counting]]
    BY <1>3 DEF CallFails, Inv, ProcsTyped
  <2>2. Counting \in Scripts
    BY DEF Scripts
  <2> QED BY <2>1, <2>2, WithLocal
<1>6. /\ \A q \in Procs \ {RetryWorker} : proc'[q] = proc[q]
      /\ proc'[RetryWorker] = With(old, Counting)
  BY <1>1, <1>5 DEF Inv, ProcsTyped
<1>7. /\ proc'[RetryWorker].script = Counting /\ proc'[RetryWorker].max = old.max
      /\ proc'[RetryWorker].attempt = old.attempt /\ proc'[RetryWorker].tx = old.tx
  BY <1>6 DEF With
<1>8. Slips'
  <2>1. Slip(RetryWorker, proc'[RetryWorker])
    BY <1>3, <1>4, <1>7, StationsDiffer DEF Slip, Stations
  <2> QED BY <1>1, <1>6, <2>1, SlipsMove DEF Tallied
<1>9. ASSUME NEW t \in Tx PROVE Account(t)'
  <2>1. Undealt(t)
    BY <1>1, LeftAlone
  <2>2. Kept(t)
    <3>1. /\ ~Asks(t)' /\ (Holds(t)' => Holds(t))
          /\ Owed(t) = 0 /\ Spent(t) = 0 /\ Spent(t)' = 0 /\ Owed(t)' \in 0..1
      BY <1>3, <1>4, <1>7, StationsDiffer DEF Asks, Holds, Owed, Spent, Stations
    <3> QED BY <1>1, <3>1 DEF Kept
  <2> QED BY <2>1, <2>2, UndealtKeeps, ResolutionAssumption DEF Tallied
<1> QED BY <1>2, <1>8, <1>9 DEF Tallied

\* A failure pays for what the worker does not come to count.
LEMMA FaultTallied ==
  ASSUME Inv, Tallied, NEW p \in Procs, Fault(p)
  PROVE  Tallied'
<1>1. /\ UNCHANGED <<queue, polled, tries, calls, working>> /\ faults' = faults + 1
      /\ faults \in Nat /\ faults' \in Nat /\ faults =< faults' /\ faults < faults'
  BY DEF Fault, tables, Tallied, Counters
<1>2. Counters'
  BY <1>1 DEF Tallied, Counters
<1>3. PICK old \in Local : old = proc[p]
  BY DEF Inv, ProcsTyped
<1>4. proc' = [proc EXCEPT ![p] = Resting]
  <2>1. CASE Head(old.script) = "mark"
    <3>1. old.script = Marking
      BY <1>3, <2>1, HeadKnown DEF Fault, Local
    <3> QED BY <1>3, <2>1, <3>1, Rests DEF Fault, Passed
  <2>2. CASE Returned(p)
    BY <2>2 DEF Returned
  <2> QED BY <1>3, <2>1, <2>2 DEF Fault
<1>5. (\A q \in Procs \ {p} : proc'[q] = proc[q]) /\ proc'[p] = Resting
  BY <1>4 DEF Inv, ProcsTyped
<1>6. Slip(p, proc'[p])
  BY <1>5, RestingSlip
<1>7. Slips'
  BY <1>5, <1>6, SlipsMove DEF Tallied
<1>8. ASSUME NEW t \in Tx PROVE Account(t)'
  <2>1. Undealt(t)
    BY <1>1, LeftAlone
  <2>2. Kept(t)
    <3>1. CASE p # RetryWorker
      <4>1. proc'[RetryWorker] = proc[RetryWorker]
        BY <1>5, <3>1 DEF Procs
      <4> QED BY <1>1, <4>1, WorkerStill
    <3>2. CASE p = RetryWorker
      <4>1. proc'[RetryWorker].script \notin Stations
        BY <1>5, <3>2, StationsDiffer
      <4> QED BY <1>1, <4>1, WorkerLets
    <3> QED BY <3>1, <3>2
  <2> QED BY <2>1, <2>2, UndealtKeeps, ResolutionAssumption DEF Tallied
<1> QED BY <1>2, <1>7, <1>8 DEF Tallied

LEMMA CrashTallied ==
  ASSUME Inv, Tallied, Crash
  PROVE  Tallied'
<1>1. /\ UNCHANGED <<queue, tries, calls>> /\ working' \in BOOLEAN /\ faults' = faults + 1
      /\ faults \in Nat /\ faults' \in Nat /\ faults =< faults' /\ faults < faults'
      /\ polled' = {} /\ polled' \subseteq polled
      /\ \A p \in Procs : proc'[p] = Resting
  BY DEF Crash, tables, Tallied, Counters
<1>2. Counters'
  BY <1>1 DEF Tallied, Counters
<1>3. Slips'
  BY <1>1, RestingSlip DEF Slips, Slip
<1>4. ASSUME NEW t \in Tx PROVE Account(t)'
  <2>1. Undealt(t)
    BY <1>1, LeftAlone
  <2>2. proc'[RetryWorker].script \notin Stations
    BY <1>1, StationsDiffer DEF Procs
  <2>3. Kept(t)
    BY <1>1, <2>2, WorkerLets
  <2> QED BY <2>1, <2>3, UndealtKeeps, ResolutionAssumption DEF Tallied
<1> QED BY <1>2, <1>3, <1>4 DEF Tallied

LEMMA NextTallied ==
  ASSUME Inv, Tallied, [Next]_vars
  PROVE  Tallied'
<1>1. CASE UNCHANGED vars
  <2>1. UNCHANGED <<queue, polled, tries, faults, proc, calls, working>>
    BY <1>1 DEF vars, tables
  <2> QED BY <2>1, StillTallied DEF Tallied, Counters, Slips, Slip
<1>2. CASE WorkerStep
  <2>1. RetryWorker \in Procs
    BY DEF Procs
  <2> QED BY <1>2, <2>1, PollTallied, TakeUpTallied, CallTallied, AnswerTallied, StatementTallied
          DEF WorkerStep
<1>3. CASE \E p \in Ops : Statement(p) \/ \E t \in Tx : Request(p, t)
  BY <1>3, StatementTallied, RequestTallied DEF Procs
<1>4. CASE \E t \in Tx : EngineStep(t) \/ OthersReTrigger(t)
  BY <1>4, EngineTallied
<1>5. CASE Tick \/ Crash \/ CallFails(RetryWorker) \/ \E p \in Procs : Fault(p)
  BY <1>5, TickTallied, CrashTallied, CallFailsTallied, FaultTallied
<1> QED BY <1>1, <1>2, <1>3, <1>4, <1>5 DEF Next

THEOREM BudgetInvariant == Spec => [](Inv /\ Tallied)
<1>1. Init => Inv /\ Tallied
  BY InitInv, TalliedInit, ResolutionAssumption
<1>2. Inv /\ Tallied /\ [Next]_vars => (Inv /\ Tallied)'
  BY NextInv, NextTallied, ResolutionAssumption
<1> QED BY <1>1, <1>2, PTL DEF Spec

\* Every variable has its type; no wait is longer than the cap, and an attempt
\* that is to be counted has a number.
THEOREM ResolutionTypeOK == Spec => []TypeOK
<1>1. Inv /\ Tallied => TypeOK
  <2> SUFFICES ASSUME Inv, Tallied PROVE TypeOK
    OBVIOUS
  <2>1. recon \in [Tx -> {"none", "PENDING", "MATCHED", "MISMATCHED", "RESOLVED"}]
        /\ verdict \in [Tx -> {"none", "MANUAL", "AUTO"}]
        /\ engine \subseteq Tx /\ settled \subseteq Tx
    BY DEF Inv, TablesTyped
  <2>2. queue \in [Tx -> Entry]
    BY DEF Inv, TablesTyped, Tallied, Account
  <2>3. Scripts \subseteq Seq(Statements)
    <3>1. /\ <<>> \in Seq(Statements) /\ <<"enqueue">> \in Seq(Statements)
          /\ Manually \in Seq(Statements) /\ Deciding \in Seq(Statements)
          /\ Updating \in Seq(Statements) /\ Marking \in Seq(Statements)
      BY DEF Statements, Manually, Deciding, Updating, Marking
    <3>2. /\ Enqueuing \in Seq(Statements) /\ Counting \in Seq(Statements)
          /\ Retrying \in Seq(Statements) /\ AskingOn \in Seq(Statements)
          /\ Awaiting \in Seq(Statements)
      BY DEF Statements, Enqueuing, Counting, Retrying, AskingOn, Awaiting
    <3>3. Exhausting \in Seq(Statements)
      <4>1. CASE AutoApply
        BY <4>1 DEF Statements, Exhausting
      <4>2. CASE ~AutoApply
        BY <4>2 DEF Statements, Exhausting
      <4> QED BY <4>1, <4>2
    <3> QED BY <3>1, <3>2, <3>3 DEF Scripts, Asking
  <2>4. proc \in [Procs -> [script : Seq(Statements), tx : Tx \cup {NoTx},
                            by : {"MANUAL", "AUTO"}, max : {0} \cup Ceilings, attempt : Nat]]
    <3>1. ASSUME NEW p \in Procs
          PROVE  proc[p] \in [script : Seq(Statements), tx : Tx \cup {NoTx},
                              by : {"MANUAL", "AUTO"}, max : {0} \cup Ceilings, attempt : Nat]
      <4>1. proc[p] \in Local /\ Slip(p, proc[p])
        BY DEF Inv, ProcsTyped, Tallied, Slips
      <4> QED BY <2>3, <4>1 DEF Local, Slip
    <3> QED BY <3>1 DEF Inv, ProcsTyped
  <2>5. \A p \in Procs : proc[p].script # <<>> => proc[p].tx \in Tx
    BY DEF Inv, ProcsTyped
  <2>6. ASSUME NEW p \in Procs, At(p, "count") PROVE proc[p].attempt > 0
    <3>1. proc[p].script = Counting
      BY <2>6, AtKnown, HeadKnown DEF Inv
    <3> QED BY <3>1 DEF Tallied, Slips, Slip
  <2> QED BY <2>1, <2>2, <2>4, <2>5, <2>6 DEF TypeOK, Tallied, Counters, Entry
<1> QED BY <1>1, BudgetInvariant, PTL

\* However calls time out, statements fail, snapshots age and ceilings move:
\* the worker gets no more mismatches out of the engine for a queue row than a
\* ceiling and the failures explain, and asks for no row that is exhausted
\* (worker.go, retryOne; db.go, EnqueueRetry).
THEOREM BudgetKept == Spec => []BudgetHolds
<1>1. Inv /\ Tallied => BudgetHolds
  <2> SUFFICES ASSUME Inv, Tallied, NEW t \in Tx
               PROVE  /\ \E max \in Ceilings \cup {0} : tries[t] =< max + faults
                      /\ At(RetryWorker, "reset") /\ proc[RetryWorker].tx = t
                           => queue[t].status # "EXHAUSTED"
    BY DEF BudgetHolds
  <2>1. Account(t) /\ tries[t] \in Nat /\ faults \in Nat
    BY DEF Tallied, Counters
  <2>2. \E max \in Ceilings \cup {0} : tries[t] =< max + faults
    <3>1. CASE queue[t].status = "none"
      <4>1. tries[t] =< 0 + faults
        BY <2>1, <3>1 DEF Account
      <4> QED BY <4>1
    <3>2. CASE queue[t].status # "none"
      <4>1. PICK max \in Ceilings : tries[t] - faults - 1 < max
        BY <2>1, <3>2 DEF Account, Below
      <4>2. max \in Nat
        BY ResolutionAssumption DEF ResolutionAssumption
      <4>3. tries[t] =< max + faults
        BY <2>1, <4>1, <4>2
      <4> QED BY <4>3
    <3> QED BY <3>1, <3>2
  <2>3. ASSUME At(RetryWorker, "reset"), proc[RetryWorker].tx = t
        PROVE  queue[t].status # "EXHAUSTED"
    <3>1. proc[RetryWorker].script = Retrying
      BY <2>3, AtKnown, HeadKnown DEF Inv, Procs
    <3>2. Holds(t)
      BY <2>3, <3>1 DEF Holds, Stations, Asking
    <3> QED BY <2>1, <3>2 DEF Account
  <2> QED BY <2>2, <2>3
<1> QED BY <1>1, BudgetInvariant, PTL

=============================================================================
