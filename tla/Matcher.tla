------------------------------ MODULE Matcher ------------------------------
(***************************************************************************)
(* The matching algorithm of the reconciliation engine                     *)
(* (services/engine/src/engine/matcher.rs and rules.rs): a pure function   *)
(* from the records ingested for one transaction_ref to a verdict.         *)
(*                                                                         *)
(* A record is [src, amt, cur]; a sequence of records is in the order of   *)
(* server_received_at, as the engine's query returns it.  Amounts are      *)
(* integers in the smallest unit of the decimal; NoAmount stands for a     *)
(* missing amount and BadAmount for text that Decimal::from_str rejects.   *)
(* The code groups the records in a HashMap and then walks its values, so  *)
(* every operator that depends on the walk takes the iteration order, a    *)
(* sequence of distinct sources, as a parameter.                           *)
(***************************************************************************)
EXTENDS Integers, Sequences, FiniteSets, SequencesExt

CONSTANTS NoAmount, BadAmount

Status == {"PENDING", "MATCHED", "MISMATCHED", "RESOLVED"}

\* A compiled rule set.  pct is the percentage tolerance in whole percents,
\* abs the absolute tolerance in units of the amounts.
IsRuleSet(r) ==
  /\ DOMAIN r = {"strategy", "abs", "pct", "expected"}
  /\ r.strategy \in {"Exact", "Tolerance", "Majority"}
  /\ r.abs \in Nat
  /\ r.pct \in Nat
  /\ IsFiniteSet(r.expected)

-----------------------------------------------------------------------------
(* Amounts and the tolerance                                               *)

Abs(a) == IF a < 0 THEN -a ELSE a

Larger(a, b) == IF a < b THEN b ELSE a

\* Mutants: the percentage is taken of the first amount; the difference keeps
\* its sign; the comparison is strict.
WithinOfFirst(rules, a, b) ==
  Abs(a - b) * 100 =< Larger(rules.abs * 100, Abs(a) * rules.pct)

WithinSigned(rules, a, b) ==
  (a - b) * 100 =< Larger(rules.abs * 100, Larger(Abs(a), Abs(b)) * rules.pct)

WithinStrictly(rules, a, b) ==
  Abs(a - b) * 100 < Larger(rules.abs * 100, Larger(Abs(a), Abs(b)) * rules.pct)

\* The tolerance of a pair is the more permissive of the absolute one and
\* pct percent of the larger magnitude; both sides are scaled by 100.
Within(rules, a, b) ==
  Abs(a - b) * 100 =< Larger(rules.abs * 100, Larger(Abs(a), Abs(b)) * rules.pct)

-----------------------------------------------------------------------------
(* Projection of the records                                               *)

Sources(recs) == {recs[i].src : i \in DOMAIN recs}

\* Mutant: the first record of a source is kept.
Earliest(recs) ==
  [s \in Sources(recs) |-> recs[Min({i \in DOMAIN recs : recs[i].src = s})]]

\* Later records replace earlier ones of the same source.
Latest(recs) ==
  [s \in Sources(recs) |-> recs[Max({i \in DOMAIN recs : recs[i].src = s})]]

\* The orders in which the values of the map may be walked.
Orders(recs) == SetToSeqs(Sources(recs))

Complete(recs, rules) ==
  /\ rules.expected \subseteq Sources(recs)
  /\ Cardinality(Sources(recs)) >= 2

-----------------------------------------------------------------------------
(* Outcomes: the status, the sources that get a per-source result, and     *)
(* those of them flagged with a discrepancy                                *)

Pending == [status |-> "PENDING", results |-> {}, flagged |-> {}]

InvalidAmount == [status |-> "ERROR", results |-> {}, flagged |-> {}]

Mismatched(results, flagged) ==
  [status |-> "MISMATCHED", results |-> results, flagged |-> flagged]

Compared(results, flagged) ==
  IF flagged = {} THEN [status |-> "MATCHED", results |-> results, flagged |-> {}]
                  ELSE Mismatched(results, flagged)

MatchedSources(out) == IF out.status = "MATCHED" THEN out.results ELSE {}

MismatchedSources(out) == IF out.status = "MISMATCHED" THEN out.flagged ELSE {}

-----------------------------------------------------------------------------
(* The strategies.  amt maps each source to its amount.                    *)

Priced(amt) == {s \in DOMAIN amt : amt[s] # NoAmount}

\* The first amount met on the walk is what the others are compared with.
Reference(order, amt) ==
  amt[order[Min({i \in DOMAIN order : order[i] \in Priced(amt)})]]

\* Mutant: only amounts above the reference are flagged.
CompareExactAbove(order, amt) ==
  Compared(DOMAIN amt, {s \in Priced(amt) : amt[s] > Reference(order, amt)})

CompareExact(order, amt) ==
  Compared(DOMAIN amt, {s \in Priced(amt) : amt[s] # Reference(order, amt)})

CompareWithTolerance(rules, order, amt) ==
  Compared(DOMAIN amt,
           {s \in Priced(amt) : ~Within(rules, amt[s], Reference(order, amt))})

\* The record at position i opens a bucket unless it falls within tolerance
\* of the opening record of an earlier one; a record without an amount always
\* has a bucket of its own.
Fits(rules, order, amt, i, j) ==
  /\ {order[i], order[j]} \subseteq Priced(amt)
  /\ Within(rules, amt[order[i]], amt[order[j]])

Buckets(rules, order, amt) ==
  LET opener[i \in DOMAIN order] ==
        LET open == {j \in 1..(i - 1) : opener[j] = j /\ Fits(rules, order, amt, i, j)}
        IN  IF open = {} THEN i ELSE Min(open)
  IN  opener

BucketSize(opener, i) == Cardinality({j \in DOMAIN opener : opener[j] = opener[i]})

\* Mutant: the first bucket wins.
CompareMajorityFirst(rules, order, amt) ==
  LET opener == Buckets(rules, order, amt)
  IN  Compared(DOMAIN amt, {order[i] : i \in {k \in DOMAIN order : opener[k] # opener[1]}})

\* Every bucket of maximal size wins; the members of the others are flagged.
CompareMajority(rules, order, amt) ==
  LET opener == Buckets(rules, order, amt)
      size   == [i \in DOMAIN order |-> BucketSize(opener, i)]
  IN  Compared(DOMAIN amt,
               {order[i] : i \in {k \in DOMAIN order : \E j \in DOMAIN order : size[j] > size[k]}})

-----------------------------------------------------------------------------
(* The entry point.  late: the oldest record is at least                   *)
(* pending_timeout_secs old.                                               *)

MatchRecords(recs, rules, order, late) ==
  LET last == Latest(recs)
      amt  == [s \in Sources(recs) |-> last[s].amt]
      cur  == {last[s].cur : s \in Sources(recs)}
  IN  CASE recs = <<>> \/ (~Complete(recs, rules) /\ ~late) -> Pending
        [] recs # <<>> /\ ~Complete(recs, rules) /\ late ->
             Mismatched(Sources(recs), {})
        [] Complete(recs, rules) /\ BadAmount \in Range(amt) -> InvalidAmount
        [] Complete(recs, rules) /\ BadAmount \notin Range(amt)
                                 /\ Cardinality(cur) > 1 ->
             Mismatched(Sources(recs), Sources(recs))
        [] OTHER ->
             CASE rules.strategy = "Exact"     -> CompareExact(order, amt)
               [] rules.strategy = "Tolerance" -> CompareWithTolerance(rules, order, amt)
               [] rules.strategy = "Majority"  -> CompareMajority(rules, order, amt)
=============================================================================
