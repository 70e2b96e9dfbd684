------------------------------ MODULE MatchRun ------------------------------
(***************************************************************************)
(* One life of the matcher's input: records of a transaction arrive, its   *)
(* oldest record may grow older than the pending timeout, and at some      *)
(* point the engine matches what is there (worker.rs, reconcile_one,       *)
(* steps 2 to 4), walking the deduplicated records in any order.           *)
(***************************************************************************)
EXTENDS Matcher

CONSTANTS Inputs,      \* the records ingestion may have stored
          RuleSets,    \* the configurations of the engine
          MaxRecords   \* bound on the records of the transaction

ASSUME RuleSetsAssumption == \A r \in RuleSets : IsRuleSet(r)

ASSUME InputsAssumption == \A r \in Inputs : r.amt \in Int \cup {NoAmount, BadAmount}

VARIABLES recs, rules, late, out

vars == <<recs, rules, late, out>>

NotRun == [status |-> "NEW", results |-> {}, flagged |-> {}]

Init ==
  /\ recs = <<>>
  /\ rules \in RuleSets
  /\ late = FALSE
  /\ out = NotRun

Receive(r) ==
  /\ out = NotRun
  /\ Len(recs) < MaxRecords
  /\ recs' = Append(recs, r)
  /\ UNCHANGED <<rules, late, out>>

TimeOut ==
  /\ out = NotRun
  /\ late' = TRUE
  /\ UNCHANGED <<recs, rules, out>>

\* An empty result set returns before the matcher is called.
Match ==
  /\ out = NotRun
  /\ recs # <<>>
  /\ \E order \in Orders(recs) : out' = MatchRecords(recs, rules, order, late)
  /\ UNCHANGED <<recs, rules, late>>

\* The verdict stands.
Done == out # NotRun /\ UNCHANGED vars

Next == (\E r \in Inputs : Receive(r)) \/ TimeOut \/ Match \/ Done

Spec == Init /\ [][Next]_vars

-----------------------------------------------------------------------------
(* Properties                                                              *)

amounts == [s \in Sources(recs) |-> Latest(recs)[s].amt]

\* All sources are there, their amounts parse and their currencies agree:
\* the verdict is the strategy's.
Comparable ==
  /\ out # NotRun
  /\ Complete(recs, rules)
  /\ BadAmount \notin Range(amounts)
  /\ \A s, t \in Sources(recs) : Latest(recs)[s].cur = Latest(recs)[t].cur

\* Between two sources it does not matter which one the walk meets first:
\* the tolerance of a pair is symmetric and so is every strategy
\* (rules.rs, Tolerance::within).
PairOrderIndependent ==
  out # NotRun /\ Cardinality(Sources(recs)) = 2 =>
    \A order \in Orders(recs) :
      MatchRecords(recs, rules, order, late).status = out.status

\* A source's earlier records leave no trace: the verdict is one that the
\* latest record of each source alone would have got, whichever of them came
\* first (matcher.rs, deduplication).
LatestRecordCounts ==
  LET last == {i \in DOMAIN recs : \A j \in DOMAIN recs : recs[j].src = recs[i].src => j =< i}
  IN  out # NotRun =>
        \E order \in Orders(recs) :
          \A kept \in SetToSeqs({recs[i] : i \in last}) :
            out = MatchRecords(kept, rules, order, late)

\* Exact matching accepts when, and only when, all amounts present are the
\* same, whatever the walk (matcher.rs, compare_exact).
ExactIffEqual ==
  Comparable /\ rules.strategy = "Exact" =>
    (out.status = "MATCHED" <=>
       \A s, t \in Priced(amounts) : amounts[s] = amounts[t])

\* Under the tolerance strategy two sources of a matched transaction can be
\* at most two tolerances apart: each is within one of the reference
\* (matcher.rs, compare_with_tolerance).
MatchedSpread ==
  Comparable /\ rules.strategy = "Tolerance" /\ out.status = "MATCHED" =>
    \A s, t \in Priced(amounts) :
      LET top == Max({Abs(amounts[u]) : u \in Priced(amounts)})
      IN  Abs(amounts[s] - amounts[t]) * 100
            =< 2 * Larger(rules.abs * 100, top * rules.pct)

\* No false alarm: a source is flagged by the exact or the tolerance strategy
\* only when some source that is not flagged really disagrees with it.
FlaggedDisagrees ==
  Comparable /\ rules.strategy \in {"Exact", "Tolerance"} =>
    \A s \in out.flagged :
      \E t \in Priced(amounts) \ out.flagged :
        IF rules.strategy = "Exact" THEN amounts[s] # amounts[t]
                                    ELSE ~Within(rules, amounts[s], amounts[t])

\* Under the majority strategy an amount that more than half of the sources
\* report is never the outlier, whatever the walk (matcher.rs,
\* compare_majority).
StrictMajorityUnflagged ==
  Comparable /\ rules.strategy = "Majority" =>
    \A s \in Priced(amounts) :
      2 * Cardinality({t \in Priced(amounts) : amounts[t] = amounts[s]})
          > Cardinality(Sources(recs))
        => s \notin out.flagged

\* What the unit test majority_two_vs_one says (matcher.rs:646, "2 sources
\* agree -> MATCHED (majority wins)"): two equal amounts against one match.
TwoVersusOneMatches ==
  Comparable /\ rules.strategy = "Majority" /\ Cardinality(Sources(recs)) = 3
    /\ Priced(amounts) = Sources(recs)
    /\ (\E s \in Priced(amounts) :
          Cardinality({t \in Priced(amounts) : amounts[t] = amounts[s]}) = 2)
    => out.status = "MATCHED"

=============================================================================
