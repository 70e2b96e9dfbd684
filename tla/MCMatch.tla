------------------------------ MODULE MCMatch ------------------------------
(***************************************************************************)
(* Instances of MatchRun for TLC: three sources whose amounts lie one, two *)
(* and three units apart, so that a tolerance of one unit (or of 50        *)
(* percent) is neither trivially met nor transitive.                       *)
(***************************************************************************)
EXTENDS MatchRun

CONSTANTS a, b, c

Rec(s, x, k) == [src |-> s, amt |-> x, cur |-> k]

\* Amounts for every source, a second currency, and the two odd amounts.
MCInputs ==
  {Rec(s, x, "INR") : s \in {a, b}, x \in -1..2}
    \cup {Rec(c, 0, "INR"), Rec(c, 2, "INR")}
    \cup {Rec(a, 1, "USD"), Rec(a, NoAmount, "INR"), Rec(b, BadAmount, "INR")}

Rule(strategy, abs, pct, expected) ==
  [strategy |-> strategy, abs |-> abs, pct |-> pct, expected |-> expected]

MCRuleSets ==
  {Rule(s, 1, 0, {}) : s \in {"Exact", "Tolerance", "Majority"}}
    \cup {Rule("Tolerance", 0, 50, {a, b}), Rule("Majority", 0, 0, {})}

MajorityOnly == {Rule("Majority", 0, 0, {})}
=============================================================================
