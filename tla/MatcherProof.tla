---------------------------- MODULE MatcherProof ----------------------------
(***************************************************************************)
(* What the matching algorithm guarantees, for any records, any number of  *)
(* sources, any rule set and whatever order the records are walked in.     *)
(***************************************************************************)
EXTENDS MatchRun, FiniteSetTheorems, FunctionTheorems, WellFoundedInduction, TLAPS

-----------------------------------------------------------------------------
(* Least and greatest elements                                             *)

LEMMA LeastExists ==
  ASSUME NEW T \in SUBSET Nat, T # {}
  PROVE  \E x \in T : \A y \in T : x =< y
<1>1. PICK R : IsWellFoundedOn(R, Nat) /\ \A x, y \in Nat : y < x => <<y, x>> \in R
  <2> DEFINE R == OpToRel(<, Nat)
  <2>1. IsWellFoundedOn(R, Nat)
    BY NatLessThanWellFounded
  <2>2. \A x, y \in Nat : y < x => <<y, x>> \in R
    BY DEF OpToRel
  <2> QED BY <2>1, <2>2
<1>2. PICK x \in T : \A y \in T : ~(<<y, x>> \in R)
  BY <1>1, WFMin
<1>3. \A y \in T : ~ (y < x)
  BY <1>1, <1>2
<1> QED BY <1>3

LEMMA MinIs ==
  ASSUME NEW T \in SUBSET Nat, T # {}
  PROVE  Min(T) \in T /\ \A y \in T : Min(T) =< y
BY LeastExists, Zenon DEF Min

LEMMA MaxIs ==
  ASSUME NEW T \in SUBSET Nat, T # {}, NEW n \in Nat, \A y \in T : y =< n
  PROVE  Max(T) \in T /\ \A y \in T : y =< Max(T)
<1>1. PICK U : U = {k \in 0..n : n - k \in T}
  OBVIOUS
<1>2. ASSUME NEW y \in T PROVE n - y \in U /\ n - (n - y) = y
  <2>1. n - y \in 0..n /\ n - (n - y) = y
    OBVIOUS
  <2> QED BY <1>1, <2>1
<1>3. U \in SUBSET Nat /\ U # {}
  <2>1. \A k \in U : k \in Nat
    BY <1>1
  <2> QED BY <1>2, <2>1
<1>4. PICK k \in U : \A j \in U : k =< j
  BY <1>3, LeastExists
<1>5. n - k \in T /\ k \in Nat
  BY <1>1, <1>4
<1>6. ASSUME NEW y \in T PROVE n - k >= y
  BY <1>2, <1>4, <1>5
<1>7. Max(T) \in T /\ \A y \in T : Max(T) >= y
  BY <1>5, <1>6, Zenon DEF Max
<1> QED BY <1>7

\* Induction up to n, for a set of numbers.
LEMMA UpTo ==
  ASSUME NEW n \in Nat, NEW S, 0 \in S, \A k \in 1..n : k - 1 \in S => k \in S
  PROVE  n \in S
<1>1. PICK U : U = {k \in 0..n : k \notin S}
  OBVIOUS
<1>2. CASE U = {}
  BY <1>1, <1>2
<1>3. CASE U # {}
  <2>0. \A k \in U : k \in Nat
    BY <1>1
  <2>1. PICK k \in U : \A j \in U : k =< j
    BY <1>3, <2>0, LeastExists
  <2>2. k \in 1..n /\ k - 1 \in 0..n /\ k - 1 \notin U
    BY <1>1, <2>1
  <2> QED BY <1>1, <2>1, <2>2
<1> QED BY <1>2, <1>3

\* The values of a function on 1 to n have a bound.
LEMMA ValuesBounded ==
  ASSUME NEW n \in Nat, NEW f \in [1..n -> Nat]
  PROVE  \E b \in Nat : \A i \in 1..n : f[i] =< b
<1>1. PICK S : S = {k \in 0..n : \E b \in Nat : \A i \in 1..k : f[i] =< b}
  OBVIOUS
<1>2. 0 \in S
  BY <1>1
<1>3. ASSUME NEW k \in 1..n, k - 1 \in S PROVE k \in S
  <2>1. PICK b \in Nat : \A i \in 1..(k - 1) : f[i] =< b
    BY <1>1, <1>3
  <2>2. f[k] \in Nat /\ \A i \in 1..k : i = k \/ i \in 1..(k - 1)
    OBVIOUS
  <2>3. CASE b =< f[k]
    <3>1. (\A i \in 1..k : f[i] =< f[k]) /\ k \in 0..n
      BY <2>1, <2>2, <2>3
    <3> QED BY <1>1, <2>2, <3>1
  <2>4. CASE f[k] =< b
    <3>1. (\A i \in 1..k : f[i] =< b) /\ k \in 0..n
      BY <2>1, <2>2, <2>4
    <3> QED BY <1>1, <3>1
  <2> QED BY <2>2, <2>3, <2>4
<1>4. n \in S
  BY <1>2, <1>3, UpTo
<1> QED BY <1>1, <1>4

\* So has a finite set of numbers, and a greatest element with it.
LEMMA FiniteMax ==
  ASSUME NEW T \in SUBSET Nat, T # {}, IsFiniteSet(T)
  PROVE  Max(T) \in T /\ \A y \in T : y =< Max(T)
<1> DEFINE n == Cardinality(T)
<1>1. n \in Nat /\ ExistsBijection(1..n, T)
  BY FS_CardinalityType
<1>2. PICK f \in Bijection(1..n, T) : TRUE
  BY <1>1 DEF ExistsBijection
<1> HIDE DEF n
<1>3. f \in [1..n -> T] /\ \A y \in T : \E i \in 1..n : f[i] = y
  BY <1>2 DEF Bijection, Surjection, Injection
<1>4. PICK b \in Nat : \A i \in 1..n : f[i] =< b
  BY <1>1, <1>3, ValuesBounded
<1>5. \A y \in T : y =< b
  BY <1>3, <1>4
<1> QED BY <1>5, MaxIs

\* A function on a finite set has finitely many values.
LEMMA ValuesFinite ==
  ASSUME NEW f, IsFiniteSet(DOMAIN f)
  PROVE  IsFiniteSet({f[x] : x \in DOMAIN f})
<1>1. PICK g : g = [x \in DOMAIN f |-> f[x]]
  OBVIOUS
<1>2. g \in Surjection(DOMAIN f, {f[x] : x \in DOMAIN f})
  BY <1>1 DEF Surjection
<1> QED BY <1>2, FS_Surjection
-----------------------------------------------------------------------------
(* Sources, latest records and walks                                       *)

LEMMA SourcesFinite ==
  ASSUME NEW rs \in Seq(Inputs)
  PROVE  IsFiniteSet(Sources(rs)) /\ Cardinality(Sources(rs)) \in Nat
<1>1. PICK n \in Nat : DOMAIN rs = 1..n
  OBVIOUS
<1>2. PICK f : f = [i \in 1..n |-> rs[i].src]
  OBVIOUS
<1>3. Sources(rs) = {f[i] : i \in DOMAIN f}
  BY <1>1, <1>2 DEF Sources
<1>4. IsFiniteSet(DOMAIN f)
  BY <1>2, FS_Interval
<1>5. IsFiniteSet(Sources(rs))
  BY <1>3, <1>4, ValuesFinite
<1> QED BY <1>5, FS_CardinalityType

\* A source's latest record is one of its records, and none is later.
LEMMA LatestIs ==
  ASSUME NEW rs \in Seq(Inputs), NEW s \in Sources(rs)
  PROVE  \E i \in DOMAIN rs : /\ Latest(rs)[s] = rs[i] /\ rs[i].src = s
                             /\ \A j \in DOMAIN rs : rs[j].src = s => j =< i
<1>1. PICK T : T = {i \in DOMAIN rs : rs[i].src = s}
  OBVIOUS
<1>2. Latest(rs)[s] = rs[Max(T)]
  BY <1>1 DEF Latest
<1>3. T # {} /\ T \in SUBSET Nat /\ \A i \in T : i =< Len(rs)
  BY <1>1 DEF Sources
<1>4. Max(T) \in T /\ \A i \in T : i =< Max(T)
  <2>1. Len(rs) \in Nat
    OBVIOUS
  <2> QED BY <1>3, <2>1, MaxIs
<1> QED BY <1>1, <1>2, <1>4

\* A walk visits every source once.
IsWalk(order, S) ==
  \E n \in Nat :
    /\ n = Cardinality(S)
    /\ order \in [1..n -> S]
    /\ \A s \in S : \E i \in 1..n : order[i] = s
    /\ \A i, j \in 1..n : order[i] = order[j] => i = j

LEMMA WalksAreWalks ==
  ASSUME NEW S, IsFiniteSet(S), NEW order \in SetToSeqs(S)
  PROVE  IsWalk(order, S)
<1>1. PICK n \in Nat : n = Cardinality(S)
  BY FS_CardinalityType
<1>2. order \in [1..n -> S] /\ \A i, j \in 1..n : i # j => order[i] # order[j]
  BY <1>1 DEF SetToSeqs
<1>3. order \in Injection(1..n, S)
  BY <1>2 DEF Injection, IsInjective
<1>4. IsFiniteSet(1..n) /\ Cardinality(1..n) = n
  BY FS_Interval
<1>5. order \in Surjection(1..n, S)
  BY <1>1, <1>3, <1>4, FS_Injection
<1>6. \A s \in S : \E i \in 1..n : order[i] = s
  BY <1>5 DEF Surjection
<1> QED BY <1>1, <1>2, <1>6 DEF IsWalk

LEMMA OrdersAreWalks ==
  ASSUME NEW rs \in Seq(Inputs), NEW order \in Orders(rs)
  PROVE  IsWalk(order, Sources(rs))
BY SourcesFinite, WalksAreWalks DEF Orders

\* The first amount on the walk is the amount of a source that has one.
LEMMA ReferenceIs ==
  ASSUME NEW amt, NEW order, IsWalk(order, DOMAIN amt), Priced(amt) # {}
  PROVE  \E r \in Priced(amt) : Reference(order, amt) = amt[r]
<1>1. PICK n \in Nat : /\ order \in [1..n -> DOMAIN amt]
                       /\ \A s \in DOMAIN amt : \E i \in 1..n : order[i] = s
  BY DEF IsWalk
<1>2. PICK T : T = {i \in DOMAIN order : order[i] \in Priced(amt)}
  OBVIOUS
<1>3. T # {} /\ \A i \in T : i \in Nat
  BY <1>1, <1>2 DEF Priced
<1>4. Min(T) \in T
  BY <1>3, MinIs
<1> QED BY <1>2, <1>4 DEF Reference

-----------------------------------------------------------------------------
(* The tolerance                                                           *)

LEMMA AbsIs ==
  ASSUME NEW a \in Int
  PROVE  Abs(a) \in Nat /\ a =< Abs(a) /\ -a =< Abs(a) /\ (Abs(a) = a \/ Abs(a) = -a)
BY DEF Abs

LEMMA WithinReflexive ==
  ASSUME NEW r, IsRuleSet(r), NEW a \in Int
  PROVE  Within(r, a, a)
<1>1. Abs(a - a) = 0
  BY DEF Abs
<1>2. r.abs * 100 \in Nat /\ r.pct \in Nat
  BY DEF IsRuleSet
<1>3. Abs(a) * r.pct \in Nat /\ Larger(Abs(a), Abs(a)) = Abs(a)
  BY <1>2, AbsIs DEF Larger
<1>4. Larger(r.abs * 100, Abs(a) * r.pct) \in Nat
  BY <1>2, <1>3 DEF Larger
<1> QED BY <1>1, <1>3, <1>4 DEF Within

LEMMA WithinSymmetric ==
  ASSUME NEW r, NEW a \in Int, NEW b \in Int
  PROVE  Within(r, a, b) <=> Within(r, b, a)
<1>1. Abs(a - b) = Abs(b - a)
  BY DEF Abs
<1>2. Larger(Abs(a), Abs(b)) = Larger(Abs(b), Abs(a))
  BY AbsIs DEF Larger
<1> QED BY <1>1, <1>2 DEF Within

-----------------------------------------------------------------------------
(* The buckets of the majority strategy                                    *)

\* The open buckets that position i of the walk may fall into, and the one
\* it gets, given what the earlier positions got.
OpenTo(rule, order, amt, f, i) ==
  {j \in 1..(i - 1) : f[j] = j /\ Fits(rule, order, amt, i, j)}

OpenerOf(rule, order, amt, f, i) ==
  IF OpenTo(rule, order, amt, f, i) = {} THEN i ELSE Min(OpenTo(rule, order, amt, f, i))

\* It depends on the earlier positions only.
LEMMA OpenerLocal ==
  ASSUME NEW rule, NEW order, NEW amt, NEW f, NEW g, NEW i \in Nat,
         \A j \in 1..(i - 1) : f[j] = g[j]
  PROVE  OpenerOf(rule, order, amt, f, i) = OpenerOf(rule, order, amt, g, i)
<1>1. OpenTo(rule, order, amt, f, i) = OpenTo(rule, order, amt, g, i)
  BY DEF OpenTo
<1> QED BY <1>1 DEF OpenerOf

AreOpeners(rule, order, amt, f, S) == f = [i \in S |-> OpenerOf(rule, order, amt, f, i)]

\* So a walk of any length has its openers.
LEMMA OpenersExist ==
  ASSUME NEW rule, NEW order, NEW amt, NEW n \in Nat
  PROVE  \E f : AreOpeners(rule, order, amt, f, 1..n)
<1> USE DEF AreOpeners
<1>1. PICK S : S = {k \in 0..n : \E f : f = [i \in 1..k |-> OpenerOf(rule, order, amt, f, i)]}
  OBVIOUS
<1>2. 0 \in S
  <2>1. PICK f : f = [i \in 1..0 |-> i]
    OBVIOUS
  <2>2. f = [i \in 1..0 |-> OpenerOf(rule, order, amt, f, i)]
    BY <2>1
  <2>3. (\E g : g = [i \in 1..0 |-> OpenerOf(rule, order, amt, g, i)]) /\ 0 \in 0..n
    BY <2>2
  <2> QED BY <1>1, <2>3, Zenon
<1>3. ASSUME NEW k \in 1..n, k - 1 \in S PROVE k \in S
  <2>1. PICK f : f = [i \in 1..(k - 1) |-> OpenerOf(rule, order, amt, f, i)]
    BY <1>1, <1>3
  <2>2. PICK g : g = [i \in 1..k |-> IF i = k THEN OpenerOf(rule, order, amt, f, k) ELSE f[i]]
    OBVIOUS
  <2>3. \A i \in 1..(k - 1) : f[i] = g[i]
    BY <2>2
  <2>4. ASSUME NEW i \in 1..k PROVE g[i] = OpenerOf(rule, order, amt, g, i)
    <3>1. OpenerOf(rule, order, amt, f, i) = OpenerOf(rule, order, amt, g, i)
      BY <2>3, OpenerLocal
    <3>2. CASE i = k
      BY <2>2, <3>1, <3>2
    <3>3. CASE i # k
      <4>1. f[i] = OpenerOf(rule, order, amt, f, i)
        BY <2>1, <3>3
      <4> QED BY <2>2, <3>1, <3>3, <4>1
    <3> QED BY <3>2, <3>3
  <2>5. g = [i \in 1..k |-> OpenerOf(rule, order, amt, g, i)]
    BY <2>2, <2>4
  <2> QED BY <1>1, <2>5
<1>4. n \in S
  BY <1>2, <1>3, UpTo
<1> QED BY <1>1, <1>4

LEMMA BucketsUnfold ==
  ASSUME NEW rule, NEW order, NEW amt, NEW n \in Nat, DOMAIN order = 1..n,
         NEW i \in 1..n
  PROVE  /\ DOMAIN Buckets(rule, order, amt) = 1..n
         /\ Buckets(rule, order, amt)[i]
              = OpenerOf(rule, order, amt, Buckets(rule, order, amt), i)
<1>1. Buckets(rule, order, amt)
        = CHOOSE f : f = [j \in DOMAIN order |-> OpenerOf(rule, order, amt, f, j)]
  BY Zenon DEF Buckets, OpenerOf, OpenTo
<1>2. PICK g : AreOpeners(rule, order, amt, g, DOMAIN order)
  BY OpenersExist
<1>3. PICK f : /\ f = Buckets(rule, order, amt)
              /\ f = [j \in DOMAIN order |-> OpenerOf(rule, order, amt, f, j)]
  BY <1>1, <1>2, Zenon DEF AreOpeners
<1> QED BY <1>3

LEMMA MinUnique ==
  ASSUME NEW T \in SUBSET Nat, NEW x \in T, \A y \in T : x =< y
  PROVE  Min(T) = x
<1>1. Min(T) \in T /\ Min(T) =< x
  BY MinIs
<1>2. x =< Min(T) /\ x \in Nat /\ Min(T) \in Nat
  BY <1>1
<1> QED BY <1>1, <1>2

Amounts(amt) == \A s \in Priced(amt) : amt[s] \in Int

\* Equal amounts get the same bucket, wherever the walk meets them.
LEMMA EqualTogether ==
  ASSUME NEW rule, IsRuleSet(rule), NEW amt, Amounts(amt), NEW n \in Nat,
         NEW order \in [1..n -> DOMAIN amt], NEW i \in 1..n, NEW j \in 1..n, i < j,
         order[i] \in Priced(amt), order[j] \in Priced(amt), amt[order[i]] = amt[order[j]]
  PROVE  Buckets(rule, order, amt)[i] = Buckets(rule, order, amt)[j]
<1>1. PICK b : b = Buckets(rule, order, amt)
  OBVIOUS
<1>2. PICK before : before = OpenTo(rule, order, amt, b, i)
  OBVIOUS
<1>3. PICK after : after = OpenTo(rule, order, amt, b, j)
  OBVIOUS
<1>4. /\ b[i] = IF before = {} THEN i ELSE Min(before)
      /\ b[j] = IF after = {} THEN j ELSE Min(after)
  BY <1>1, <1>2, <1>3, BucketsUnfold DEF OpenerOf
<1>5. before \in SUBSET (1..(i - 1)) /\ after \in SUBSET (1..(j - 1))
  BY <1>2, <1>3 DEF OpenTo
<1>6. \A k \in 1..(i - 1) : k \in before <=> k \in after
  <2>1. \A k \in 1..(i - 1) :
          Fits(rule, order, amt, i, k) <=> Fits(rule, order, amt, j, k)
    BY DEF Fits
  <2>2. \A k \in 1..(i - 1) : k \in 1..(j - 1)
    OBVIOUS
  <2> QED BY <1>2, <1>3, <2>1, <2>2 DEF OpenTo
<1>7. after \in SUBSET Nat /\ before \in SUBSET Nat
  BY <1>5
<1>8. CASE before = {}
  <2>1. b[i] = i
    BY <1>4, <1>8
  <2>2. Within(rule, amt[order[j]], amt[order[i]])
    BY WithinReflexive DEF Amounts
  <2>3. i \in after
    BY <1>3, <2>1, <2>2 DEF OpenTo, Fits
  <2>4. \A k \in after : i =< k
    BY <1>5, <1>6, <1>8
  <2>5. Min(after) = i
    BY <1>7, <2>3, <2>4, MinUnique
  <2> QED BY <1>1, <1>4, <2>1, <2>3, <2>5
<1>9. CASE before # {}
  <2>1. PICK m \in before : m = Min(before) /\ \A k \in before : m =< k
    BY <1>7, <1>9, MinIs
  <2>2. m \in after /\ m =< i
    BY <1>5, <1>6, <2>1
  <2>3. \A k \in after : m =< k
    BY <1>5, <1>6, <2>1, <2>2
  <2>4. Min(after) = m
    BY <1>7, <2>2, <2>3, MinUnique
  <2> QED BY <1>1, <1>4, <1>9, <2>1, <2>2, <2>4
<1> QED BY <1>8, <1>9

-----------------------------------------------------------------------------
(* The strategies                                                          *)

LEMMA ComparedIs ==
  ASSUME NEW results, NEW flagged
  PROVE  /\ Compared(results, flagged).status \in {"MATCHED", "MISMATCHED"}
         /\ Compared(results, flagged).status = "MATCHED" <=> flagged = {}
         /\ Compared(results, flagged).flagged = flagged
BY DEF Compared, Mismatched

\* Exact matching accepts when, and only when, all amounts are the same.
LEMMA ExactIs ==
  ASSUME NEW amt, NEW order, IsWalk(order, DOMAIN amt)
  PROVE  /\ CompareExact(order, amt).status \in {"MATCHED", "MISMATCHED"}
         /\ CompareExact(order, amt).status = "MATCHED"
                <=> \A s, t \in Priced(amt) : amt[s] = amt[t]
         /\ \A s \in CompareExact(order, amt).flagged :
              \E t \in Priced(amt) \ CompareExact(order, amt).flagged : amt[s] # amt[t]
<1>1. PICK flagged : /\ flagged = {s \in Priced(amt) : amt[s] # Reference(order, amt)}
                    /\ CompareExact(order, amt) = Compared(DOMAIN amt, flagged)
  BY DEF CompareExact
<1>2. CASE Priced(amt) = {}
  BY <1>1, <1>2, ComparedIs
<1>3. CASE Priced(amt) # {}
  <2>1. PICK r \in Priced(amt) : Reference(order, amt) = amt[r]
    BY <1>3, ReferenceIs
  <2>2. flagged = {} <=> \A s, t \in Priced(amt) : amt[s] = amt[t]
    BY <1>1, <2>1
  <2>3. r \in Priced(amt) \ flagged /\ \A s \in flagged : amt[s] # amt[r]
    BY <1>1, <2>1
  <2> QED BY <1>1, <2>2, <2>3, ComparedIs
<1> QED BY <1>2, <1>3

\* With a tolerance, what is flagged is out of it for some source that is not,
\* and what is matched is within it of one of them.
LEMMA ToleranceIs ==
  ASSUME NEW rule, IsRuleSet(rule), NEW amt, Amounts(amt),
         NEW order, IsWalk(order, DOMAIN amt)
  PROVE  LET verdict == CompareWithTolerance(rule, order, amt) IN
         /\ verdict.status \in {"MATCHED", "MISMATCHED"}
         /\ \A s \in verdict.flagged :
              \E t \in Priced(amt) \ verdict.flagged : ~Within(rule, amt[s], amt[t])
         /\ Priced(amt) # {} =>
              \E r \in Priced(amt) :
                verdict.status = "MATCHED"
                  <=> \A s \in Priced(amt) : Within(rule, amt[s], amt[r])
         /\ Priced(amt) = {} => verdict.status = "MATCHED"
<1>1. PICK flagged :
         /\ flagged = {s \in Priced(amt) : ~Within(rule, amt[s], Reference(order, amt))}
         /\ CompareWithTolerance(rule, order, amt) = Compared(DOMAIN amt, flagged)
  BY DEF CompareWithTolerance
<1>2. CASE Priced(amt) = {}
  BY <1>1, <1>2, ComparedIs
<1>3. CASE Priced(amt) # {}
  <2>1. PICK r \in Priced(amt) : Reference(order, amt) = amt[r]
    BY <1>3, ReferenceIs
  <2>2. flagged = {} <=> \A s \in Priced(amt) : Within(rule, amt[s], amt[r])
    BY <1>1, <2>1
  <2>3. Within(rule, amt[r], amt[r])
    BY WithinReflexive DEF Amounts
  <2>4. r \in Priced(amt) \ flagged /\ \A s \in flagged : ~Within(rule, amt[s], amt[r])
    BY <1>1, <2>1, <2>3
  <2> QED BY <1>1, <1>3, <2>2, <2>4, ComparedIs
<1> QED BY <1>2, <1>3

Bucket(b, n, k) == {j \in 1..n : b[j] = b[k]}

Outnumbered(b, n, k) ==
  \E j \in 1..n : Cardinality(Bucket(b, n, j)) > Cardinality(Bucket(b, n, k))

\* What the majority strategy flags is outnumbered by some other bucket.
LEMMA MajorityFlags ==
  ASSUME NEW rule, NEW amt, NEW n \in Nat, NEW order \in [1..n -> DOMAIN amt]
  PROVE  \E flagged :
           /\ CompareMajority(rule, order, amt) = Compared(DOMAIN amt, flagged)
           /\ \A s \in flagged : \E k \in 1..n :
                s = order[k] /\ Outnumbered(Buckets(rule, order, amt), n, k)
<1>1. PICK b : b = Buckets(rule, order, amt)
  OBVIOUS
<1>2. PICK size : size = [i \in 1..n |-> BucketSize(b, i)]
  OBVIOUS
<1>3. PICK losers : losers = {k \in 1..n : \E j \in 1..n : size[j] > size[k]}
  OBVIOUS
<1>4. CompareMajority(rule, order, amt) = Compared(DOMAIN amt, {order[i] : i \in losers})
  BY <1>1, <1>2, <1>3 DEF CompareMajority
<1>5. PICK flagged : flagged = {order[i] : i \in losers}
  OBVIOUS
<1>6. ASSUME NEW k \in losers PROVE k \in 1..n /\ Outnumbered(b, n, k)
  <2>1. k \in 1..n
    BY <1>3
  <2>2. DOMAIN b = 1..n
    BY <1>1, <2>1, BucketsUnfold
  <2>3. \A i \in 1..n : size[i] = Cardinality(Bucket(b, n, i))
    BY <1>2, <2>2 DEF BucketSize, Bucket
  <2> QED BY <1>3, <2>1, <2>3 DEF Outnumbered
<1>7. \A s \in flagged : \E k \in 1..n : s = order[k] /\ Outnumbered(b, n, k)
  BY <1>5, <1>6
<1>8. CompareMajority(rule, order, amt) = Compared(DOMAIN amt, flagged)
  BY <1>4, <1>5
<1> QED BY <1>1, <1>7, <1>8

\* An amount that more than half of the sources report is never flagged.
LEMMA MajorityKeepsMajority ==
  ASSUME NEW rule, IsRuleSet(rule), NEW amt, Amounts(amt), IsFiniteSet(DOMAIN amt),
         NEW order, IsWalk(order, DOMAIN amt), NEW s \in Priced(amt),
         2 * Cardinality({t \in Priced(amt) : amt[t] = amt[s]}) > Cardinality(DOMAIN amt)
  PROVE  s \notin CompareMajority(rule, order, amt).flagged
<1>1. PICK n \in Nat : /\ n = Cardinality(DOMAIN amt)
                       /\ order \in [1..n -> DOMAIN amt]
                       /\ \A t \in DOMAIN amt : \E i \in 1..n : order[i] = t
                       /\ \A i, j \in 1..n : order[i] = order[j] => i = j
  BY DEF IsWalk
<1>2. PICK b : b = Buckets(rule, order, amt)
  OBVIOUS
<1>3. PICK E : E = {t \in Priced(amt) : amt[t] = amt[s]}
  OBVIOUS
<1>4. PICK I : I = {i \in 1..n : order[i] \in E}
  OBVIOUS
<1>5. IsFiniteSet(1..n) /\ Cardinality(1..n) = n
  BY FS_Interval
<1>6. IsFiniteSet(I) /\ Cardinality(I) = Cardinality(E) /\ Cardinality(I) \in Nat
  <2>1. PICK f : f = [i \in I |-> order[i]]
    OBVIOUS
  <2>2. f \in [I -> E] /\ \A i, j \in I : f[i] = f[j] => i = j
    BY <1>1, <1>4, <2>1
  <2>3. \A t \in E : \E i \in I : f[i] = t
    BY <1>1, <1>3, <1>4, <2>1 DEF Priced
  <2>4. f \in Bijection(I, E)
    BY <2>2, <2>3 DEF Bijection, Injection, Surjection, IsInjective
  <2>5. IsFiniteSet(I) /\ Cardinality(I) \in Nat
    BY <1>4, <1>5, FS_Subset, FS_CardinalityType
  <2> QED BY <2>4, <2>5, FS_Bijection DEF ExistsBijection
<1>7. PICK k \in 1..n : order[k] = s
  BY <1>1 DEF Priced
<1>8. ASSUME NEW i \in I PROVE i \in Bucket(b, n, k)
  <2>1. i \in 1..n /\ order[i] \in Priced(amt) /\ amt[order[i]] = amt[order[k]]
    BY <1>3, <1>4, <1>7
  <2>2. b[i] = b[k]
    <3>1. CASE i = k
      BY <3>1
    <3>2. CASE i < k
      BY <1>1, <1>2, <1>7, <2>1, <3>2, EqualTogether
    <3>3. CASE k < i
      BY <1>1, <1>2, <1>7, <2>1, <3>3, EqualTogether
    <3> QED BY <2>1, <3>1, <3>2, <3>3
  <2> QED BY <2>1, <2>2 DEF Bucket
<1>9. ASSUME NEW j \in 1..n
      PROVE  /\ Bucket(b, n, j) \subseteq 1..n
             /\ IsFiniteSet(Bucket(b, n, j)) /\ Cardinality(Bucket(b, n, j)) \in Nat
  <2>1. Bucket(b, n, j) \subseteq 1..n
    BY DEF Bucket
  <2> QED BY <1>5, <2>1, FS_Subset, FS_CardinalityType
<1>10. 2 * Cardinality(Bucket(b, n, k)) > n
  <2>1. I \in SUBSET Bucket(b, n, k)
    BY <1>8
  <2>2. Cardinality(I) =< Cardinality(Bucket(b, n, k))
    BY <1>9, <2>1, FS_Subset
  <2>3. 2 * Cardinality(I) > n
    BY <1>1, <1>3, <1>6
  <2> QED BY <1>6, <1>9, <2>2, <2>3
<1>11. ASSUME NEW j \in 1..n, Cardinality(Bucket(b, n, j)) > Cardinality(Bucket(b, n, k))
       PROVE  FALSE
  <2>1. Bucket(b, n, j) \cap Bucket(b, n, k) # {}
    <3>1. Cardinality(Bucket(b, n, j)) + Cardinality(Bucket(b, n, k)) > Cardinality(1..n)
      BY <1>5, <1>9, <1>10, <1>11
    <3> QED BY <1>5, <1>9, <3>1, FS_MajoritiesIntersect
  <2>2. b[j] = b[k]
    BY <2>1 DEF Bucket
  <2>3. Bucket(b, n, j) = Bucket(b, n, k)
    BY <2>2 DEF Bucket
  <2> QED BY <1>9, <1>11, <2>3
<1>12. ASSUME NEW i \in 1..n, order[i] = s PROVE i = k
  BY <1>1, <1>7, <1>12
<1>13. PICK flagged :
         /\ CompareMajority(rule, order, amt) = Compared(DOMAIN amt, flagged)
         /\ \A t \in flagged : \E i \in 1..n : t = order[i] /\ Outnumbered(b, n, i)
  <2>1. order \in [1..n -> DOMAIN amt]
    BY <1>1
  <2> QED BY <1>2, <2>1, MajorityFlags
<1>14. ~Outnumbered(b, n, k)
  BY <1>11 DEF Outnumbered
<1>15. s \notin flagged
  BY <1>12, <1>13, <1>14
<1>16. CompareMajority(rule, order, amt).flagged = flagged
  <2>1. Compared(DOMAIN amt, flagged).flagged = flagged
    BY ComparedIs
  <2> QED BY <1>13, <2>1
<1> QED BY <1>15, <1>16

\* Between two sources nobody is outnumbered.
LEMMA MajorityOfTwo ==
  ASSUME NEW rule, NEW amt, Cardinality(DOMAIN amt) = 2, NEW order, IsWalk(order, DOMAIN amt)
  PROVE  CompareMajority(rule, order, amt).status = "MATCHED"
<1>1. PICK n \in Nat : n = 2 /\ order \in [1..n -> DOMAIN amt]
  BY DEF IsWalk
<1>2. PICK b : b = Buckets(rule, order, amt)
  OBVIOUS
<1>3. \A k, j \in 1..n : Cardinality(Bucket(b, n, j)) = Cardinality(Bucket(b, n, k))
  <2>1. CASE b[1] = b[2]
    <3>1. Bucket(b, n, 1) = Bucket(b, n, 2)
      BY <2>1 DEF Bucket
    <3> QED BY <1>1, <3>1
  <2>2. CASE b[1] # b[2]
    <3>1. Bucket(b, n, 1) = {1} /\ Bucket(b, n, 2) = {2}
      BY <1>1, <2>2 DEF Bucket
    <3>2. Cardinality(Bucket(b, n, 1)) = 1 /\ Cardinality(Bucket(b, n, 2)) = 1
      BY <3>1, FS_Singleton
    <3> QED BY <1>1, <3>2
  <2> QED BY <2>1, <2>2
<1>4. \A k \in 1..n : Cardinality(Bucket(b, n, k)) \in Nat
  <2>1. \A k \in 1..n : Bucket(b, n, k) \in SUBSET (1..n)
    BY DEF Bucket
  <2>2. IsFiniteSet(1..n)
    BY FS_Interval
  <2> QED BY <2>1, <2>2, FS_Subset, FS_CardinalityType
<1>5. PICK flagged :
        /\ CompareMajority(rule, order, amt) = Compared(DOMAIN amt, flagged)
        /\ \A s \in flagged : \E k \in 1..n : s = order[k] /\ Outnumbered(b, n, k)
  <2>1. order \in [1..n -> DOMAIN amt]
    BY <1>1
  <2> QED BY <1>2, <2>1, MajorityFlags
<1>6. flagged = {}
  BY <1>3, <1>4, <1>5 DEF Outnumbered
<1> QED BY <1>5, <1>6, ComparedIs

-----------------------------------------------------------------------------
(* The verdict of a run                                                    *)

\* What a finished run has matched.
MatchInv ==
  /\ recs \in Seq(Inputs) /\ rules \in RuleSets
  /\ out # NotRun =>
       recs # <<>> /\ \E order \in Orders(recs) : out = MatchRecords(recs, rules, order, late)

THEOREM MatchInvariant == Spec => []MatchInv
<1>1. Init => MatchInv
  BY DEF Init, MatchInv
<1>2. MatchInv /\ [Next]_vars => MatchInv'
  <2> SUFFICES ASSUME MatchInv, [Next]_vars PROVE MatchInv'
    OBVIOUS
  <2>1. ASSUME NEW r \in Inputs, Receive(r) PROVE MatchInv'
    BY <2>1 DEF Receive, MatchInv
  <2>2. CASE TimeOut
    BY <2>2 DEF TimeOut, MatchInv
  <2>3. CASE Match
    BY <2>3 DEF Match, MatchInv
  <2>4. CASE Done \/ UNCHANGED vars
    BY <2>4 DEF Done, vars, MatchInv
  <2> QED BY <2>1, <2>2, <2>3, <2>4 DEF Next
<1> QED BY <1>1, <1>2, PTL DEF Spec

LEMMA AmountsAre ==
  ASSUME MatchInv
  PROVE  /\ DOMAIN amounts = Sources(recs) /\ IsFiniteSet(Sources(recs))
         /\ Cardinality(Sources(recs)) \in Nat /\ IsRuleSet(rules)
         /\ BadAmount \notin Range(amounts) => Amounts(amounts)
<1>1. DOMAIN amounts = Sources(recs)
  BY DEF amounts
<1>2. ASSUME BadAmount \notin Range(amounts), NEW s \in Priced(amounts)
      PROVE  amounts[s] \in Int
  <2>1. s \in Sources(recs) /\ amounts[s] # NoAmount
    BY <1>1 DEF Priced
  <2>2. amounts[s] # BadAmount
    BY <1>1, <1>2, <2>1 DEF Range
  <2>3. PICK i \in DOMAIN recs : Latest(recs)[s] = recs[i]
    BY <2>1, LatestIs DEF MatchInv
  <2>4. amounts[s] = recs[i].amt /\ recs[i] \in Inputs
    BY <2>1, <2>3 DEF amounts, MatchInv
  <2> QED BY <2>1, <2>2, <2>4, InputsAssumption
<1> QED BY <1>1, <1>2, SourcesFinite, RuleSetsAssumption DEF MatchInv, Amounts

\* Complete, with amounts that parse and one currency: the strategy decides.
Decided ==
  /\ recs # <<>> /\ Complete(recs, rules) /\ BadAmount \notin Range(amounts)
  /\ ~(Cardinality({Latest(recs)[s].cur : s \in Sources(recs)}) > 1)

ByStrategy(order) ==
  CASE rules.strategy = "Exact"     -> CompareExact(order, amounts)
    [] rules.strategy = "Tolerance" -> CompareWithTolerance(rules, order, amounts)
    [] rules.strategy = "Majority"  -> CompareMajority(rules, order, amounts)

LEMMA StrategyDecides ==
  ASSUME MatchInv, Decided, NEW order
  PROVE  MatchRecords(recs, rules, order, late) = ByStrategy(order)
<1>1. PICK cur : cur = {Latest(recs)[s].cur : s \in Sources(recs)}
  OBVIOUS
<1>2. rules.strategy \in {"Exact", "Tolerance", "Majority"}
  BY AmountsAre DEF IsRuleSet
<1> QED BY <1>1, <1>2 DEF MatchRecords, amounts, Decided, ByStrategy

\* Otherwise the walk plays no part.
LEMMA WalkIgnored ==
  ASSUME MatchInv, ~Decided, NEW one, NEW other
  PROVE  MatchRecords(recs, rules, one, late) = MatchRecords(recs, rules, other, late)
<1>1. PICK cur : cur = {Latest(recs)[s].cur : s \in Sources(recs)}
  OBVIOUS
<1>2. late \/ ~late
  OBVIOUS
<1> QED BY <1>1, <1>2 DEF MatchRecords, amounts, Decided

LEMMA ComparableIsDecided ==
  ASSUME MatchInv, Comparable
  PROVE  Decided
<1>1. PICK cur : cur = {Latest(recs)[s].cur : s \in Sources(recs)}
  OBVIOUS
<1>2. ~(Cardinality(cur) > 1)
  <2>1. CASE cur = {}
    <3>1. Cardinality(cur) = 0
      BY <2>1, FS_EmptySet
    <3> QED BY <3>1
  <2>2. CASE cur # {}
    <3>1. PICK c \in cur : TRUE
      BY <2>2
    <3>2. \A d \in cur : d = c
      BY <1>1, <3>1 DEF Comparable
    <3>3. cur = {c}
      BY <3>1, <3>2
    <3>4. Cardinality(cur) = 1
      BY <3>3, FS_Singleton
    <3> QED BY <3>4
  <2> QED BY <2>1, <2>2
<1> QED BY <1>1, <1>2 DEF Decided, Comparable, MatchInv

LEMMA ComparableVerdict ==
  ASSUME MatchInv, Comparable
  PROVE  /\ Amounts(amounts)
         /\ \E order : IsWalk(order, DOMAIN amounts) /\ out = ByStrategy(order)
<1>1. PICK order \in Orders(recs) : out = MatchRecords(recs, rules, order, late)
  BY DEF MatchInv, Comparable
<1>2. IsWalk(order, DOMAIN amounts)
  BY AmountsAre, OrdersAreWalks DEF MatchInv
<1>3. out = ByStrategy(order)
  BY <1>1, ComparableIsDecided, StrategyDecides
<1>4. Amounts(amounts)
  BY AmountsAre DEF Comparable
<1> QED BY <1>2, <1>3, <1>4

\* The exact strategy matches exactly the records that agree.
LEMMA ExactIffEqualLemma ==
  MatchInv => ExactIffEqual
<1> SUFFICES ASSUME MatchInv, Comparable, rules.strategy = "Exact"
             PROVE  out.status = "MATCHED"
                      <=> \A s, t \in Priced(amounts) : amounts[s] = amounts[t]
  BY DEF ExactIffEqual
<1>1. PICK order : IsWalk(order, DOMAIN amounts) /\ out = ByStrategy(order)
  BY ComparableVerdict
<1>2. out = CompareExact(order, amounts)
  BY <1>1 DEF ByStrategy
<1> QED BY <1>1, <1>2, ExactIs

\* Whatever the records, the sources and the walk: exact matching accepts
\* when, and only when, the amounts present are the same (matcher.rs,
\* compare_exact).
THEOREM ExactIffEqualInvariant == Spec => []ExactIffEqual
BY MatchInvariant, ExactIffEqualLemma, PTL

LEMMA FlaggedDisagreesLemma ==
  MatchInv => FlaggedDisagrees
<1> SUFFICES ASSUME MatchInv, Comparable, rules.strategy \in {"Exact", "Tolerance"},
                    NEW s \in out.flagged
             PROVE  \E t \in Priced(amounts) \ out.flagged :
                      IF rules.strategy = "Exact" THEN amounts[s] # amounts[t]
                      ELSE ~Within(rules, amounts[s], amounts[t])
  BY DEF FlaggedDisagrees
<1>1. PICK order : IsWalk(order, DOMAIN amounts) /\ out = ByStrategy(order)
  BY ComparableVerdict
<1>2. CASE rules.strategy = "Exact"
  <2>1. out = CompareExact(order, amounts)
    BY <1>1, <1>2 DEF ByStrategy
  <2> QED BY <1>1, <1>2, <2>1, ExactIs
<1>3. CASE rules.strategy = "Tolerance"
  <2>1. out = CompareWithTolerance(rules, order, amounts)
    BY <1>1, <1>3 DEF ByStrategy
  <2>2. IsRuleSet(rules) /\ Amounts(amounts)
    BY AmountsAre, ComparableVerdict
  <2>3. \E t \in Priced(amounts) \ out.flagged : ~Within(rules, amounts[s], amounts[t])
    BY <1>1, <2>1, <2>2, ToleranceIs
  <2> QED BY <1>3, <2>3
<1> QED BY <1>2, <1>3

\* No false alarm: whoever is flagged by the exact or the tolerance strategy
\* disagrees with a source that is not (matcher.rs, compare_exact and
\* compare_with_tolerance).
THEOREM FlaggedDisagreesInvariant == Spec => []FlaggedDisagrees
BY MatchInvariant, FlaggedDisagreesLemma, PTL

LEMMA StrictMajorityUnflaggedLemma ==
  MatchInv => StrictMajorityUnflagged
<1> SUFFICES ASSUME MatchInv, Comparable, rules.strategy = "Majority",
                    NEW s \in Priced(amounts),
                    2 * Cardinality({t \in Priced(amounts) : amounts[t] = amounts[s]})
                      > Cardinality(Sources(recs))
             PROVE  s \notin out.flagged
  BY DEF StrictMajorityUnflagged
<1>1. PICK order : IsWalk(order, DOMAIN amounts) /\ out = ByStrategy(order)
  BY ComparableVerdict
<1>2. out = CompareMajority(rules, order, amounts)
  BY <1>1 DEF ByStrategy
<1>3. IsRuleSet(rules) /\ Amounts(amounts) /\ IsFiniteSet(DOMAIN amounts)
      /\ DOMAIN amounts = Sources(recs)
  BY AmountsAre, ComparableVerdict
<1> QED BY <1>1, <1>2, <1>3, MajorityKeepsMajority

\* For any number of sources: an amount that more than half of them report is
\* never the outlier, although a bucket may hold amounts that are out of
\* tolerance with each other (matcher.rs, compare_majority).
THEOREM StrictMajorityUnflaggedInvariant == Spec => []StrictMajorityUnflagged
BY MatchInvariant, StrictMajorityUnflaggedLemma, PTL

\* A pair within tolerance differs by no more than the tolerance of any bound
\* on the magnitudes.
LEMMA WithinTop ==
  ASSUME NEW r, IsRuleSet(r), NEW a \in Int, NEW b \in Int, NEW top \in Nat,
         Abs(a) =< top, Abs(b) =< top, Within(r, a, b)
  PROVE  Abs(a - b) * 100 =< Larger(r.abs * 100, top * r.pct)
<1>1. PICK m \in Nat : m = Larger(Abs(a), Abs(b)) /\ m =< top
  BY AbsIs DEF Larger
<1>2. PICK p \in Nat : p = r.pct
  BY DEF IsRuleSet
<1>3. PICK least \in Nat : least = r.abs * 100
  BY DEF IsRuleSet
<1>4. m * p =< top * p /\ m * p \in Nat /\ top * p \in Nat
  <2>1. PICK d \in Nat : top = m + d
    <3>1. top - m \in Nat /\ top = m + (top - m)
      BY <1>1
    <3> QED BY <3>1
  <2>2. (m + d) * p = m * p + d * p
    OBVIOUS
  <2>3. m * p \in Nat /\ d * p \in Nat
    OBVIOUS
  <2> QED BY <2>1, <2>2, <2>3
<1>5. Abs(a - b) \in Nat
  BY AbsIs
<1>6. PICK x \in Nat : x = m * p
  BY <1>4
<1>7. PICK y \in Nat : y = top * p
  BY <1>4
<1>8. Abs(a - b) * 100 =< Larger(least, x)
  BY <1>1, <1>2, <1>3, <1>6 DEF Within
<1>9. Larger(least, x) =< Larger(least, y) /\ Larger(least, x) \in Nat /\ Larger(least, y) \in Nat
  BY <1>4, <1>6, <1>7 DEF Larger
<1>10. Abs(a - b) * 100 =< Larger(least, y)
  BY <1>5, <1>8, <1>9
<1> QED BY <1>2, <1>3, <1>7, <1>10

LEMMA Triangle ==
  ASSUME NEW a \in Int, NEW b \in Int, NEW c \in Int
  PROVE  Abs(a - b) =< Abs(a - c) + Abs(b - c)
BY DEF Abs

LEMMA MatchedSpreadLemma ==
  MatchInv => MatchedSpread
<1> SUFFICES ASSUME MatchInv, Comparable, rules.strategy = "Tolerance",
                    out.status = "MATCHED", NEW s \in Priced(amounts), NEW t \in Priced(amounts),
                    NEW top, top = Max({Abs(amounts[u]) : u \in Priced(amounts)})
             PROVE  Abs(amounts[s] - amounts[t]) * 100
                      =< 2 * Larger(rules.abs * 100, top * rules.pct)
  BY DEF MatchedSpread
<1>1. PICK order : IsWalk(order, DOMAIN amounts) /\ out = ByStrategy(order)
  BY ComparableVerdict
<1>2. out = CompareWithTolerance(rules, order, amounts)
  BY <1>1 DEF ByStrategy
<1>3. IsRuleSet(rules) /\ Amounts(amounts) /\ IsFiniteSet(DOMAIN amounts)
  BY AmountsAre, ComparableVerdict
<1>4. PICK r \in Priced(amounts) :
        \A u \in Priced(amounts) : Within(rules, amounts[u], amounts[r])
  BY <1>1, <1>2, <1>3, ToleranceIs
<1>5. top \in Nat /\ \A u \in Priced(amounts) : Abs(amounts[u]) =< top
  <2>1. PICK T : T = {Abs(amounts[u]) : u \in Priced(amounts)}
    OBVIOUS
  <2>2. IsFiniteSet(T)
    <3>1. IsFiniteSet(Priced(amounts))
      BY <1>3, FS_Subset DEF Priced
    <3>2. PICK f : f = [u \in Priced(amounts) |-> Abs(amounts[u])]
      OBVIOUS
    <3>3. DOMAIN f = Priced(amounts) /\ T = {f[u] : u \in Priced(amounts)}
      BY <2>1, <3>2
    <3> QED BY <3>1, <3>3, ValuesFinite
  <2>3. \A u \in Priced(amounts) : Abs(amounts[u]) \in Nat
    BY <1>3, AbsIs DEF Amounts
  <2>4. T # {} /\ \A x \in T : x \in Nat
    BY <2>1, <2>3
  <2>5. Max(T) \in T /\ \A x \in T : x =< Max(T)
    BY <2>2, <2>4, FiniteMax
  <2> QED BY <2>1, <2>4, <2>5
<1>6. PICK a \in Int, b \in Int, c \in Int :
        a = amounts[s] /\ b = amounts[t] /\ c = amounts[r]
  BY <1>3 DEF Amounts
<1>7. PICK bound : bound = Larger(rules.abs * 100, top * rules.pct)
  OBVIOUS
<1>8. bound \in Int
  <2>1. rules.abs * 100 \in Int /\ top * rules.pct \in Int
    BY <1>3, <1>5 DEF IsRuleSet
  <2> QED BY <1>7, <2>1 DEF Larger
<1>9. Abs(a - c) * 100 =< bound /\ Abs(b - c) * 100 =< bound
  <2>1. Within(rules, a, c) /\ Within(rules, b, c)
    BY <1>4, <1>6
  <2>2. Abs(a) =< top /\ Abs(b) =< top /\ Abs(c) =< top
    BY <1>5, <1>6
  <2> QED BY <1>3, <1>5, <1>7, <2>1, <2>2, WithinTop
<1>10. Abs(a - b) \in Nat /\ Abs(a - c) \in Nat /\ Abs(b - c) \in Nat
  BY AbsIs
<1>11. Abs(a - b) * 100 =< 2 * bound
  <2>1. Abs(a - b) =< Abs(a - c) + Abs(b - c)
    BY Triangle
  <2> QED BY <1>8, <1>9, <1>10, <2>1
<1> QED BY <1>6, <1>7, <1>11

\* However many sources there are, two of a matched transaction are at most
\* two tolerances apart (matcher.rs, compare_with_tolerance).
THEOREM MatchedSpreadInvariant == Spec => []MatchedSpread
BY MatchInvariant, MatchedSpreadLemma, PTL

LEMMA TwoElements ==
  ASSUME NEW S, IsFiniteSet(S), Cardinality(S) = 2, NEW x \in S, NEW y \in S, x # y
  PROVE  S = {x, y}
<1>1. Cardinality({y}) = 1 /\ IsFiniteSet({y})
  BY FS_Singleton
<1>2. {y} \cup {x} = {x, y} /\ x \notin {y}
  OBVIOUS
<1>3. Cardinality({y} \cup {x}) = 2
  <2>1. Cardinality({y} \cup {x}) = Cardinality({y}) + 1
    BY <1>1, <1>2, FS_AddElement
  <2> QED BY <1>1, <2>1
<1>4. {x, y} \in SUBSET S
  OBVIOUS
<1>5. Cardinality({x, y}) = Cardinality(S)
  BY <1>2, <1>3
<1> QED BY <1>4, <1>5, FS_Subset

\* Between two sources the tolerance asks the same question from either end.
LEMMA ToleranceOfTwo ==
  ASSUME NEW rule, IsRuleSet(rule), NEW amt, Amounts(amt), IsFiniteSet(DOMAIN amt),
         Cardinality(DOMAIN amt) = 2, NEW one \in Priced(amt), NEW other \in Priced(amt),
         \A s \in Priced(amt) : Within(rule, amt[s], amt[one])
  PROVE  \A s \in Priced(amt) : Within(rule, amt[s], amt[other])
<1> SUFFICES ASSUME NEW s \in Priced(amt) PROVE Within(rule, amt[s], amt[other])
  OBVIOUS
<1>1. amt[s] \in Int /\ amt[one] \in Int /\ amt[other] \in Int
  BY DEF Amounts
<1>2. CASE one = other
  BY <1>2
<1>3. CASE one # other
  <2>1. s = one \/ s = other
    BY <1>3, TwoElements DEF Priced
  <2>2. CASE s = one
    BY <1>1, <2>2, WithinSymmetric
  <2>3. CASE s = other
    BY <1>1, <2>3, WithinReflexive
  <2> QED BY <2>1, <2>2, <2>3
<1> QED BY <1>2, <1>3

LEMMA StrategyOfTwo ==
  ASSUME NEW rule, IsRuleSet(rule), NEW amt, Amounts(amt), IsFiniteSet(DOMAIN amt),
         Cardinality(DOMAIN amt) = 2,
         NEW one, IsWalk(one, DOMAIN amt), NEW other, IsWalk(other, DOMAIN amt)
  PROVE  CompareWithTolerance(rule, one, amt).status
           = CompareWithTolerance(rule, other, amt).status
<1>1. CASE Priced(amt) = {}
  BY <1>1, ToleranceIs
<1>2. CASE Priced(amt) # {}
  <2>1. PICK r \in Priced(amt) : CompareWithTolerance(rule, one, amt).status = "MATCHED"
                                   <=> \A s \in Priced(amt) : Within(rule, amt[s], amt[r])
    BY <1>2, ToleranceIs
  <2>2. PICK q \in Priced(amt) : CompareWithTolerance(rule, other, amt).status = "MATCHED"
                                   <=> \A s \in Priced(amt) : Within(rule, amt[s], amt[q])
    BY <1>2, ToleranceIs
  <2>3. (\A s \in Priced(amt) : Within(rule, amt[s], amt[r]))
          <=> \A s \in Priced(amt) : Within(rule, amt[s], amt[q])
    BY ToleranceOfTwo
  <2>4. /\ CompareWithTolerance(rule, one, amt).status \in {"MATCHED", "MISMATCHED"}
        /\ CompareWithTolerance(rule, other, amt).status \in {"MATCHED", "MISMATCHED"}
    BY ToleranceIs
  <2> QED BY <2>1, <2>2, <2>3, <2>4
<1> QED BY <1>1, <1>2

LEMMA PairOrderIndependentLemma ==
  MatchInv => PairOrderIndependent
<1> SUFFICES ASSUME MatchInv, out # NotRun, Cardinality(Sources(recs)) = 2,
                    NEW other \in Orders(recs)
             PROVE  MatchRecords(recs, rules, other, late).status = out.status
  BY DEF PairOrderIndependent
<1>1. PICK one \in Orders(recs) : out = MatchRecords(recs, rules, one, late)
  BY DEF MatchInv
<1>2. CASE ~Decided
  BY <1>1, <1>2, WalkIgnored
<1>3. CASE Decided
  <2>1. /\ out = ByStrategy(one)
        /\ MatchRecords(recs, rules, other, late) = ByStrategy(other)
    BY <1>1, <1>3, StrategyDecides
  <2>2. IsWalk(one, DOMAIN amounts) /\ IsWalk(other, DOMAIN amounts)
    BY AmountsAre, OrdersAreWalks DEF MatchInv
  <2>3. /\ IsRuleSet(rules) /\ Amounts(amounts) /\ IsFiniteSet(DOMAIN amounts)
        /\ Cardinality(DOMAIN amounts) = 2
    BY <1>3, AmountsAre DEF Decided
  <2>4. CASE rules.strategy = "Exact"
    <3>1. CompareExact(one, amounts).status = CompareExact(other, amounts).status
      BY <2>2, ExactIs
    <3> QED BY <2>1, <2>4, <3>1 DEF ByStrategy
  <2>5. CASE rules.strategy = "Tolerance"
    <3>1. CompareWithTolerance(rules, one, amounts).status
            = CompareWithTolerance(rules, other, amounts).status
      BY <2>2, <2>3, StrategyOfTwo
    <3> QED BY <2>1, <2>5, <3>1 DEF ByStrategy
  <2>6. CASE rules.strategy = "Majority"
    <3>1. CompareMajority(rules, one, amounts).status
            = CompareMajority(rules, other, amounts).status
      BY <2>2, <2>3, MajorityOfTwo
    <3> QED BY <2>1, <2>6, <3>1 DEF ByStrategy
  <2> QED BY <2>3, <2>4, <2>5, <2>6 DEF IsRuleSet
<1> QED BY <1>2, <1>3

\* Whatever two sources reported: their verdict does not depend on which of
\* them the walk meets first (rules.rs, Tolerance::within; matcher.rs).
THEOREM PairOrderIndependentInvariant == Spec => []PairOrderIndependent
BY MatchInvariant, PairOrderIndependentLemma, PTL

-----------------------------------------------------------------------------
(* Deduplication                                                           *)

\* The positions of the latest records.
Newest(rs) == {i \in DOMAIN rs : \A j \in DOMAIN rs : rs[j].src = rs[i].src => j =< i}

LEMMA NoSources ==
  ASSUME NEW rs \in Seq(Inputs)
  PROVE  rs = <<>> <=> Sources(rs) = {}
<1>1. PICK n \in Nat : n = Len(rs) /\ DOMAIN rs = 1..n
  OBVIOUS
<1>2. CASE n = 0
  <2>1. rs = <<>> /\ DOMAIN rs = {}
    BY <1>1, <1>2
  <2> QED BY <2>1 DEF Sources
<1>3. CASE n # 0
  <2>1. 1 \in DOMAIN rs /\ rs # <<>>
    BY <1>1, <1>3
  <2> QED BY <2>1 DEF Sources
<1> QED BY <1>2, <1>3

\* The latest records alone, in any order, have the same sources and the same
\* latest records.
LEMMA KeptIs ==
  ASSUME NEW rs \in Seq(Inputs), NEW kept \in SetToSeqs({rs[i] : i \in Newest(rs)})
  PROVE  /\ Sources(kept) = Sources(rs) /\ Latest(kept) = Latest(rs)
         /\ kept = <<>> <=> rs = <<>>
<1>1. PICK R : R = {rs[i] : i \in Newest(rs)}
  OBVIOUS
<1>2. R \subseteq Inputs /\ IsFiniteSet(R)
  <2>1. IsFiniteSet(Newest(rs))
    <3>1. IsFiniteSet(1..Len(rs)) /\ Newest(rs) \subseteq 1..Len(rs)
      BY FS_Interval DEF Newest
    <3> QED BY <3>1, FS_Subset
  <2>2. R \subseteq Inputs
    BY <1>1 DEF Newest
  <2>3. PICK f : f = [i \in Newest(rs) |-> rs[i]]
    OBVIOUS
  <2>4. DOMAIN f = Newest(rs) /\ R = {f[i] : i \in Newest(rs)}
    BY <1>1, <2>3
  <2>5. IsFiniteSet(R)
    BY <2>1, <2>4, ValuesFinite
  <2> QED BY <2>2, <2>5
<1>3. PICK n \in Nat : /\ kept \in [1..n -> R]
                       /\ \A r \in R : \E k \in 1..n : kept[k] = r
  <2>1. kept \in SetToSeqs(R)
    BY <1>1
  <2>2. IsWalk(kept, R)
    BY <1>2, <2>1, WalksAreWalks
  <2> QED BY <2>2 DEF IsWalk
<1>4. kept \in Seq(Inputs) /\ DOMAIN kept = 1..n
  BY <1>2, <1>3
<1>5. ASSUME NEW k \in DOMAIN kept
      PROVE  \E i \in Newest(rs) : kept[k] = rs[i] /\ i \in DOMAIN rs
  BY <1>1, <1>3 DEF Newest
<1>6. ASSUME NEW s \in Sources(rs)
      PROVE  \E i \in Newest(rs) : rs[i].src = s /\ Latest(rs)[s] = rs[i] /\ i \in DOMAIN rs
  BY LatestIs DEF Newest
<1>7. Sources(kept) = Sources(rs)
  <2>1. ASSUME NEW s \in Sources(kept) PROVE s \in Sources(rs)
    <3>1. PICK k \in DOMAIN kept : s = kept[k].src
      BY DEF Sources
    <3> QED BY <1>5, <3>1 DEF Sources
  <2>2. ASSUME NEW s \in Sources(rs) PROVE s \in Sources(kept)
    <3>1. PICK i \in Newest(rs) : rs[i].src = s
      BY <1>6
    <3>2. PICK k \in 1..n : kept[k] = rs[i]
      BY <1>1, <1>3
    <3> QED BY <1>4, <3>1, <3>2 DEF Sources
  <2> QED BY <2>1, <2>2
<1>8. ASSUME NEW s \in Sources(rs) PROVE Latest(kept)[s] = Latest(rs)[s]
  <2>1. PICK i \in Newest(rs) : rs[i].src = s /\ Latest(rs)[s] = rs[i] /\ i \in DOMAIN rs
    BY <1>6
  <2>2. PICK k \in DOMAIN kept : Latest(kept)[s] = kept[k] /\ kept[k].src = s
    BY <1>4, <1>7, LatestIs
  <2>3. PICK j \in Newest(rs) : kept[k] = rs[j] /\ j \in DOMAIN rs
    BY <1>5
  <2>4. i = j
    BY <2>1, <2>2, <2>3 DEF Newest
  <2> QED BY <2>1, <2>2, <2>3, <2>4
<1>9. Latest(kept) = Latest(rs)
  <2>1. /\ Latest(kept) = [s \in Sources(rs) |-> Latest(kept)[s]]
        /\ Latest(rs) = [s \in Sources(rs) |-> Latest(rs)[s]]
    BY <1>7 DEF Latest
  <2> QED BY <1>8, <2>1
<1>10. kept = <<>> <=> rs = <<>>
  <2>1. kept = <<>> <=> Sources(kept) = {}
    BY <1>4, NoSources
  <2>2. rs = <<>> <=> Sources(rs) = {}
    BY NoSources
  <2> QED BY <1>7, <2>1, <2>2
<1> QED BY <1>7, <1>9, <1>10

LEMMA LatestRecordCountsLemma ==
  MatchInv => LatestRecordCounts
<1> SUFFICES ASSUME MatchInv, out # NotRun
             PROVE  \E order \in Orders(recs) :
                      \A kept \in SetToSeqs({recs[i] : i \in Newest(recs)}) :
                        out = MatchRecords(kept, rules, order, late)
  BY DEF LatestRecordCounts, Newest
<1>1. PICK order \in Orders(recs) : out = MatchRecords(recs, rules, order, late)
  BY DEF MatchInv
<1>2. ASSUME NEW kept \in SetToSeqs({recs[i] : i \in Newest(recs)})
      PROVE  MatchRecords(kept, rules, order, late) = MatchRecords(recs, rules, order, late)
  <2>1. /\ Sources(kept) = Sources(recs) /\ Latest(kept) = Latest(recs)
        /\ kept = <<>> <=> recs = <<>>
    BY KeptIs DEF MatchInv
  <2>2. Complete(kept, rules) <=> Complete(recs, rules)
    BY <2>1 DEF Complete
  <2> QED BY <2>1, <2>2 DEF MatchRecords
<1> QED BY <1>1, <1>2

\* Whatever was ingested and in whatever order: a source's earlier records
\* leave no trace in the verdict (matcher.rs, deduplication).
THEOREM LatestRecordCountsInvariant == Spec => []LatestRecordCounts
BY MatchInvariant, LatestRecordCountsLemma, PTL
=============================================================================
