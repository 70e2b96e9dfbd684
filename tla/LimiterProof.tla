---------------------------- MODULE LimiterProof ----------------------------
(***************************************************************************)
(* The limiter's bounds hold for any sources, rates and callers.  The      *)
(* argument: a source never has more than one bucket, so every call that   *)
(* is under way holds that one; and what a source has been admitted and    *)
(* what its bucket holds add up, from above to what the burst and the time *)
(* allow, and from below to a burst.                                       *)
(***************************************************************************)
EXTENDS Limiter, SequenceTheorems, TLAPS

\* One bucket for each source, which is the one in the map.
OneBucket == \A s \in Sources : limiters[s] = Len(level[s]) /\ limiters[s] \in {0, 1}

\* What the source can still spend: a bucket yet to be made will be full.
Held(s) == IF limiters[s] = 0 THEN Full(s) ELSE level[s][1]

\* Spent and held together are no more than burst and time give.
NoMore ==
  \A s \in Sources :
    (admitted[s] - mark.admitted[s]) * Unit + Held(s) =< Full(s) + Rate(s) * (now - mark.now)

\* Nor are they less than a burst.
NoLess == \A s \in Sources : Full(s) =< Held(s) + admitted[s] * Unit

Inv == TypeOK /\ OneBucket /\ NoMore /\ NoLess /\ RefusedHasSpent

-----------------------------------------------------------------------------
\* A rate is a natural number, the burst is at least one request.
LEMMA RateType == ASSUME LimiterAssumption, NEW s \in Sources PROVE Rate(s) \in Nat
BY DEF LimiterAssumption, Rate

LEMMA BurstPositive ==
  ASSUME LimiterAssumption, NEW rate \in Nat PROVE BurstFor(rate) \in Nat \ {0}
<1>1. (rate * 10) \div Unit \in Int
  BY DEF LimiterAssumption
<1> QED BY <1>1 DEF BurstFor

LEMMA TimesUnit == ASSUME LimiterAssumption, NEW n \in Nat PROVE n * Unit \in Nat
BY DEF LimiterAssumption

LEMMA FullType ==
  ASSUME LimiterAssumption, NEW s \in Sources
  PROVE  Full(s) \in Nat /\ Full(s) = BurstFor(Rate(s)) * Unit
BY RateType, BurstPositive, TimesUnit DEF Full

\* One request more is one Unit more.
LEMMA OneMore ==
  ASSUME LimiterAssumption, NEW n \in Int PROVE (n + 1) * Unit = n * Unit + Unit
BY DEF LimiterAssumption

\* One second more is one refill more.
LEMMA OneLater == ASSUME NEW r \in Int, NEW d \in Int PROVE r * (d + 1) = r * d + r
OBVIOUS

\* Of two numbers of requests, that with the more parts is the greater.
LEMMA CancelUnit ==
  ASSUME LimiterAssumption, NEW m \in Nat, NEW n \in Nat, m * Unit < n * Unit + Unit
  PROVE  m =< n
<1> SUFFICES ASSUME m > n PROVE FALSE
  OBVIOUS
<1>1. PICK d \in Nat : m = n + 1 + d
  <2>1. m - n - 1 \in Nat /\ m = n + 1 + (m - n - 1)
    OBVIOUS
  <2> QED BY <2>1
<1>2. m * Unit = n * Unit + Unit + d * Unit
  BY <1>1 DEF LimiterAssumption
<1> QED BY <1>2, TimesUnit DEF LimiterAssumption

\* What a source can spend is a number of parts.
LEMMA HeldType ==
  ASSUME LimiterAssumption, TypeOK, OneBucket, NEW s \in Sources
  PROVE  Held(s) \in Nat /\ Held(s) =< Full(s)
<1>1. CASE limiters[s] = 0
  BY <1>1, FullType DEF Held
<1>2. CASE limiters[s] # 0
  <2>0. level[s] \in Seq(Nat) /\ Len(level[s]) = 1
    BY <1>2 DEF OneBucket, TypeOK
  <2>1. DOMAIN level[s] = 1..1 /\ level[s][1] \in Nat
    BY <2>0
  <2> QED BY <1>2, <2>1 DEF Held, TypeOK
<1> QED BY <1>1, <1>2

\* A refill adds no more than the rate, and no less than nothing.
LEMMA RefilledBounds ==
  ASSUME LimiterAssumption, NEW s \in Sources, NEW n \in Nat, n =< Full(s)
  PROVE  /\ Refilled(s, n) \in Nat /\ Refilled(s, n) =< Full(s)
         /\ n =< Refilled(s, n) /\ Refilled(s, n) =< n + Rate(s)
BY RateType, FullType DEF Refilled

-----------------------------------------------------------------------------
LEMMA InitInv == ASSUME LimiterAssumption, Init PROVE Inv
<1>1. \A s \in Sources : Full(s) \in Nat
  BY FullType
<1>2. ASSUME NEW s \in Sources
      PROVE  /\ level[s] \in Seq(Nat) /\ limiters[s] = Len(level[s]) /\ limiters[s] \in {0, 1}
             /\ \A b \in DOMAIN level[s] : level[s][b] =< Full(s)
             /\ Held(s) = Full(s)
  <2>1. CASE s \in DOMAIN Overrides
    <3>1. level[s] = <<Full(s)>> /\ limiters[s] = 1
      BY <2>1 DEF Init
    <3>2. <<Full(s)>> \in Seq(Nat) /\ Len(<<Full(s)>>) = 1 /\ <<Full(s)>>[1] = Full(s)
      BY <1>1
    <3>3. DOMAIN <<Full(s)>> = {1}
      BY <1>1, <3>2
    <3> QED BY <1>1, <3>1, <3>2, <3>3 DEF Held
  <2>2. CASE s \notin DOMAIN Overrides
    <3>1. level[s] = <<>> /\ limiters[s] = 0
      BY <2>2 DEF Init
    <3> QED BY <3>1 DEF Held
  <2> QED BY <2>1, <2>2
<1>3. TypeOK
  <2>1. level \in [Sources -> Seq(Nat)]
    BY <1>2 DEF Init
  <2>2. limiters \in [Sources -> Nat]
    BY DEF Init
  <2>3. caller \in [Callers -> [pc : {"idle", "create", "take"}, source : Sources, bucket : Nat]]
    BY DEF Init, Idle
  <2>4. mark \in [now : 0..now, admitted : [Sources -> Nat]]
    BY DEF Init
  <2>5. ASSUME NEW p \in Callers PROVE caller[p].pc # "take"
    <3>1. PICK s \in Sources : caller[p] = Idle(s)
      BY DEF Init
    <3> QED BY <3>1 DEF Idle
  <2>6. ASSUME NEW s \in Sources PROVE limiters[s] =< Len(level[s])
    BY <1>2
  <2> QED BY <1>2, <2>1, <2>2, <2>3, <2>4, <2>5, <2>6 DEF Init, TypeOK
<1>4. OneBucket
  BY <1>2 DEF OneBucket
<1>5. ASSUME NEW s \in Sources
      PROVE  /\ admitted[s] = 0 /\ mark.admitted[s] = 0 /\ now = 0 /\ mark.now = 0
             /\ Rate(s) * (now - mark.now) = 0
             /\ (admitted[s] - mark.admitted[s]) * Unit = 0 /\ admitted[s] * Unit = 0
  <2>1. admitted[s] = 0 /\ mark.admitted[s] = 0 /\ now = 0 /\ mark.now = 0
    BY DEF Init
  <2>2. 0 * Unit = 0 /\ Rate(s) * 0 = 0
    BY RateType DEF LimiterAssumption
  <2> QED BY <2>1, <2>2
<1>6. NoMore /\ NoLess
  BY <1>1, <1>2, <1>5 DEF NoMore, NoLess
<1> QED BY <1>3, <1>4, <1>6 DEF Inv, RefusedHasSpent, Init

-----------------------------------------------------------------------------
(* Requests                                                                *)

LEMMA LookupInv ==
  ASSUME LimiterAssumption, Inv, NEW p \in Callers, NEW s \in Sources, Lookup(p, s)
  PROVE  Inv'
<1>1. UNCHANGED <<limiters, level, now, admitted, refused, mark>>
  BY DEF Lookup
<1>2. calls' \in Nat
  BY DEF Lookup, Inv, TypeOK
<1>3. limiters[s] \in Nat /\ limiters[s] =< Len(level[s]) /\ level[s] \in Seq(Nat)
  BY DEF Inv, TypeOK
<1>4. caller' \in [Callers -> [pc : {"idle", "create", "take"}, source : Sources, bucket : Nat]]
  BY <1>3 DEF Lookup, Inv, TypeOK
<1>5. ASSUME NEW q \in Callers, caller'[q].pc = "take"
      PROVE  caller'[q].bucket \in DOMAIN level[caller'[q].source]
  <2>1. CASE q = p
    <3>1. caller'[p] = [pc |-> IF limiters[s] = 0 THEN "create" ELSE "take",
                        source |-> s, bucket |-> limiters[s]]
      BY DEF Lookup, Inv, TypeOK
    <3>2. limiters[s] # 0 /\ caller'[q].bucket = limiters[s] /\ caller'[q].source = s
      BY <1>5, <2>1, <3>1
    <3>3. DOMAIN level[s] = 1..Len(level[s])
      BY <1>3
    <3> QED BY <1>3, <3>2, <3>3
  <2>2. CASE q # p
    <3>1. caller'[q] = caller[q]
      BY <2>2 DEF Lookup, Inv, TypeOK
    <3> QED BY <1>5, <3>1 DEF Inv, TypeOK
  <2> QED BY <2>1, <2>2
<1>6. TypeOK'
  BY <1>1, <1>2, <1>4, <1>5 DEF Inv, TypeOK
<1> QED BY <1>1, <1>6 DEF Inv, OneBucket, NoMore, NoLess, RefusedHasSpent, Held

\* A bucket is made only where there is none, and is full.
LEMMA CreateInv == ASSUME LimiterAssumption, Inv, NEW p \in Callers, Create(p) PROVE Inv'
<1> DEFINE s == caller[p].source
<1>0. s \in Sources /\ level[s] \in Seq(Nat) /\ limiters[s] = Len(level[s])
  BY DEF Inv, TypeOK, OneBucket
<1>1. UNCHANGED <<now, calls, admitted, refused, mark>>
  BY DEF Create
<1>2. /\ level' \in [Sources -> Seq(Nat)]
      /\ \A q \in Sources :
           /\ limiters'[q] = Len(level'[q]) /\ limiters'[q] \in {0, 1}
           /\ \A b \in DOMAIN level'[q] : level'[q][b] =< Full(q)
           /\ DOMAIN level[q] \subseteq DOMAIN level'[q]
      /\ limiters'[s] \in DOMAIN level'[s]
  <2>1. CASE limiters[s] # 0
    BY <1>0, <2>1 DEF Create, Inv, TypeOK, OneBucket
  <2>2. CASE limiters[s] = 0
    <3>1. level[s] = <<>>
      BY <1>0, <2>2, EmptySeq
    <3>2. level' = [level EXCEPT ![s] = <<Full(s)>>] /\ limiters' = [limiters EXCEPT ![s] = 1]
      BY <1>0, <2>2, <3>1 DEF Create
    <3>3. /\ <<Full(s)>> \in Seq(Nat) /\ Len(<<Full(s)>>) = 1
          /\ DOMAIN <<Full(s)>> = {1} /\ <<Full(s)>>[1] = Full(s)
      BY <1>0, FullType
    <3>4. limiters'[s] = 1 /\ level'[s] = <<Full(s)>>
      BY <1>0, <3>2 DEF Inv, TypeOK, Create
    <3>5. level' \in [Sources -> Seq(Nat)]
      BY <1>0, <3>2, <3>3 DEF Inv, TypeOK
    <3>6. ASSUME NEW q \in Sources
          PROVE  /\ limiters'[q] = Len(level'[q]) /\ limiters'[q] \in {0, 1}
                 /\ \A b \in DOMAIN level'[q] : level'[q][b] =< Full(q)
                 /\ DOMAIN level[q] \subseteq DOMAIN level'[q]
      <4>1. CASE q = s
        <5>1. /\ limiters'[s] = 1 /\ Len(level'[s]) = 1 /\ DOMAIN level'[s] = {1}
              /\ level'[s][1] = Full(s) /\ DOMAIN level[s] = {} /\ Full(s) \in Nat
          BY <1>0, <3>1, <3>3, <3>4, FullType
        <5> QED BY <4>1, <5>1
      <4>2. CASE q # s
        <5>1. level'[q] = level[q] /\ limiters'[q] = limiters[q]
          BY <3>2, <4>2 DEF Inv, TypeOK
        <5> QED BY <5>1 DEF Inv, TypeOK, OneBucket
      <4> QED BY <4>1, <4>2
    <3> QED BY <3>3, <3>4, <3>5, <3>6
  <2> QED BY <2>1, <2>2
<1>3. caller' = [caller EXCEPT ![p].pc = "take", ![p].bucket = limiters'[s]]
  BY DEF Create
<1>4. limiters' \in [Sources -> Nat]
  BY <1>0 DEF Create, Inv, TypeOK
<1>5. caller' \in [Callers -> [pc : {"idle", "create", "take"}, source : Sources, bucket : Nat]]
  <2>1. limiters'[s] \in Nat
    BY <1>0, <1>4
  <2>2. [caller[p] EXCEPT !.pc = "take", !.bucket = limiters'[s]]
          \in [pc : {"idle", "create", "take"}, source : Sources, bucket : Nat]
    <3>1. caller[p] \in [pc : {"idle", "create", "take"}, source : Sources, bucket : Nat]
      BY DEF Inv, TypeOK
    <3> QED BY <2>1, <3>1
  <2>3. caller' = [caller EXCEPT ![p] = [caller[p] EXCEPT !.pc = "take", !.bucket = limiters'[s]]]
    BY <1>3 DEF Inv, TypeOK
  <2> QED BY <2>2, <2>3 DEF Inv, TypeOK
<1>6. ASSUME NEW q \in Callers, caller'[q].pc = "take"
      PROVE  caller'[q].bucket \in DOMAIN level'[caller'[q].source]
  <2>1. CASE q = p
    <3>1. caller'[p].bucket = limiters'[s] /\ caller'[p].source = s
      BY <1>3 DEF Inv, TypeOK
    <3> QED BY <1>2, <2>1, <3>1
  <2>2. CASE q # p
    <3>1. caller'[q] = caller[q] /\ caller[q].source \in Sources
      BY <1>3, <2>2 DEF Inv, TypeOK
    <3> QED BY <1>2, <1>6, <3>1 DEF Inv, TypeOK
  <2> QED BY <2>1, <2>2
<1>7. TypeOK'
  <2>1. \A q \in Sources : limiters'[q] =< Len(level'[q])
    BY <1>2, <1>4
  <2> QED BY <1>1, <1>2, <1>4, <1>5, <1>6, <2>1 DEF Inv, TypeOK
<1>8. ASSUME NEW q \in Sources PROVE Held(q)' = Held(q)
  <2>1. CASE limiters[s] # 0
    BY <1>0, <2>1 DEF Create, Held
  <2>2. CASE limiters[s] = 0
    <3>1. level[s] = <<>>
      BY <1>0, <2>2, EmptySeq
    <3>2. level' = [level EXCEPT ![s] = <<Full(s)>>] /\ limiters' = [limiters EXCEPT ![s] = 1]
      BY <1>0, <2>2, <3>1 DEF Create
    <3>3. CASE q = s
      BY <1>0, <2>2, <3>2, <3>3 DEF Held, Inv, TypeOK
    <3>4. CASE q # s
      BY <1>0, <3>2, <3>4 DEF Held, Inv, TypeOK
    <3> QED BY <3>3, <3>4
  <2> QED BY <2>1, <2>2
<1>9. OneBucket'
  BY <1>2 DEF OneBucket
<1> QED BY <1>1, <1>7, <1>8, <1>9 DEF Inv, NoMore, NoLess, RefusedHasSpent

\* An admission moves a Unit from what is held to what is spent; a refusal
\* means that less than a Unit is held.
LEMMA TakeInv == ASSUME LimiterAssumption, Inv, NEW p \in Callers, Take(p) PROVE Inv'
<1>a. PICK s \in Sources : s = caller[p].source
  BY DEF Inv, TypeOK
<1>0. /\ s \in Sources /\ level[s] \in Seq(Nat) /\ limiters[s] = 1 /\ Len(level[s]) = 1
      /\ DOMAIN level[s] = 1..1 /\ caller[p].bucket = 1 /\ caller[p].source = s
  <2>1. s \in Sources /\ level[s] \in Seq(Nat) /\ caller[p].bucket \in DOMAIN level[s]
    BY <1>a DEF Take, Inv, TypeOK
  <2>2. limiters[s] = Len(level[s]) /\ limiters[s] \in {0, 1}
    BY <2>1 DEF Inv, OneBucket
  <2>3. caller[p].bucket \in 1..Len(level[s])
    BY <2>1
  <2> QED BY <1>a, <2>1, <2>2, <2>3
<1>1. UNCHANGED <<limiters, now, calls, mark>> /\ caller' = [caller EXCEPT ![p] = Idle(s)]
  BY <1>0 DEF Take
<1>2. Held(s) = level[s][1] /\ Held(s) \in Nat /\ Held(s) =< Full(s)
  BY <1>0, HeldType DEF Held, Inv
<1>3. /\ caller' \in [Callers -> [pc : {"idle", "create", "take"}, source : Sources, bucket : Nat]]
      /\ \A q \in Callers : caller'[q].pc = "take" => caller'[q] = caller[q]
  BY <1>0, <1>1 DEF Idle, Inv, TypeOK
<1>4. CASE level[s][1] >= Unit
  <2>1. /\ level' = [level EXCEPT ![s] = [level[s] EXCEPT ![1] = level[s][1] - Unit]]
        /\ admitted' = [admitted EXCEPT ![s] = @ + 1]
        /\ UNCHANGED refused
    BY <1>0, <1>4 DEF Take
  <2>2. level[s][1] - Unit \in Nat
    BY <1>2, <1>4 DEF LimiterAssumption
  <2>3. /\ level'[s] \in Seq(Nat) /\ Len(level'[s]) = 1 /\ level'[s][1] = level[s][1] - Unit
        /\ DOMAIN level'[s] = 1..1
        /\ \A q \in Sources \ {s} : level'[q] = level[q]
        /\ level' \in [Sources -> Seq(Nat)]
    <3>1. [level[s] EXCEPT ![1] = level[s][1] - Unit] \in Seq(Nat)
      BY <1>0, <2>2, ExceptSeq
    <3>2. /\ Len([level[s] EXCEPT ![1] = level[s][1] - Unit]) = 1
          /\ [level[s] EXCEPT ![1] = level[s][1] - Unit][1] = level[s][1] - Unit
      BY <1>0, <2>2, ExceptSeq
    <3>3. level'[s] = [level[s] EXCEPT ![1] = level[s][1] - Unit]
      BY <1>0, <2>1 DEF Inv, TypeOK
    <3>4. DOMAIN level'[s] = 1..Len(level'[s])
      BY <3>1, <3>3
    <3> QED BY <1>0, <2>1, <3>1, <3>2, <3>3, <3>4 DEF Inv, TypeOK
  <2>4. admitted' \in [Sources -> Nat] /\ \A q \in Sources : admitted'[q] >= admitted[q]
    <3>1. admitted \in [Sources -> Nat] /\ \A q \in Sources : admitted[q] \in Nat
      BY DEF Inv, TypeOK
    <3>2. /\ admitted'[s] = admitted[s] + 1
          /\ \A q \in Sources \ {s} : admitted'[q] = admitted[q]
      BY <2>1, <3>1
    <3>3. admitted' \in [Sources -> Nat]
      BY <2>1, <3>1
    <3> QED BY <3>1, <3>2, <3>3
  <2>5. \A q \in Sources : DOMAIN level'[q] = DOMAIN level[q] /\ Len(level'[q]) = Len(level[q])
    BY <1>0, <2>3
  <2>6. ASSUME NEW q \in Sources, NEW b \in DOMAIN level'[q] PROVE level'[q][b] =< Full(q)
    <3>1. CASE q = s
      <4>1. b = 1 /\ level'[s][b] = level[s][1] - Unit
        BY <2>3, <2>6, <3>1
      <4>2. level[s][1] \in Nat /\ level[s][1] =< Full(s) /\ Full(s) \in Nat /\ Unit \in Nat
        BY <1>2, FullType, <1>0 DEF LimiterAssumption
      <4> QED BY <3>1, <4>1, <4>2
    <3>2. CASE q # s
      BY <2>3, <3>2, <2>6 DEF Inv, TypeOK
    <3> QED BY <3>1, <3>2
  <2>7. TypeOK'
    <3>1. \A q \in Sources : limiters'[q] =< Len(level'[q])
      BY <1>1, <2>5 DEF Inv, TypeOK
    <3>2. \A q \in Callers :
            caller'[q].pc = "take" => caller'[q].bucket \in DOMAIN level'[caller'[q].source]
      BY <1>3, <2>5 DEF Inv, TypeOK
    <3> QED BY <1>1, <1>3, <2>1, <2>3, <2>4, <2>6, <3>1, <3>2 DEF Inv, TypeOK
  <2>8. OneBucket'
    BY <1>1, <2>5 DEF Inv, OneBucket
  <2>9. /\ Held(s)' = Held(s) - Unit
        /\ \A q \in Sources \ {s} : Held(q)' = Held(q)
    BY <1>0, <1>1, <1>2, <2>3 DEF Held
  <2>10. /\ admitted'[s] = admitted[s] + 1
         /\ \A q \in Sources \ {s} : admitted'[q] = admitted[q]
    BY <1>0, <2>1 DEF Inv, TypeOK
  <2>11. /\ (admitted'[s] - mark.admitted[s]) * Unit = (admitted[s] - mark.admitted[s]) * Unit + Unit
         /\ admitted'[s] * Unit = admitted[s] * Unit + Unit
    <3>0. admitted[s] \in Int /\ mark.admitted[s] \in Int
      BY <1>0 DEF Inv, TypeOK
    <3>1. /\ admitted[s] \in Int /\ mark.admitted[s] \in Int
          /\ admitted[s] - mark.admitted[s] \in Int
          /\ admitted'[s] - mark.admitted[s] = (admitted[s] - mark.admitted[s]) + 1
      BY <2>10, <3>0
    <3>2. \A n \in Int : (n + 1) * Unit = n * Unit + Unit
      BY OneMore
    <3>3. ASSUME NEW m \in Int, NEW n \in Int, m = n + 1 PROVE m * Unit = n * Unit + Unit
      BY <3>2, <3>3, Zenon
    <3>4. admitted'[s] \in Int /\ admitted'[s] - mark.admitted[s] \in Int
      BY <2>10, <3>1
    <3> QED BY <2>10, <3>1, <3>3, <3>4, Zenon
  <2>12. ASSUME NEW q \in Sources
         PROVE  /\ (admitted[q] - mark.admitted[q]) * Unit \in Int
                /\ admitted[q] * Unit \in Int
                /\ Rate(q) * (now - mark.now) \in Int /\ Full(q) \in Int
    <3>1. admitted[q] \in Int /\ mark.admitted[q] \in Int /\ now \in Int /\ mark.now \in Int
      BY DEF Inv, TypeOK
    <3> QED BY <3>1, RateType, FullType DEF LimiterAssumption
  <2>13. NoMore' /\ NoLess'
    <3>1. ASSUME NEW q \in Sources
          PROVE  /\ (admitted'[q] - mark.admitted[q]) * Unit + Held(q)'
                       =< Full(q) + Rate(q) * (now - mark.now)
                 /\ Full(q) =< Held(q)' + admitted'[q] * Unit
      <4>1. CASE q = s
        BY <1>2, <2>9, <2>11, <2>12, <4>1 DEF Inv, NoMore, NoLess, LimiterAssumption
      <4>2. CASE q # s
        BY <2>9, <2>10, <4>2 DEF Inv, NoMore, NoLess
      <4> QED BY <4>1, <4>2
    <3> QED BY <1>1, <3>1 DEF NoMore, NoLess
  <2>14. RefusedHasSpent'
    <3>1. ASSUME NEW q \in refused
          PROVE  admitted'[q] >= BurstFor(Rate(q)) /\ admitted'[q] > 0
      <4>1. q \in Sources
        BY DEF Inv, TypeOK
      <4>2. BurstFor(Rate(q)) \in Nat
        BY <4>1, RateType, BurstPositive
      <4>3. admitted[q] \in Nat /\ admitted'[q] \in Nat /\ admitted'[q] >= admitted[q]
        BY <2>4, <4>1 DEF Inv, TypeOK
      <4>4. admitted[q] >= BurstFor(Rate(q)) /\ admitted[q] > 0
        BY DEF Inv, RefusedHasSpent
      <4> QED BY <4>2, <4>3, <4>4
    <3> QED BY <2>1, <3>1 DEF RefusedHasSpent
  <2> QED BY <2>7, <2>8, <2>13, <2>14 DEF Inv
<1>5. CASE ~(level[s][1] >= Unit)
  <2>1. refused' = refused \cup {s} /\ UNCHANGED <<level, admitted>>
    BY <1>0, <1>5 DEF Take
  <2>2. BurstFor(Rate(s)) \in Nat \ {0} /\ admitted[s] \in Nat
    BY <1>0, RateType, BurstPositive DEF Inv, TypeOK
  <2>3. BurstFor(Rate(s)) =< admitted[s]
    <3>1. Full(s) =< Held(s) + admitted[s] * Unit /\ Held(s) < Unit
      BY <1>0, <1>2, <1>5 DEF Inv, NoLess, LimiterAssumption
    <3>2. BurstFor(Rate(s)) * Unit < admitted[s] * Unit + Unit
      <4>1. admitted[s] * Unit \in Nat /\ Full(s) \in Nat /\ Full(s) = BurstFor(Rate(s)) * Unit
        BY <1>0, <2>2, TimesUnit, FullType
      <4> QED BY <1>2, <3>1, <4>1 DEF LimiterAssumption
    <3> QED BY <2>2, <3>2, CancelUnit
  <2>4. TypeOK'
    BY <1>0, <1>1, <1>3, <2>1 DEF Inv, TypeOK
  <2>5. RefusedHasSpent'
    BY <2>1, <2>2, <2>3 DEF Inv, RefusedHasSpent
  <2> QED BY <1>1, <2>1, <2>4, <2>5 DEF Inv, OneBucket, NoMore, NoLess, Held
<1> QED BY <1>4, <1>5

-----------------------------------------------------------------------------
(* Time and the observer                                                   *)

LEMMA TickInv == ASSUME LimiterAssumption, Inv, Tick PROVE Inv'
<1>1. /\ now' = now + 1 /\ UNCHANGED <<limiters, caller, calls, admitted, refused, mark>>
      /\ level' = [s \in Sources |-> [b \in DOMAIN level[s] |-> Refilled(s, level[s][b])]]
  BY DEF Tick
<1>2. ASSUME NEW s \in Sources
      PROVE  /\ level'[s] \in Seq(Nat) /\ Len(level'[s]) = Len(level[s])
             /\ DOMAIN level'[s] = DOMAIN level[s]
             /\ \A b \in DOMAIN level[s] :
                  /\ level'[s][b] =< Full(s)
                  /\ level[s][b] =< level'[s][b] /\ level'[s][b] =< level[s][b] + Rate(s)
  <2>1. level[s] \in Seq(Nat) /\ DOMAIN level[s] = 1..Len(level[s]) /\ Len(level[s]) \in Nat
    BY DEF Inv, TypeOK
  <2>2. level'[s] = [b \in 1..Len(level[s]) |-> Refilled(s, level[s][b])]
    BY <1>1, <2>1
  <2>3. ASSUME NEW b \in 1..Len(level[s])
        PROVE  /\ level[s][b] \in Nat /\ Refilled(s, level[s][b]) \in Nat
               /\ Refilled(s, level[s][b]) =< Full(s)
               /\ level[s][b] =< Refilled(s, level[s][b])
               /\ Refilled(s, level[s][b]) =< level[s][b] + Rate(s)
    <3>1. level[s][b] \in Nat /\ level[s][b] =< Full(s)
      BY <2>1 DEF Inv, TypeOK
    <3> QED BY <3>1, RefilledBounds
  <2>4. level'[s] \in Seq(Nat) /\ Len(level'[s]) = Len(level[s])
    BY <2>1, <2>2, <2>3
  <2> QED BY <2>1, <2>2, <2>3, <2>4
<1>3. TypeOK'
  <2>1. level' \in [Sources -> Seq(Nat)]
    BY <1>1, <1>2
  <2>2. mark' \in [now : 0..now', admitted : [Sources -> Nat]] /\ now' \in Nat
    BY <1>1 DEF Inv, TypeOK
  <2>3. \A p \in Callers :
          caller'[p].pc = "take" => caller'[p].bucket \in DOMAIN level'[caller'[p].source]
    BY <1>1, <1>2 DEF Inv, TypeOK
  <2> QED BY <1>1, <1>2, <2>1, <2>2, <2>3 DEF Inv, TypeOK
<1>4. OneBucket'
  BY <1>1, <1>2 DEF Inv, OneBucket
<1>5. ASSUME NEW s \in Sources
      PROVE  /\ Held(s) \in Nat /\ Held(s)' \in Nat /\ Rate(s) \in Nat
             /\ Held(s) =< Held(s)' /\ Held(s)' =< Held(s) + Rate(s)
  <2>1. Held(s) \in Nat
    BY HeldType DEF Inv
  <2>2. Rate(s) \in Nat /\ Full(s) \in Nat
    BY RateType, FullType
  <2>3. CASE limiters[s] = 0
    BY <1>1, <2>1, <2>2, <2>3 DEF Held
  <2>4. CASE limiters[s] # 0
    <3>1. 1 \in DOMAIN level[s]
      BY <2>4 DEF Inv, OneBucket, TypeOK
    <3>2. level'[s][1] \in Nat
      BY <1>2, <3>1
    <3> QED BY <1>1, <1>2, <2>1, <2>2, <2>4, <3>1, <3>2 DEF Held
  <2> QED BY <2>3, <2>4
<1>6. ASSUME NEW s \in Sources
      PROVE  /\ Rate(s) * (now' - mark.now) = Rate(s) * (now - mark.now) + Rate(s)
             /\ Rate(s) * (now - mark.now) \in Int /\ Full(s) \in Nat
             /\ (admitted[s] - mark.admitted[s]) * Unit \in Int /\ admitted[s] * Unit \in Int
  <2>1. Rate(s) \in Int /\ Full(s) \in Nat
    BY RateType, FullType
  <2>2. now \in Int /\ mark.now \in Int /\ admitted[s] \in Int /\ mark.admitted[s] \in Int
    BY DEF Inv, TypeOK
  <2>3. Rate(s) * ((now - mark.now) + 1) = Rate(s) * (now - mark.now) + Rate(s)
    BY <2>1, <2>2, OneLater
  <2>4. (admitted[s] - mark.admitted[s]) * Unit \in Int /\ admitted[s] * Unit \in Int
    BY <2>2 DEF LimiterAssumption
  <2>5. now' - mark.now = (now - mark.now) + 1
    <3>1. now' = now + 1
      BY <1>1
    <3> QED BY <2>2, <3>1
  <2>6. Rate(s) * (now - mark.now) \in Int
    BY <2>1, <2>2
  <2> QED BY <2>1, <2>3, <2>4, <2>5, <2>6
<1>7. NoMore' /\ NoLess'
  <2>1. ASSUME NEW s \in Sources
        PROVE  /\ (admitted[s] - mark.admitted[s]) * Unit + Held(s)'
                     =< Full(s) + Rate(s) * (now' - mark.now)
               /\ Full(s) =< Held(s)' + admitted[s] * Unit
    BY <1>5, <1>6 DEF Inv, NoMore, NoLess
  <2> QED BY <1>1, <2>1 DEF NoMore, NoLess
<1> QED BY <1>1, <1>3, <1>4, <1>7 DEF Inv, RefusedHasSpent

\* A window begins with nothing admitted and at most a full bucket.
LEMMA ObserveInv == ASSUME LimiterAssumption, Inv, Observe PROVE Inv'
<1>1. /\ UNCHANGED <<limiters, level, caller, now, calls, admitted, refused>>
      /\ mark' = [now |-> now, admitted |-> admitted]
  BY DEF Observe
<1>2. TypeOK'
  BY <1>1 DEF Inv, TypeOK
<1>3. NoMore'
  <2>1. ASSUME NEW s \in Sources
        PROVE  (admitted[s] - admitted[s]) * Unit + Held(s) =< Full(s) + Rate(s) * (now - now)
    <3>1. admitted[s] - admitted[s] = 0 /\ now - now = 0
      BY DEF Inv, TypeOK
    <3>2. 0 * Unit = 0 /\ Rate(s) * 0 = 0
      BY RateType DEF LimiterAssumption
    <3>3. Held(s) \in Nat /\ Held(s) =< Full(s) /\ Full(s) \in Nat
      BY HeldType, FullType DEF Inv
    <3> QED BY <3>1, <3>2, <3>3
  <2> QED BY <1>1, <2>1 DEF NoMore, Held
<1> QED BY <1>1, <1>2, <1>3 DEF Inv, OneBucket, NoLess, RefusedHasSpent, Held

-----------------------------------------------------------------------------
LEMMA StutterInv == ASSUME Inv, UNCHANGED vars PROVE Inv'
BY DEF Inv, TypeOK, OneBucket, NoMore, NoLess, RefusedHasSpent, Held, vars

LEMMA StepInv == ASSUME LimiterAssumption, Inv, [Next]_vars PROVE Inv'
BY LookupInv, CreateInv, TakeInv, TickInv, ObserveInv, StutterInv DEF Next

THEOREM LimiterInvariant == Spec => []Inv
<1>1. Init => Inv
  BY InitInv, LimiterAssumption
<1>2. Inv /\ [Next]_vars => Inv'
  BY StepInv, LimiterAssumption
<1> QED BY <1>1, <1>2, PTL DEF Spec

\* Every variable keeps its type.
THEOREM LimiterTypeOK == Spec => []TypeOK
<1>1. Inv => TypeOK
  BY DEF Inv
<1> QED BY <1>1, LimiterInvariant, PTL

\* However many callers race, no window admits more than burst and rate allow.
THEOREM SourceBounded == Spec => []AdmittedBounded
<1>1. Inv => AdmittedBounded
  <2> SUFFICES ASSUME Inv, NEW s \in Sources
               PROVE (admitted[s] - mark.admitted[s]) * Unit =< Full(s) + Rate(s) * (now - mark.now)
    BY DEF AdmittedBounded
  <2>a. Rate(s) \in Int /\ Full(s) \in Nat /\ Held(s) \in Nat
    BY LimiterAssumption, RateType, FullType, HeldType DEF Inv
  <2>b. now \in Int /\ mark.now \in Int /\ admitted[s] \in Int /\ mark.admitted[s] \in Int
    BY DEF Inv, TypeOK
  <2>1. /\ now \in Int /\ mark.now \in Int /\ Rate(s) \in Int /\ Full(s) \in Nat
        /\ admitted[s] \in Int /\ mark.admitted[s] \in Int /\ Held(s) \in Nat
    BY <2>a, <2>b
  <2>2. /\ (admitted[s] - mark.admitted[s]) * Unit \in Int
        /\ Rate(s) * (now - mark.now) \in Int
    BY <2>1, LimiterAssumption DEF LimiterAssumption
  <2> QED BY <2>1, <2>2 DEF Inv, NoMore
<1> QED BY <1>1, LimiterInvariant, PTL

\* And no source is refused that has not spent a burst of its own.
THEOREM SourceIsolated == Spec => []RefusedHasSpent
<1>1. Inv => RefusedHasSpent
  BY DEF Inv
<1> QED BY <1>1, LimiterInvariant, PTL
=============================================================================
