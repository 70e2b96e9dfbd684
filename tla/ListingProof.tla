---------------------------- MODULE ListingProof ----------------------------
(***************************************************************************)
(* What a listing of the mismatches has, for any tables, sizes and bounds. *)
(* The cursor divides the transactions: what has stood all along and lies  *)
(* at or below it has been given, and the page under way has the rest up   *)
(* to the transaction it ends with.                                        *)
(***************************************************************************)
EXTENDS Listing, FiniteSetTheorems, TLAPS

Under == pc \in {"selected", "read"}

\* No page is held but the one under way.
Idle == ~Under => page.refs = {}

\* A page ends with one of its transactions.
Ended == IF page.refs = {} THEN page.last = 0 ELSE page.last \in page.refs

\* The page lies beyond the token and ends with its greatest transaction.
Ordered == \A r \in page.refs : token < r /\ r =< page.last

\* Until it is complete, what has been given is what the token covers.
Behind ==
  pc # "done" =>
    /\ \A r \in seen : r =< token
    /\ \A r \in standing : r =< token => r \in seen

\* The page leaves out nothing that stands, up to where it ends.
Gapless ==
  Under => \A r \in standing :
             token < r /\ (page.refs = {} \/ r =< page.last) => r \in page.refs

\* The details of a listed transaction still include the source asked for.
Sourced ==
  Under /\ ask.filter # Any =>
    \A r \in page.refs : ask.filter \in IF pc = "read" THEN page.found[r] ELSE details[r]

MismatchInv == Idle /\ Ordered /\ Behind /\ Gapless /\ Sourced /\ StandingListed

Inv ==
  /\ TypeOK
  /\ standing \subseteq Qualifying
  /\ Ended
  /\ ask.what = "mismatches" => MismatchInv

-----------------------------------------------------------------------------
\* The size of a page is at least one and at most the maximum.
LEMMA PageSizeBounded ==
  ASSUME ListingAssumption, TypeOK PROVE PageSize \in 1..MaxSize
<1>1. ask.size \in Sizes
  BY DEF TypeOK, Listings
<1>2. ask.size \in Int
  BY <1>1 DEF ListingAssumption
<1> QED BY <1>2 DEF ListingAssumption, PageSize

\* A cut is some of the rows, no more than a page of them; it is empty only if
\* there are no rows.
LEMMA CutsBounded ==
  ASSUME ListingAssumption, TypeOK, NEW rows \in SUBSET Refs, NEW P \in Cuts(rows)
  PROVE  /\ P \subseteq rows
         /\ Cardinality(P) \in Nat /\ Cardinality(P) =< MaxSize
         /\ P = {} => rows = {}
<1>1. IsFiniteSet(rows)
  BY FS_Subset DEF ListingAssumption
<1>2. Cardinality(rows) \in Nat
  BY <1>1, FS_CardinalityType
<1>3. Cardinality(P) = IF Cardinality(rows) < PageSize THEN Cardinality(rows) ELSE PageSize
  BY DEF Cuts
<1>4. PageSize \in 1..MaxSize
  BY PageSizeBounded
<1>5. ASSUME P = {} PROVE rows = {}
  <2>1. Cardinality(P) = 0
    BY <1>5, FS_EmptySet
  <2>2. Cardinality(rows) = 0
    BY <1>2, <1>3, <1>4, <2>1 DEF ListingAssumption
  <2> QED BY <2>2, <1>1, FS_EmptySet
<1> QED BY <1>2, <1>3, <1>4, <1>5 DEF Cuts, ListingAssumption

\* What qualifies are transactions.
LEMMA QualifyingType == ASSUME TypeOK PROVE Qualifying \subseteq Refs
BY DEF TypeOK, Qualifying

-----------------------------------------------------------------------------
LEMMA InitInv == ASSUME ListingAssumption, Init PROVE Inv
<1>0. Ended
  BY DEF Init, NoPage, Ended
<1>1. TypeOK
  <2>1. Cardinality({}) = 0
    BY FS_EmptySet
  <2>2. /\ open \subseteq Refs
        /\ details \in [Refs -> SUBSET Systems]
        /\ entry \in [Refs -> Statuses \cup {"none"}]
        /\ due \in [Refs -> Times \cup {0}]
    <3>1. CASE ask.what = "mismatches"
      BY <3>1 DEF Init, Listings
    <3>2. CASE ask.what # "mismatches"
      BY <3>2 DEF Init, Listings
    <3> QED BY <3>1, <3>2
  <2>3. standing \subseteq Refs
    BY <2>2 DEF Init, Qualifying
  <2> QED BY <2>1, <2>2, <2>3 DEF Init, TypeOK, NoPage, ListingAssumption
<1>2. MismatchInv
  <2>1. standing \subseteq Refs /\ \A r \in standing : ~(r =< 0)
    BY <1>1 DEF TypeOK, ListingAssumption
  <2> QED BY <2>1 DEF Init, MismatchInv, Under, Idle, Ordered, Behind, Gapless, Sourced,
                      StandingListed, NoPage
<1> QED BY <1>0, <1>1, <1>2 DEF Inv, Init

-----------------------------------------------------------------------------
(* Steps of the listing                                                    *)

\* The page that is selected has what the invariant asks of it.
LEMMA SelectInv == ASSUME ListingAssumption, Inv, Select PROVE Inv'
<1> USE DEF Inv
<1>0. PICK P \in Cuts(Qualifying \cap Beyond) : \E l \in Lasts(P) :
        /\ page' = [NoPage EXCEPT !.refs = P, !.last = l]
        /\ pc' = IF ask.what = "mismatches" /\ P # {} THEN "selected" ELSE "read"
  BY DEF Select
<1>1. PICK l \in Lasts(P) :
        /\ page' = [NoPage EXCEPT !.refs = P, !.last = l]
        /\ pc' = IF ask.what = "mismatches" /\ P # {} THEN "selected" ELSE "read"
  BY <1>0
<1>2. /\ page'.refs = P /\ page'.last = l
      /\ page'.found = [r \in Refs |-> {}]
      /\ page' = [refs |-> P, last |-> l, found |-> [r \in Refs |-> {}]]
  BY <1>1 DEF NoPage
<1>3. UNCHANGED <<open, details, entry, due, ask, token, seen, standing, changes, faults>>
  BY DEF Select, tables
<1>4. Qualifying \cap Beyond \in SUBSET Refs
  BY QualifyingType
<1>5. /\ P \subseteq Qualifying \cap Beyond
      /\ Cardinality(P) \in Nat /\ Cardinality(P) =< MaxSize
      /\ P = {} => Qualifying \cap Beyond = {}
  BY <1>4, CutsBounded
<1>6. l \in Refs \cup {0} /\ (P = {} => l = 0)
      /\ (P # {} => l \in P /\ \A p \in P : Precedes(p, l))
  BY <1>4, <1>5 DEF Lasts
<1>7. pc' \in {"selected", "read"}
  BY <1>1
<1>8. page' \in [refs : SUBSET Refs, last : Refs \cup {0}, found : [Refs -> SUBSET Systems]]
  BY <1>2, <1>4, <1>5, <1>6
<1>9. TypeOK'
  BY <1>2, <1>3, <1>5, <1>7, <1>8 DEF TypeOK
<1>10. (standing \subseteq Qualifying)' /\ Ended'
  BY <1>2, <1>3, <1>6 DEF Qualifying, Ended
<1>11. ASSUME ask.what = "mismatches" PROVE MismatchInv'
  <2> USE <1>11
  <2>1. P \subseteq Refs /\ P \subseteq open /\ \A r \in P : r > token
    BY <1>4, <1>5 DEF Qualifying, Beyond
  <2>2. \A r \in Refs : r \in Nat
    BY DEF ListingAssumption
  <2>3. token \in Nat
    BY <2>2 DEF TypeOK
  <2>4. Ordered'
    BY <1>2, <1>3, <1>6, <2>1, <2>2, <2>3 DEF Ordered, Precedes
  <2>5. Behind'
    BY <1>3, <1>7 DEF Behind, MismatchInv, Select
  <2>6. Gapless'
    <3> SUFFICES ASSUME NEW r \in standing, token < r, P = {} \/ r =< l PROVE r \in P
      BY <1>2, <1>3 DEF Gapless
    <3>1. r \in Qualifying \cap Beyond
      BY <2>2, <2>3, QualifyingType DEF Beyond, TypeOK
    <3>2. P # {} /\ l \in P /\ r =< l
      BY <3>1, <1>5, <1>6
    <3>3. CASE r \notin P
      <4>1. Precedes(l, r)
        BY <3>1, <3>2, <3>3 DEF Cuts
      <4>2. l \in Nat /\ r \in Nat /\ l =< r
        BY <4>1, <3>1, <3>2, <2>1, <2>2, QualifyingType DEF Precedes
      <4> QED BY <4>2, <3>2, <3>3
    <3> QED BY <3>3
  <2>7. Sourced'
    <3> SUFFICES ASSUME ask.filter # Any, NEW r \in P PROVE pc' = "selected" /\ ask.filter \in details[r]
      BY <1>2, <1>3, <1>7 DEF Sourced, Under
    <3> QED BY <1>1, <1>5 DEF Qualifying
  <2>8. Idle' /\ StandingListed'
    BY <1>7 DEF Idle, Under, StandingListed
  <2> QED BY <2>4, <2>5, <2>6, <2>7, <2>8 DEF MismatchInv
<1> QED BY <1>3, <1>9, <1>10, <1>11

\* The details are those of the rows selected: the rows stay.
LEMMA ReadDetailsInv == ASSUME ListingAssumption, Inv, ReadDetails PROVE Inv'
<1> USE DEF Inv
<1>1. UNCHANGED <<open, details, entry, due, ask, token, seen, standing, changes, faults>>
  BY DEF ReadDetails, tables
<1>2. /\ page'.refs = page.refs /\ page'.last = page.last
      /\ page'.found = [r \in Refs |-> IF r \in page.refs THEN details[r] ELSE {}]
      /\ page' \in [refs : SUBSET Refs, last : Refs \cup {0}, found : [Refs -> SUBSET Systems]]
  BY DEF ReadDetails, TypeOK
<1>3. pc = "selected" /\ pc' = "read"
  BY DEF ReadDetails
<1>4. TypeOK'
  BY <1>1, <1>2, <1>3 DEF TypeOK
<1>5. (standing \subseteq Qualifying)' /\ Ended'
  BY <1>1, <1>2 DEF Qualifying, Ended
<1>6. ASSUME ask.what = "mismatches" PROVE MismatchInv'
  <2>1. Sourced'
    BY <1>1, <1>2, <1>3, <1>6 DEF Sourced, Under, MismatchInv, TypeOK
  <2> QED BY <1>1, <1>2, <1>3, <1>6, <2>1
          DEF MismatchInv, Idle, Under, Ordered, Behind, Gapless, StandingListed
<1> QED BY <1>1, <1>4, <1>5, <1>6

\* An answer with the page up to l, or with part of it up to l, keeps the
\* invariant.
LEMMA AnsweredInv ==
  ASSUME ListingAssumption, Inv, Under,
         NEW I \in SUBSET page.refs, NEW l \in Refs \cup {0},
         I = {} => l = 0 /\ page.refs = {},
         I # {} => l \in I,
         ask.what = "mismatches" =>
           /\ \A i \in I : i =< l
           /\ \A i \in I, r \in page.refs \ I : i < r,
         Answered(I, l),
         UNCHANGED <<open, details, entry, due, ask, standing>>,
         changes' \in Nat, faults' \in Nat
  PROVE  Inv'
<1> USE DEF Inv
<1>1. /\ page' = [refs |-> {}, last |-> 0, found |-> [r \in Refs |-> {}]]
      /\ page'.refs = {} /\ page'.last = 0
  BY DEF Answered, NoPage
<1>2. /\ seen' = seen \cup I
      /\ token' = l
      /\ pc' = IF l = 0 THEN "done" ELSE "asked"
  BY DEF Answered, NextToken
<1>3. TypeOK'
  <2>1. Cardinality({}) = 0
    BY FS_EmptySet
  <2> QED BY <1>1, <1>2, <2>1 DEF TypeOK, ListingAssumption
<1>4. (standing \subseteq Qualifying)' /\ Ended'
  BY <1>1 DEF Qualifying, Ended
<1>5. ASSUME ask.what = "mismatches" PROVE MismatchInv'
  <2>0. \A r \in Refs : r \in Nat /\ r # 0
    BY DEF ListingAssumption
  <2>a. /\ token \in Refs \cup {0} /\ standing \subseteq Refs /\ seen \subseteq Refs
        /\ page.refs \subseteq Refs /\ page.last \in Refs \cup {0}
    BY DEF TypeOK
  <2>b. token \in Nat /\ page.last \in Nat
    <3>1. \A r \in Refs \cup {0} : r \in Nat
      BY <2>0
    <3> QED BY <3>1, <2>a
  <2>c. standing \cup seen \cup I \cup page.refs \subseteq Refs
    BY <2>a
  <2>1. /\ token \in Nat /\ page.last \in Nat
        /\ \A r \in standing \cup seen \cup I \cup page.refs : r \in Nat /\ r # 0
    BY <2>0, <2>b, <2>c
  <2>2. pc # "done"
    BY DEF Under
  <2>3. CASE I = {}
    <3>1. \A r \in standing : r \in seen
      BY <1>5, <2>1, <2>2, <2>3 DEF MismatchInv, Behind, Gapless
    <3> QED BY <1>1, <1>2, <2>3, <3>1
            DEF MismatchInv, Idle, Under, Ordered, Behind, Gapless, Sourced, StandingListed
  <2>4. CASE I # {}
    <3>1. l \in I /\ l \in page.refs /\ token < l /\ l =< page.last /\ l # 0
      BY <1>5, <2>1, <2>4 DEF MismatchInv, Ordered
    <3>2. \A r \in seen \cup I : r =< l
      BY <1>5, <2>1, <2>2, <3>1 DEF MismatchInv, Behind
    <3>3. ASSUME NEW r \in standing, r =< l PROVE r \in seen \cup I
      <4>1. CASE r =< token
        BY <1>5, <2>2, <4>1 DEF MismatchInv, Behind
      <4>2. CASE token < r
        <5>1. r \in page.refs
          BY <1>5, <2>1, <3>1, <3>3, <4>2 DEF MismatchInv, Gapless
        <5> QED BY <5>1, <1>5, <2>1, <3>1, <3>3
      <4> QED BY <4>1, <4>2, <2>1
    <3> QED BY <1>1, <1>2, <3>1, <3>2, <3>3
            DEF MismatchInv, Idle, Under, Ordered, Behind, Gapless, Sourced, StandingListed
  <2> QED BY <2>3, <2>4
<1> QED BY <1>3, <1>4, <1>5

\* A page that is refused is as if it had not been asked for.
LEMMA RefusedInv ==
  ASSUME ListingAssumption, Inv, pc # "done", Refused,
         UNCHANGED <<open, details, entry, due, ask, standing>>,
         changes' \in Nat, faults' \in Nat
  PROVE  Inv'
<1> USE DEF Inv
<1>1. /\ page' = [refs |-> {}, last |-> 0, found |-> [r \in Refs |-> {}]]
      /\ page'.refs = {} /\ page'.last = 0
      /\ pc' = "asked" /\ UNCHANGED <<token, seen>>
  BY DEF Refused, NoPage
<1>2. TypeOK'
  <2>1. Cardinality({}) = 0
    BY FS_EmptySet
  <2> QED BY <1>1, <2>1 DEF TypeOK, ListingAssumption
<1>3. (standing \subseteq Qualifying)' /\ Ended'
  BY <1>1 DEF Qualifying, Ended
<1>4. ASSUME ask.what = "mismatches" PROVE MismatchInv'
  BY <1>1, <1>4
     DEF MismatchInv, Idle, Under, Ordered, Behind, Gapless, Sourced, StandingListed
<1> QED BY <1>2, <1>3, <1>4

LEMMA DeliverInv == ASSUME ListingAssumption, Inv, Deliver PROVE Inv'
<1>1. Answered(page.refs, page.last) /\ pc = "read"
  BY DEF Deliver
<1>2. UNCHANGED <<open, details, entry, due, ask, standing, changes, faults>>
  BY DEF Deliver, tables
<1>3. page.refs \subseteq page.refs /\ page.last \in Refs \cup {0}
  BY DEF Inv, TypeOK
<1>4. changes' \in Nat /\ faults' \in Nat
  BY <1>2 DEF Inv, TypeOK
<1>5. CASE ask.what = "mismatches"
  <2>1. Ordered
    BY <1>5 DEF Inv, MismatchInv
  <2> QED BY <1>1, <1>2, <1>3, <1>4, <2>1, AnsweredInv DEF Under, Ordered, Inv, Ended
<1>6. CASE ask.what # "mismatches"
  BY <1>1, <1>2, <1>3, <1>4, <1>6, AnsweredInv DEF Under, Inv, Ended
<1> QED BY <1>5, <1>6

LEMMA QueryFailsInv == ASSUME ListingAssumption, Inv, QueryFails PROVE Inv'
<1>1. /\ pc # "done" /\ Refused /\ faults' = faults + 1
      /\ UNCHANGED <<open, details, entry, due, ask, standing, changes>>
  BY DEF QueryFails, tables
<1>2. changes' \in Nat /\ faults' \in Nat
  BY <1>1 DEF Inv, TypeOK
<1> QED BY <1>1, <1>2, RefusedInv

\* What the gateway has received of a broken stream is the page up to an item.
LEMMA BreakInv == ASSUME ListingAssumption, Inv, Break PROVE Inv'
<1>1. PICK I \in Received :
        IF I = {} THEN Refused ELSE \E l \in Lasts(I) : Answered(I, l)
  BY DEF Break
<1>2. /\ pc = "read" /\ ask.via = "gateway" /\ faults' = faults + 1
      /\ UNCHANGED <<open, details, entry, due, ask, standing, changes>>
  BY DEF Break, tables
<1>3. changes' \in Nat /\ faults' \in Nat
  BY <1>2 DEF Inv, TypeOK
<1>4. CASE I = {}
  BY <1>1, <1>2, <1>3, <1>4, RefusedInv
<1>5. CASE I # {}
  <2>1. PICK l \in Lasts(I) : Answered(I, l)
    BY <1>1, <1>5
  <2>2. /\ I \in SUBSET page.refs /\ page.refs \subseteq Refs
        /\ \A i \in I, r \in page.refs \ I : i < r
    BY DEF Received, Inv, TypeOK
  <2>3. l \in I /\ l \in Refs \cup {0} /\ \A i \in I : Precedes(i, l)
    BY <1>5, <2>2 DEF Lasts
  <2>4. ask.what = "mismatches" => \A i \in I : i =< l
    BY <2>3 DEF Precedes
  <2> QED BY <1>2, <1>3, <1>5, <2>1, <2>2, <2>3, <2>4, AnsweredInv DEF Under
<1> QED BY <1>4, <1>5

-----------------------------------------------------------------------------
(* Changes to the tables                                                   *)

\* A change leaves the listing alone, and what stands can only become less.
LEMMA ChangedInv ==
  ASSUME ListingAssumption, Inv, Changed,
         open' \subseteq Refs,
         details' \in [Refs -> SUBSET Systems],
         \A r \in Refs : details[r] \subseteq details'[r],
         entry' \in [Refs -> Statuses \cup {"none"}],
         due' \in [Refs -> Times \cup {0}]
  PROVE  Inv'
<1> USE DEF Inv
<1>1. /\ UNCHANGED <<ask, token, pc, page, seen, faults>>
      /\ changes' \in Nat /\ pc # "done"
      /\ standing' \subseteq standing /\ standing' \subseteq Qualifying'
  BY DEF Changed, TypeOK
<1>2. TypeOK'
  BY <1>1 DEF TypeOK
<1>3. Ended'
  BY <1>1 DEF Ended
<1>4. ASSUME ask.what = "mismatches" PROVE MismatchInv'
  <2>1. Sourced'
    BY <1>1, <1>4 DEF MismatchInv, Sourced, Under, TypeOK
  <2> QED BY <1>1, <1>4, <2>1
          DEF MismatchInv, Idle, Under, Ordered, Behind, Gapless, StandingListed
<1> QED BY <1>1, <1>2, <1>3, <1>4

LEMMA TablesInv ==
  ASSUME ListingAssumption, Inv, NEW r \in Refs,
         StatusWritten(r) \/ DetailWritten(r) \/ QueueWritten(r)
  PROVE  Inv'
<1>0. /\ open \subseteq Refs /\ details \in [Refs -> SUBSET Systems]
      /\ entry \in [Refs -> Statuses \cup {"none"}] /\ due \in [Refs -> Times \cup {0}]
  BY DEF Inv, TypeOK
<1>1. CASE StatusWritten(r)
  BY <1>0, <1>1, ChangedInv DEF StatusWritten
<1>2. CASE DetailWritten(r)
  BY <1>0, <1>2, ChangedInv DEF DetailWritten
<1>3. CASE QueueWritten(r)
  BY <1>0, <1>3, ChangedInv DEF QueueWritten
<1> QED BY <1>1, <1>2, <1>3

-----------------------------------------------------------------------------
LEMMA StutterInv == ASSUME Inv, UNCHANGED vars PROVE Inv'
BY DEF Inv, TypeOK, Ended, Qualifying, MismatchInv, Idle, Under, Ordered, Behind, Gapless,
       Sourced, StandingListed, PageSize, vars

LEMMA StepInv == ASSUME ListingAssumption, Inv, [Next]_vars PROVE Inv'
<1>1. CASE Reading
  BY <1>1, SelectInv, ReadDetailsInv, DeliverInv DEF Reading
<1>2. CASE QueryFails \/ Break
  BY <1>2, QueryFailsInv, BreakInv
<1>3. CASE \E r \in Refs : StatusWritten(r) \/ DetailWritten(r) \/ QueueWritten(r)
  BY <1>3, TablesInv
<1>4. CASE UNCHANGED vars
  BY <1>4, StutterInv
<1> QED BY <1>1, <1>2, <1>3, <1>4 DEF Next

THEOREM ListingInvariant == Spec => []Inv
<1>1. Init => Inv
  BY InitInv, ListingAssumption
<1>2. Inv /\ [Next]_vars => Inv'
  BY StepInv, ListingAssumption
<1> QED BY <1>1, <1>2, PTL DEF Spec

\* Every variable keeps its type, for any tables, sizes and bounds.
THEOREM ListingTypeOK == Spec => []TypeOK
<1>1. Inv => TypeOK
  BY DEF Inv
<1> QED BY <1>1, ListingInvariant, PTL

\* A complete listing of the mismatches, over HTTP or through the gateway's
\* buffer, has everything that qualified all along.
THEOREM NothingMissed == Spec => []StandingListed
<1>1. Inv => StandingListed
  BY DEF Inv, MismatchInv, StandingListed
<1> QED BY <1>1, ListingInvariant, PTL

\* It gives nothing twice.
THEOREM NothingTwice == Spec => []ListedOnce
<1>1. Inv => ListedOnce
  <2> SUFFICES ASSUME Inv, ask.what = "mismatches", NEW r \in page.refs, r \in seen
               PROVE FALSE
    BY DEF ListedOnce
  <2>1. Under
    BY DEF Inv, MismatchInv, Idle
  <2>2. pc # "done" /\ token < r /\ r =< token
    BY <2>1 DEF Under, Inv, MismatchInv, Ordered, Behind
  <2>3. r \in Nat /\ token \in Nat
    BY ListingAssumption DEF ListingAssumption, Inv, TypeOK
  <2> QED BY <2>2, <2>3
<1> QED BY <1>1, ListingInvariant, PTL

\* And, asked for one source, nothing that the source has no details of.
THEOREM OnlyQualified == Spec => []ListedQualified
<1>1. Inv => ListedQualified
  BY DEF Inv, MismatchInv, Sourced, Under, ListedQualified
<1> QED BY <1>1, ListingInvariant, PTL
=============================================================================
