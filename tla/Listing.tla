------------------------------- MODULE Listing -------------------------------
(***************************************************************************)
(* The listings of the resolution service, read page by page while the     *)
(* tables change: the MISMATCHED transactions, over HTTP or through the    *)
(* gateway (which buffers a gRPC stream), and the retry queue (HTTP; the   *)
(* gateway pipes the answer through).  A page continues after a            *)
(* transaction_ref, the page_token.  There is no transaction around the    *)
(* pages, nor around the two queries that make up one page.                *)
(*                                                                         *)
(* A behaviour is one listing by one client, who sends each next_page_token*)
(* back until he gets none, and repeats a request that fails.  The other   *)
(* table is at rest meanwhile: no listing reads both.                      *)
(***************************************************************************)
EXTENDS Integers, FiniteSets

CONSTANTS
  Refs,         \* transaction_refs, numbered as the database orders them
  Systems,      \* source systems
  Times,        \* the values of next_retry_at, in their order
  Any,          \* "no filter"
  Sizes,        \* the page_size values a client may ask for
  DefaultSize, MaxSize,   \* 20 and 100 for mismatches, 50 and 200 for the queue
  MaxChanges,   \* bound: changes to the tables
  MaxFaults     \* bound: failed queries and broken streams

ASSUME ListingAssumption ==
  /\ Refs \subseteq Nat \ {0} /\ IsFiniteSet(Refs)
  /\ Times \subseteq Nat
  /\ Sizes \subseteq Int
  /\ MaxSize \in Nat /\ DefaultSize \in 1..MaxSize
  /\ MaxChanges \in Nat /\ MaxFaults \in Nat

Statuses == {"PENDING", "EXHAUSTED", "RESOLVED"}

VARIABLES
  open,      \* the transactions whose recon_state.status is MISMATCHED
  details,   \* the systems each has a row of recon_match_details for
  entry,     \* resolution_retry_queue: the status of each row, or "none"
  due,       \* and its next_retry_at
  ask,       \* the listing: what, through which door, with which filter and size
  token,     \* the page_token of the next request; 0 if there is none
  pc,        \* "asked", "selected", "read" or "done"
  page,      \* the transactions of the page under way, and the last of them
  seen,      \* the transactions the client has been given
  standing,  \* ghost: those that have qualified ever since the listing began
  changes, faults

tables == <<open, details, entry, due>>
vars == <<open, details, entry, due, ask, token, pc, page, seen, standing, changes, faults>>

NoPage == [refs |-> {}, last |-> 0, found |-> [r \in Refs |-> {}]]

-----------------------------------------------------------------------------
(* The queries                                                             *)

\* Mutant: a size that is too large is granted.
PageSizeUncapped == IF ask.size =< 0 THEN DefaultSize ELSE ask.size

PageSize == IF ask.size =< 0 \/ ask.size > MaxSize THEN DefaultSize ELSE ask.size

\* Mutant: a page that continues another is not filtered.
QualifyingFirst ==
  IF ask.what = "mismatches"
  THEN {r \in open : ask.filter = Any \/ token # 0 \/ ask.filter \in details[r]}
  ELSE {r \in Refs : entry[r] # "none" /\ ask.filter \in {Any, entry[r]}}

\* The WHERE clause; the join is DISTINCT.
Qualifying ==
  IF ask.what = "mismatches"
  THEN {r \in open : ask.filter = Any \/ ask.filter \in details[r]}
  ELSE {r \in Refs : entry[r] # "none" /\ ask.filter \in {Any, entry[r]}}

\* Mutant: the page begins with the token's own transaction.
From == {r \in Refs : r >= token}

Beyond == {r \in Refs : r > token}

\* The ORDER BY clause; rows that are due together come in any order.
Precedes(q, r) == IF ask.what = "mismatches" THEN q =< r ELSE due[q] =< due[r]

\* The LIMIT clause: the pages rows can be cut to.
Cuts(rows) ==
  {P \in SUBSET rows :
     /\ Cardinality(P) = IF Cardinality(rows) < PageSize THEN Cardinality(rows) ELSE PageSize
     /\ \A p \in P, q \in rows \ P : Precedes(p, q)}

\* The transaction a page ends with; 0 for an empty page.
Lasts(P) == IF P = {} THEN {0} ELSE {l \in P : \A p \in P : Precedes(p, l)}

Select ==
  /\ pc = "asked"
  /\ \E P \in Cuts(Qualifying \cap Beyond) : \E l \in Lasts(P) :
       /\ page' = [NoPage EXCEPT !.refs = P, !.last = l]
       /\ pc' = IF ask.what = "mismatches" /\ P # {} THEN "selected" ELSE "read"
  /\ UNCHANGED <<tables, ask, token, seen, standing, changes, faults>>

\* ListMismatched's second query: the details of the rows it has found.
ReadDetails ==
  /\ pc = "selected"
  /\ page' = [page EXCEPT !.found = [r \in Refs |-> IF r \in page.refs THEN details[r] ELSE {}]]
  /\ pc' = "read"
  /\ UNCHANGED <<tables, ask, token, seen, standing, changes, faults>>

-----------------------------------------------------------------------------
(* The answer                                                              *)

\* Mutant: an empty page is answered with the token it was asked with.
NextTokenKept(P, last) == IF P = {} THEN token ELSE last

\* The transaction_ref of the last item, or none.
NextToken(P, last) == IF P = {} THEN 0 ELSE last

\* The client has the items P, and goes on if there is a token.
Answered(P, last) ==
  /\ seen' = seen \cup P
  /\ token' = NextToken(P, last)
  /\ pc' = IF token' = 0 THEN "done" ELSE "asked"
  /\ page' = NoPage

Deliver ==
  /\ pc = "read"
  /\ Answered(page.refs, page.last)
  /\ UNCHANGED <<tables, ask, standing, changes, faults>>

\* An answer of status 500: the client asks again.
Refused ==
  /\ pc' = "asked"
  /\ page' = NoPage
  /\ UNCHANGED <<token, seen>>

\* Mutant: the error is dropped, and no rows are an empty page.
QueryFailsEmpty ==
  /\ pc \in {"asked", "selected"}
  /\ faults < MaxFaults
  /\ faults' = faults + 1
  /\ Answered({}, 0)
  /\ UNCHANGED <<tables, ask, standing, changes>>

QueryFails ==
  /\ pc \in {"asked", "selected"}
  /\ faults < MaxFaults
  /\ faults' = faults + 1
  /\ Refused
  /\ UNCHANGED <<tables, ask, standing, changes>>

\* What the gateway may have received when the stream breaks.
Received == {I \in SUBSET page.refs : \A i \in I, r \in page.refs \ I : i < r}

\* Mutant: nothing received is answered as an empty page.
BreakToEmpty ==
  /\ pc = "read"
  /\ ask.via = "gateway"
  /\ faults < MaxFaults
  /\ faults' = faults + 1
  /\ \E I \in Received : \E l \in Lasts(I) : Answered(I, l)
  /\ UNCHANGED <<tables, ask, standing, changes>>

\* The gateway answers with the part it has, or with an error if it has none.
Break ==
  /\ pc = "read"
  /\ ask.via = "gateway"
  /\ faults < MaxFaults
  /\ faults' = faults + 1
  /\ \E I \in Received : IF I = {} THEN Refused ELSE \E l \in Lasts(I) : Answered(I, l)
  /\ UNCHANGED <<tables, ask, standing, changes>>

-----------------------------------------------------------------------------
(* The tables change meanwhile                                             *)

Listings ==
  [what : {"mismatches"}, via : {"http", "gateway"}, filter : {Any} \cup Systems, size : Sizes]
    \cup [what : {"queue"}, via : {"http"}, filter : {Any} \cup Statuses, size : Sizes]

Changed ==
  /\ pc # "done"
  /\ changes < MaxChanges
  /\ changes' = changes + 1
  /\ UNCHANGED <<ask, token, pc, page, seen, faults>>
  /\ standing' = standing \cap Qualifying'

\* A transaction becomes MISMATCHED, or something else: a verdict, a
\* re-trigger or a resolution.
StatusWritten(r) ==
  /\ ask.what = "mismatches"
  /\ open' = IF r \in open THEN open \ {r} ELSE open \cup {r}
  /\ UNCHANGED <<details, entry, due>>
  /\ Changed

\* The engine adds a detail row, after the state row; it never deletes one.
DetailWritten(r) ==
  /\ ask.what = "mismatches"
  /\ \E s \in Systems \ details[r] : details' = [details EXCEPT ![r] = @ \cup {s}]
  /\ UNCHANGED <<open, entry, due>>
  /\ Changed

\* A row is enqueued, counted, closed or enqueued again; none is deleted.
QueueWritten(r) ==
  /\ ask.what = "queue"
  /\ \E s \in Statuses : entry' = [entry EXCEPT ![r] = s]
  /\ \E d \in Times : due' = [due EXCEPT ![r] = d]
  /\ UNCHANGED <<open, details>>
  /\ Changed

Init ==
  /\ ask \in Listings
  /\ open \in IF ask.what = "mismatches" THEN SUBSET Refs ELSE {{}}
  /\ details \in IF ask.what = "mismatches" THEN [Refs -> SUBSET Systems]
                                            ELSE {[r \in Refs |-> {}]}
  /\ entry \in IF ask.what = "queue" THEN [Refs -> Statuses \cup {"none"}]
                                     ELSE {[r \in Refs |-> "none"]}
  /\ due \in IF ask.what = "queue" THEN [Refs -> Times] ELSE {[r \in Refs |-> 0]}
  /\ \A r \in Refs : entry[r] = "none" => due[r] = 0
  /\ token = 0
  /\ pc = "asked"
  /\ page = NoPage
  /\ seen = {}
  /\ standing = Qualifying
  /\ changes = 0 /\ faults = 0

Reading == Select \/ ReadDetails \/ Deliver

Next ==
  \/ Reading \/ QueryFails \/ Break
  \/ \E r \in Refs : StatusWritten(r) \/ DetailWritten(r) \/ QueueWritten(r)

Spec == Init /\ [][Next]_vars

\* Requests are answered and the client goes on asking.
FairSpec == Spec /\ WF_vars(Reading)

-----------------------------------------------------------------------------
(* Properties                                                              *)

\* Every variable has its type; a page is never longer than the maximum.
TypeOK ==
  /\ open \subseteq Refs
  /\ details \in [Refs -> SUBSET Systems]
  /\ entry \in [Refs -> Statuses \cup {"none"}]
  /\ due \in [Refs -> Times \cup {0}]
  /\ ask \in Listings
  /\ token \in Refs \cup {0}
  /\ pc \in {"asked", "selected", "read", "done"}
  /\ page \in [refs : SUBSET Refs, last : Refs \cup {0}, found : [Refs -> SUBSET Systems]]
  /\ Cardinality(page.refs) =< MaxSize
  /\ seen \subseteq Refs
  /\ standing \subseteq Refs
  /\ changes \in Nat /\ faults \in Nat

\* A complete listing of the mismatches has every transaction that qualified
\* all along, though rows come and go between the pages, queries fail and the
\* gateway's stream breaks (db.go, ListMismatched; gateway handlers.go,
\* listMismatches).
StandingListed == pc = "done" /\ ask.what = "mismatches" => standing \subseteq seen

\* A listing of the mismatches gives no transaction twice, whatever is listed
\* anew, asked again or cut short (db.go, ListMismatched).
ListedOnce == ask.what = "mismatches" => page.refs \cap seen = {}

\* Asked for one source, it gives no transaction without a detail row of that
\* source, though the details are read by a second query and a later page by
\* a third (db.go, ListMismatched).
ListedQualified ==
  pc = "read" /\ ask.what = "mismatches" /\ ask.filter # Any
    => \A r \in page.refs : ask.filter \in page.found[r]

\* A client who follows next_page_token comes to an end, in either listing and
\* however the rows change.
ListingEnds == <>(pc = "done")
=============================================================================
