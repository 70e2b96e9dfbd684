------------------------------- MODULE Limiter -------------------------------
(***************************************************************************)
(* The per-source rate limiter of the ingestion service                    *)
(* (internal/ratelimit), asked by the gRPC handlers and by the consumer of *)
(* the adapter queue at the same time.  A map holds one token bucket per   *)
(* source; a source not configured gets its own at the first request.      *)
(* What runs under the map's lock is one step; between the lookup, the     *)
(* creation and the request to the bucket others may come in.  SetLimit,   *)
(* which nothing calls, is left out.                                       *)
(*                                                                         *)
(* The buckets are golang.org/x/time/rate: full at first, refilled with    *)
(* time, one token per admission.  Tokens are counted in parts of 1/Unit,  *)
(* so that a rate is a whole number of parts per second.                   *)
(***************************************************************************)
EXTENDS Integers, Sequences

CONSTANTS
  Sources,      \* source systems
  Callers,      \* goroutines that call Allow
  Unit,         \* the parts a token is counted in
  DefaultRate,  \* ratelimit.default_rps, in parts per second
  Overrides,    \* ratelimit.overrides: the rates of the configured sources
  MaxCalls,     \* bound: requests
  MaxNow        \* bound: seconds

ASSUME LimiterAssumption ==
  /\ Unit \in Nat \ {0} /\ DefaultRate \in Nat
  /\ DOMAIN Overrides \subseteq Sources
  /\ Overrides \in [DOMAIN Overrides -> Nat]
  /\ MaxCalls \in Nat /\ MaxNow \in Nat

VARIABLES
  limiters,   \* the map: which of the source's buckets is in it, 0 if none is
  level,      \* the buckets made for each source, with the tokens they hold
  caller,     \* the local state of each call
  now,        \* seconds since the start
  calls,      \* requests made
  admitted,   \* ghost: requests of each source that were allowed
  refused,    \* ghost: sources that were refused a request
  mark        \* ghost: [now, admitted] at the beginning of an observed window

vars == <<limiters, level, caller, now, calls, admitted, refused, mark>>

Rate(s) == IF s \in DOMAIN Overrides THEN Overrides[s] ELSE DefaultRate

\* Mutant: a slow source has no burst at all.
BurstForZero(rate) == (rate * 10) \div Unit

\* max(1, int(rps * 10))
BurstFor(rate) == LET burst == (rate * 10) \div Unit IN IF burst < 1 THEN 1 ELSE burst

\* A full bucket of s, in parts.
Full(s) == BurstFor(Rate(s)) * Unit

Idle(s) == [pc |-> "idle", source |-> s, bucket |-> 0]

Init ==
  /\ limiters = [s \in Sources |-> IF s \in DOMAIN Overrides THEN 1 ELSE 0]
  /\ level = [s \in Sources |-> IF s \in DOMAIN Overrides THEN <<Full(s)>> ELSE <<>>]
  /\ caller \in [Callers -> {Idle(s) : s \in Sources}]
  /\ now = 0 /\ calls = 0
  /\ admitted = [s \in Sources |-> 0]
  /\ refused = {}
  /\ mark = [now |-> now, admitted |-> admitted]

\* Allow, under the read lock: the bucket, if the source has one.
Lookup(p, s) ==
  /\ caller[p].pc = "idle"
  /\ calls < MaxCalls
  /\ calls' = calls + 1
  /\ caller' = [caller EXCEPT ![p] = [pc |-> IF limiters[s] = 0 THEN "create" ELSE "take",
                                      source |-> s, bucket |-> limiters[s]]]
  /\ UNCHANGED <<limiters, level, now, admitted, refused, mark>>

\* Mutant: no second look under the write lock.
CreateUnchecked(p) ==
  LET s == caller[p].source IN
  /\ caller[p].pc = "create"
  /\ level' = [level EXCEPT ![s] = Append(@, Full(s))]
  /\ limiters' = [limiters EXCEPT ![s] = Len(level[s]) + 1]
  /\ caller' = [caller EXCEPT ![p].pc = "take", ![p].bucket = limiters'[s]]
  /\ UNCHANGED <<now, calls, admitted, refused, mark>>

\* getOrCreate, under the write lock: another may have made the bucket since.
Create(p) ==
  LET s == caller[p].source IN
  /\ caller[p].pc = "create"
  /\ IF limiters[s] # 0
     THEN UNCHANGED <<limiters, level>>
     ELSE /\ level' = [level EXCEPT ![s] = Append(@, Full(s))]
          /\ limiters' = [limiters EXCEPT ![s] = Len(level[s]) + 1]
  /\ caller' = [caller EXCEPT ![p].pc = "take", ![p].bucket = limiters'[s]]
  /\ UNCHANGED <<now, calls, admitted, refused, mark>>

\* The bucket's own Allow: a token if it holds one.
Take(p) ==
  LET s == caller[p].source  b == caller[p].bucket IN
  /\ caller[p].pc = "take"
  /\ IF level[s][b] >= Unit
     THEN /\ level' = [level EXCEPT ![s][b] = @ - Unit]
          /\ admitted' = [admitted EXCEPT ![s] = @ + 1]
          /\ UNCHANGED refused
     ELSE /\ refused' = refused \cup {s}
          /\ UNCHANGED <<level, admitted>>
  /\ caller' = [caller EXCEPT ![p] = Idle(s)]
  /\ UNCHANGED <<limiters, now, calls, mark>>

\* Mutant: the refill does not stop at the burst.
RefilledPast(s, tokens) == tokens + Rate(s)

\* A second's refill of a bucket of s.
Refilled(s, tokens) == IF tokens + Rate(s) > Full(s) THEN Full(s) ELSE tokens + Rate(s)

Tick ==
  /\ now < MaxNow
  /\ now' = now + 1
  /\ level' = [s \in Sources |-> [b \in DOMAIN level[s] |-> Refilled(s, level[s][b])]]
  /\ UNCHANGED <<limiters, caller, calls, admitted, refused, mark>>

\* An observer begins to count.
Observe ==
  /\ mark' = [now |-> now, admitted |-> admitted]
  /\ UNCHANGED <<limiters, level, caller, now, calls, admitted, refused>>

Next ==
  \/ \E p \in Callers : Create(p) \/ Take(p) \/ \E s \in Sources : Lookup(p, s)
  \/ Tick \/ Observe

Spec == Init /\ [][Next]_vars

-----------------------------------------------------------------------------
(* Properties                                                              *)

\* Every variable has its type; a call in "take" holds a bucket of its source,
\* and no bucket holds more than the burst.
TypeOK ==
  /\ limiters \in [Sources -> Nat]
  /\ level \in [Sources -> Seq(Nat)]
  /\ \A s \in Sources : /\ limiters[s] =< Len(level[s])
                        /\ \A b \in DOMAIN level[s] : level[s][b] =< Full(s)
  /\ caller \in [Callers -> [pc : {"idle", "create", "take"}, source : Sources, bucket : Nat]]
  /\ \A p \in Callers :
       caller[p].pc = "take" => caller[p].bucket \in DOMAIN level[caller[p].source]
  /\ now \in Nat /\ calls \in Nat
  /\ admitted \in [Sources -> Nat]
  /\ refused \subseteq Sources
  /\ mark \in [now : 0..now, admitted : [Sources -> Nat]]

\* In whatever window, and however many calls race for a source's first
\* bucket, no more requests are admitted than the burst and the rate allow:
\* ingestion-service.md:38, "Prevents a single source from overwhelming the
\* pipeline" (ratelimit.go, Allow and getOrCreate).
AdmittedBounded ==
  \A s \in Sources :
    (admitted[s] - mark.admitted[s]) * Unit =< Full(s) + Rate(s) * (now - mark.now)

\* A source is refused only after it has spent a burst of its own, at least one
\* request, whatever the other sources send and however slow its rate
\* (ratelimit.go, burstFor: "max(1, rps*10)").
RefusedHasSpent == \A s \in refused : admitted[s] >= BurstFor(Rate(s)) /\ admitted[s] > 0
=============================================================================
