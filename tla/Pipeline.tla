------------------------------- MODULE Pipeline -------------------------------
(***************************************************************************)
(* The stages an ingested record goes through (ingestion, internal/        *)
(* pipeline), as pure operators, in the order main.go builds them: Enrich, *)
(* Validate, Normalize.  What SubmitRecord is called with has a key, a     *)
(* transaction_ref, a source and a payload; the amount, the currency and   *)
(* the time of the record are read out of the payload, which is JSON of    *)
(* the expected shape ("json"), anything else ("opaque"), nothing          *)
(* ("empty") or larger than MaxPayloadSize ("huge").  Values are classes:  *)
(* what a stage can tell apart.  Tags, schema and the server's clock,      *)
(* which Enrich stamps and no stage looks at, are left out.                *)
(***************************************************************************)
CONSTANTS
  Keys,    \* idempotency keys
  None     \* an empty field

Currencies == {"USD", "usd", "XXX"}

\* ValidISO4217
Known == {"USD"}

Amounts == {"positive", "negative", "text"}

Times == {"past", "future", "unreadable"}

Payload == [kind : {"json", "opaque", "empty", "huge"},
            amount : Amounts \cup {None},
            currency : Currencies \cup {None},
            time : Times \cup {None}]

\* The request as a client sends it: IngestRequest, or a piece of a body.
Item == [key : Keys \cup {None}, ref : {"printable", "binary", None},
         source : BOOLEAN, payload : Payload]

\* protoToRecord: the fields of the payload are not filled yet.
ToRecord(item, key) ==
  [key |-> key, ref |-> item.ref, source |-> item.source, payload |-> item.payload,
   amount |-> None, currency |-> None, time |-> None]

\* Validate
Valid(rec) ==
  /\ rec.key # None /\ rec.ref # None /\ rec.source
  /\ rec.ref = "printable"
  /\ rec.payload.kind # "huge"
  /\ rec.currency # None => rec.currency \in Known
  /\ rec.time # "future"
  /\ rec.amount # "negative"

\* strings.ToUpper
Upper(currency) == IF currency = "usd" THEN "USD" ELSE currency

\* Only an amount that is no number stops Normalize.
Parses(rec) == rec.payload.kind = "json" => rec.payload.amount # "text"

\* Normalize: a payload that is not JSON is kept as it is, a time that cannot
\* be read is none.
Normalized(rec) ==
  IF rec.payload.kind # "json" THEN rec
  ELSE [rec EXCEPT !.amount = rec.payload.amount,
                   !.currency = Upper(rec.payload.currency),
                   !.time = IF rec.payload.time = "unreadable" THEN None ELSE rec.payload.time]

\* Run, with the stages of main.go: the first error stops the record.
Rejected(rec) == ~Valid(rec) \/ ~Parses(rec)
=============================================================================
