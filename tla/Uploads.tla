------------------------------- MODULE Uploads -------------------------------
(***************************************************************************)
(* How the bodies of requests become records (ingestion, internal/adapters *)
(* webhook.go and file.go; gateway, submitRecord).  A body holds several   *)
(* records in some form, and the handler queues them one after another,    *)
(* waiting while the adapter queue is full, until it is through, the body  *)
(* turns out to be damaged, or the client goes away; then it answers.      *)
(* The gateway's request is one record and is submitted at once.           *)
(*                                                                         *)
(* SubmitRecord is one step here; its statements, failures and restarts    *)
(* are the subject of Ingestion.  What a handler refuses before it reads   *)
(* a record (method, extension, missing source, a file larger than         *)
(* MaxFileSizeBytes, a body that breaks off while the webhook still reads  *)
(* it) touches no state and is left out.                                   *)
(***************************************************************************)
EXTENDS Pipeline, Integers, Sequences

CONSTANTS
  Clients,     \* connections that upload
  Bodies,      \* the bodies they may send
  QueueCap,    \* capacity of the adapter queue (10 000)
  MaxUploads   \* bound: requests

\* To the webhook, a body that begins with '[', one that begins with '{', and
\* any other; to the file handler, a .csv and any other; to the gateway.
WebhookForms == {"array", "object", "lines"}
FileForms    == {"csv", "ndjson"}

Form == WebhookForms \cup FileForms \cup {"call"}

\* How a body ends: as it should; damaged, by a JSON value cut off, a line longer
\* than the scanner's buffer, a CSV row of the wrong length; or past MaxBodyBytes,
\* where the webhook silently stops reading, between two records ("cut") or in
\* the middle of one ("torn").  The items are the records before that end.
Ends == {"whole", "damaged", "cut", "torn"}

\* The source of an upload is given with the request, whatever a record says.
Body == [form : Form, items : Seq(Item), end : Ends]

ASSUME UploadsAssumption ==
  /\ None \notin Keys
  /\ Keys \cap Nat = {}
  /\ Bodies \subseteq Body
  /\ \A b \in Bodies : IF b.form = "call" THEN Len(b.items) = 1
                        ELSE \A i \in 1..Len(b.items) : b.items[i].source
  /\ \A b \in Bodies : b.end \in {"cut", "torn"} => b.form \in WebhookForms
  /\ QueueCap \in Nat \ {0} /\ MaxUploads \in Nat

VARIABLES
  client,    \* the local state of each request
  queue,     \* the adapter queue: records with the key they got
  stored,    \* ingestion_records
  dead,      \* the DLQ
  uuids,     \* keys made up so far
  uploads    \* requests made so far

vars == <<client, queue, stored, dead, uuids, uploads>>

\* A piece of a body that is not one JSON object becomes one record of which no
\* field can be read.
Illegible == [key |-> None, ref |-> None, source |-> TRUE,
              payload |-> [kind |-> "opaque", amount |-> None, currency |-> None, time |-> None]]

\* A body that begins with '{' is taken for one JSON object, whatever follows.
Merges(b) == b.form = "object" /\ (b.end \in {"damaged", "torn"} \/ Len(b.items) # 1)

\* Mutant: the elements of an array are queued as they are decoded.
RecordsDecoded(b) ==
  CASE Merges(b) -> <<Illegible>>
    [] b.form = "lines" /\ b.end = "torn" -> Append(b.items, Illegible)
    [] OTHER -> b.items

\* The records that are queued for b, if nothing else stops the handler.
Records(b) ==
  CASE Merges(b) -> <<Illegible>>
    [] b.form = "array" /\ b.end # "whole" -> <<>>
    [] b.form = "lines" /\ b.end = "torn" -> Append(b.items, Illegible)
    [] OTHER -> b.items

\* The status of the answer when the handler is through: the webhook takes an
\* object, and lines up to its limit, for all there is.
Status(b) ==
  IF \/ b.end = "whole" \/ b.form = "object"
     \/ b.form = "lines" /\ b.end \in {"cut", "torn"}
  THEN 202 ELSE IF b.form \in FileForms THEN 422 ELSE 400

Failure(b) == IF b.form \in FileForms THEN 422 ELSE 400

NoUpload == [form |-> "call", items |-> <<>>, end |-> "whole"]

Init ==
  /\ client = [c \in Clients |-> [pc |-> "idle", body |-> NoUpload, sent |-> <<>>, status |-> 0]]
  /\ queue = <<>>
  /\ stored = {} /\ dead = {}
  /\ uuids = 0 /\ uploads = 0

-----------------------------------------------------------------------------
(* SubmitRecord                                                            *)

\* INSERT ... ON CONFLICT (idempotency_key) DO NOTHING
Inserted(row) == IF \E r \in stored : r.key = row.key THEN stored ELSE stored \cup {row}

\* The limiter refuses the record, and nothing is written.
Refused == UNCHANGED <<stored, dead>>

\* The idempotency entry of a stored key is found, unless it has expired.
Hit(key) == /\ \E r \in stored : r.key = key
            /\ UNCHANGED <<stored, dead>>

Failed(item, key) ==
  /\ Rejected(ToRecord(item, key))
  /\ dead' = dead \cup {[key |-> key, item |-> item]}
  /\ UNCHANGED stored

Passed(item, key) ==
  /\ ~Rejected(ToRecord(item, key))
  /\ stored' = Inserted([key |-> key, item |-> item,
                         record |-> Normalized(ToRecord(item, key))])
  /\ UNCHANGED dead

Answered(c, status) ==
  client' = [client EXCEPT ![c] = [pc |-> "idle", body |-> @.body, sent |-> @.sent, status |-> status]]

Called(c, b, status) ==
  client' = [client EXCEPT ![c] = [pc |-> "idle", body |-> b, sent |-> <<>>, status |-> status]]

\* The gateway's POST /v1/ingest: success and failure of the pipeline are both
\* answered 202, a refusal 429.
Call(c, b) ==
  LET item == b.items[1] IN
  /\ b.form = "call"
  /\ client[c].pc = "idle"
  /\ uploads < MaxUploads
  /\ uploads' = uploads + 1
  /\ \/ b.end # "whole" /\ Refused /\ Called(c, b, 400)
     \/ b.end = "whole" /\ Refused /\ Called(c, b, 429)
     \/ /\ b.end = "whole"
        /\ Hit(item.key) \/ Failed(item, item.key) \/ Passed(item, item.key)
        /\ Called(c, b, 202)
  /\ UNCHANGED <<queue, uuids>>

-----------------------------------------------------------------------------
(* The webhook and file handlers                                           *)

Upload(c, b) ==
  /\ b.form # "call"
  /\ client[c].pc = "idle"
  /\ uploads < MaxUploads
  /\ uploads' = uploads + 1
  /\ client' = [client EXCEPT ![c] = [pc |-> "sending", body |-> b, sent |-> <<>>, status |-> 0]]
  /\ UNCHANGED <<queue, stored, dead, uuids>>

\* The record c has to send next, if there is one left.
Pending(c) == client[c].pc = "sending" /\ Len(client[c].sent) < Len(Records(client[c].body))

NextItem(c) == Records(client[c].body)[Len(client[c].sent) + 1]

\* Mutant: the channel counts as full with a place left.
RoomOneLess == Len(queue) + 1 < QueueCap

Room == Len(queue) < QueueCap

\* Mutant: every record gets a key of its own.
KeyedAfresh(item) == uuids + 1

\* Mutant: no key is made up.
KeyedAsSent(item) == item.key

\* A record without a key gets a UUID.
Keyed(item) == IF item.key = None THEN uuids + 1 ELSE item.key

Send(c) ==
  /\ Pending(c)
  /\ Room
  /\ queue' = Append(queue, [key |-> Keyed(NextItem(c)), item |-> NextItem(c)])
  /\ uuids' = IF Keyed(NextItem(c)) = uuids + 1 THEN uuids + 1 ELSE uuids
  /\ client' = [client EXCEPT ![c].sent = Append(@, NextItem(c))]
  /\ UNCHANGED <<stored, dead, uploads>>

\* The client goes away (ctx.Done) while the handler has a record to send.
GoAway(c) ==
  /\ Pending(c)
  /\ Answered(c, Failure(client[c].body))
  /\ UNCHANGED <<queue, stored, dead, uuids, uploads>>

Finish(c) ==
  /\ client[c].pc = "sending" /\ ~Pending(c)
  /\ Answered(c, Status(client[c].body))
  /\ UNCHANGED <<queue, stored, dead, uuids, uploads>>

-----------------------------------------------------------------------------
\* consumeAdapterQueue
Consume ==
  LET first == Head(queue) IN
  /\ queue # <<>>
  /\ queue' = Tail(queue)
  /\ \/ Refused
     \/ Hit(first.key)
     \/ Failed(first.item, first.key)
     \/ Passed(first.item, first.key)
  /\ UNCHANGED <<client, uuids, uploads>>

Next ==
  \/ \E c \in Clients : \/ Send(c) \/ GoAway(c) \/ Finish(c)
                        \/ \E b \in Bodies : Call(c, b) \/ Upload(c, b)
  \/ Consume

Spec == Init /\ [][Next]_vars

\* The goroutines are scheduled, and a channel serves the senders that wait for
\* room in the order they came.
FairSpec ==
  /\ Spec
  /\ WF_vars(Consume)
  /\ \A c \in Clients : SF_vars(Send(c)) /\ WF_vars(Finish(c))

-----------------------------------------------------------------------------
(* Properties                                                              *)

Key == Keys \cup 1..uuids

\* Every variable has its type; what is queued or stored has a key, and the
\* DLQ alone may hold a record without one.
TypeOK ==
  /\ client \in [Clients -> [pc : {"idle", "sending"}, body : Bodies \cup {NoUpload},
                             sent : Seq(Item), status : {0, 202, 400, 422, 429}]]
  /\ queue \in Seq([key : Key, item : Item]) /\ Len(queue) =< QueueCap
  /\ \A r \in stored : r.key \in Key /\ r.item \in Item /\ r.record.payload = r.item.payload
  /\ dead \subseteq [key : Key \cup {None}, item : Item]
  /\ uuids \in Nat /\ uploads \in 0..MaxUploads

\* What the status tells is so far so, wherever the body ends and whenever the
\* client goes away: the records queued are the first of the body, in their
\* order; none if an array is not whole; all that were read if the answer is 202.
\* It does not tell that all were read: of lines past MaxBodyBytes the rest is
\* missing, with one illegible record for the line that was torn, and of a body
\* that begins with '{' and is not one object no record is queued at all, though
\* webhook.go:46-49 accepts "NDJSON: one JSON object per line" (webhook.go,
\* ServeHTTP, parseAndQueue; file.go, parseNDJSON, parseCSV).
QueuedIsPrefix ==
  \A c \in Clients :
    LET b == client[c].body  sent == client[c].sent
        torn == b.form = "lines" /\ b.end = "torn"
        accepted == client[c].pc = "idle" /\ client[c].status = 202 /\ b.form # "call" IN
    IF Merges(b) THEN sent \in {<<>>, <<Illegible>>}
    ELSE /\ \/ Len(sent) =< Len(b.items) /\ sent = SubSeq(b.items, 1, Len(sent))
            \/ torn /\ sent = Append(b.items, Illegible)
         /\ b.form = "array" /\ b.end # "whole" => sent = <<>>
         /\ accepted => /\ sent = IF torn THEN Append(b.items, Illegible) ELSE b.items
                        /\ b.end = "whole" \/ (b.form # "array" /\ b.end \in {"cut", "torn"})

\* A record sent with a key is stored once, however often and through
\* whichever door its body is sent again after it was cut short; and a body of
\* several records is never stored as one (webhook.go, enqueue; file.go;
\* server.go, SubmitRecord).
StoredOnce ==
  /\ \A r, s \in stored : r.item = s.item /\ r.item.key # None => r = s
  /\ \A r \in stored : r.item # Illegible

\* A handler that waits for room in the queue gets through and answers
\* (webhook.go, enqueue; main.go:133, "natural backpressure").
UploadEnds == \A c \in Clients : client[c].pc = "sending" ~> client[c].pc = "idle"

\* validate.go:39-40, "currency must be a recognised ISO 4217 code (if present)",
\* "record timestamp must not be too far in the future": what is stored obeys
\* the rules of Validate.
StoredIsValid == \A r \in stored : Valid(r.record)
=============================================================================
