---------------------------- MODULE UploadsProof ----------------------------
(***************************************************************************)
(* What a handler has queued is a prefix of the body it reads, and a keyed *)
(* record is stored once, for any clients, bodies and queue.  The argument:*)
(* the key of a record never changes between the body and the table, and   *)
(* the table has each key once.                                            *)
(***************************************************************************)
EXTENDS Uploads, SequenceTheorems, TLAPS

\* A record that came with a key still has it.
KeyKept(e) == e.item.key # None => e.key = e.item.key

QueueKept == \A i \in 1..Len(queue) : KeyKept(queue[i])

RowsKept == \A r \in stored : KeyKept(r) /\ r.item # Illegible

\* UNIQUE (idempotency_key)
KeysUnique == \A r, s \in stored : r.key = s.key => r = s

\* What c has sent are the first records of its body, all of them if it was
\* told so.
SentOf(b, sent) ==
  /\ Len(sent) =< Len(Records(b))
  /\ \A i \in 1..Len(sent) : sent[i] = Records(b)[i]

Progress ==
  \A c \in Clients :
    /\ SentOf(client[c].body, client[c].sent)
    /\ client[c].pc = "idle" /\ client[c].status = 202 /\ client[c].body.form # "call"
         => Len(client[c].sent) = Len(Records(client[c].body)) /\ Status(client[c].body) = 202

Inv == TypeOK /\ QueueKept /\ RowsKept /\ KeysUnique /\ Progress

-----------------------------------------------------------------------------
LEMMA IllegibleType == Illegible \in Item /\ Illegible.key = None /\ Illegible.ref = None
BY DEF Illegible, Item, Payload

\* The illegible record never passes the pipeline.
LEMMA IllegibleRejected == ASSUME NEW key PROVE Rejected(ToRecord(Illegible, key))
BY IllegibleType DEF Rejected, Valid, ToRecord

\* A record without a key never does either.
LEMMA KeylessRejected == ASSUME NEW item PROVE Rejected(ToRecord(item, None))
BY DEF Rejected, Valid, ToRecord

\* The pipeline keeps the payload as it came.
LEMMA PayloadKept ==
  ASSUME NEW item, NEW key
  PROVE  Normalized(ToRecord(item, key)).payload = item.payload
BY DEF Normalized, ToRecord

LEMMA BodyType ==
  ASSUME UploadsAssumption, NEW b \in Bodies \cup {NoUpload}
  PROVE  b \in Body /\ Records(b) \in Seq(Item)
<1>1. b \in Body
  <2>1. NoUpload \in Body
    BY EmptySeq DEF NoUpload, Body, Form, Ends
  <2> QED BY <2>1 DEF UploadsAssumption
<1>2. <<Illegible>> \in Seq(Item) /\ <<>> \in Seq(Item)
  BY IllegibleType
<1>3. b.items \in Seq(Item)
  BY <1>1 DEF Body
<1>4. Append(b.items, Illegible) \in Seq(Item)
  BY <1>3, IllegibleType, AppendProperties
<1> QED BY <1>1, <1>2, <1>3, <1>4 DEF Records

LEMMA SeqWiden ==
  ASSUME NEW A, NEW B, A \subseteq B, NEW s \in Seq(A)
  PROVE  s \in Seq(B)
OBVIOUS

\* The local state of a request.
Local == [pc : {"idle", "sending"}, body : Bodies \cup {NoUpload},
          sent : Seq(Item), status : {0, 202, 400, 422, 429}]

LEMMA LocalSent ==
  ASSUME NEW l \in Local, NEW sent \in Seq(Item)
  PROVE  [l EXCEPT !.sent = sent] \in Local
BY DEF Local

\* At most one is none or one.
LEMMA NoneOrOne == ASSUME NEW n \in Nat, n =< 1 PROVE n = 0 \/ n = 1
OBVIOUS

LEMMA InitInv == ASSUME UploadsAssumption, Init PROVE Inv
<1>1. TypeOK
  <2>1. <<>> \in Seq(Item) /\ <<>> \in Seq([key : Key, item : Item])
    OBVIOUS
  <2>2. client \in [Clients -> [pc : {"idle", "sending"}, body : Bodies \cup {NoUpload},
                                sent : Seq(Item), status : {0, 202, 400, 422, 429}]]
    BY <2>1 DEF Init
  <2> QED BY <2>1, <2>2 DEF Init, TypeOK, UploadsAssumption
<1>2. QueueKept /\ RowsKept /\ KeysUnique
  BY DEF Init, QueueKept, RowsKept, KeysUnique
<1>3. Progress
  <2> SUFFICES ASSUME NEW c \in Clients PROVE SentOf(client[c].body, client[c].sent)
                                              /\ client[c].status # 202
    BY DEF Progress
  <2>1. client[c].body = NoUpload /\ client[c].sent = <<>> /\ client[c].status = 0
    BY DEF Init
  <2>2. Len(Records(NoUpload)) \in Nat
    BY BodyType, LenProperties
  <2> QED BY <2>1, <2>2 DEF SentOf
<1> QED BY <1>1, <1>2, <1>3 DEF Inv

-----------------------------------------------------------------------------
(* SubmitRecord                                                            *)

\* Whichever way the submission of an item goes, the tables stay as they
\* should be, if its key is its own or one that was made up.
LEMMA SubmittedInv ==
  ASSUME UploadsAssumption, Inv,
         NEW item \in Item, NEW key \in Key \cup {None},
         item.key # None => key = item.key, UNCHANGED uuids,
         Refused \/ Hit(key) \/ Failed(item, key) \/ Passed(item, key)
  PROVE  /\ \A r \in stored' : r.key \in Key' /\ r.item \in Item /\ r.record.payload = r.item.payload
         /\ dead' \subseteq [key : Key' \cup {None}, item : Item]
         /\ RowsKept' /\ KeysUnique'
<1>0. Key' = Key
  BY DEF Key
<1>1. CASE UNCHANGED <<stored, dead>>
  BY <1>0, <1>1 DEF Inv, TypeOK, RowsKept, KeysUnique
<1>2. CASE Failed(item, key)
  <2>1. [key |-> key, item |-> item] \in [key : Key \cup {None}, item : Item]
    OBVIOUS
  <2> QED BY <1>0, <1>2, <2>1 DEF Failed, Inv, TypeOK, RowsKept, KeysUnique
<1>3. CASE Passed(item, key)
  <2> DEFINE row == [key |-> key, item |-> item, record |-> Normalized(ToRecord(item, key))]
  <2>1. key \in Key /\ item # Illegible
    BY <1>3, KeylessRejected, IllegibleRejected DEF Passed
  <2>2. row.key = key /\ row.item = item /\ row.record.payload = item.payload
    BY PayloadKept
  <2>3. KeyKept(row)
    BY <2>2 DEF KeyKept
  <2> HIDE DEF row
  <2>4. \/ stored' = stored
        \/ stored' = stored \cup {row} /\ (\A r \in stored : r.key # row.key)
    BY <1>3 DEF Passed, Inserted, row
  <2>5. dead' = dead
    BY <1>3 DEF Passed
  <2>6. \A r \in stored' : r.key \in Key /\ r.item \in Item /\ r.record.payload = r.item.payload
    BY <2>1, <2>2, <2>4 DEF Inv, TypeOK
  <2>7. RowsKept'
    <3> SUFFICES ASSUME NEW r \in stored' PROVE KeyKept(r) /\ r.item # Illegible
      BY DEF RowsKept, KeyKept
    <3> QED BY <2>1, <2>2, <2>3, <2>4 DEF Inv, RowsKept
  <2>8. KeysUnique'
    BY <2>4 DEF Inv, KeysUnique
  <2> QED BY <1>0, <2>5, <2>6, <2>7, <2>8 DEF Inv, TypeOK
<1> QED BY <1>1, <1>2, <1>3 DEF Refused, Hit

-----------------------------------------------------------------------------
LEMMA CallInv ==
  ASSUME UploadsAssumption, Inv, NEW c \in Clients, NEW b \in Bodies, Call(c, b)
  PROVE  Inv'
<1> DEFINE item == b.items[1]
<1>1. b \in Body /\ Len(b.items) = 1
  BY DEF Call, UploadsAssumption
<1>2. item \in Item
  BY <1>1, ElementOfSeq DEF Body
<1>3. item.key \in Key \cup {None}
  BY <1>2 DEF Item, Key
<1> HIDE DEF item
<1>4. UNCHANGED uuids /\ (Refused \/ Hit(item.key) \/ Failed(item, item.key)
                                  \/ Passed(item, item.key))
  BY DEF Call, item
<1>5. /\ \A r \in stored' : r.key \in Key' /\ r.item \in Item /\ r.record.payload = r.item.payload
      /\ dead' \subseteq [key : Key' \cup {None}, item : Item]
      /\ RowsKept' /\ KeysUnique'
  BY <1>2, <1>3, <1>4, SubmittedInv
<1>6. PICK status \in {202, 400, 429} : Called(c, b, status)
  BY DEF Call
<1>7. client' \in [Clients -> [pc : {"idle", "sending"}, body : Bodies \cup {NoUpload},
                               sent : Seq(Item), status : {0, 202, 400, 422, 429}]]
  <2>1. <<>> \in Seq(Item)
    OBVIOUS
  <2> QED BY <1>6, <2>1 DEF Called, Inv, TypeOK
<1>8. TypeOK'
  <2>1. queue' = queue /\ Key' = Key /\ uuids' = uuids
    BY DEF Call, Key
  <2>2. uploads' \in 0..MaxUploads
    BY DEF Call, Inv, TypeOK, UploadsAssumption
  <2> QED BY <1>5, <1>7, <2>1, <2>2 DEF Inv, TypeOK
<1>9. QueueKept'
  BY DEF Call, Inv, QueueKept, KeyKept
<1>10. Progress'
  <2> SUFFICES ASSUME NEW d \in Clients
               PROVE  /\ SentOf(client'[d].body, client'[d].sent)
                      /\ client'[d].pc = "idle" /\ client'[d].status = 202
                           /\ client'[d].body.form # "call"
                         => /\ Len(client'[d].sent) = Len(Records(client'[d].body))
                            /\ Status(client'[d].body) = 202
    BY DEF Progress, SentOf, Records, Status, Merges, Illegible
  <2>1. CASE d = c
    <3>1. client'[d].body = b /\ client'[d].sent = <<>>
      BY <1>6, <2>1 DEF Called, Inv, TypeOK
    <3>2. Len(Records(b)) \in Nat
      BY BodyType, LenProperties
    <3>3. SentOf(b, <<>>)
      BY <3>2 DEF SentOf
    <3> QED BY <3>1, <3>3 DEF Call
  <2>2. CASE d # c
    BY <1>6, <2>2 DEF Called, Inv, TypeOK, Progress
  <2> QED BY <2>1, <2>2
<1> QED BY <1>5, <1>8, <1>9, <1>10 DEF Inv

LEMMA UploadInv ==
  ASSUME UploadsAssumption, Inv, NEW c \in Clients, NEW b \in Bodies, Upload(c, b)
  PROVE  Inv'
<1>1. client' \in [Clients -> [pc : {"idle", "sending"}, body : Bodies \cup {NoUpload},
                               sent : Seq(Item), status : {0, 202, 400, 422, 429}]]
  <2>1. <<>> \in Seq(Item)
    OBVIOUS
  <2> QED BY <2>1 DEF Upload, Inv, TypeOK
<1>2. TypeOK'
  <2>1. Key' = Key /\ UNCHANGED <<queue, stored, dead, uuids>>
    BY DEF Upload, Key
  <2>2. uploads' \in 0..MaxUploads
    BY DEF Upload, Inv, TypeOK, UploadsAssumption
  <2> QED BY <1>1, <2>1, <2>2 DEF Inv, TypeOK
<1>3. QueueKept' /\ RowsKept' /\ KeysUnique'
  BY DEF Upload, Inv, QueueKept, RowsKept, KeysUnique
<1>4. Progress'
  <2> SUFFICES ASSUME NEW d \in Clients
               PROVE  /\ SentOf(client'[d].body, client'[d].sent)
                      /\ client'[d].pc = "idle" /\ client'[d].status = 202
                           /\ client'[d].body.form # "call"
                         => /\ Len(client'[d].sent) = Len(Records(client'[d].body))
                            /\ Status(client'[d].body) = 202
    BY DEF Progress
  <2>1. CASE d = c
    <3>1. client'[d].body = b /\ client'[d].sent = <<>> /\ client'[d].pc = "sending"
      BY <2>1 DEF Upload, Inv, TypeOK
    <3>2. Len(Records(b)) \in Nat
      BY BodyType, LenProperties
    <3> QED BY <3>1, <3>2 DEF SentOf
  <2>2. CASE d # c
    BY <2>2 DEF Upload, Inv, TypeOK, Progress
  <2> QED BY <2>1, <2>2
<1> QED BY <1>2, <1>3, <1>4 DEF Inv

\* The record to be sent is one of the body's.
LEMMA NextItemType ==
  ASSUME UploadsAssumption, TypeOK, NEW c \in Clients, Pending(c)
  PROVE  NextItem(c) \in Item
<1>1. client[c].body \in Bodies \cup {NoUpload} /\ client[c].sent \in Seq(Item)
  BY DEF TypeOK
<1>2. Records(client[c].body) \in Seq(Item)
  BY <1>1, BodyType
<1>3. Len(client[c].sent) + 1 \in 1..Len(Records(client[c].body))
  BY <1>1, <1>2, LenProperties DEF Pending
<1> QED BY <1>2, <1>3, ElementOfSeq DEF NextItem

LEMMA SendInv ==
  ASSUME UploadsAssumption, Inv, NEW c \in Clients, Send(c)
  PROVE  Inv'
<1> DEFINE item == NextItem(c)
           body == client[c].body
           sent == client[c].sent
           entry == [key |-> Keyed(item), item |-> item]
<1>1. item \in Item
  BY NextItemType DEF Send, Inv
<1>2. Keyed(item) \in Key' /\ Key \subseteq Key' /\ uuids' \in Nat
  BY <1>1 DEF Send, Keyed, Key, Item, Inv, TypeOK
<1>3. KeyKept(entry)
  BY DEF KeyKept, Keyed
<1>4. body \in Bodies \cup {NoUpload} /\ sent \in Seq(Item)
  BY DEF Inv, TypeOK
<1>5. entry \in [key : Key', item : Item]
  BY <1>1, <1>2
<1>6. queue \in Seq([key : Key', item : Item])
  <2>1. [key : Key, item : Item] \subseteq [key : Key', item : Item]
    BY <1>2
  <2>2. queue \in Seq([key : Key, item : Item])
    BY DEF Inv, TypeOK
  <2> QED BY <2>1, <2>2, SeqWiden
<1> HIDE DEF item, entry
<1>7. queue' = Append(queue, entry) /\ client' = [client EXCEPT ![c].sent = Append(@, item)]
      /\ UNCHANGED <<stored, dead, uploads>>
  BY DEF Send, item, entry
<1>8. TypeOK'
  <2>1. Append(sent, item) \in Seq(Item)
    BY <1>1, <1>4, AppendProperties
  <2>2. client' \in [Clients -> [pc : {"idle", "sending"}, body : Bodies \cup {NoUpload},
                                 sent : Seq(Item), status : {0, 202, 400, 422, 429}]]
    <3>1. client \in [Clients -> Local]
      BY DEF Inv, TypeOK, Local
    <3>2. [client[c] EXCEPT !.sent = Append(sent, item)] \in Local
      BY <2>1, <3>1, LocalSent
    <3> QED BY <1>7, <3>1, <3>2 DEF Local
  <2>3. queue' \in Seq([key : Key', item : Item])
    BY <1>5, <1>6, <1>7, AppendProperties
  <2>4. Len(queue') =< QueueCap
    <3>1. Len(queue') = Len(queue) + 1
      BY <1>5, <1>6, <1>7, AppendProperties
    <3>2. Len(queue) \in Nat
      BY <1>6, LenProperties
    <3> QED BY <3>1, <3>2 DEF Send, Room, UploadsAssumption
  <2>5. dead' \subseteq [key : Key' \cup {None}, item : Item]
    BY <1>2, <1>7 DEF Inv, TypeOK
  <2>6. \A r \in stored' : r.key \in Key' /\ r.item \in Item /\ r.record.payload = r.item.payload
    BY <1>2, <1>7 DEF Inv, TypeOK
  <2>7. uploads' \in 0..MaxUploads
    BY <1>7 DEF Inv, TypeOK
  <2> QED BY <1>2, <2>2, <2>3, <2>4, <2>5, <2>6, <2>7 DEF TypeOK
<1>9. QueueKept'
  <2>1. Len(queue') = Len(queue) + 1 /\ Len(queue) \in Nat
        /\ queue'[Len(queue) + 1] = entry
        /\ \A i \in 1..Len(queue) : queue'[i] = queue[i]
    BY <1>5, <1>6, <1>7, AppendProperties, LenProperties
  <2>2. \A i \in 1..Len(queue') : KeyKept(queue'[i])
    BY <1>3, <2>1 DEF Inv, QueueKept
  <2> QED BY <2>2 DEF QueueKept, KeyKept
<1>10. RowsKept' /\ KeysUnique'
  BY <1>7 DEF Inv, RowsKept, KeysUnique
<1>11. Progress'
  <2> SUFFICES ASSUME NEW d \in Clients
               PROVE  /\ SentOf(client'[d].body, client'[d].sent)
                      /\ client'[d].pc = "idle" /\ client'[d].status = 202
                           /\ client'[d].body.form # "call"
                         => /\ Len(client'[d].sent) = Len(Records(client'[d].body))
                            /\ Status(client'[d].body) = 202
    BY DEF Progress
  <2>1. CASE d = c
    <3>1. client'[d].body = body /\ client'[d].sent = Append(sent, item)
          /\ client'[d].pc = "sending"
      BY <1>7, <2>1 DEF Send, Pending, Inv, TypeOK
    <3>2. Len(Append(sent, item)) = Len(sent) + 1 /\ Len(sent) \in Nat
          /\ Append(sent, item)[Len(sent) + 1] = item
          /\ \A i \in 1..Len(sent) : Append(sent, item)[i] = sent[i]
      BY <1>1, <1>4, AppendProperties, LenProperties
    <3>3. Len(Records(body)) \in Nat /\ Len(sent) < Len(Records(body))
      BY <1>4, BodyType, LenProperties DEF Send, Pending
    <3>4. item = Records(body)[Len(sent) + 1]
      BY DEF item, NextItem
    <3>5. SentOf(body, sent)
      BY DEF Inv, Progress
    <3>6. SentOf(body, Append(sent, item))
      BY <3>2, <3>3, <3>4, <3>5 DEF SentOf
    <3> QED BY <3>1, <3>6
  <2>2. CASE d # c
    BY <1>7, <2>2 DEF Inv, TypeOK, Progress
  <2> QED BY <2>1, <2>2
<1> QED BY <1>8, <1>9, <1>10, <1>11 DEF Inv

-----------------------------------------------------------------------------
\* An answer changes nothing but the answer; 202 must be true.
LEMMA AnsweredInv ==
  ASSUME UploadsAssumption, Inv, NEW c \in Clients, NEW status \in {202, 400, 422},
         Answered(c, status), UNCHANGED <<queue, stored, dead, uuids, uploads>>,
         status = 202 => /\ Len(client[c].sent) = Len(Records(client[c].body))
                         /\ Status(client[c].body) = 202
  PROVE  Inv'
<1>1. TypeOK'
  <2>1. client' \in [Clients -> [pc : {"idle", "sending"}, body : Bodies \cup {NoUpload},
                                 sent : Seq(Item), status : {0, 202, 400, 422, 429}]]
    <3>1. client \in [Clients -> Local]
      BY DEF Inv, TypeOK, Local
    <3>2. client[c] \in Local
      BY <3>1
    <3>3. [pc |-> "idle", body |-> client[c].body, sent |-> client[c].sent, status |-> status] \in Local
      BY <3>2 DEF Local
    <3> QED BY <3>1, <3>3 DEF Answered, Local
  <2>2. Key' = Key
    BY DEF Key
  <2> QED BY <2>1, <2>2 DEF Inv, TypeOK
<1>2. QueueKept' /\ RowsKept' /\ KeysUnique'
  BY DEF Inv, QueueKept, RowsKept, KeysUnique
<1>3. Progress'
  <2> SUFFICES ASSUME NEW d \in Clients
               PROVE  /\ SentOf(client'[d].body, client'[d].sent)
                      /\ client'[d].pc = "idle" /\ client'[d].status = 202
                           /\ client'[d].body.form # "call"
                         => /\ Len(client'[d].sent) = Len(Records(client'[d].body))
                            /\ Status(client'[d].body) = 202
    BY DEF Progress
  <2>1. client'[d].body = client[d].body /\ client'[d].sent = client[d].sent
    BY DEF Answered, Inv, TypeOK
  <2>2. CASE d = c
    <3>1. client'[d].status = status
      BY <2>2 DEF Answered, Inv, TypeOK
    <3> QED BY <2>1, <2>2, <3>1 DEF Inv, Progress
  <2>3. CASE d # c
    BY <2>3 DEF Answered, Inv, TypeOK, Progress
  <2> QED BY <2>2, <2>3
<1> QED BY <1>1, <1>2, <1>3 DEF Inv

LEMMA GoAwayInv ==
  ASSUME UploadsAssumption, Inv, NEW c \in Clients, GoAway(c)
  PROVE  Inv'
<1>1. Failure(client[c].body) \in {400, 422}
  BY DEF Failure
<1> QED BY <1>1, AnsweredInv DEF GoAway

LEMMA FinishInv ==
  ASSUME UploadsAssumption, Inv, NEW c \in Clients, Finish(c)
  PROVE  Inv'
<1>1. Status(client[c].body) \in {202, 400, 422}
  BY DEF Status
<1>2. Len(client[c].sent) = Len(Records(client[c].body))
  <2>1. client[c].body \in Bodies \cup {NoUpload} /\ client[c].sent \in Seq(Item)
    BY DEF Inv, TypeOK
  <2>2. Len(client[c].sent) \in Nat /\ Len(Records(client[c].body)) \in Nat
    BY <2>1, BodyType, LenProperties
  <2>3. Len(client[c].sent) =< Len(Records(client[c].body))
    BY DEF Inv, Progress, SentOf
  <2> QED BY <2>2, <2>3 DEF Finish, Pending
<1> QED BY <1>1, <1>2, AnsweredInv DEF Finish

LEMMA ConsumeInv == ASSUME UploadsAssumption, Inv, Consume PROVE Inv'
<1> DEFINE first == Head(queue)
<1>1. queue \in Seq([key : Key, item : Item]) /\ queue # <<>>
  BY DEF Consume, Inv, TypeOK
<1>2. first \in [key : Key, item : Item] /\ Tail(queue) \in Seq([key : Key, item : Item])
      /\ Len(Tail(queue)) = Len(queue) - 1
      /\ \A i \in 1..Len(Tail(queue)) : Tail(queue)[i] = queue[i + 1]
  BY <1>1, HeadTailProperties
<1>3. Len(queue) \in Nat \ {0} /\ first = queue[1]
  BY <1>1, EmptySeq
<1>4. KeyKept(first)
  BY <1>3 DEF Inv, QueueKept
<1>5. first.item \in Item /\ first.key \in Key
  BY <1>2
<1>6. queue' = Tail(queue) /\ UNCHANGED <<client, uuids, uploads>>
  BY DEF Consume
<1>7. /\ \A r \in stored' : r.key \in Key' /\ r.item \in Item /\ r.record.payload = r.item.payload
      /\ dead' \subseteq [key : Key' \cup {None}, item : Item]
      /\ RowsKept' /\ KeysUnique'
  <2>1. Refused \/ Hit(first.key) \/ Failed(first.item, first.key)
          \/ Passed(first.item, first.key)
    BY DEF Consume
  <2> HIDE DEF first
  <2> QED BY <1>4, <1>5, <1>6, <2>1, SubmittedInv DEF KeyKept
<1>8. TypeOK'
  <2>1. Key' = Key
    BY <1>6 DEF Key
  <2>2. Len(Tail(queue)) =< QueueCap
    BY <1>2, <1>3 DEF Inv, TypeOK, UploadsAssumption
  <2> QED BY <1>2, <1>6, <1>7, <2>1, <2>2 DEF Inv, TypeOK
<1>9. QueueKept'
  <2>1. \A i \in 1..Len(Tail(queue)) : KeyKept(Tail(queue)[i])
    <3> SUFFICES ASSUME NEW i \in 1..Len(Tail(queue)) PROVE KeyKept(queue[i + 1])
      BY <1>2
    <3>1. i + 1 \in 1..Len(queue)
      BY <1>2, <1>3
    <3> QED BY <3>1 DEF Inv, QueueKept
  <2> QED BY <1>6, <2>1 DEF QueueKept, KeyKept
<1>10. Progress'
  BY <1>6 DEF Inv, Progress
<1> QED BY <1>7, <1>8, <1>9, <1>10 DEF Inv

LEMMA StutterInv == ASSUME Inv, UNCHANGED vars PROVE Inv'
BY DEF vars, Inv, TypeOK, Key, QueueKept, KeyKept, RowsKept, KeysUnique, Progress

LEMMA StepInv == ASSUME UploadsAssumption, Inv, [Next]_vars PROVE Inv'
BY CallInv, UploadInv, SendInv, GoAwayInv, FinishInv, ConsumeInv, StutterInv DEF Next

-----------------------------------------------------------------------------
\* What QueuedIsPrefix says of one request.
QueuedOf(b, sent, accepted) ==
  LET torn == b.form = "lines" /\ b.end = "torn" IN
  IF Merges(b) THEN sent \in {<<>>, <<Illegible>>}
  ELSE /\ \/ Len(sent) =< Len(b.items) /\ sent = SubSeq(b.items, 1, Len(sent))
          \/ torn /\ sent = Append(b.items, Illegible)
       /\ b.form = "array" /\ b.end # "whole" => sent = <<>>
       /\ accepted => /\ sent = IF torn THEN Append(b.items, Illegible) ELSE b.items
                      /\ b.end = "whole" \/ (b.form # "array" /\ b.end \in {"cut", "torn"})

\* A sequence that agrees with another as far as it goes is its beginning.
LEMMA Beginning ==
  ASSUME NEW S, NEW s \in Seq(S), NEW t \in Seq(S), Len(s) =< Len(t),
         \A i \in 1..Len(s) : s[i] = t[i]
  PROVE  s = SubSeq(t, 1, Len(s)) /\ (Len(s) = Len(t) => s = t)
<1>1. Len(s) \in Nat /\ Len(t) \in Nat
  BY LenProperties
<1>2. \A i \in 1..Len(s) : t[i] \in S
  BY <1>1, ElementOfSeq
<1>3. SubSeq(t, 1, Len(s)) \in Seq(S)
      /\ Len(SubSeq(t, 1, Len(s))) = Len(s)
      /\ \A i \in 1..Len(s) : SubSeq(t, 1, Len(s))[i] = t[i]
  BY <1>1, <1>2, SubSeqProperties
<1>4. s = SubSeq(t, 1, Len(s))
  BY <1>3, SeqEqual
<1>5. Len(s) = Len(t) => s = t
  BY SeqEqual
<1> QED BY <1>4, <1>5

LEMMA SentQueued ==
  ASSUME NEW b \in Body, NEW sent \in Seq(Item), NEW accepted \in BOOLEAN,
         Records(b) \in Seq(Item), SentOf(b, sent),
         accepted => Len(sent) = Len(Records(b)) /\ Status(b) = 202 /\ b.form # "call"
  PROVE  QueuedOf(b, sent, accepted)
<1> DEFINE records == Records(b)
<1>1. b.items \in Seq(Item) /\ b.form \in Form /\ b.end \in Ends
  BY DEF Body
<1>2. Len(sent) \in Nat /\ Len(records) \in Nat /\ Len(b.items) \in Nat
  BY <1>1, LenProperties
<1>3. sent = SubSeq(records, 1, Len(sent)) /\ (Len(sent) = Len(records) => sent = records)
  BY Beginning DEF SentOf
<1>4. CASE Merges(b)
  <2>1. records = <<Illegible>> /\ Len(records) = 1
    BY <1>4 DEF Records, Merges
  <2>2. Len(sent) = 0 \/ Len(sent) = 1
    BY <1>2, <2>1, NoneOrOne DEF SentOf
  <2>3. sent = <<>> \/ sent = <<Illegible>>
    BY <1>3, <2>1, <2>2, EmptySeq
  <2> QED BY <1>4, <2>3 DEF QueuedOf
<1>5. CASE ~Merges(b) /\ b.form = "array" /\ b.end # "whole"
  <2>1. records = <<>>
    BY <1>5 DEF Records
  <2>2. sent = <<>> /\ Len(sent) = 0
    BY <1>2, <2>1, EmptySeq DEF SentOf
  <2>3. SubSeq(b.items, 1, Len(sent)) = <<>>
    BY <2>2, SubSeqEmpty
  <2>4. ~accepted
    BY <1>5 DEF Status, FileForms
  <2> QED BY <1>2, <1>5, <2>2, <2>3, <2>4 DEF QueuedOf
<1>6. CASE ~Merges(b) /\ b.form = "lines" /\ b.end = "torn"
  <2>1. records = Append(b.items, Illegible)
    BY <1>6 DEF Records
  <2>2. Len(records) = Len(b.items) + 1 /\ \A i \in 1..Len(b.items) : records[i] = b.items[i]
    BY <1>1, <2>1, IllegibleType, AppendProperties
  <2>3. CASE Len(sent) = Len(records)
    <3>1. sent = Append(b.items, Illegible)
      BY <1>3, <2>1, <2>3
    <3> QED BY <1>6, <3>1 DEF QueuedOf
  <2>4. CASE Len(sent) # Len(records)
    <3>1. Len(sent) =< Len(b.items)
      BY <1>2, <2>2, <2>4 DEF SentOf
    <3>2. \A i \in 1..Len(sent) : sent[i] = b.items[i]
      BY <1>2, <2>2, <3>1 DEF SentOf
    <3>3. sent = SubSeq(b.items, 1, Len(sent))
      BY <1>1, <3>1, <3>2, Beginning
    <3>4. ~accepted
      BY <2>4
    <3> QED BY <1>6, <3>1, <3>3, <3>4 DEF QueuedOf
  <2> QED BY <2>3, <2>4
<1>7. CASE ~Merges(b) /\ ~(b.form = "array" /\ b.end # "whole")
           /\ ~(b.form = "lines" /\ b.end = "torn")
  <2>1. records = b.items
    BY <1>7 DEF Records
  <2>2. Len(sent) =< Len(b.items)
    BY <2>1 DEF SentOf
  <2>3. accepted => b.end = "whole" \/ (b.form # "array" /\ b.end \in {"cut", "torn"})
    <3>1. Status(b) = 202 => b.end = "whole" \/ (b.form \in {"object", "lines"} /\ b.end # "damaged")
      BY <1>1, <1>7 DEF Status, Merges, Ends
    <3> QED BY <1>1, <3>1 DEF Ends
  <2> QED BY <1>3, <1>7, <2>1, <2>2, <2>3 DEF QueuedOf
<1> QED BY <1>4, <1>5, <1>6, <1>7

\* The invariant that carries the rest holds in every reachable state
\* (webhook.go, file.go, main.go).
THEOREM UploadsInvariant == Spec => []Inv
<1>1. Init => Inv
  BY InitInv, UploadsAssumption
<1>2. Inv /\ [Next]_vars => Inv'
  BY StepInv, UploadsAssumption
<1> QED BY <1>1, <1>2, PTL DEF Spec

\* Every variable has its type; in particular everything queued or stored has
\* a key, whatever the bodies hold (webhook.go, enqueue).
THEOREM UploadsTypeOK == Spec => []TypeOK
<1>1. Inv => TypeOK
  BY DEF Inv
<1> QED BY <1>1, UploadsInvariant, PTL

\* However many clients compete for the queue, each body is queued from the
\* front; if the answer is 202 all that was read of it is queued, down to a torn
\* line, and nothing of an array that is not whole (webhook.go, parseAndQueue;
\* file.go, parseNDJSON, parseCSV).
THEOREM PrefixQueued == Spec => []QueuedIsPrefix
<1>1. Inv => QueuedIsPrefix
  <2> SUFFICES ASSUME Inv, NEW c \in Clients
               PROVE  QueuedOf(client[c].body, client[c].sent,
                        client[c].pc = "idle" /\ client[c].status = 202
                          /\ client[c].body.form # "call")
    BY DEF QueuedIsPrefix, QueuedOf
  <2> DEFINE b == client[c].body
             sent == client[c].sent
             accepted == client[c].pc = "idle" /\ client[c].status = 202 /\ b.form # "call"
  <2>1. b \in Bodies \cup {NoUpload} /\ sent \in Seq(Item)
    BY DEF Inv, TypeOK
  <2>2. b \in Body /\ Records(b) \in Seq(Item)
    BY <2>1, BodyType, UploadsAssumption
  <2>3. SentOf(b, sent)
    BY DEF Inv, Progress
  <2>4. accepted => Len(sent) = Len(Records(b)) /\ Status(b) = 202 /\ b.form # "call"
    BY DEF Inv, Progress
  <2>5. accepted \in BOOLEAN
    OBVIOUS
  <2> HIDE DEF b, sent, accepted
  <2>6. QueuedOf(b, sent, accepted)
    BY <2>1, <2>2, <2>3, <2>4, <2>5, SentQueued
  <2> QED BY <2>6 DEF b, sent, accepted
<1> QED BY <1>1, UploadsInvariant, PTL

\* A keyed record has one row at most, whoever sends it how often, and no body
\* of several records is stored as one (webhook.go, enqueue; file.go;
\* server.go, SubmitRecord).
THEOREM KeyedOnce == Spec => []StoredOnce
<1>1. Inv => StoredOnce
  BY DEF Inv, RowsKept, KeyKept, KeysUnique, StoredOnce
<1> QED BY <1>1, UploadsInvariant, PTL
=============================================================================
