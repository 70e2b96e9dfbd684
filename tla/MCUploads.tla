----------------------------- MODULE MCUploads -----------------------------
(***************************************************************************)
(* Instances of Uploads for TLC: bodies of up to two records, whole,       *)
(* damaged or too large, with and without keys, with an amount that is no  *)
(* number, with a currency nobody knows, or of a shape that cannot be read.*)
(***************************************************************************)
EXTENDS Uploads

CONSTANTS k1, k2

Json(amount, currency, time) ==
  [kind |-> "json", amount |-> amount, currency |-> currency, time |-> time]

Sent(key, payload) == [key |-> key, ref |-> "printable", source |-> TRUE, payload |-> payload]

Sound   == Sent(k1, Json("positive", "usd", "unreadable"))
Keyless == Sent(None, Json(None, None, "past"))
Unknown == Sent(k2, Json("positive", "XXX", None))
Text    == Sent(k2, Json("text", "USD", None))

Odd == Sent(k2, [kind |-> "opaque", amount |-> None, currency |-> None, time |-> None])

Lists == {<<Sound>>, <<Keyless, Sound>>, <<Sound, Text>>, <<Odd, Unknown>>}

\* The encoding of a list, in every form that can hold it.  An array that is
\* not whole has one outcome however it ends, and so has an object that breaks off.
Uploaded == [form : {"array"}, items : Lists, end : {"whole", "cut"}]
            \cup [form : {"object"}, items : Lists, end : {"whole", "cut", "torn"}]
            \cup [form : {"lines"}, items : Lists, end : Ends]
            \cup [form : {"ndjson"}, items : Lists, end : {"whole", "damaged"}]
            \cup [form : {"csv"}, items : Lists \ {<<Odd, Unknown>>}, end : {"whole", "damaged"}]

Calls == [form : {"call"}, items : {<<Sound>>, <<[Sound EXCEPT !.source = FALSE]>>},
          end : {"whole", "damaged"}]

SomeBodies == Uploaded \cup Calls
=============================================================================
