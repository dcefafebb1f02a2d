----------------------------- MODULE MCPublishing -----------------------------
(* Model-checking instances of Publishing. *)
EXTENDS Publishing

Plain(n) == [length |-> n, json |-> FALSE, base64 |-> None]
Json(n) == [length |-> n, json |-> TRUE, base64 |-> None]
Base64(n, m) == [length |-> n, json |-> FALSE, base64 |-> m]

Field(encoding, text) == [encoding |-> encoding, text |-> text]
NullField == Field("null", Plain(0))

Message(key, value, headers) ==
    [key |-> key, value |-> value, headers |-> headers]

Header(name, blank, value) == [name |-> name, blank |-> blank, value |-> value]

\* A tombstone, a payload of the greatest size, one past it by its header
\* names, and the ways to be refused.
Tombstone == Message(Field("text", Plain(1)), NullField, <<>>)
Large == Message(NullField, Field("json", Json(3)), <<>>)
Tagged == Message(NullField, Field("base64", Base64(2, 1)),
                  <<Header(1, FALSE, NullField)>>)
TooLarge == Message(Field("text", Plain(1)), Field("text", Plain(2)),
                    <<Header(1, FALSE, NullField)>>)
NotJson == Message(NullField, Field("json", Plain(1)), <<>>)
NotBase64 == Message(Field("base64", Plain(1)), NullField, <<>>)
Nameless == Message(NullField, NullField, <<Header(0, TRUE, NullField)>>)
BadHeader == Message(NullField, NullField,
                     <<Header(1, FALSE, Field("json", Plain(1)))>>)

Good == {Tombstone, Large, Tagged}
Bad == {TooLarge, NotJson, NotBase64, Nameless, BadHeader}

\* Nothing, batches at and past each limit, a bad message first or last.
SomeBatches ==
    {<<>>, <<Tombstone>>, <<Large, Tagged>>, <<Large, Large>>,
     <<Tagged, Tombstone, Tombstone>>,
     <<Tombstone, Tombstone, Tombstone, Tombstone>>}
        \union {<<m>> : m \in Bad} \union {<<Tombstone, m>> : m \in Bad}

SmallLimits == [max_message_size_bytes |-> 3, max_batch_messages |-> 3,
                max_batch_bytes |-> 5]

SomeCodes == {"SaslAuthenticationFailed", "TopicAuthorizationFailed",
              "MessageSizeTooLarge", "MessageTimedOut"}
=============================================================================
