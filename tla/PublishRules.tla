----------------------------- MODULE PublishRules -----------------------------
(***************************************************************************)
(* What may be published: backend/core/src/publish.rs.                     *)
(*                                                                         *)
(* Bytes are their number.  An entered text is what the encodings make of  *)
(* it: its length in UTF-8, whether it is JSON, and the length it decodes  *)
(* to as base64, if it does.                                               *)
(***************************************************************************)
EXTENDS Integers, Sequences, Functions

CONSTANTS None,      \* an Option that is None: also a null key or value
          Refused    \* an Err

Option(S) == S \union {None}

PayloadEncoding == {"null", "text", "json", "base64"}

Text == [length : Nat, json : BOOLEAN, base64 : Option(Nat)]

PublishField == [encoding : PayloadEncoding, text : Text]

\* blank: the name is empty or white space.
PublishHeaderInput == [name : Nat, blank : BOOLEAN, value : PublishField]

NewPublishMessage ==
    [key : PublishField, value : PublishField,
     headers : Seq(PublishHeaderInput)]

EncodedRecord ==
    [key : Option(Nat), value : Option(Nat),
     headers : Seq([name : Nat, value : Option(Nat)])]

PublishLimits ==
    [max_message_size_bytes : Nat, max_batch_messages : Nat,
     max_batch_bytes : Nat]

-----------------------------------------------------------------------------
(* Encoding. *)

encode_field(field) ==
    CASE field.encoding = "null" -> None
      [] field.encoding = "text" -> field.text.length
      [] field.encoding = "json" ->
            IF field.text.json THEN field.text.length ELSE Refused
      [] field.encoding = "base64" ->
            IF field.text.base64 = None THEN Refused ELSE field.text.base64

Bytes(encoded) == IF encoded = None THEN 0 ELSE encoded

Record(message) ==
    [key |-> encode_field(message.key),
     value |-> encode_field(message.value),
     headers |-> [i \in DOMAIN message.headers |->
                    [name |-> message.headers[i].name,
                     value |-> encode_field(message.headers[i].value)]]]

\* A field that cannot be encoded or a header without a name.
Malformed(message) ==
    \/ encode_field(message.key) = Refused
    \/ encode_field(message.value) = Refused
    \/ \E i \in DOMAIN message.headers :
          \/ message.headers[i].blank
          \/ encode_field(message.headers[i].value) = Refused

size_bytes(record) ==
    Bytes(record.key) + Bytes(record.value)
        + SumFunction([i \in DOMAIN record.headers |->
                         record.headers[i].name + Bytes(record.headers[i].value)])

\* The first i messages pass one by one, and so does their total.
Accepted(messages, limits, i) ==
    /\ \A j \in 1 .. i : ~Malformed(messages[j])
    /\ \A j \in 1 .. i :
          /\ size_bytes(Record(messages[j])) <= limits.max_message_size_bytes
          /\ SumFunction([k \in 1 .. j |-> size_bytes(Record(messages[k]))])
                <= limits.max_batch_bytes

\* For comparison: messages are encoded until one is refused.
EncodeUpToTheFirstRefusal(messages, limits) ==
    LET longest == CHOOSE i \in 0 .. Len(messages) :
                      /\ Accepted(messages, limits, i)
                      /\ \A j \in i + 1 .. Len(messages) :
                            ~Accepted(messages, limits, j)
    IN  IF longest = 0 \/ Len(messages) > limits.max_batch_messages
        THEN Refused
        ELSE [i \in 1 .. longest |-> Record(messages[i])]

encode_messages(messages, limits) ==
    IF \/ messages = <<>>
       \/ Len(messages) > limits.max_batch_messages
       \/ ~Accepted(messages, limits, Len(messages))
    THEN Refused
    ELSE [i \in DOMAIN messages |-> Record(messages[i])]
-----------------------------------------------------------------------------
(* The gate. *)

publish_refusal(connected, allow_publishing, denied) ==
    CASE ~connected -> "NotConnected"
      [] connected /\ ~allow_publishing -> "NotAllowed"
      [] connected /\ allow_publishing /\ denied -> "BrokerDenied"
      [] OTHER -> None
=============================================================================
