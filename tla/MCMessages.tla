----------------------------- MODULE MCMessages -----------------------------
(* Model-checking instance of what the window does with fetched messages:   *)
(* module DataTab shows them, module SchemaDecoding decodes the ones that   *)
(* are opened.  A viewer has a copy of its message, so the two share no     *)
(* state: a behaviour follows one of them.                                  *)
(* The payloads are framed ones of each kind, and every short sequence of   *)
(* bytes that matter to the wire format.                                    *)
EXTENDS SchemaDecoding, DataTab, TLC

CONSTANTS v1, v2, r1, r2, orders, payments

TwoViews == {orders, payments}

TwoViewers == {v1, v2}
TwoRegistries == {r1, r2}

\* Pasted are a message copied out of its file and a file of two; one that
\* declares no message is refused.
FewPastes == [avro |-> {1}, protobuf |-> {1, 2, 3}]

\* A registered file has two nested messages or three of its own; one does not
\* compile.
SchemaMessages(text) ==
    CASE text.origin = "pasted" /\ text.id = 1 -> Found({<<0>>})
      [] text.origin = "pasted" /\ text.id = 2 -> Found({<<0>>, <<1>>})
      [] text.origin = "pasted" /\ text.id = 3 -> Found({})
      [] text.origin # "pasted" /\ text.id = 1 -> Found({<<0>>, <<0, 0>>, <<0, 1>>})
      [] text.origin # "pasted" /\ text.id = 2 -> Found({<<0>>, <<1>>, <<2>>, <<2, 0>>})
      [] OTHER -> NoResult

Symmetry == Permutations(TwoViewers) \union Permutations(TwoRegistries)
            \union Permutations(TwoViews)

Payload(bytes, frame, path, body, schema, records) ==
    [bytes |-> bytes, frame |-> frame, path |-> path, body |-> body,
     schema |-> schema, records |-> records]

Bare(bytes) == Payload(bytes, "none", <<>>, bytes, NoSchema, <<>>)

\* Keys of field 1 in three wire types, small numbers, a continued byte.
WireBytes == {0, 2, 8, 10, 13, 128}
BarePayloads ==
    {Bare(s) : s \in UNION {[1 .. n -> WireBytes] : n \in 1 .. 4}}
    \union {Bare(<<13>> \o s) : s \in [1 .. 4 -> WireBytes]}
    \union {Bare(<<10, 4, 10, n>> \o s) : n \in 1 .. 3, s \in [1 .. 2 -> WireBytes]}
    \union {Bare(<<0, 0, 0, 0, 1, 2, 130, 4, 8, 2>>)}      \* an index that is no i32

\* Confluent's serializers.
AvroFramed(id, schema, record) ==
    Payload(<<0, 0, 0, 0, id>> \o <<2>>, "avro", <<>>, <<2>>, schema, <<record>>)

PathBytes(path) ==
    IF path = <<0>> THEN <<0>> ELSE <<2 * Len(path)>> \o [k \in 1 .. Len(path) |-> 2 * path[k]]

ProtobufFramed(id, path, body) ==
    Payload(<<0, 0, 0, 0, id>> \o PathBytes(path) \o body, "protobuf", path, body, NoSchema, <<>>)

ProtobufPayloads ==
    {ProtobufFramed(id, path, body) : id \in {1, 2},
        path \in {<<0>>, <<1>>, <<0, 1>>, <<2, 0>>}, body \in {<<8, 2>>, <<10, 1, 0>>, <<16, 130, 1>>}}
    \union {ProtobufFramed(3, <<0>>, <<8, 2>>)}

Container(schema, records) ==
    Payload(CONTAINER_FILE_MAGIC \o <<1>>, "container", <<>>, <<1>>, schema, records)

\* A tree of a node and the trees below it.
Tree(node, children) ==
    [path \in {<<>>} \union UNION {{<<k>> \o below : below \in DOMAIN children[k]} : k \in DOMAIN children} |->
        IF path = <<>> THEN node ELSE children[Head(path)][Tail(path)]]

DecimalSchema(scale) == Tree([type |-> "decimal", scale |-> scale], <<>>)
Plain == Tree([type |-> "plain"], <<>>)
Ref(name) == Tree([type |-> "ref", name |-> name], <<>>)
RecordSchema(name, fields, schemas) ==
    Tree([type |-> "record", name |-> name, fields |-> fields], schemas)
Optional(schema) == Tree([type |-> "union", variants |-> 2], <<Plain, schema>>)
Entries(type, items) == Tree([type |-> type], <<items>>)

\* Values, each at its place in the schema.
Leaf(node) == Tree(node, <<>>)
Decimal(at, unscaled, scale) ==
    Leaf([kind |-> "decimal", at |-> at, unscaled |-> unscaled, scale |-> scale])
Nothing(at) == Leaf([kind |-> "null", at |-> at])
Variant(at, index, value) == Tree([kind |-> "union", at |-> at, index |-> index], <<value>>)
RecordOf(at, fields, values) == Tree([kind |-> "record", at |-> at, fields |-> fields], values)

\* A record that is declared once and named again, and one that holds itself.
Money == RecordSchema("Money", <<"amount">>, <<DecimalSchema(2)>>)
MoneyOf(at, unscaled) == RecordOf(at, <<"amount">>, <<Decimal(at \o <<1>>, unscaled, 2)>>)
OrderFields == <<"net", "gross", "fees", "rates", "parent">>
Order == RecordSchema("Order", OrderFields,
    <<Money, Ref("Money"), Entries("array", Optional(DecimalSchema(1))),
      Entries("map", DecimalSchema(3)), Optional(Ref("Order"))>>)
OrderOf(unscaled, parent) == RecordOf(<<>>, OrderFields,
    <<MoneyOf(<<1>>, unscaled), MoneyOf(<<1>>, unscaled + 1),
      Tree([kind |-> "array", at |-> <<3>>],
           <<Variant(<<3, 1>>, 1, Decimal(<<3, 1, 2>>, unscaled, 1)),
             Variant(<<3, 1>>, 0, Nothing(<<3, 1, 1>>))>>),
      Tree([kind |-> "map", at |-> <<4>>, keys |-> <<"x">>], <<Decimal(<<4, 1>>, unscaled, 3)>>),
      parent>>)
FirstOrder == Variant(<<5>>, 0, Nothing(<<5, 1>>))
After(order) == Variant(<<5>>, 1, order)

\* A tenth of a second on both sides of the ends of a day and of the epoch.
Moments == {-864001, -11, -10, -9, -1, 0, 1, 9, 10, 863999, 864000, 2000000}

AvroPayloads ==
    {AvroFramed(1, DecimalSchema(s), Decimal(<<>>, u, s)) :
        u \in {-1234, -12, -5, 0, 5, 12, 123, 1000}, s \in 0 .. 3}
    \union {AvroFramed(1, Plain, Leaf([kind |-> k, at |-> <<>>, value |-> m])) :
        k \in {"time", "timestamp", "local-timestamp"}, m \in Moments}
    \union {AvroFramed(1, Plain, Leaf([kind |-> "date", at |-> <<>>, days |-> d])) : d \in -3 .. 3}
    \union {AvroFramed(2, Order, OrderOf(u, After(OrderOf(u + 7, FirstOrder)))) : u \in {-3, 0, 99}}
    \union {Container(Money, r) :
        r \in {<<>>, <<MoneyOf(<<>>, 5)>>, <<MoneyOf(<<>>, 5), MoneyOf(<<>>, -250)>>}}

\* The framed ones meet the registry; what is bare meets only pasted schemas,
\* which these do as well.
RacingPayloads ==
    {AvroFramed(1, DecimalSchema(1), Decimal(<<>>, 5, 1)), ProtobufFramed(1, <<1>>, <<8, 2>>)}

SomePayloads == BarePayloads \union ProtobufPayloads \union AvroPayloads \union RacingPayloads
-----------------------------------------------------------------------------
MessagesInit == Init /\ TabInit

NothingDecoded ==
    /\ steps = 0 /\ endpoint = None
    /\ \A format \in Formats : pasted[format] = None

NothingFetched == tabKey # Null /\ asked = Null /\ ~cleared /\ fetches[1].state = "none"

MessagesNext ==
    \/ NothingFetched /\ Next /\ UNCHANGED tabDataVars
    \/ NothingDecoded /\ TabNext /\ UNCHANGED vars

MessagesSpec == MessagesInit /\ [][MessagesNext]_<<vars, tabDataVars>>
=============================================================================
