----------------------------- MODULE AvroValues -----------------------------
(***************************************************************************)
(* From decoded Avro values to the JSON the viewer shows (to_json and the  *)
(* formatters of backend/avro/src/lib.rs).  A value is walked together     *)
(* with its schema: only the schema knows the scale of a decimal, and a    *)
(* named type met a second time is only a reference.                       *)
(*                                                                         *)
(* A value and a schema are trees of nodes: a function from paths, which   *)
(* number the child to take at each node, to nodes.  The children of a     *)
(* record are its fields, those of a union's schema its variants; those of *)
(* an array or a map are its entries, in a schema the one all of them      *)
(* have.  So is the JSON, of which each node says what it adds to the      *)
(* nodes below it.                                                         *)
(*                                                                         *)
(* Text is the digits that matter: a decimal is a sign and the digits on   *)
(* both sides of its point, a clock time is seconds and a fraction of a    *)
(* fixed width.  Values whose rendering needs nothing of the schema are    *)
(* "plain".  A second has PerSecond units.                                 *)
(***************************************************************************)
EXTENDS Integers, SequencesExt

CONSTANTS PerSecond,       \* units of a logical time per second
          LastSecond       \* chrono's range, in seconds on either side of the epoch

ASSUME AvroValuesAssumption == PerSecond \in Nat \ {0} /\ LastSecond \in Nat

SecondsPerDay == 86400

-----------------------------------------------------------------------------
(* Formatters.                                                             *)

Magnitude(n) == IF n < 0 THEN - n ELSE n

\* The digits of a number, most significant first.
Digits[n \in Nat] == IF n < 10 THEN <<n>> ELSE Append(Digits[n \div 10], n % 10)

Zeros(n) == [k \in 1 .. n |-> 0]

\* mutant: digits that do not reach the point are not padded
UnpaddedDecimal(unscaled, scale) ==
    LET digits == Digits[Magnitude(unscaled)]
        split == Len(digits) - scale
    IN  [json |-> "decimal", negative |-> unscaled < 0,
         whole |-> IF split > 0 THEN SubSeq(digits, 1, split) ELSE <<0>>,
         fraction |-> IF split > 0 THEN SubSeq(digits, split + 1, Len(digits)) ELSE digits]

\* format_decimal: the point is placed scale digits from the right, after
\* zeros where the digits do not reach.
format_decimal(unscaled, scale) ==
    LET digits == Digits[Magnitude(unscaled)]
        split == Len(digits) - scale
    IN  [json |-> "decimal", negative |-> unscaled < 0,
         whole |-> IF split > 0 THEN SubSeq(digits, 1, split) ELSE <<0>>,
         fraction |-> IF split > 0 THEN SubSeq(digits, split + 1, Len(digits))
                      ELSE Zeros(- split) \o digits]

Raw(value) == [json |-> "number", raw |-> value]

\* format_date: days since the epoch, or the number when chrono has no such day.
format_date(days) ==
    IF days * SecondsPerDay \in - LastSecond .. LastSecond
    THEN [json |-> "date", days |-> days] ELSE Raw(days)

\* format_time: a time of day, or the number when it is none.
format_time(value) ==
    IF value \div PerSecond \in 0 .. SecondsPerDay - 1
    THEN [json |-> "time", seconds |-> value \div PerSecond, fraction |-> value % PerSecond]
    ELSE Raw(value)

\* format_timestamp: an instant, with a Z when it is in UTC.  Seconds and
\* fraction are Euclidean, so an instant before the epoch has a fraction that
\* counts up.
format_timestamp(value, utc) ==
    IF value \div PerSecond \in - LastSecond .. LastSecond
    THEN [json |-> "timestamp", seconds |-> value \div PerSecond,
          fraction |-> value % PerSecond, utc |-> utc]
    ELSE Raw(value)

-----------------------------------------------------------------------------
(* The walk.                                                               *)

NoSchema == [type |-> "none"]
Nowhere == <<0>>

SchemaAt(schema, at) == IF at \in DOMAIN schema THEN schema[at] ELSE NoSchema

\* ResolvedSchema: every record a schema names, wherever it is declared.
NamesOf(schema) == {at \in DOMAIN schema : schema[at].type = "record"}

\* mutant: a reference is taken for a schema of its own
AsItStands(schema, at) == at

\* deref: the record a reference names, no schema when there is none.
deref(schema, at) ==
    LET named == {r \in NamesOf(schema) : schema[r].name = schema[at].name}
    IN  IF SchemaAt(schema, at).type # "ref" THEN at
        ELSE IF named = {} THEN Nowhere ELSE CHOOSE r \in named : TRUE

\* The schema of a field, found by its name.
FieldSchema(schema, at, name) ==
    LET found == {k \in DOMAIN schema[at].fields : schema[at].fields[k] = name}
    IN  IF found = {} THEN Nowhere ELSE Append(at, CHOOSE k \in found : TRUE)

\* The schema that to_json_value hands down to a child of a value.
ChildSchema(schema, at, node, child) ==
    LET type == SchemaAt(schema, at).type
    IN  IF type # node.kind THEN Nowhere
        ELSE IF node.kind = "union"
             THEN IF node.index < schema[at].variants THEN Append(at, node.index + 1) ELSE Nowhere
        ELSE IF node.kind \in {"array", "map"} THEN Append(at, 1)
        ELSE IF node.kind = "record" THEN FieldSchema(schema, at, node.fields[child])
        ELSE Nowhere

\* Where the walk down a path is in the schema, node by node.
Places(value, schema, path) ==
    LET place[n \in 0 .. Len(path)] ==
            deref(schema,
                IF n = 0 THEN <<>>
                ELSE ChildSchema(schema, place[n - 1], value[SubSeq(path, 1, n - 1)], path[n]))
    IN  place

\* The kinds of values that are not shown as they are.
ShapedKinds == {"decimal", "date", "time", "timestamp", "local-timestamp",
                "union", "array", "map", "record"}

\* What a node becomes, given its schema.
to_json_node(node, schema) ==
    IF node.kind = "decimal"
    THEN format_decimal(node.unscaled, IF schema.type = "decimal" THEN schema.scale ELSE 0)
    ELSE IF node.kind = "date" THEN format_date(node.days)
    ELSE IF node.kind = "time" THEN format_time(node.value)
    ELSE IF node.kind \in {"timestamp", "local-timestamp"}
         THEN format_timestamp(node.value, node.kind = "timestamp")
    ELSE IF node.kind = "union" THEN [json |-> "variant"]
    ELSE IF node.kind = "array" THEN [json |-> "array"]
    ELSE IF node.kind = "map" THEN [json |-> "object", names |-> node.keys]
    ELSE IF node.kind = "record" THEN [json |-> "object", names |-> node.fields]
    ELSE [json |-> "plain", value |-> node]

to_json(value, schema) ==
    [path \in DOMAIN value |->
        to_json_node(value[path], SchemaAt(schema, Places(value, schema, path)[Len(path)]))]

\* decode_container: an error without records, the record of a container with
\* one, a list of them otherwise.
decode_container(records, schema) ==
    IF Len(records) = 0 THEN <<>>
    ELSE IF Len(records) = 1 THEN <<to_json(records[1], schema)>>
    ELSE <<[json |-> "array",
            items |-> [k \in 1 .. Len(records) |-> to_json(records[k], schema)]]>>

-----------------------------------------------------------------------------
(* What an Avro writer does, for comparison: every node says at which      *)
(* place in the schema it was written.                                     *)

\* A schema has the children its nodes call for; a record's fields and the
\* records have names of their own, and a reference names one of them.
IsSchema(schema) ==
    /\ <<>> \in DOMAIN schema
    /\ DOMAIN schema \subseteq Seq(Nat \ {0})
    /\ \A at \in DOMAIN schema :
          LET node == schema[at]
          IN  /\ node.type = "record" =>
                    /\ DOMAIN node.fields = 1 .. Len(node.fields) /\ Len(node.fields) \in Nat
                    /\ \A j, k \in DOMAIN node.fields : node.fields[j] = node.fields[k] => j = k
                    /\ \A k \in DOMAIN node.fields : Append(at, k) \in DOMAIN schema
              /\ node.type = "union" =>
                    node.variants \in Nat /\ \A k \in 1 .. node.variants : Append(at, k) \in DOMAIN schema
              /\ node.type \in {"array", "map"} => Append(at, 1) \in DOMAIN schema
              /\ node.type = "decimal" => node.scale \in Nat
              /\ node.type = "ref" => \E r \in NamesOf(schema) : schema[r].name = node.name
    /\ \A r, q \in NamesOf(schema) : schema[r].name = schema[q].name => r = q

\* A node at a place is one of the schema there.
FitsNode(node, schema) ==
    /\ node.kind = "decimal" =>
          schema.type = "decimal" /\ node.scale = schema.scale /\ node.unscaled \in Int
    /\ node.kind = "date" => node.days \in Int
    /\ node.kind \in {"time", "timestamp", "local-timestamp"} => node.value \in Int
    /\ node.kind = "union" => schema.type = "union" /\ node.index \in 0 .. schema.variants - 1
    /\ node.kind \in {"array", "map"} => schema.type = node.kind
    /\ node.kind = "record" => schema.type = "record" /\ node.fields = schema.fields

\* Where a child of a node is declared, and where it is written: the same
\* place, or the record that is only referred to there.
Declared(node, child) ==
    Append(node.at, IF node.kind = "union" THEN node.index + 1
                    ELSE IF node.kind \in {"array", "map"} THEN 1
                    ELSE child)

StandsFor(schema, declared, at) ==
    IF schema[declared].type = "ref"
    THEN at \in NamesOf(schema) /\ schema[at].name = schema[declared].name
    ELSE at = declared

IsWritten(value, schema) ==
    /\ <<>> \in DOMAIN value /\ StandsFor(schema, <<>>, value[<<>>].at)
    /\ DOMAIN value \subseteq Seq(Nat \ {0})
    /\ \A path \in DOMAIN value :
          /\ value[path].at \in DOMAIN schema
          /\ FitsNode(value[path], schema[value[path].at])
          /\ path # <<>> =>
                LET parent == value[Front(path)]
                IN  /\ Front(path) \in DOMAIN value
                    /\ parent.kind \in {"union", "array", "map", "record"}
                    /\ parent.kind = "record" => Last(path) \in DOMAIN parent.fields
                    /\ StandsFor(schema, Declared(parent, Last(path)), value[path].at)

-----------------------------------------------------------------------------
(* What a reader makes of the JSON, for comparison.                        *)

NumberOf[digits \in Seq(0 .. 9)] ==
    IF digits = <<>> THEN 0 ELSE 10 * NumberOf[Front(digits)] + Last(digits)

ReadsDecimal(json, unscaled, scale) ==
    LET magnitude == NumberOf[json.whole \o json.fraction]
    IN  /\ json.whole # <<>> /\ Len(json.fraction) = scale
        /\ unscaled = IF json.negative THEN - magnitude ELSE magnitude

ReadsTime(json, value) ==
    IF json.json = "number" THEN json.raw = value
    ELSE /\ json.fraction \in 0 .. PerSecond - 1
         /\ json.seconds * PerSecond + json.fraction = value

ReadsNode(json, node) ==
    /\ node.kind = "decimal" => ReadsDecimal(json, node.unscaled, node.scale)
    /\ node.kind \in {"time", "timestamp", "local-timestamp"} => ReadsTime(json, node.value)
    /\ node.kind = "date" =>
          IF json.json = "number" THEN json.raw = node.days ELSE json.days = node.days
    /\ node.kind = "union" => json.json = "variant"
    /\ node.kind = "array" => json.json = "array"
    /\ node.kind = "map" => json.json = "object" /\ json.names = node.keys
    /\ node.kind = "record" => json.json = "object" /\ json.names = node.fields
    /\ node.kind \notin ShapedKinds => json.json = "plain" /\ json.value = node

\* The JSON says what the value holds, place by place; a decimal's own scale
\* is in the value.
Reads(json, value) ==
    /\ DOMAIN json = DOMAIN value
    /\ \A path \in DOMAIN value : ReadsNode(json[path], value[path])
=============================================================================
