--------------------------- MODULE SchemaDecoding ---------------------------
(***************************************************************************)
(* Showing a message with a schema: connection_decode_avro and             *)
(* connection_decode_protobuf (src-tauri/src/commands/schema.rs) with the  *)
(* rules that choose a schema, the Schema Registry client and its cache of *)
(* schemas by id (backend/schema-registry), and the cache of compiled      *)
(* Protobuf schemas (backend/protobuf).  One topic of one connection; the  *)
(* user pastes and clears schemas and edits the connection meanwhile.      *)
(*                                                                         *)
(* A schema text is where it came from: pasted, or registered at an        *)
(* endpoint under an id.  Registered schemas are immutable.  Parsing a     *)
(* schema and reading a datum with it are left to the libraries; of a      *)
(* Protobuf schema it matters which messages it declares.                  *)
(***************************************************************************)
EXTENDS WireFormat, AvroValues

CONSTANTS None,
          Viewers,         \* the payload panes that may decode at a time
          Endpoints,       \* registries a connection may name
          Payloads,        \* [bytes, frame, path, body, schema, records]: what is
                           \* viewed and, for comparison, how its producer framed
                           \* it and which Avro values it holds
          Racing,          \* the payloads that are viewed while settings change
          Pastes,          \* schemas the user may paste, in each format
          Declares(_),     \* the messages of a .proto text, each as the path to it,
                           \* or NoResult for a text that does not compile
          MaxSteps,        \* bounds the decodes, pastes, clears and edits
          SCHEMA_CACHE_ENTRIES

Formats == {"avro", "protobuf"}

Text(origin, id) == [origin |-> origin, id |-> id]

\* The texts there are: an id is a byte or one of the user's.
Texts == {Text(origin, id) : origin \in Endpoints \union {"pasted"},
                             id \in Byte \union UNION Range(Pastes)}

\* The messages nested in the one at a path, those of the file at <<>>.
Children(declared, path) ==
    {m \in declared : Len(m) = Len(path) + 1 /\ IsPrefix(path, m)}

\* The messages of a file: each inside one of them or at the top, and numbered
\* from zero there.
IsFileOfMessages(declared) ==
    /\ IsFiniteSet(declared) /\ declared \subseteq Seq(Nat) \ {<<>>}
    /\ \A m \in declared : \A n \in 1 .. Len(m) : SubSeq(m, 1, n) \in declared
    /\ \A path \in declared \union {<<>>} :
          LET children == Children(declared, path)
          IN  {Last(m) : m \in children} = 0 .. Cardinality(children) - 1

\* How a producer numbers: zigzag varints, of as many bytes as it likes.
IsNumber(s, n) == IsVarint(s) /\ VarintValue(s) = 2 * n

\* ... and how it writes a path: its length and its indexes, the path to the
\* first message as one byte.
IsPathFrom(path, bytes, start, end) ==
    \/ path = <<0>> /\ Slice(bytes, start, end) = <<0>>
    \/ /\ path \in Seq(0 .. INDEX_MAX) /\ Len(path) \in 1 .. 32
       /\ \E ends \in [0 .. Len(path) -> start .. end] :
             /\ IsNumber(Slice(bytes, start, ends[0]), Len(path))
             /\ \A k \in 1 .. Len(path) : IsNumber(Slice(bytes, ends[k - 1], ends[k]), path[k])
             /\ ends[Len(path)] = end

\* What a viewed payload may be.
IsPayload(p) ==
    LET start == Len(p.bytes) - Len(p.body)
    IN  /\ p.bytes \in Seq(Byte) /\ p.body \in Seq(Byte)
        /\ p.frame \in {"protobuf", "avro"} =>
              start >= 5 /\ p.bytes[1] = 0 /\ p.body = From(p.bytes, start)
        /\ p.frame = "protobuf" => IsPathFrom(p.path, p.bytes, 5, start)
        /\ p.frame = "avro" => start = 5 /\ Len(p.records) = 1
        /\ p.frame = "container" => detect_container_file(p.bytes) /\ Len(p.records) \in Nat
        /\ p.frame \in {"avro", "container"} =>
              IsSchema(p.schema) /\ \A k \in 1 .. Len(p.records) : IsWritten(p.records[k], p.schema)

ASSUME SchemaDecodingAssumption ==
    /\ SCHEMA_CACHE_ENTRIES \in Nat \ {0}
    /\ None \notin Endpoints /\ None \notin Nat /\ "pasted" \notin Endpoints
    /\ DOMAIN Pastes = Formats
    /\ Racing \subseteq Payloads
    /\ \A p \in Payloads : IsPayload(p)
    /\ \A text \in Texts : Declares(text) # NoResult => IsFileOfMessages(The(Declares(text)))

VARIABLES endpoint,        \* schema_registry_endpoint of the saved row
          releasing,       \* an edit has saved the row and not yet dropped the client
          pasted,          \* the topic's saved schema in each format
          pool,            \* SchemaRegistryClients: the index of the client, or None
          clients,         \* every client ever built: [endpoint, cache]
          compiled,        \* the compiled schemas, the oldest first
          view,            \* the command of each viewer
          steps

vars == <<endpoint, releasing, pasted, pool, clients, compiled, view, steps>>

Idle == [at |-> "idle"]

\* A .proto has to compile and to declare a message.
validate_schema(format, text) ==
    format = "protobuf" => Declares(text) # NoResult /\ The(Declares(text)) # {}

Init ==
    /\ endpoint \in Endpoints \union {None}
    /\ releasing = FALSE
    /\ pasted \in [Formats -> {None} \union {Text("pasted", n) : n \in UNION Range(Pastes)}]
    /\ \A format \in Formats : pasted[format] # None =>
           pasted[format].id \in Pastes[format] /\ validate_schema(format, pasted[format])
    /\ pool = None
    /\ clients = <<>>
    /\ compiled = <<>>
    /\ view = [v \in Viewers |-> Idle]
    /\ steps = 0

Step == steps < MaxSteps /\ steps' = steps + 1

-----------------------------------------------------------------------------
(* Which schema: the two decide_decode_strategy.                           *)

Strategy(kind, offset, path) == [kind |-> kind, offset |-> offset, path |-> path]

\* mutant: the registry is asked before the pasted schema is used
RegistryFirst(bytes, has_manual_schema, has_registry) ==
    IF detect_container_file(bytes) THEN Strategy("container", 0, <<>>)
    ELSE IF detect_wire_format(bytes) # NoResult /\ has_registry THEN Strategy("registry", 5, <<>>)
    ELSE Strategy(IF has_manual_schema THEN "manual" ELSE "refused", 0, <<>>)

decide_avro_strategy(bytes, has_manual_schema, has_registry) ==
    IF detect_container_file(bytes) THEN Strategy("container", 0, <<>>)
    ELSE IF has_manual_schema THEN Strategy("manual", 0, <<>>)
    ELSE IF detect_wire_format(bytes) # NoResult /\ has_registry THEN Strategy("registry", 5, <<>>)
    ELSE Strategy("refused", 0, <<>>)

decide_protobuf_strategy(bytes, has_manual_schema, has_registry) ==
    LET header == detect_confluent_header(bytes)
        offset == IF header = NoResult THEN 0 ELSE The(header).body_offset
        path == IF header = NoResult THEN <<0>> ELSE The(header).message_index
        kind == IF has_manual_schema THEN "manual"
                ELSE IF header # NoResult /\ has_registry THEN "registry" ELSE "raw"
    IN  Strategy(kind, offset, path)

decide_decode_strategy(format, bytes, has_manual_schema, has_registry) ==
    IF format = "avro" THEN decide_avro_strategy(bytes, has_manual_schema, has_registry)
    ELSE decide_protobuf_strategy(bytes, has_manual_schema, has_registry)

-----------------------------------------------------------------------------
(* Which message of a Protobuf schema.                                     *)

\* mutant: nested messages are looked for among the first ones
message_at_top_level(declared, index) ==
    IF index # <<>> /\ \A k \in DOMAIN index : index[k] \in 0 .. Cardinality(Children(declared, <<>>)) - 1
    THEN Found(<<Last(index)>>) ELSE NoResult

\* The path of indexes is walked from the first messages to the nested ones:
\* every one of them has to be there.
message_at(declared, index) ==
    IF index # <<>> /\ \A k \in DOMAIN index :
           index[k] \in 0 .. Cardinality(Children(declared, SubSeq(index, 1, k - 1))) - 1
    THEN Found(index) ELSE NoResult

\* The one message of a schema that declares no other beside it.
sole_message(declared) ==
    IF Cardinality(Children(declared, <<>>)) = 1 THEN Found(<<0>>) ELSE NoResult

\* mutant: whoever supplied the schema, a single message will do
resolve_with_the_sole_message(text, index) ==
    LET named == message_at(The(Declares(text)), index)
    IN  IF named = NoResult THEN sole_message(The(Declares(text))) ELSE named

\* A pasted schema may be a message that was copied out of its file.
resolve_message(text, index) ==
    LET named == message_at(The(Declares(text)), index)
    IN  IF named = NoResult /\ text.origin = "pasted"
        THEN sole_message(The(Declares(text))) ELSE named

\* decode, with a schema that compiled.
DecodedWith(c) ==
    [c EXCEPT !.at = "done", !.message = resolve_message(c.text, c.strategy.path)]

-----------------------------------------------------------------------------
(* A decode command, one step between two awaits or locks.                 *)

viewFrame == UNCHANGED <<endpoint, releasing, pasted>>

\* Payloads outside Racing are viewed alone.
Alone == \A v \in Viewers : view[v].at # "idle" => view[v].payload \in Racing

\* The command starts with the schema saved for the topic.
StartDecode(v) ==
    /\ view[v].at \in {"idle", "done"}
    /\ Step
    /\ Alone
    /\ \E format \in Formats, payload \in IF steps = 0 THEN Payloads ELSE Racing :
          view' = [view EXCEPT ![v] =
                [at |-> "row", format |-> format, payload |-> payload,
                 manual |-> pasted[format], kept |-> pasted[format] # None]]
    /\ viewFrame /\ UNCHANGED <<pool, clients, compiled>>

\* What a command that started as c is once a strategy is chosen for it.
Decided(c, s) ==
    [at |-> CASE s.kind = "registry" -> "client"
              [] s.kind = "manual" /\ c.format = "protobuf" -> "compile"
              [] OTHER -> "done",
     format |-> c.format, payload |-> c.payload, kept |-> c.kept, strategy |-> s,
     client |-> None, message |-> NoResult, endpoint |-> endpoint,
     text |-> IF s.kind = "manual" THEN c.manual ELSE None]

\* Then the connection's row, and the strategy, which needs no shared state.
ReadRow(v) ==
    /\ view[v].at = "row"
    /\ LET c == view[v]
       IN  view' = [view EXCEPT ![v] = Decided(c,
              decide_decode_strategy(c.format, c.payload.bytes, c.manual # None, endpoint # None))]
    /\ viewFrame /\ UNCHANGED <<pool, clients, compiled, steps>>

\* mutant: any client of the connection will do
AnyClient(client, wanted) == TRUE

\* fingerprint_of: the client was built from these settings.
SameFingerprint(client, wanted) == client.endpoint = wanted

\* get_or_create, under the pool's lock.
GetOrCreate(v) ==
    /\ view[v].at = "client"
    /\ LET wanted == view[v].endpoint
           fits == IF pool = None THEN FALSE ELSE SameFingerprint(clients[pool], wanted)
           index == IF fits THEN pool ELSE Len(clients) + 1
       IN  /\ clients' = IF fits THEN clients
                         ELSE Append(clients, [endpoint |-> wanted, cache |-> <<>>])
           /\ pool' = index
           /\ view' = [view EXCEPT ![v] = [@ EXCEPT !.at = "lookup", !.client = index]]
    /\ viewFrame /\ UNCHANGED <<compiled, steps>>

WantedId(v) == SchemaId(view[v].payload.bytes)

\* What a command does once it has its text.
WithText(c, text) ==
    [c EXCEPT !.text = text, !.at = IF c.format = "protobuf" THEN "compile" ELSE "done"]

\* fetch_schema_by_id: the cache first ...
LookUp(v) ==
    /\ view[v].at = "lookup"
    /\ LET cache == clients[view[v].client].cache
       IN  view' = [view EXCEPT ![v] =
              IF WantedId(v) \in DOMAIN cache THEN WithText(@, cache[WantedId(v)])
              ELSE [@ EXCEPT !.at = "waiting"]]
    /\ viewFrame /\ UNCHANGED <<pool, clients, compiled, steps>>

\* ... then the registry, whose answer goes into the cache of this client,
\* whoever holds the client by then ...
RegistryAnswers(v) ==
    /\ view[v].at = "waiting"
    /\ LET client == view[v].client
           text == Text(clients[client].endpoint, WantedId(v))
           kept == clients[client].cache
       IN  /\ clients' = [clients EXCEPT ![client].cache =
                  [id \in DOMAIN kept \union {WantedId(v)} |-> IF id = WantedId(v) THEN text ELSE kept[id]]]
           /\ view' = [view EXCEPT ![v] = WithText(@, text)]
    /\ viewFrame /\ UNCHANGED <<pool, compiled, steps>>

\* ... unless it does not know the id or cannot be reached.
RegistryFails(v) ==
    /\ view[v].at = "waiting"
    /\ view' = [view EXCEPT ![v].at = "done", ![v].strategy = Strategy("failed", 0, <<>>)]
    /\ viewFrame /\ UNCHANGED <<pool, clients, compiled, steps>>

IsCompiled(text) == text \in Range(compiled)

\* compile: the cache under its lock; what is missing is compiled without it.
LookUpCompiled(v) ==
    /\ view[v].at = "compile"
    /\ view' = [view EXCEPT ![v] = IF IsCompiled(view[v].text) THEN DecodedWith(@)
                                   ELSE [@ EXCEPT !.at = "compiling"]]
    /\ viewFrame /\ UNCHANGED <<pool, clients, compiled, steps>>

\* mutant: nothing makes room
UnboundedCache(text) == IF IsCompiled(text) THEN compiled ELSE Append(compiled, text)

\* mutant: what was missing before is still missing
InsertAgain(text) ==
    Append(IF Len(compiled) >= SCHEMA_CACHE_ENTRIES THEN Tail(compiled) ELSE compiled, text)

\* Another command may have compiled the same text meanwhile; the oldest entry
\* makes room.
InsertCompiled(text) ==
    IF IsCompiled(text) THEN compiled
    ELSE Append(IF Len(compiled) >= SCHEMA_CACHE_ENTRIES THEN Tail(compiled) ELSE compiled, text)

KeepCompiled(v) ==
    /\ view[v].at = "compiling"
    /\ Declares(view[v].text) # NoResult
    /\ compiled' = InsertCompiled(view[v].text)
    /\ view' = [view EXCEPT ![v] = DecodedWith(@)]
    /\ viewFrame /\ UNCHANGED <<pool, clients, steps>>

\* compile_uncached: what does not compile is not kept.
CompileFails(v) ==
    /\ view[v].at = "compiling"
    /\ Declares(view[v].text) = NoResult
    /\ view' = [view EXCEPT ![v].at = "done"]
    /\ viewFrame /\ UNCHANGED <<pool, clients, compiled, steps>>

-----------------------------------------------------------------------------
(* The user.                                                               *)

userFrame == UNCHANGED <<pool, clients>>

\* The pasted schema of a format is no longer what it was for the commands
\* under way.
Forget(format) ==
    [v \in Viewers |-> IF view[v].at # "idle" /\ view[v].format = format
                       THEN [view[v] EXCEPT !.kept = FALSE] ELSE view[v]]

\* topic_schema_set: a .proto is compiled, and kept compiled, to validate it.
Paste ==
    /\ Step /\ Alone
    /\ \E format \in Formats : \E n \in Pastes[format] :
          LET text == Text("pasted", n)
          IN  /\ compiled' = IF format = "protobuf" /\ Declares(text) # NoResult
                             THEN InsertCompiled(text) ELSE compiled
              /\ pasted' = IF validate_schema(format, text)
                           THEN [pasted EXCEPT ![format] = text] ELSE pasted
    /\ UNCHANGED <<endpoint, releasing, view>> /\ userFrame

Clear ==
    /\ Step /\ Alone
    /\ \E format \in Formats :
          /\ pasted[format] # None
          /\ pasted' = [pasted EXCEPT ![format] = None]
          /\ view' = Forget(format)
    /\ UNCHANGED <<endpoint, releasing, compiled>> /\ userFrame

\* connection_update saves the row, then drops the client.
EditConnection ==
    /\ Step /\ Alone
    /\ ~ releasing
    /\ endpoint' \in (Endpoints \union {None}) \ {endpoint}
    /\ releasing' = TRUE
    /\ UNCHANGED <<pasted, view, compiled>> /\ userFrame

Release ==
    /\ releasing
    /\ releasing' = FALSE
    /\ pool' = None
    /\ UNCHANGED <<endpoint, pasted, view, clients, compiled, steps>>

Next ==
    \/ \E v \in Viewers :
          \/ StartDecode(v) \/ ReadRow(v) \/ GetOrCreate(v) \/ LookUp(v)
          \/ RegistryAnswers(v) \/ RegistryFails(v) \/ LookUpCompiled(v) \/ KeepCompiled(v)
          \/ CompileFails(v)
    \/ Paste \/ Clear \/ EditConnection \/ Release

Spec == Init /\ [][Next]_vars

-----------------------------------------------------------------------------
(* Properties.                                                             *)

Shown(v) == view[v].at = "done"

\* The variables have their types and the compiled schemas their bound.
TypeOK ==
    /\ endpoint \in Endpoints \union {None}
    /\ pool \in (1 .. Len(clients)) \union {None}
    /\ \A k \in 1 .. Len(clients) : clients[k].endpoint \in Endpoints
    /\ Len(compiled) <= SCHEMA_CACHE_ENTRIES
    /\ \A v \in Viewers : view[v].at \in
          {"idle", "row", "client", "lookup", "waiting", "compile", "compiling", "done"}

\* A message decoded with a registered schema is decoded with the one its own
\* id names at the registry its connection named, though ids mean nothing
\* across registries, clients outlive edits and caches fill late.
SchemaIsItsRegistrys ==
    \A v \in Viewers :
        Shown(v) /\ view[v].strategy.kind = "registry"
            => view[v].text = Text(view[v].endpoint, WantedId(v))

\* Where a schema was pasted before the command started and never cleared, no
\* registry is asked (decide_decode_strategy: "a manual schema beats the
\* registry"); only a container file needs neither.
PastedSchemaWins ==
    \A v \in Viewers :
        Shown(v) /\ view[v].kept => view[v].strategy.kind \in {"manual", "container"}

\* Whoever supplies the schema, it is applied to the bytes the producer
\* serialised and to the message it named, never to the framing.  A schema
\* pasted for Avro is applied to the payload whole.
FramingIsStripped ==
    \A v \in Viewers :
        (Shown(v) /\ view[v].payload.frame = view[v].format) =>
            LET s == view[v].strategy
            IN  /\ s.kind \in {"registry", "raw"} \/ (s.kind = "manual" /\ view[v].format = "protobuf")
                      => From(view[v].payload.bytes, s.offset) = view[v].payload.body
                /\ s.kind \in {"registry", "manual"} /\ view[v].format = "protobuf"
                      => s.path = view[v].payload.path

\* A Protobuf message is read as the one its producer named in the schema file
\* it wrote with; or, for a pasted schema that has no such message, as the only
\* one there is to choose; never as some other one.
ReadAsTheMessageNamed ==
    \A v \in Viewers :
        (Shown(v) /\ view[v].format = "protobuf" /\ view[v].payload.frame = "protobuf"
            /\ view[v].strategy.kind \in {"registry", "manual"}) =>
            LET path == view[v].payload.path
                declared == Declares(view[v].text)
                messages == IF declared = NoResult THEN {} ELSE The(declared)
                sole == {m \in messages : Len(m) = 1}
            IN  view[v].message =
                CASE path \in messages -> Found(path)
                  [] path \notin messages /\ view[v].strategy.kind = "manual"
                        /\ Cardinality(sole) = 1 -> Found(CHOOSE m \in sole : TRUE)
                  [] OTHER -> NoResult

\* A compiled schema is kept once and the oldest makes room, however many
\* commands compile at a time, so that the bound is one on schemas.
CompiledOnce == IsInjective(compiled)

\* Without a schema a payload is shown as Protobuf exactly when its bytes are
\* a sequence of well-formed fields: no byte is left over and none is read
\* twice.
RawDecodeIsExact ==
    \A v \in Viewers :
        (Shown(v) /\ view[v].strategy.kind = "raw") =>
            LET body == From(view[v].payload.bytes, view[v].strategy.offset)
            IN  (decode_raw(body) # NoResult) <=> IsMessage(body)

\* An Avro message decoded with the schema it was written with shows the very
\* numbers, times and fields it holds: decimals with the scale of their own
\* place in the schema, through references, unions and collections; instants
\* before the epoch; a container with no record, one or several.
AvroValuesReadBack ==
    \A v \in Viewers :
        (Shown(v) /\ view[v].strategy.kind \in {"container", "registry"} /\ view[v].format = "avro") =>
            LET payload == view[v].payload
                json == IF view[v].strategy.kind = "container"
                        THEN decode_container(payload.records, payload.schema)
                        ELSE Found(to_json(payload.records[1], payload.schema))
            IN  payload.frame \in {"avro", "container"} =>
                /\ Len(payload.records) = 0 => json = NoResult
                /\ Len(payload.records) = 1 => Reads(The(json), payload.records[1])
                /\ Len(payload.records) > 1 =>
                      \A k \in 1 .. Len(payload.records) : Reads(The(json).items[k], payload.records[k])

\* The schemas are the right ones: the variables have their types, a schema is
\* its own registry's, a pasted one wins, a compiled one is kept once.
SchemaInvariant ==
    TypeOK /\ SchemaIsItsRegistrys /\ PastedSchemaWins /\ CompiledOnce

\* And with them the viewer shows what the producer wrote: framing, fields and
\* values are read as they were written.
ShownIsWhatWasWritten ==
    FramingIsStripped /\ ReadAsTheMessageNamed /\ RawDecodeIsExact /\ AvroValuesReadBack
=============================================================================
