----------------------------- MODULE WireFormat -----------------------------
(***************************************************************************)
(* Bytes of a payload as the decoders read them: base-128 varints, the     *)
(* schemaless reading of a protobuf message (backend/protobuf/src/wire.rs) *)
(* and the framings of Avro and Protobuf payloads (detect_* in             *)
(* backend/avro and backend/protobuf).                                     *)
(*                                                                         *)
(* A parse that may fail returns <<>> for None and <<result>> for Some.    *)
(* Words are WORD_BITS wide, as many as VARINT_BYTES groups of seven bits  *)
(* hold with the last one cut, which is how 64 bits and 10 bytes relate.   *)
(* Positions count from zero, as in the code.                              *)
(***************************************************************************)
EXTENDS Integers, FiniteSetsExt, Functions, SequencesExt

CONSTANTS WORD_BITS,       \* 64 in the code
          VARINT_BYTES,    \* 10 in the code
          JSON_SAFE_MAX,   \* 2^53 in the code
          INDEX_MAX,       \* i32::MAX in the code
          MAX_DEPTH        \* 32 in the code

ASSUME WireFormatAssumption ==
    /\ VARINT_BYTES \in Nat \ {0}
    /\ WORD_BITS \in 7 * (VARINT_BYTES - 1) + 1 .. 7 * VARINT_BYTES
    /\ JSON_SAFE_MAX \in Nat /\ INDEX_MAX \in Nat /\ MAX_DEPTH \in Nat

Byte == 0 .. 255

NoResult == <<>>
Found(x) == <<x>>
The(option) == option[1]

At(bytes, i) == bytes[i + 1]
Slice(bytes, i, j) == SubSeq(bytes, i + 1, j)
From(bytes, i) == Slice(bytes, i, Len(bytes))

\* The group of seven bits a byte carries into a word at a shift.
Group(byte, shift) == (byte % 2 ^ Min({7, WORD_BITS - shift})) * 2 ^ shift

\* What the groups of some bytes add up to, the least significant first.
VarintValue(s) == SumFunction([k \in 1 .. Len(s) |-> Group(s[k], 7 * (k - 1))])

\* A varint ends with the first byte below 128; not one of too many bytes.
ReadVarint(bytes, start, limit) ==
    LET ends == {n \in 1 .. limit : start + n <= Len(bytes) /\ At(bytes, start + n - 1) < 128}
        used == Min(ends)
    IN  IF ends = {} THEN NoResult
        ELSE Found([value |-> VarintValue(Slice(bytes, start, start + used)), used |-> used])

\* mutant: a number of ten bytes is one too long
ReadVarintShort(bytes, start) == ReadVarint(bytes, start, VARINT_BYTES - 1)

read_varint(bytes, start) == ReadVarint(bytes, start, VARINT_BYTES)

zigzag_decode(value) == IF value % 2 = 0 THEN value \div 2 ELSE - (value \div 2) - 1

\* value as i64.
Signed(value) == IF value >= 2 ^ (WORD_BITS - 1) THEN value - 2 ^ WORD_BITS ELSE value

-----------------------------------------------------------------------------
(* decode_raw.                                                             *)

Varint == 0
Fixed64 == 1
LengthDelimited == 2
Fixed32 == 5
WireTypes == {Varint, Fixed64, LengthDelimited, Fixed32}

\* A number that a JSON reader would round is annotated with its signed reading.
Number(raw) ==
    IF raw < JSON_SAFE_MAX THEN [kind |-> "number", raw |-> raw]
    ELSE [kind |-> "annotated", raw |-> raw, signed |-> Signed(raw)]

\* std::str::from_utf8, for payloads whose bytes above 127 are never UTF-8.
IsText(bytes) == \A k \in 1 .. Len(bytes) : bytes[k] < 128

\* Where a value of a wire type ends, <<>> when it does not fit.
ValueEnd(bytes, index, type) ==
    LET v == read_varint(bytes, index)
        fits(end) == IF end > Len(bytes) THEN NoResult ELSE Found(end)
    IN  IF type = Fixed64 THEN fits(index + 8)
        ELSE IF type = Fixed32 THEN fits(index + 4)
        ELSE IF v = NoResult THEN NoResult
        ELSE IF type = Varint THEN Found(index + The(v).used)
        ELSE IF The(v).value > Len(bytes) THEN NoResult
        ELSE fits(index + The(v).used + The(v).value)

\* The field at a position, NoResult when there is none: a number, a type and
\* where its value starts and ends.
ReadField(bytes, index) ==
    LET key == read_varint(bytes, index)
        type == The(key).value % 8
        number == The(key).value \div 8
        start == index + The(key).used
        end == ValueEnd(bytes, start, type)
    IN  IF key = NoResult THEN NoResult
        ELSE IF type \notin WireTypes \/ number = 0 \/ end = NoResult THEN NoResult
        ELSE Found([number |-> number, type |-> type, start |-> start, end |-> The(end)])

\* One round of the loop of decode_fields.
AfterField(bytes, position) ==
    IF position = NoResult THEN NoResult
    ELSE IF The(position) >= Len(bytes) THEN position
    ELSE LET field == ReadField(bytes, The(position))
         IN  IF field = NoResult THEN NoResult ELSE Found(The(field).end)

\* Where it is after some rounds; a field has a byte at least, so there are no
\* more of them than bytes.
Positions(bytes) ==
    LET position[n \in 0 .. Len(bytes)] ==
            IF n = 0 THEN Found(0) ELSE AfterField(bytes, position[n - 1])
    IN  position

IsWellFormed(bytes) == Positions(bytes)[Len(bytes)] # NoResult

\* parse_nested: what is no message, or lies too deep, is shown as text or as
\* bytes; a message as decode_fields reads it one level further down.
Delimited(content, depth) ==
    IF content # <<>> /\ depth < MAX_DEPTH /\ IsWellFormed(content)
    THEN [kind |-> "message", bytes |-> content, depth |-> depth + 1]
    ELSE [kind |-> IF IsText(content) THEN "text" ELSE "bytes", bytes |-> content]

ShownValue(bytes, field, depth) ==
    LET raw == Slice(bytes, field.start, field.end)
        number == The(read_varint(raw, 0))
    IN  CASE field.type = Varint -> Number(number.value)
          [] field.type = LengthDelimited -> Delimited(From(raw, number.used), depth)
          [] OTHER -> [kind |-> "fixed", bytes |-> raw]

\* Where the fields of a message start.
FieldStarts(bytes) ==
    {The(Positions(bytes)[n]) : n \in 0 .. Len(bytes)} \ {Len(bytes)}

FieldAt(bytes, start) == The(ReadField(bytes, start))

Occurrences(bytes, number) ==
    SetToSortSeq({start \in FieldStarts(bytes) : FieldAt(bytes, start).number = number}, <)

ShownValues(bytes, starts, depth) ==
    [k \in DOMAIN starts |-> ShownValue(bytes, FieldAt(bytes, starts[k]), depth)]

\* A repeated field becomes a list of its occurrences.
decode_fields(bytes, depth) ==
    IF depth > MAX_DEPTH \/ ~ IsWellFormed(bytes) THEN NoResult
    ELSE Found([number \in {FieldAt(bytes, start).number : start \in FieldStarts(bytes)} |->
                    ShownValues(bytes, Occurrences(bytes, number), depth)])

decode_raw(bytes) == decode_fields(bytes, 0)

-----------------------------------------------------------------------------
(* Framings.                                                               *)

CONTAINER_FILE_MAGIC == <<79, 98, 106, 1>>

detect_container_file(bytes) == IsPrefix(CONTAINER_FILE_MAGIC, bytes)

\* u32::from_be_bytes of the four bytes after the magic byte; the ids of a
\* model need the last one only.
SchemaId(bytes) == bytes[5]

\* Avro's detect_wire_format.
detect_wire_format(bytes) ==
    IF Len(bytes) < 5 \/ bytes[1] # 0 THEN NoResult ELSE Found(SchemaId(bytes))

Header(bytes, index, offset) ==
    [schema_id |-> SchemaId(bytes), message_index |-> index, body_offset |-> offset]

IndexAt(bytes, offset) == zigzag_decode(The(read_varint(bytes, offset)).value)

\* One index of a path is read; it has to be an i32.
AfterIndex(bytes, offset) ==
    IF offset = NoResult THEN NoResult
    ELSE LET index == read_varint(bytes, The(offset))
         IN  IF index = NoResult THEN NoResult
             ELSE IF zigzag_decode(The(index).value) \notin - INDEX_MAX - 1 .. INDEX_MAX THEN NoResult
             ELSE Found(The(offset) + The(index).used)

\* Where the first indexes of a path end.
IndexEnds(bytes, offset, count) ==
    LET ends[k \in 0 .. count] == IF k = 0 THEN Found(offset) ELSE AfterIndex(bytes, ends[k - 1])
    IN  ends

ReadPath(bytes, offset, count) ==
    LET ends == IndexEnds(bytes, offset, count)
    IN  IF ends[count] = NoResult THEN NoResult
        ELSE Found(Header(bytes, [k \in 1 .. count |-> IndexAt(bytes, The(ends[k - 1]))],
                          The(ends[count])))

\* mutant: the single byte 0 is taken for the length of a path
WithoutTheShortForm(bytes) ==
    LET first == read_varint(bytes, 5)
    IN  IF detect_wire_format(bytes) = NoResult \/ first = NoResult THEN NoResult
        ELSE ReadPath(bytes, 5 + The(first).used, 1)

\* Protobuf's detect_confluent_header: the path to the first message is
\* written as the single byte 0, any other as its length and its indexes.
detect_confluent_header(bytes) ==
    LET first == read_varint(bytes, 5)
        offset == 5 + The(first).used
        count == zigzag_decode(The(first).value)
    IN  IF detect_wire_format(bytes) = NoResult \/ first = NoResult THEN NoResult
        ELSE IF The(first).value = 0 THEN Found(Header(bytes, <<0>>, offset))
        ELSE IF count < 0 \/ count > 32 THEN NoResult
        ELSE ReadPath(bytes, offset, count)

-----------------------------------------------------------------------------
(* What the format itself says, for comparison.                            *)

IsVarint(s) ==
    /\ Len(s) \in 1 .. VARINT_BYTES
    /\ s[Len(s)] < 128
    /\ \A k \in 1 .. Len(s) - 1 : s[k] >= 128

IsField(s) ==
    \E k \in 1 .. Len(s) :
        LET key == SubSeq(s, 1, k)
            rest == SubSeq(s, k + 1, Len(s))
            type == VarintValue(key) % 8
        IN  /\ IsVarint(key)
            /\ VarintValue(key) >= 8
            /\ \/ type = Varint /\ IsVarint(rest)
               \/ type = Fixed64 /\ Len(rest) = 8
               \/ type = Fixed32 /\ Len(rest) = 4
               \/ /\ type = LengthDelimited
                  /\ \E n \in 1 .. Len(rest) :
                        LET length == SubSeq(rest, 1, n)
                        IN  IsVarint(length) /\ VarintValue(length) = Len(rest) - n

\* Cut in some places, every piece is a field.
IsMessage(s) ==
    \E cuts \in SUBSET (0 .. Len(s)) :
        /\ {0, Len(s)} \subseteq cuts
        /\ \A a, b \in cuts :
              a < b /\ (\A c \in cuts : c <= a \/ b <= c) => IsField(Slice(s, a, b))
=============================================================================
