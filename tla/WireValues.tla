----------------------------- MODULE WireValues -----------------------------
(***************************************************************************)
(* One value on the wire of tpt-proto-core: varints, tags, scalars, the    *)
(* Reader with its limits, and the store of unknown fields.  A byte string *)
(* is a sequence of 0..255.  The width of a varint value is WordBits (64   *)
(* in the code); int32, fixed32 and field numbers have half of it, as      *)
(* there.  Power2[n] is 2^n.                                               *)
(***************************************************************************)
EXTENDS Integers, Sequences, FiniteSetsExt

CONSTANT WordBits

ASSUME WordBitsAssumption == WordBits \in {16 * k : k \in 1..4}

HalfBits == WordBits \div 2
Power2[n \in 0..WordBits + 7] == IF n = 0 THEN 1 ELSE 2 * Power2[n - 1]
Word == Power2[WordBits]
Half == Power2[HalfBits]
Signed(v, width) == IF v % width >= width \div 2 THEN (v % width) - width ELSE v % width

(* varint.rs.  The overlong test looks at the byte after the last one, which *)
(* the width test refuses anyway: surplus high bits of the last byte are    *)
(* shifted out.                                                             *)
MAX_VARINT_LEN == (WordBits + 6) \div 7

varint_len(v) ==
    CHOOSE n \in 1..MAX_VARINT_LEN : v < Power2[7 * n] /\ (n = 1 \/ v >= Power2[7 * (n - 1)])

encode_varint(v) ==
    [i \in 1..varint_len(v) |->
        ((v \div Power2[7 * (i - 1)]) % 128) + (IF i < varint_len(v) THEN 128 ELSE 0)]

\* The low bits of each of n bytes, the first the least significant.
Gathered(bytes, start, n, bits) ==
    LET sum[i \in 0..n] ==
            IF i = 0 THEN 0
            ELSE sum[i - 1] + (bytes[start + i] % Power2[bits]) * Power2[bits * (i - 1)]
    IN  sum[n]

decode_varint(bytes, start) ==
    LET last == {n \in 1..MAX_VARINT_LEN : start + n <= Len(bytes) /\ bytes[start + n] < 128}
    IN  IF last # {}
        THEN [err |-> "ok", len |-> Min(last), val |-> Gathered(bytes, start, Min(last), 7) % Word]
        ELSE [err |-> IF Len(bytes) <= start + MAX_VARINT_LEN THEN "eof" ELSE "varint_too_long"]

\* The negative numbers are one off.
encode_zigzagBug(v, width) == IF v >= 0 THEN 2 * v ELSE (-2 * v + 1) % width
encode_zigzag(v, width) == IF v >= 0 THEN 2 * v ELSE (-2 * v - 1) % width
decode_zigzag(v) == IF v % 2 = 0 THEN v \div 2 ELSE -((v + 1) \div 2)

little_endian(v, n) == [i \in 1..n |-> (v \div Power2[8 * (i - 1)]) % 256]

(* wire_type.rs *)
WireType == [Varint |-> 0, Fixed64 |-> 1, LengthDelimited |-> 2,
             StartGroup |-> 3, EndGroup |-> 4, Fixed32 |-> 5]

encode_tag(number, wt) == encode_varint((number * 8 + wt) % Half)

(* writer.rs *)
write_length_delimited(bytes) == encode_varint(Len(bytes)) \o bytes

(***************************************************************************)
(* reader.rs.  A reader that failed keeps its error; val is what the last  *)
(* successful operation returned.                                          *)
(***************************************************************************)
ReaderOn(bytes, depth, limits) ==
    [buf |-> bytes, pos |-> 0, depth |-> depth, fields |-> 0, read |-> 0,
     limits |-> limits, err |-> "ok", val |-> 0]

NewReader(bytes, limits) == ReaderOn(bytes, 0, limits)

is_empty(r) == r.pos >= Len(r.buf)
Failed(r, e) == [r EXCEPT !.err = e]
Return(r, v) == [r EXCEPT !.val = v]
Then(r, Continue(_)) == IF r.err = "ok" THEN Continue(r) ELSE r

advance(r, n, v) ==
    IF r.pos + n > Len(r.buf) THEN Failed(r, "eof")
    ELSE IF r.read + n > r.limits.max_bytes THEN Failed(r, "max_bytes")
    ELSE [r EXCEPT !.pos = @ + n, !.read = @ + n, !.val = v]

Decoded(r, d) == IF d.err = "ok" THEN advance(r, d.len, d.val) ELSE Failed(r, d.err)
read_varint(r) == Decoded(r, decode_varint(r.buf, r.pos))

\* Tag::decode(), and the count of fields.
read_tag(r) ==
    LET CountField(s) ==
            LET tag == [number |-> (s.val \div 8) % Half, wire |-> s.val % 8] IN
            IF tag.wire \in {6, 7} \/ tag.number = 0 THEN Failed(s, "invalid_tag")
            ELSE IF s.fields + 1 > s.limits.max_fields THEN Failed(s, "max_fields")
            ELSE [s EXCEPT !.fields = @ + 1, !.val = tag]
    IN  Then(read_varint(r), CountField)

read_length_delimited(r) ==
    LET Take(s) ==
            IF s.val > s.limits.max_length_delimited THEN Failed(s, "max_length_delimited")
            ELSE IF s.pos + s.val > Len(s.buf) THEN Failed(s, "length")
            ELSE advance(s, s.val, SubSeq(s.buf, s.pos + 1, s.pos + s.val))
    IN  Then(read_varint(r), Take)

read_fixed(r, n) ==
    IF r.pos + n > Len(r.buf) THEN Failed(r, "eof")
    ELSE advance(r, n, Gathered(r.buf, r.pos, n, 8))

read_fixed32(r) == read_fixed(r, HalfBits \div 8)
read_fixed64(r) == read_fixed(r, WordBits \div 8)

\* A byte below 128 stands for valid UTF-8.
read_string_owned(r) ==
    LET Check(s) ==
            IF Len(s.val) > s.limits.max_string_len THEN Failed(s, "max_string_len")
            ELSE IF \E i \in DOMAIN s.val : s.val[i] >= 128 THEN Failed(s, "utf8")
            ELSE s
    IN  Then(read_length_delimited(r), Check)

\* The value is a reader on body: one level deeper, its counts from zero.
nested(r, body) ==
    IF r.depth + 1 > r.limits.max_depth THEN Failed(r, "depth")
    ELSE Return(r, ReaderOn(body, r.depth + 1, r.limits))

(***************************************************************************)
(* scalar.rs: a scalar of each type as the bytes of its value, and back.   *)
(* A bool is 0 or 1; float and double are taken by their bits.             *)
(***************************************************************************)
ScalarTypes == {"int32", "int64", "uint32", "uint64", "sint32", "sint64", "bool", "enum",
                "fixed32", "sfixed32", "fixed64", "sfixed64", "float", "double"}
Fixed32Types == {"fixed32", "sfixed32", "float"}
Fixed64Types == {"fixed64", "sfixed64", "double"}

field_wire_type(t) ==
    CASE t \in Fixed64Types -> WireType.Fixed64
      [] t \in Fixed32Types -> WireType.Fixed32
      [] t \in ScalarTypes \ (Fixed32Types \cup Fixed64Types) -> WireType.Varint
      [] OTHER -> WireType.LengthDelimited

encode_scalar(t, v) ==
    CASE t = "sint32" -> encode_varint(encode_zigzag(Signed(v, Half), Half))
      [] t = "sint64" -> encode_varint(encode_zigzag(v, Word))
      [] t \in Fixed32Types -> little_endian(v % Half, HalfBits \div 8)
      [] t \in Fixed64Types -> little_endian(v % Word, WordBits \div 8)
      [] t \in {"string", "bytes"} -> write_length_delimited(v)
      [] OTHER -> encode_varint(v % Word)

read_scalar(r, t) ==
    LET As(s) == Return(s,
            CASE t \in {"int32", "enum", "sfixed32"} -> Signed(s.val, Half)
              [] t \in {"int64", "sfixed64"} -> Signed(s.val, Word)
              [] t = "uint32" -> s.val % Half
              [] t = "sint32" -> decode_zigzag(s.val % Half)
              [] t = "sint64" -> decode_zigzag(s.val)
              [] t = "bool" -> IF s.val # 0 THEN 1 ELSE 0
              [] OTHER -> s.val)
    IN  CASE t = "string" -> read_string_owned(r)
          [] t = "bytes" -> read_length_delimited(r)
          [] t \in Fixed32Types -> Then(read_fixed32(r), As)
          [] t \in Fixed64Types -> Then(read_fixed64(r), As)
          [] OTHER -> Then(read_varint(r), As)

(***************************************************************************)
(* unknown.rs: the values of each number in the order they came, and the   *)
(* running total of their encoded length, which is what the limit is on.   *)
(***************************************************************************)
NoUnknown == [fields |-> <<>>, total_len |-> 0]

tag_len(number) == varint_len((number * 8) % Half)

write_unknown(v) ==
    CASE v.wire = WireType.Varint -> encode_varint(v.val)
      [] v.wire = WireType.Fixed32 -> little_endian(v.val, HalfBits \div 8)
      [] v.wire = WireType.Fixed64 -> little_endian(v.val, WordBits \div 8)
      [] v.wire = WireType.LengthDelimited -> write_length_delimited(v.val)

\* A length prefix that is not counted.
value_lenBug(v) ==
    CASE v.wire = WireType.Varint -> varint_len(v.val)
      [] v.wire = WireType.Fixed32 -> HalfBits \div 8
      [] v.wire = WireType.Fixed64 -> WordBits \div 8
      [] v.wire = WireType.LengthDelimited -> Len(v.val)

value_len(v) ==
    CASE v.wire = WireType.Varint -> varint_len(v.val)
      [] v.wire = WireType.Fixed32 -> HalfBits \div 8
      [] v.wire = WireType.Fixed64 -> WordBits \div 8
      [] v.wire = WireType.LengthDelimited -> varint_len(Len(v.val)) + Len(v.val)

insert_unknown(set, number, v) ==
    LET old == IF number \in DOMAIN set.fields THEN set.fields[number] ELSE <<>>
    IN  [fields |-> [n \in DOMAIN set.fields \cup {number} |->
                        IF n = number THEN Append(old, v) ELSE set.fields[n]],
         total_len |-> set.total_len + tag_len(number) + value_len(v)]

\* The value is the set with the field in it: the limit is tested afterwards.
store_unknown(r, tag, set) ==
    LET Keep(s) ==
            LET grown == insert_unknown(set, tag.number, [wire |-> tag.wire, val |-> s.val]) IN
            IF grown.total_len > s.limits.max_unknown_bytes
            THEN Failed(s, "max_unknown_bytes") ELSE Return(s, grown)
    IN  CASE tag.wire = WireType.Varint -> Then(read_varint(r), Keep)
          [] tag.wire = WireType.Fixed32 -> Then(read_fixed32(r), Keep)
          [] tag.wire = WireType.Fixed64 -> Then(read_fixed64(r), Keep)
          [] tag.wire = WireType.LengthDelimited -> Then(read_length_delimited(r), Keep)
          [] OTHER -> Failed(r, "wire_type")
=============================================================================
