-------------------------------- MODULE Wire --------------------------------
(***************************************************************************)
(* The wire format of tpt-proto-core beyond single values: groups, packed  *)
(* fields, map entries, and what the unknown fields of a message are when  *)
(* they are written again.                                                 *)
(***************************************************************************)
EXTENDS WireValues, SequencesExt

\* A group ends at any end tag; only read_tag() counts what is inside.
RECURSIVE skip_inner(_, _, _), SkipGroup(_, _)
skip_inner(r, wire, depth) ==
    CASE wire = WireType.Varint -> read_varint(r)
      [] wire = WireType.Fixed64 -> read_fixed64(r)
      [] wire = WireType.Fixed32 -> read_fixed32(r)
      [] wire = WireType.LengthDelimited ->
            LET Jump(s) == IF s.val > s.limits.max_length_delimited
                           THEN Failed(s, "max_length_delimited")
                           ELSE advance(s, s.val, 0)
            IN  Then(read_varint(r), Jump)
      [] wire = WireType.StartGroup ->
            IF depth + 1 > r.limits.max_depth THEN Failed(r, "depth")
            ELSE SkipGroup(r, depth + 1)
      [] wire = WireType.EndGroup -> Failed(r, "wire_type")
SkipGroup(r, depth) ==
    LET Rest(s) == SkipGroup(s, depth)
        Member(s) == IF s.val.wire = WireType.EndGroup THEN s
                     ELSE Then(skip_inner(s, s.val.wire, depth), Rest)
    IN  IF is_empty(r) THEN Failed(r, "unterminated_group") ELSE Then(read_tag(r), Member)

skip(r, wire) == skip_inner(r, wire, r.depth)

(***************************************************************************)
(* packed.rs                                                               *)
(***************************************************************************)
encode_packed(number, t, values) ==
    encode_tag(number, WireType.LengthDelimited)
        \o write_length_delimited(FlattenSeq([i \in DOMAIN values |-> encode_scalar(t, values[i])]))

RECURSIVE ReadAll(_, _, _)
ReadAll(r, t, got) ==
    IF is_empty(r) THEN Return(r, got)
    ELSE LET More(s) == ReadAll(s, t, Append(got, s.val)) IN Then(read_scalar(r, t), More)

\* The body is read by a reader of its own; what fails there fails here.
Leave(s, inner) == IF inner.err = "ok" THEN Return(s, inner.val) ELSE Failed(s, inner.err)
InBody(r, Read(_)) ==
    LET Enter(s) == Then(nested(s, s.val), LAMBDA n : Leave(s, Read(n.val)))
    IN  Then(read_length_delimited(r), Enter)

read_packed(r, t) ==
    LET All(s) == ReadAll(s, t, <<>>)
        size == IF t \in Fixed32Types THEN HalfBits \div 8
                ELSE IF t \in Fixed64Types THEN WordBits \div 8 ELSE 1
        body == read_length_delimited(r)
    IN  IF body.err = "ok" /\ Len(body.val) % size # 0 THEN Failed(r, "malformed")
        ELSE InBody(r, All)

encode_map_entry(number, key, value) ==
    encode_tag(number, WireType.LengthDelimited) \o write_length_delimited(key \o value)

\* The bytes of one value as they stand, a length prefix with its body.
read_raw_value(r, wire) ==
    LET Raw(s) == Return(s, SubSeq(r.buf, r.pos + 1, s.pos))
        Framed(s) ==
            IF s.val > s.limits.max_length_delimited THEN Failed(s, "max_length_delimited")
            ELSE IF s.pos + s.val > Len(s.buf) THEN Failed(s, "length")
            ELSE [s EXCEPT !.pos = @ + s.val, !.val = SubSeq(r.buf, r.pos + 1, s.pos + s.val)]
    IN  CASE wire = WireType.Varint -> Then(read_varint(r), Raw)
          [] wire = WireType.Fixed32 -> Then(read_fixed32(r), Raw)
          [] wire = WireType.Fixed64 -> Then(read_fixed64(r), Raw)
          [] wire = WireType.LengthDelimited -> Then(read_varint(r), Framed)
          [] OTHER -> Failed(r, "wire_type")

\* A record [key, value] of raw bytes, each {} or the singleton of the last one seen.
RECURSIVE EntryFrames(_, _)
EntryFrames(r, entry) ==
    LET Keep(tag, s) ==
            EntryFrames(s, IF tag.number = 1 THEN [entry EXCEPT !.key = {s.val}]
                           ELSE IF tag.number = 2 THEN [entry EXCEPT !.value = {s.val}]
                           ELSE entry)
        Take(s) == Then(read_raw_value(s, s.val.wire), LAMBDA v : Keep(s.val, v))
    IN  IF ~is_empty(r) THEN Then(read_tag(r), Take)
        ELSE IF entry.key = {} THEN Failed(r, "malformed")
        ELSE Return(r, [key |-> CHOOSE k \in entry.key : TRUE,
                        value |-> IF entry.value = {} THEN <<>>
                                  ELSE CHOOSE v \in entry.value : TRUE])

decode_map_entry_frames(r) ==
    LET Frames(s) == EntryFrames(s, [key |-> {}, value |-> {}]) IN InBody(r, Frames)

\* By ascending number, as the BTreeMap iterates.
Ascending(S) ==
    [i \in 1..Cardinality(S) |-> CHOOSE n \in S : Cardinality({k \in S : k < n}) = i - 1]

encode_unknown(set) ==
    LET OfNumber(n) == FlattenSeq([i \in DOMAIN set.fields[n] |->
                            encode_tag(n, set.fields[n][i].wire) \o write_unknown(set.fields[n][i])])
        numbers == Ascending(DOMAIN set.fields)
    IN  FlattenSeq([i \in DOMAIN numbers |-> OfNumber(numbers[i])])
=============================================================================
