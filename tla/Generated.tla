----------------------------- MODULE Generated -----------------------------
(***************************************************************************)
(* The Rust code that tpt-proto-codegen-rust generates for a message: its  *)
(* struct, with what encode(), merge_from() and the JSON and text hooks do *)
(* to it.  A struct has a value for every repeated, map and implicit field *)
(* and for the explicit ones that are Some; each oneof is None or the      *)
(* member and its value.  A field of message type holds a struct.  Groups, *)
(* which the generator does not support, and packed floats, which it casts *)
(* to integers, are left out.                                              *)
(***************************************************************************)
EXTENDS DynamicMessages

\* The syntax of the file that declares the type, as normalize_syntax() has it.
syntax(type) ==
    LET files == {f \in Range(Files) : IsPrefix(f.package, type)}
    IN  IF \E f \in files : f.syntax = "proto3" THEN "proto3" ELSE "proto2"

presence(type, f) ==
    CASE f.label = "repeated" -> "repeated"
      [] f.label = "required" \/ f.proto3_optional -> "explicit"
      [] OTHER -> IF syntax(type) = "proto3" THEN "implicit" ELSE "explicit"

SubOf(f) == The(lookup_message(f.type_name))
Plain(type) == {f \in FieldsOf(type) : f.oneof_index = {}}
Oneofs(type) == UNION {f.oneof_index : f \in FieldsOf(type)}

\* A struct holds its messages, other than repeated ones, by value and never in a Box:
\* a file of which one type contains itself has no code that compiles.
RECURSIVE Sized(_, _)
Sized(type, outer) ==
    /\ type \notin outer
    /\ \A f \in FieldsOf(type) : f.type = "message" /\ f.label # "repeated" => Sized(SubOf(f), outer \cup {type})
SameFile(t, u) == \A file \in Range(Files) : IsPrefix(file.package, t) <=> IsPrefix(file.package, u)
HasCode(type) == \A t \in DOMAIN pool.messages : SameFile(type, t) => Sized(t, {})

(***************************************************************************)
(* Default: zero, empty, the first value of an enum, a default struct.     *)
(***************************************************************************)
RECURSIVE default(_)
zero(f) ==
    IF f.type = "message" THEN [message |-> default(SubOf(f))]
    ELSE IF f.type = "enum"
    THEN [enum |-> pool.enums[The(lookup_enum(f.type_name))].value[1].number]
    ELSE variant(f.type) :> IF f.type \in {"string", "bytes"} THEN <<>> ELSE 0

default(type) ==
    LET always == {f \in Plain(type) : presence(type, f) # "explicit"}
        Initial(f) == IF is_map_field(f) THEN [map |-> <<>>]
                      ELSE IF f.label = "repeated" THEN [list |-> <<>>] ELSE zero(f)
    IN  [type |-> type, unknown |-> NoUnknown,
         oneof |-> [i \in Oneofs(type) |-> {}],
         fields |-> [n \in {f.number : f \in always} |-> Initial(The(FieldNumbered(type, n)))]]

(***************************************************************************)
(* encode().                                                               *)
(***************************************************************************)
RECURSIVE encode_struct(_)

enc_value(f, number, v) ==
    IF f.type = "message"
    THEN encode_tag(number, WireType.LengthDelimited)
            \o write_length_delimited(encode_struct(v.message))
    ELSE encode_tag(number, field_wire_type(f.type)) \o encode_scalar(f.type, Payload(v))

gen_repeated_encode(type, f, items) ==
    IF f.type \in ScalarTypes /\ syntax(type) = "proto3"
    THEN IF items = <<>> THEN <<>>
         ELSE encode_packed(f.number, f.type, [i \in DOMAIN items |-> Payload(items[i])])
    ELSE FlattenSeq([i \in DOMAIN items |-> enc_value(f, f.number, items[i])])

EntryPart(f, n) == The(FieldNumbered(SubOf(f), n))
gen_map_encode(f, entries) ==
    FlattenSeq([i \in DOMAIN entries |->
        encode_map_entry(f.number, enc_value(EntryPart(f, 1), 1, entries[i][1]),
                         enc_value(EntryPart(f, 2), 2, entries[i][2]))])

\* Zeros are left out whatever the presence.
gen_field_encodeBug(type, f, v) ==
    IF is_map_field(f) THEN gen_map_encode(f, v.map)
    ELSE IF f.label = "repeated" THEN gen_repeated_encode(type, f, v.list)
    ELSE IF v = zero(f) THEN <<>>
    ELSE enc_value(f, f.number, v)

\* An implicit field is written unless it is equal to its default.
gen_field_encode(type, f, v) ==
    IF is_map_field(f) THEN gen_map_encode(f, v.map)
    ELSE IF f.label = "repeated" THEN gen_repeated_encode(type, f, v.list)
    ELSE IF presence(type, f) = "implicit" /\ v = zero(f) THEN <<>>
    ELSE enc_value(f, f.number, v)

gen_oneof_encode(type, chosen) ==
    IF chosen = {} THEN <<>>
    ELSE LET member == The(chosen)
         IN  enc_value(The(FieldNumbered(type, member[1])), member[1], member[2])

encode_struct(s) ==
    LET numbers == Ascending(DOMAIN s.fields)
        oneofs == Ascending(DOMAIN s.oneof)
        Field(n) == The(FieldNumbered(s.type, n))
    IN  FlattenSeq([i \in DOMAIN numbers |->
                        gen_field_encode(s.type, Field(numbers[i]), s.fields[numbers[i]])])
            \o FlattenSeq([i \in DOMAIN oneofs |-> gen_oneof_encode(s.type, s.oneof[oneofs[i]])])
            \o encode_unknown(s.unknown)

(***************************************************************************)
(* merge_from().                                                           *)
(***************************************************************************)
RECURSIVE merge_from(_, _)

\* Into base: an explicit message merges, any other starts from its default.
dec_value(f, r, base) ==
    IF f.type = "message"
    THEN Then(InBody(r, LAMBDA s : merge_from(s, base)), LAMBDA s : Return(s, [message |-> s.val]))
    ELSE decode_scalar(f.type, r)

\* What a message that is not merged into another starts from.
Fresh(f) == IF f.type = "message" THEN default(SubOf(f)) ELSE 0

gen_repeated_decode(type, f, wire, r) ==
    LET WrapAll(s) == Return(s, [i \in DOMAIN s.val |-> (variant(f.type) :> s.val[i])])
        WrapOne(s) == Return(s, <<s.val>>)
    IN  IF f.type \in ScalarTypes /\ syntax(type) = "proto3" /\ wire = WireType.LengthDelimited
        THEN Then(read_packed(r, f.type), WrapAll)
        ELSE Then(dec_value(f, r, Fresh(f)), WrapOne)

\* HashMap::insert() replaces the value under a key that is there.
InsertEntry(entries, k, v) ==
    IF \E i \in DOMAIN entries : entries[i][1] = k
    THEN [i \in DOMAIN entries |-> IF entries[i][1] = k THEN <<k, v>> ELSE entries[i]]
    ELSE Append(entries, <<k, v>>)

\* Key and value are each read by a reader of their own, one level below r.
Within(s, bytes, f) == Then(nested(s, bytes), LAMBDA inner : dec_value(f, inner.val, Fresh(f)))
Both(s, k, v) == IF k.err # "ok" THEN Failed(s, k.err) ELSE Leave(s, Then(v, LAMBDA w : Return(w, <<k.val, w.val>>)))
gen_map_decode(f, r) ==
    Then(decode_map_entry_frames(r),
         LAMBDA s : Both(s, Within(s, s.val.key, EntryPart(f, 1)), Within(s, s.val.value, EntryPart(f, 2))))

\* A member starts from its default and replaces whichever was there.
gen_oneof_decode(s, f, r) ==
    LET Choose(q) == Return(q, [s EXCEPT !.oneof[The(f.oneof_index)] = {<<f.number, q.val>>}])
    IN  Then(dec_value(f, r, Fresh(f)), Choose)

gen_field_decode(s, f, wire, r) ==
    LET n == f.number
        old == IF n \in DOMAIN s.fields THEN {s.fields[n]} ELSE {}
        Set(v) == [s EXCEPT !.fields = Put(@, n, v)]
        Replace(q) == Return(q, Set(q.val))
        AppendAll(q) == Return(q, Set([list |-> s.fields[n].list \o q.val]))
        Insert(q) == Return(q, Set([map |-> InsertEntry(s.fields[n].map, q.val[1], q.val[2])]))
        base == IF f.type # "message" THEN 0
                ELSE IF old # {} /\ presence(s.type, f) = "explicit"
                THEN The(old).message ELSE Fresh(f)
    IN  IF f.oneof_index # {} THEN gen_oneof_decode(s, f, r)
        ELSE IF is_map_field(f) THEN Then(gen_map_decode(f, r), Insert)
        ELSE IF f.label = "repeated" THEN Then(gen_repeated_decode(s.type, f, wire, r), AppendAll)
        ELSE Then(dec_value(f, r, base), Replace)

MergeField(q, s, declared) ==
    IF declared # {} THEN gen_field_decode(s, The(declared), q.val.wire, q)
    ELSE Then(store_unknown(q, q.val, s.unknown), LAMBDA t : Return(t, [s EXCEPT !.unknown = t.val]))
merge_from(r, s) ==
    IF is_empty(r) THEN Return(r, s)
    ELSE Then(Then(read_tag(r), LAMBDA q : MergeField(q, s, FieldNumbered(s.type, q.val.number))),
              LAMBDA t : merge_from(t, t.val))

decode_struct(type, bytes, limits) == merge_from(NewReader(bytes, limits), default(type))
=============================================================================
