--------------------------- MODULE DynamicMessages ---------------------------
(***************************************************************************)
(* tpt-proto-reflect: the descriptor pool and the dynamic message, decoded *)
(* and encoded by its descriptor alone.  A qualified name is a sequence of *)
(* segments.  A value is a record of one field, named for its kind:        *)
(* i64, u64, f64, bool, string, bytes, enum, message, list or map.         *)
(***************************************************************************)
EXTENDS Wire

CONSTANT Files            \* the FileDescriptorSet, in order
VARIABLE pool             \* the DescriptorPool that the programs share

\* A float is taken by its bits, a sign and a size.  The largest sizes stand for infinity,
\* no number, a number with a fraction, and a whole number from 2^64 on; the others are
\* the whole numbers themselves.
Infinity == Half \div 2 - 1
NotANumber == Half \div 2 - 2
Fraction == Half \div 2 - 3
Huge == Half \div 2 - 4
Negative(x) == x + Half \div 2
Magnitude(x) == x % (Half \div 2)
NonFinite == {Infinity, Negative(Infinity), NotANumber}
WholeOf(x) == IF x < Half \div 2 THEN x ELSE -Magnitude(x)
FloatOf(n) == IF n < 0 THEN Negative(-n) ELSE n

The(S) == CHOOSE x \in S : TRUE
Kind(v) == The(DOMAIN v)
Payload(v) == v[Kind(v)]

(***************************************************************************)
(* DescriptorPool: later insertions under a name replace earlier ones.     *)
(***************************************************************************)
index_enum(p, e, prefix) == [p EXCEPT !.enums = (Append(prefix, e.name) :> e) @@ @]
index_extension(p, x) == [p EXCEPT !.extensions = (x.number :> x) @@ @]

RECURSIVE index_message(_, _, _)
index_message(indexed, m, prefix) ==
    LET fqn == Append(prefix, m.name)
        Nested(p, n) == index_message(p, n, fqn)
        Enum(p, e) == index_enum(p, e, fqn)
        own == [indexed EXCEPT !.messages = (fqn :> m) @@ @]
    IN  FoldLeft(index_extension,
                 FoldLeft(Enum, FoldLeft(Nested, own, m.nested_type), m.enum_type),
                 m.extension)

from_set(files) ==
    LET OfFile(indexed, file) ==
            LET Message(p, m) == index_message(p, m, file.package)
                Enum(p, e) == index_enum(p, e, file.package)
            IN  FoldLeft(index_extension,
                         FoldLeft(Enum, FoldLeft(Message, indexed, file.message_type),
                                  file.enum_type),
                         file.extension)
        empty == [messages |-> <<>>, enums |-> <<>>, extensions |-> <<>>,
                  syntax |-> IF files = <<>> THEN "proto3" ELSE files[1].syntax]
    IN  FoldLeft(OfFile, empty, files)

\* {} or the one name found: the whole name, else whichever table name ends in it.
OneOf(S) == IF S = {} THEN {} ELSE {The(S)}
lookup(table, name) == IF name \in DOMAIN table THEN {name}
                       ELSE OneOf({k \in DOMAIN table : name # <<>> /\ IsSuffix(name, k)})
lookup_message(name) == lookup(pool.messages, name)
lookup_enum(name) == lookup(pool.enums, name)

NoType == <<>>
DescriptorOf(type) ==
    IF type \in DOMAIN pool.messages THEN pool.messages[type]
    ELSE [name |-> "", field |-> <<>>, extension_range |-> {}, options |-> <<>>]

FieldsOf(type) == Range(DescriptorOf(type).field)
FieldNumbered(type, n) == {f \in FieldsOf(type) : f.number = n}
in_extension_range(type, n) ==
    \E range \in DescriptorOf(type).extension_range : range[1] <= n /\ n <= range[2]

\* The option is recognised by its two bytes, wherever they stand in the options.
is_map_entry(type) ==
    LET options == DescriptorOf(type).options
    IN  \E i \in 1..Len(options) - 1 : options[i] = 56 /\ options[i + 1] = 1
is_map_field(f) ==
    f.label = "repeated" /\ f.type = "message"
        /\ \E t \in lookup_message(f.type_name) : is_map_entry(t)

(***************************************************************************)
(* Presence and defaults.                                                  *)
(***************************************************************************)
IsMessageType(t) == t \in {"message", "group"}
packed_allowed(t) == t \in ScalarTypes

has_presence(f) ==
    \/ f.label = "required" \/ f.oneof_index # {} \/ IsMessageType(f.type) \/ f.proto3_optional
    \/ pool.syntax = "proto2" /\ f.label = "optional"

variant(t) ==
    CASE t \in {"int32", "int64", "sint32", "sint64", "sfixed32", "sfixed64"} -> "i64"
      [] t \in {"uint32", "uint64", "fixed32", "fixed64"} -> "u64"
      [] t \in {"float", "double"} -> "f64"
      [] OTHER -> t

new(type) == [type |-> type, fields |-> <<>>, extensions |-> <<>>, unknown |-> NoUnknown]

\* default_value is {} or the singleton of the parsed literal.
default_value_for(f) ==
    LET literal == IF f.default_value # {} THEN The(f.default_value)
                   ELSE IF f.type \in {"string", "bytes"} THEN <<>> ELSE 0
    IN  IF f.label = "repeated" THEN IF is_map_field(f) THEN [map |-> <<>>] ELSE [list |-> <<>>]
        ELSE IF ~IsMessageType(f.type) THEN variant(f.type) :> literal
        ELSE IF lookup_message(f.type_name) = {} THEN [i64 |-> 0]
        ELSE [message |-> new(The(lookup_message(f.type_name)))]

(***************************************************************************)
(* Reading and writing the fields of a message.                            *)
(***************************************************************************)
Put(map, n, v) == (n :> v) @@ map
Without(map, S) == [n \in DOMAIN map \ S |-> map[n]]

OneofMembers(type, n) ==
    {g.number : g \in {h \in FieldsOf(type) :
        \E f \in FieldNumbered(type, n) : f.oneof_index # {} /\ h.oneof_index = f.oneof_index}}

set_field(m, n, v) ==
    [m EXCEPT !.fields = Put(Without(@, OneofMembers(m.type, n) \ {n}), n, v)]
set_extension(m, n, v) == [m EXCEPT !.extensions = Put(@, n, v)]
clear_field(m, n) == [m EXCEPT !.fields = Without(@, OneofMembers(m.type, n) \cup {n})]

\* The first declared member that has a value: {} or its number.
which_oneof(m, index) ==
    LET order == DescriptorOf(m.type).field
        active == {i \in DOMAIN order : order[i].oneof_index = {index}
                                            /\ order[i].number \in DOMAIN m.fields}
    IN  IF active = {} THEN {} ELSE {order[Min(active)].number}

has_field(m, n) ==
    LET present == n \in DOMAIN m.fields IN
    IF FieldNumbered(m.type, n) = {} THEN present
    ELSE LET f == The(FieldNumbered(m.type, n)) IN
         IF f.label = "repeated"
         THEN present /\ Kind(m.fields[n]) \in {"list", "map"} /\ Payload(m.fields[n]) # <<>>
         ELSE IF f.oneof_index # {} THEN which_oneof(m, The(f.oneof_index)) = {n}
         ELSE present

\* What decoding a field does to the message; a oneof's other members stay.
insert_field(m, f, v) ==
    LET n == f.number
        old(kind) == IF n \in DOMAIN m.fields THEN m.fields[n] ELSE (kind :> <<>>)
        part(k) == IF Kind(v) = "message" /\ k \in DOMAIN v.message.fields
                   THEN v.message.fields[k] ELSE [i64 |-> 0]
        items == IF Kind(v) = "list" THEN v.list ELSE <<v>>
        stored == IF f.label # "repeated" THEN v
                  ELSE IF is_map_field(f)
                  THEN [map |-> Append(old("map").map, <<part(1), part(2)>>)]
                  ELSE IF Kind(old("list")) = "list"
                  THEN [list |-> old("list").list \o items] ELSE v
    IN  [m EXCEPT !.fields = Put(@, n, stored)]

(***************************************************************************)
(* Decoding: the value of the reader is the message, or the field's value. *)
(***************************************************************************)
decode_scalar(t, r) ==
    LET Wrap(s) == Return(s, variant(t) :> s.val) IN Then(read_scalar(r, t), Wrap)

RECURSIVE DecodeInto(_, _), decode_one(_, _, _)
decode(type, r) == DecodeInto(r, new(type))

\* An enum is read before the test for a packed body.
decode_one(f, wire, r) ==
    LET WrapMessage(s) == Return(s, [message |-> s.val])
        WrapList(s) == Return(s, [list |-> [i \in DOMAIN s.val |-> (variant(f.type) :> s.val[i])]])
        Elements(s) == ReadAll(s, f.type, <<>>)
    IN  IF IsMessageType(f.type)
        THEN LET type == lookup_message(f.type_name) IN
             IF type = {} THEN Then(read_length_delimited(r), LAMBDA body : Failed(r, "unresolved"))
             ELSE Then(InBody(r, LAMBDA s : decode(The(type), s)), WrapMessage)
        ELSE IF f.type # "enum" /\ wire = WireType.LengthDelimited
                /\ packed_allowed(f.type) /\ f.label = "repeated"
        THEN Then(InBody(r, Elements), WrapList)
        ELSE decode_scalar(f.type, r)

\* A field of the message, an extension of it, or neither.
DecodeField(s, n, f, m) ==
    IF f # {}
    THEN Then(decode_one(The(f), s.val.wire, s), LAMBDA q : DecodeInto(q, insert_field(m, The(f), q.val)))
    ELSE IF in_extension_range(m.type, n) /\ n \in DOMAIN pool.extensions
    THEN Then(decode_one(pool.extensions[n], s.val.wire, s), LAMBDA q : DecodeInto(q, set_extension(m, n, q.val)))
    ELSE Then(store_unknown(s, s.val, m.unknown), LAMBDA q : DecodeInto(q, [m EXCEPT !.unknown = q.val]))
DecodeInto(r, m) ==
    IF is_empty(r) THEN Return(r, m)
    ELSE Then(read_tag(r), LAMBDA s : DecodeField(s, s.val.number, FieldNumbered(m.type, s.val.number), m))

(***************************************************************************)
(* Encoding: bytes, or the first error met.                                *)
(***************************************************************************)
Ok(x) == [err |-> "ok", val |-> x]
Error(e) == [err |-> e]
Collected(parts) ==
    LET bad == {i \in DOMAIN parts : parts[i].err # "ok"}
    IN  IF bad # {} THEN parts[Min(bad)] ELSE Ok([i \in DOMAIN parts |-> parts[i].val])
Joined(parts) == LET Flat(all) == Ok(FlattenSeq(all.val)) IN Then(Collected(parts), Flat)

write_scalar_value(t, v) ==
    IF ~IsMessageType(t) /\ Kind(v) = variant(t) THEN Ok(encode_scalar(t, Payload(v)))
    ELSE Error("type_mismatch")

RECURSIVE encode(_), encode_field(_, _)
Tagged(f, wire, body) == Then(body, LAMBDA bytes : Ok(encode_tag(f.number, wire) \o bytes.val))
Delimited(f, body)    == Tagged(f, WireType.LengthDelimited,
                                Then(body, LAMBDA bytes : Ok(write_length_delimited(bytes.val))))
EntryMessage(type, kv)    == set_field(set_field(new(type), 1, kv[1]), 2, kv[2])
TypeOfField(f)        == IF lookup_message(f.type_name) = {} THEN NoType ELSE The(lookup_message(f.type_name))
encode_field(f, v) ==
    LET Element(item) == write_scalar_value(f.type, item)
    IN  CASE Kind(v) = "list" ->
                IF packed_allowed(f.type) THEN Delimited(f, Joined([i \in DOMAIN v.list |-> Element(v.list[i])]))
                ELSE Joined([i \in DOMAIN v.list |-> Tagged(f, field_wire_type(f.type), Element(v.list[i]))])
          [] Kind(v) = "map" ->
                Joined([i \in DOMAIN v.map |-> Delimited(f, encode(EntryMessage(TypeOfField(f), v.map[i])))])
          [] Kind(v) = "message" -> Delimited(f, encode(v.message))
          [] Kind(v) = "enum" -> Tagged(f, WireType.Varint, Ok(encode_varint(v.enum % Word)))
          [] OTHER -> Tagged(f, field_wire_type(f.type), Element(v))

encode(m) ==
    LET numbers == Ascending(DOMAIN m.fields)
        exts == Ascending(DOMAIN m.extensions)
        Declared(n) == IF FieldNumbered(m.type, n) = {} THEN Error("unknown_field")
                       ELSE encode_field(The(FieldNumbered(m.type, n)), m.fields[n])
        Extension(n) == IF n \notin DOMAIN pool.extensions THEN Error("unknown_field")
                        ELSE encode_field(pool.extensions[n], m.extensions[n])
    IN  Joined([i \in DOMAIN numbers |-> Declared(numbers[i])]
               \o [i \in DOMAIN exts |-> Extension(exts[i])]
               \o <<Ok(encode_unknown(m.unknown))>>)
=============================================================================
