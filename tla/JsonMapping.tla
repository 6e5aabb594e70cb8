---------------------------- MODULE JsonMapping ----------------------------
(***************************************************************************)
(* tpt-proto-json: a dynamic message as JSON and back, with the forms of   *)
(* the well-known types.  A JSON value is a record of one field: null,     *)
(* bool, number, string, array or object (a function of its keys).  What a *)
(* string holds is a record of one field too: plain text, a decimal, an    *)
(* enum name, base64, a float that is no number, a timestamp or a          *)
(* duration; a document gives a string the form its reader looks for.      *)
(* The number of a float carries its bits.                                 *)
(***************************************************************************)
EXTENDS DynamicMessages

CONSTANTS JsonOptions,    \* enum_as_ints, int64_as_string, always_print, ignore_unknown_fields,
                          \* max_depth
          DefaultLimits,  \* what Reader::new() gives
          TypeUrl,        \* of each type that an Any may name: "type.googleapis.com/" and the name
          NanosPerSecond, \* 10^9
          ChronoSeconds,  \* the seconds that chrono's DateTime holds, and those in years
          FourDigitYears, \* that RFC 3339 can write
          MantissaBits    \* 53: the whole numbers that an f64 holds are below 2^MantissaBits

Str(content) == [string |-> content]
Obj(f) == [object |-> f]
Mismatch == Error("type_mismatch")
SubType(f) == lookup_message(f.type_name)
EntryField(f, n) == The(FieldNumbered(The(SubType(f)), n))

Content(j, kind) == IF "string" \in DOMAIN j /\ kind \in DOMAIN j.string THEN {j.string[kind]} ELSE {}

\* No bytes and no text are the same string.
Base64(bytes) == Str(IF bytes = <<>> THEN [text |-> <<>>] ELSE [base64 |-> bytes])
BytesIn(j) == Content(j, "base64") \cup (Content(j, "text") \cap {<<>>})

OrElse(option, default) == IF option = {} THEN default ELSE The(option)

\* The name is read off the first descriptor that is equal to this one.
wkt_name(type) ==
    LET fqn == OrElse({k \in DOMAIN pool.messages : pool.messages[k] = DescriptorOf(type)}, NoType)
    IN  IF Len(fqn) = 3 /\ SubSeq(fqn, 1, 2) = <<"google", "protobuf">> THEN fqn[3] ELSE ""

Wrappers == {"DoubleValue", "FloatValue", "Int64Value", "Uint64Value", "Int32Value",
             "Uint32Value", "BoolValue", "StringValue", "BytesValue"}

\* The payload of field n when it is of one of these kinds: {} or a singleton.
Get(m, n, kinds) ==
    IF n \in DOMAIN m.fields /\ Kind(m.fields[n]) \in kinds THEN {Payload(m.fields[n])} ELSE {}
Integer(m, n) == OrElse(Get(m, n, {"i64", "u64"}), 0)

(***************************************************************************)
(* Message to JSON.                                                        *)
(***************************************************************************)
enum_to_json(f, n) ==
    LET named == UNION {{v \in Range(pool.enums[e].value) : v.number = n} : e \in lookup_enum(f.type_name)}
    IN  IF JsonOptions.enum_as_ints \/ named = {} THEN [number |-> n]
        ELSE Str([name |-> The(named).name])

\* An integer that passes through an f64: to the nearest one held, to even when between two.
Rounded(x) ==
    LET size == IF x < 0 THEN -x ELSE x
        unit == 2^Min({k \in 0..WordBits : size < 2^(MantissaBits + k)})
        low == size \div unit
        up == 2 * (size % unit) > unit \/ (2 * (size % unit) = unit /\ low % 2 = 1)
        near == unit * (IF up THEN low + 1 ELSE low)
    IN  IF x < 0 THEN -near ELSE near

float_to_json(x) ==
    IF x \in NonFinite THEN Str([float |-> x]) ELSE [number |-> x]

\* int64_as_string turns every integer type into a string, the 32-bit ones too.
scalar_to_json(t, v) ==
    IF Kind(v) # variant(t) THEN Mismatch
    ELSE Ok(CASE t = "string" -> Str([text |-> v.string])
              [] t = "bytes" -> Base64(v.bytes)
              [] t = "bool" -> [bool |-> v.bool]
              [] Kind(v) = "f64" -> float_to_json(v.f64)
              [] OTHER -> IF JsonOptions.int64_as_string THEN Str([dec |-> Payload(v)])
                          ELSE [number |-> Rounded(Payload(v))])

map_key_to_json(f, k) ==
    IF Kind(k) # variant(f.type) \/ f.type \in {"bytes", "enum", "float", "double"} THEN Mismatch
    ELSE Ok(CASE f.type = "string" -> [text |-> k.string]
              [] f.type = "bool" -> [bool |-> k.bool]
              [] OTHER -> [dec |-> Payload(k)])

\* A repeated field has the default of its element.
default_json_value(f) ==
    CASE f.type = "enum" -> enum_to_json(f, 0)
      [] f.type \in {"string", "bytes"} -> Str([text |-> <<>>])
      [] f.type = "bool" -> [bool |-> 0]
      [] OTHER -> [number |-> 0]

\* Later members of a list of <<key, value>> results replace earlier ones.
ObjectOf(members) ==
    LET Add(f, kv) == (kv[1] :> kv[2]) @@ f IN Obj(FoldLeft(Add, <<>>, members))

RECURSIVE message_to_json_impl(_, _, _), scalar_or_complex_to_json(_, _, _), well_known_to_json(_, _, _)

value_to_json(f, v, depth) ==
    LET Array(all) == Ok([array |-> all.val])
    IN  IF Kind(v) = "list"
        THEN Then(Collected([i \in DOMAIN v.list |->
                    scalar_or_complex_to_json(f, v.list[i], depth + 1)]), Array)
        ELSE scalar_or_complex_to_json(f, v, depth + 1)

scalar_or_complex_to_json(f, v, depth) ==
    IF IsMessageType(f.type)
    THEN IF Kind(v) # "message" THEN Mismatch
         ELSE IF SubType(f) = {} THEN Error("unresolved")
         ELSE message_to_json_impl(The(SubType(f)), v.message, depth + 1)
    ELSE IF f.type = "enum"
    THEN IF Kind(v) # "enum" THEN Mismatch ELSE Ok(enum_to_json(f, v.enum))
    ELSE scalar_to_json(f.type, v)

\* The value of a key and a JSON result as one result.
Member(key, res) ==
    LET Pair(k) == LET With(r) == Ok(<<k.val, r.val>>) IN Then(res, With) IN Then(key, Pair)

map_to_json(f, v, depth) ==
    LET Object(all) == Ok(ObjectOf(all.val))
        Entry(kv) == Member(map_key_to_json(EntryField(f, 1), kv[1]),
                            value_to_json(EntryField(f, 2), kv[2], depth + 1))
    IN  IF Kind(v) # "map" THEN Mismatch
        ELSE Then(Collected([i \in DOMAIN v.map |-> Entry(v.map[i])]), Object)

message_to_json_impl(type, m, depth) ==
    LET order == DescriptorOf(type).field
        Key(f) == Ok([name |-> f.name])
        Field(f) ==
            IF f.number \notin DOMAIN m.fields
            THEN IF JsonOptions.always_print /\ (is_map_field(f) \/ ~IsMessageType(f.type))
                 THEN <<Member(Key(f), Ok(IF is_map_field(f) THEN Obj(<<>>)
                                          ELSE default_json_value(f)))>>
                 ELSE <<>>
            ELSE <<Member(Key(f), IF is_map_field(f) THEN map_to_json(f, m.fields[f.number], depth)
                                  ELSE value_to_json(f, m.fields[f.number], depth + 1))>>
        Object(all) == Ok(ObjectOf(all.val))
    IN  IF depth > JsonOptions.max_depth THEN Error("recursion_limit")
        ELSE OrElse(IF wkt_name(type) = "" THEN {} ELSE well_known_to_json(type, m, depth),
                    Then(Collected(FlattenSeq([i \in DOMAIN order |-> Field(order[i])])), Object))

message_to_json(type, m) == message_to_json_impl(type, m, 0)

(***************************************************************************)
(* well_known.rs, to JSON: {} for a type that has no form of its own.      *)
(***************************************************************************)
Protobuf(name) == <<"google", "protobuf", name>>

\* The sign of a duration shorter than a second is lost.
format_durationBug(secs, nanos) ==
    [dur |-> [sign |-> IF secs < 0 THEN -1 ELSE 1, secs |-> IF secs < 0 THEN -secs ELSE secs,
              nanos |-> IF nanos < 0 THEN -nanos ELSE nanos]]

\* Of a duration's two signs only one is written.
format_duration(secs, nanos) ==
    [dur |-> [sign |-> IF secs < 0 \/ (secs = 0 /\ nanos < 0) THEN -1 ELSE 1,
              secs |-> IF secs < 0 THEN -secs ELSE secs,
              nanos |-> IF nanos < 0 THEN -nanos ELSE nanos]]

wrapper_to_json(type, m) ==
    LET t == The(FieldNumbered(type, 1)).type IN
    IF 1 \notin DOMAIN m.fields THEN Ok([null |-> 0])
    ELSE LET v == m.fields[1] IN
         CASE Kind(v) \in {"i64", "u64"} -> Ok([number |-> Payload(v)])
           [] Kind(v) = "f64" /\ v.f64 \in NonFinite -> Error("well_known")
           [] Kind(v) = variant(t) /\ t \in {"string", "bytes", "bool", "float", "double"} ->
                scalar_to_json(t, v)
           [] OTHER -> Mismatch

SubToJson(name, m, depth) ==
    IF lookup_message(Protobuf(name)) = {} THEN Error("unresolved")
    ELSE message_to_json_impl(The(lookup_message(Protobuf(name))), m, depth + 1)

value_kind_to_json(m, depth) ==
    CASE Get(m, 1, {"i64", "u64"}) # {} -> Ok([null |-> 0])
      [] Get(m, 2, {"f64"}) # {} ->
            IF m.fields[2].f64 \in NonFinite THEN Error("well_known")
            ELSE Ok([number |-> m.fields[2].f64])
      [] Get(m, 3, {"string"}) # {} -> Ok(Str([text |-> m.fields[3].string]))
      [] Get(m, 4, {"bool"}) # {} -> Ok([bool |-> m.fields[4].bool])
      [] Get(m, 5, {"message"}) # {} -> SubToJson("Struct", m.fields[5].message, depth)
      [] Get(m, 6, {"message"}) # {} -> SubToJson("ListValue", m.fields[6].message, depth)
      [] OTHER -> Ok([null |-> 0])

OrWellKnown(result) == IF result.err = "ok" THEN result ELSE Error("well_known")

\* type_url is the name of a type behind "type.googleapis.com/", or other text.
any_to_json(m, depth) ==
    LET url == OrElse(Get(m, 1, {"string"}), <<>>)
        bytes == OrElse(Get(m, 2, {"bytes"}), <<>>)
        type == {k \in DOMAIN TypeUrl : TypeUrl[k] = url}
        head == [name |-> "@type"] :> Str([text |-> url])
        Expand(j) == Ok(Obj(IF "object" \in DOMAIN j.val THEN j.val.object @@ head ELSE head))
    IN  IF type = {} THEN Ok(Obj(head @@ ([name |-> "value"] :> Base64(bytes))))
        ELSE Then(OrWellKnown(decode(The(type), NewReader(bytes, DefaultLimits))),
                  LAMBDA inner : Then(message_to_json_impl(The(type), inner.val, depth + 1), Expand))

timestamp_to_json(m) ==
    IF Integer(m, 1) \notin ChronoSeconds THEN Error("well_known")
    ELSE Ok(Str([time |-> [secs |-> Integer(m, 1), frac |-> Signed(Integer(m, 2), Half)]]))

Comma == 44
field_mask_to_json(m) ==
    LET paths == OrElse(Get(m, 1, {"list"}), <<>>)
        Part(i) == (IF i = 1 THEN <<>> ELSE <<Comma>>) \o paths[i].string
    IN  Str([text |-> FlattenSeq([i \in DOMAIN paths |-> Part(i)])])

\* Entries and items that are no messages become null.
AsValue(x, depth) ==
    IF Kind(x) = "message" THEN SubToJson("Value", x.message, depth) ELSE Ok([null |-> 0])

struct_to_json(m, depth) ==
    LET entries == SelectSeq(OrElse(Get(m, 1, {"map"}), <<>>), LAMBDA e : Kind(e[1]) = "string")
        Entry(e) == Member(Ok([text |-> e[1].string]), AsValue(e[2], depth))
        Object(all) == Ok(ObjectOf(all.val))
    IN  Then(Collected([i \in DOMAIN entries |-> Entry(entries[i])]), Object)

list_value_to_json(m, depth) ==
    LET items == OrElse(Get(m, 1, {"list"}), <<>>)
        Array(all) == Ok([array |-> all.val])
    IN  Then(Collected([i \in DOMAIN items |-> AsValue(items[i], depth)]), Array)

well_known_to_json(type, m, depth) ==
    LET name == wkt_name(type)
    IN  CASE name = "Timestamp" -> {timestamp_to_json(m)}
          [] name = "Duration" ->
                {Ok(Str(format_duration(Integer(m, 1), Signed(Integer(m, 2), Half))))}
          [] name = "FieldMask" -> {Ok(field_mask_to_json(m))}
          [] name = "Struct" -> {struct_to_json(m, depth)}
          [] name = "Value" -> {value_kind_to_json(m, depth)}
          [] name = "ListValue" -> {list_value_to_json(m, depth)}
          [] name = "Any" -> {any_to_json(m, depth)}
          [] name = "Empty" -> {Ok(Obj(<<>>))}
          [] name \in Wrappers -> {wrapper_to_json(type, m)}
          [] OTHER -> {}

(***************************************************************************)
(* JSON to message.                                                        *)
(***************************************************************************)
\* A decimal outside the 64 bits is no number; a JSON number is saturated.
parse_integer(j, range) ==
    LET low == Min(range) high == Max(range) IN
    CASE "number" \in DOMAIN j -> Ok(Max({low, Min({high, j.number})}))
      [] Content(j, "dec") # {} -> IF The(Content(j, "dec")) \in low..high
                                   THEN Ok(The(Content(j, "dec"))) ELSE Error("invalid_number")
      [] Content(j, "text") # {} -> Error("invalid_number")
      [] OTHER -> Mismatch
parse_i64(j) == parse_integer(j, {-(Word \div 2), Word \div 2 - 1})
parse_u64(j) == parse_integer(j, {0, Word - 1})

json_to_scalar(t, j) ==
    LET As(kind, width, signed) ==
            LET Wrap(r) == Ok(kind :> IF signed THEN Signed(r.val, width) ELSE r.val % width)
            IN  Then(IF signed THEN parse_i64(j) ELSE parse_u64(j), Wrap)
        Read(held) == IF held = {} THEN Mismatch ELSE Ok(t :> The(held))
    IN  CASE t = "string" -> Read(Content(j, "text"))
          [] t = "bytes" -> Read(BytesIn(j))
          [] t = "bool" -> IF "bool" \in DOMAIN j THEN Ok([bool |-> j.bool]) ELSE Mismatch
          [] t \in {"float", "double"} ->
                IF "number" \in DOMAIN j THEN Ok([f64 |-> j.number])
                ELSE IF Content(j, "float") # {} THEN Ok([f64 |-> The(Content(j, "float"))])
                ELSE Mismatch
          [] t \in {"int32", "sint32", "sfixed32"} -> As("i64", Half, TRUE)
          [] t \in {"int64", "sint64", "sfixed64"} -> As("i64", Word, TRUE)
          [] t \in {"uint32", "fixed32"} -> As("u64", Half, FALSE)
          [] t \in {"uint64", "fixed64"} -> As("u64", Word, FALSE)

json_to_enum(f, j) ==
    LET named == UNION {{v \in Range(pool.enums[e].value) : v.name \in Content(j, "name")} :
                            e \in lookup_enum(f.type_name)}
    IN  CASE "number" \in DOMAIN j -> Ok([enum |-> Signed(j.number, Half)])
          [] named # {} -> Ok([enum |-> The(named).number])
          [] Content(j, "dec") # {} -> Ok([enum |-> The(Content(j, "dec"))])
          [] OTHER -> Mismatch

json_to_map_key(f, k) ==
    IF Kind(k) # (CASE f.type = "string" -> "text" [] f.type = "bool" -> "bool" [] OTHER -> "dec")
       \/ f.type \in {"bytes", "enum", "float", "double"} THEN Mismatch
    ELSE Ok(variant(f.type) :> Payload(k))

RECURSIVE json_to_message_impl(_, _, _), well_known_from_json(_, _, _)

\* Only scalars are looked for in an array.
json_to_value(f, j, depth) ==
    LET Message(r) == Ok([message |-> r.val])
        List(all) == Ok([list |-> all.val])
    IN  IF IsMessageType(f.type)
        THEN IF SubType(f) = {} THEN Error("unresolved")
             ELSE Then(json_to_message_impl(The(SubType(f)), j, depth + 1), Message)
        ELSE IF f.type = "enum" THEN json_to_enum(f, j)
        ELSE IF "array" \in DOMAIN j
        THEN Then(Collected([i \in DOMAIN j.array |-> json_to_scalar(f.type, j.array[i])]), List)
        ELSE json_to_scalar(f.type, j)

EntriesOf(object, Key(_), Value(_)) ==
    LET keys == SetToSeq(DOMAIN object)
        Map(all) == Ok([map |-> all.val])
    IN  Then(Collected([i \in DOMAIN keys |-> Member(Key(keys[i]), Value(object[keys[i]]))]), Map)

json_to_map(f, j, depth) ==
    LET Key(k) == json_to_map_key(EntryField(f, 1), k)
        Value(v) == json_to_value(EntryField(f, 2), v, depth + 1)
    IN  IF "object" \in DOMAIN j THEN EntriesOf(j.object, Key, Value) ELSE Mismatch

json_to_message_impl(type, j, depth) ==
    LET order == DescriptorOf(type).field
        keys == DOMAIN j.object
        known == {[name |-> order[i].name] : i \in DOMAIN order}
        Field(f) ==
            LET key == [name |-> f.name] IN
            IF key \notin keys \/ j.object[key] = [null |-> 0] THEN <<>>
            ELSE <<Member(Ok(f.number), IF is_map_field(f) THEN json_to_map(f, j.object[key], depth)
                                        ELSE json_to_value(f, j.object[key], depth + 1))>>
        Set(m, nv) == set_field(m, nv[1], nv[2])
        Store(all) == IF keys \subseteq known \/ JsonOptions.ignore_unknown_fields
                      THEN Ok(FoldLeft(Set, new(type), all.val)) ELSE Error("unknown_field")
    IN  IF depth > JsonOptions.max_depth THEN Error("recursion_limit")
        ELSE OrElse(IF wkt_name(type) = "" THEN {} ELSE well_known_from_json(type, j, depth),
                    IF "object" \notin DOMAIN j THEN Mismatch
                    ELSE Then(Collected(FlattenSeq([i \in DOMAIN order |-> Field(order[i])])), Store))

json_to_message(type, j) == json_to_message_impl(type, j, 0)

(***************************************************************************)
(* well_known.rs, from JSON.                                               *)
(***************************************************************************)
\* A fraction of more than nine digits loses those after the ninth.
NineDigits(frac) == IF frac >= NanosPerSecond THEN frac \div 10 ELSE frac

SecsAndNanos(type, secs, nanos) ==
    Ok(set_field(set_field(new(type), 1, [i64 |-> secs]), 2, [i64 |-> nanos]))

timestamp_from_json(type, j) ==
    IF Content(j, "time") = {} THEN Mismatch
    ELSE LET t == j.string.time IN
         IF t.frac < 0 \/ t.secs \notin FourDigitYears THEN Error("well_known") ELSE SecsAndNanos(type, t.secs, NineDigits(t.frac))

duration_from_json(type, j) ==
    IF Content(j, "dur") = {} THEN Mismatch
    ELSE LET d == j.string.dur IN
         IF d.secs >= Word \div 2 THEN Error("well_known")
         ELSE SecsAndNanos(type, d.sign * d.secs, d.sign * NineDigits(d.nanos))

field_mask_from_json(type, j) ==
    LET Char(parts, c) == IF c = Comma THEN Append(parts, <<>>)
                          ELSE [parts EXCEPT ![Len(parts)] = Append(@, c)]
        paths(text) == IF text = <<>> THEN <<>> ELSE FoldLeft(Char, <<(<<>>)>>, text)
        Paths(text) == [i \in DOMAIN paths(text) |-> [string |-> paths(text)[i]]]
    IN  IF Content(j, "text") = {} THEN Mismatch
        ELSE Ok(set_field(new(type), 1, [list |-> Paths(j.string.text)]))

\* A number is stored signed by every wrapper but those of floats, also by those of
\* booleans, strings and bytes.
wrapper_from_json(type, j) ==
    LET t == The(FieldNumbered(type, 1)).type
        Set(r) == Ok(set_field(new(type), 1, r.val))
    IN  Then(CASE \/ t \in {"string", "bytes"} /\ "string" \in DOMAIN j
                  \/ t = "bool" /\ "bool" \in DOMAIN j
                  \/ t \in {"float", "double"} /\ "number" \in DOMAIN j -> json_to_scalar(t, j)
               [] t \notin {"float", "double"} /\ "number" \in DOMAIN j ->
                    Ok([i64 |-> IF j.number < Word \div 2 THEN j.number ELSE 0])
               [] OTHER -> Mismatch, Set)

\* Of a type in the pool; without it, a message of no type.
FromJson(name, j, depth) ==
    LET type == lookup_message(Protobuf(name))
        Message(r) == Ok([message |-> r.val])
    IN  Then(IF type = {} THEN Ok(new(NoType)) ELSE json_to_message_impl(The(type), j, depth + 1), Message)

\* A null is stored as a scalar in the field of an enum.
value_kind_from_json(type, j, depth) ==
    LET Set(n, res) == LET Store(r) == Ok(set_field(new(type), n, r.val)) IN Then(res, Store)
    IN  CASE "null" \in DOMAIN j -> Set(1, Ok([i64 |-> 0]))
          [] "number" \in DOMAIN j -> Set(2, Ok([f64 |-> j.number]))
          [] Content(j, "text") # {} -> Set(3, Ok([string |-> j.string.text]))
          [] "bool" \in DOMAIN j -> Set(4, Ok(j))
          [] "object" \in DOMAIN j -> Set(5, FromJson("Struct", j, depth))
          [] "array" \in DOMAIN j -> Set(6, FromJson("ListValue", j, depth))
          [] OTHER -> Mismatch

any_from_json(type, j, depth) ==
    LET At(key) == [name |-> key]
        url == IF At("@type") \in DOMAIN j.object THEN Content(j.object[At("@type")], "text") ELSE {}
        named == {k \in DOMAIN TypeUrl : TypeUrl[k] \in url}
        msg == set_field(new(type), 1, [string |-> The(url)])
        rest == Without(j.object, {At("@type")})
        Bytes(r) == Ok(set_field(msg, 2, [bytes |-> r.val]))
        Encoded(r) == Then(OrWellKnown(encode(r.val)), Bytes)
    IN  IF "object" \notin DOMAIN j THEN Mismatch
        ELSE IF url = {} THEN Error("well_known")
        ELSE IF named # {} THEN Then(json_to_message_impl(The(named), Obj(rest), depth + 1), Encoded)
        ELSE IF At("value") \notin DOMAIN rest \/ "string" \notin DOMAIN rest[At("value")] THEN Ok(msg)
        ELSE IF BytesIn(rest[At("value")]) = {} THEN Error("well_known")
        ELSE Bytes(Ok(The(BytesIn(rest[At("value")]))))

struct_from_json(type, j, depth) ==
    LET Key(k) == Ok([string |-> k.text])
        Value(v) == FromJson("Value", v, depth)
        Set(r) == Ok(set_field(new(type), 1, r.val))
    IN  IF "object" \in DOMAIN j THEN Then(EntriesOf(j.object, Key, Value), Set) ELSE Mismatch

list_value_from_json(type, j, depth) ==
    LET Set(all) == Ok(set_field(new(type), 1, [list |-> all.val]))
    IN  IF "array" \notin DOMAIN j THEN Mismatch
        ELSE Then(Collected([i \in DOMAIN j.array |-> FromJson("Value", j.array[i], depth)]), Set)

well_known_from_json(type, j, depth) ==
    LET name == wkt_name(type)
    IN  CASE name = "Timestamp" -> {timestamp_from_json(type, j)}
          [] name = "Duration" -> {duration_from_json(type, j)}
          [] name = "FieldMask" -> {field_mask_from_json(type, j)}
          [] name = "Struct" -> {struct_from_json(type, j, depth)}
          [] name = "Value" -> {value_kind_from_json(type, j, depth)}
          [] name = "ListValue" -> {list_value_from_json(type, j, depth)}
          [] name = "Any" -> {any_from_json(type, j, depth)}
          [] name = "Empty" -> {Ok(new(type))}
          [] name \in Wrappers -> {wrapper_from_json(type, j)}
          [] OTHER -> {}
=============================================================================
