----------------------------- MODULE MCFormats -----------------------------
EXTENDS Formats

Field(name, number, type, label) ==
    [name |-> name, number |-> number, type |-> type, label |-> label, type_name |-> <<>>,
     oneof_index |-> {}, proto3_optional |-> FALSE, default_value |-> {}]
One(name, number, type) == Field(name, number, type, "optional")
Many(name, number, type) == Field(name, number, type, "repeated")
Of(f, type_name) == [f EXCEPT !.type_name = type_name]
In(f, oneof) == [f EXCEPT !.oneof_index = {oneof}]
MessageType(name, fields) ==
    [name |-> name, field |-> fields, nested_type |-> <<>>, enum_type |-> <<>>,
     extension |-> <<>>, extension_range |-> {}, options |-> <<>>]
MapEntry(name, key, value) == [MessageType(name, <<key, value>>) EXCEPT !.options = <<56, 1>>]
Explicit(f) == [f EXCEPT !.proto3_optional = TRUE]
With(m, entries) == [m EXCEPT !.nested_type = entries]

Google(name) == <<"google", "protobuf", name>>
ValueType == Google("Value")

WellKnown ==
    [package |-> <<"google", "protobuf">>, syntax |-> "proto3", extension |-> <<>>,
     enum_type |-> <<[name |-> "NullValue", value |-> <<[name |-> "NULL_VALUE", number |-> 0]>>]>>,
     message_type |-> <<
        MessageType("Timestamp", <<One("seconds", 1, "int64"), One("nanos", 2, "int32")>>),
        MessageType("Duration", <<One("seconds", 1, "int64"), One("nanos", 2, "int32")>>),
        MessageType("FieldMask", <<Many("paths", 1, "string")>>),
        With(MessageType("Struct", <<Of(Many("fields", 1, "message"),
                                        <<"google", "protobuf", "Struct", "FieldsEntry">>)>>),
             <<MapEntry("FieldsEntry", One("key", 1, "string"), Of(One("value", 2, "message"), ValueType))>>),
        MessageType("Value", <<
            In(Of(One("null_value", 1, "enum"), Google("NullValue")), 0),
            In(One("number_value", 2, "double"), 0), In(One("string_value", 3, "string"), 0),
            In(One("bool_value", 4, "bool"), 0),
            In(Of(One("struct_value", 5, "message"), Google("Struct")), 0),
            In(Of(One("list_value", 6, "message"), Google("ListValue")), 0)>>),
        MessageType("ListValue", <<Of(Many("values", 1, "message"), ValueType)>>),
        MessageType("Any", <<One("type_url", 1, "string"), One("value", 2, "bytes")>>),
        MessageType("Empty", <<>>),
        MessageType("Int64Value", <<One("value", 1, "int64")>>),
        MessageType("UInt64Value", <<One("value", 1, "uint64")>>),
        MessageType("DoubleValue", <<One("value", 1, "double")>>),
        MessageType("BoolValue", <<One("value", 1, "bool")>>),
        MessageType("BytesValue", <<One("value", 1, "bytes")>>)>>]

LeafType == <<"doc", "Leaf">>
Wkt(name, number, type) == Of(One(name, number, "message"), Google(type))

Doc == With(MessageType("Doc", <<
            One("u", 1, "uint64"), One("name", 2, "string"), One("data", 3, "bytes"),
            One("ratio", 4, "double"), One("big", 5, "sint64"), One("flag", 6, "bool"),
            Of(One("color", 7, "enum"), <<"doc", "Color">>),
            Many("nums", 8, "int32"),
            Of(Many("colors", 9, "enum"), <<"doc", "Color">>),
            Of(Many("kids", 10, "message"), LeafType),
            In(One("a", 12, "string"), 0), In(Of(One("b", 11, "message"), LeafType), 0),
            Of(Many("labels", 13, "message"), <<"doc", "Doc", "LabelsEntry">>),
            Of(Many("leaves", 14, "message"), <<"doc", "Doc", "LeavesEntry">>),
            Wkt("when", 15, "Timestamp"), Wkt("took", 16, "Duration"), Wkt("mask", 17, "FieldMask"),
            Wkt("st", 18, "Struct"), Wkt("v", 19, "Value"), Wkt("any", 20, "Any"),
            Wkt("w", 21, "Int64Value"), Wkt("uw", 22, "UInt64Value"), Wkt("dw", 23, "DoubleValue"),
            Wkt("nothing", 24, "Empty"), Wkt("bw", 25, "BoolValue"), Wkt("xw", 26, "BytesValue")>>),
            <<MapEntry("LabelsEntry", One("key", 1, "string"), One("value", 2, "fixed32")),
              MapEntry("LeavesEntry", One("key", 1, "bool"), Of(One("value", 2, "message"), LeafType))>>)

Leaf == MessageType("Leaf", <<One("x", 1, "int32"), Of(One("leaf", 2, "message"), LeafType)>>)

(* What ex.Top is sent with: every way of presence, packed and unpacked lists, maps, extensions. *)
ExLeaf == MessageType("Leaf", <<One("x", 1, "int32"), One("b", 2, "bytes")>>)
Mid == MessageType("Mid", <<Of(One("leaf", 1, "message"), <<"ex", "Leaf">>),
                            Many("n", 2, "uint32")>>)
Top == [MessageType("Top", <<
            One("id", 1, "int32"),
            One("name", 2, "string"),
            Many("nums", 3, "sint32"),
            Many("tags", 4, "string"),
            Of(Many("colors", 5, "enum"), <<"ex", "Color">>),
            Of(Many("kids", 6, "message"), <<"ex", "Leaf">>),
            Of(One("mid", 7, "message"), <<"Mid">>),
            In(One("a", 8, "int64"), 0),
            In(Of(One("leaf", 9, "message"), <<"ex", "Leaf">>), 0),
            Of(Many("labels", 10, "message"), <<"ex", "Top", "LabelsEntry">>),
            Of(Many("leaves", 11, "message"), <<"ex", "Top", "LeavesEntry">>),
            Explicit(One("ticks", 12, "fixed64")),
            Explicit(Of(One("color", 13, "enum"), <<"ex", "Color">>)),
            Explicit(Of(One("opt", 14, "message"), <<"ex", "Leaf">>))>>)
        EXCEPT !.nested_type = <<
                    MapEntry("LabelsEntry", One("key", 1, "string"),
                                            One("value", 2, "sint64")),
                    MapEntry("LeavesEntry", One("key", 1, "int32"),
                             Of(One("value", 2, "message"), <<"ex", "Leaf">>))>>,
               !.extension_range = {<<20, 22>>}]

TheFiles == <<WellKnown,
              [package |-> <<"doc">>, syntax |-> "proto3", extension |-> <<>>,
               message_type |-> <<Leaf, Doc>>,
               enum_type |-> <<[name |-> "Color", value |-> <<[name |-> "RED", number |-> 0],
                                                              [name |-> "BLUE", number |-> 2]>>]>>],
              [package |-> <<"ex">>, syntax |-> "proto3",
               message_type |-> <<ExLeaf, Mid, Top>>,
               enum_type |-> <<[name |-> "Color", value |-> <<[name |-> "RED", number |-> 0],
                                                              [name |-> "BLUE", number |-> 2]>>]>>,
               extension |-> <<Many("e", 20, "int32"), Many("s", 21, "string")>>]>>

DocType == <<"doc", "Doc">>

OfType(type, fields) == [message |-> [new(type) EXCEPT !.fields = fields]]
I64(x) == [i64 |-> x]
U64(x) == [u64 |-> x]
Text(s) == [string |-> s]
LeafOf(x) == OfType(LeafType, 1 :> I64(x))
Deep == OfType(LeafType, 2 :> LeafOf(2))
SecsNanos(name, s, n) == OfType(Google(name), (1 :> I64(s)) @@ (2 :> I64(n)))
AnyOf(url, bytes) == OfType(Google("Any"), (1 :> Text(url)) @@ (2 :> [bytes |-> bytes]))
ValueOf(n, v) == OfType(ValueType, n :> v)
ListOf(items) == OfType(Google("ListValue"), 1 :> [list |-> items])
StructOf(entries) == OfType(Google("Struct"), 1 :> [map |-> entries])

LeafUrl == <<76>>
DurationUrl == <<68>>
StructUrl == <<83>>
TheTypeUrl == (LeafType :> LeafUrl) @@ (Google("Duration") :> DurationUrl)
                  @@ (Google("Struct") :> StructUrl)

DocValues ==
    (1 :> {U64(0), U64(Word - 1), U64(Word - 3)})
    @@ (2 :> {Text(<<>>), Text(<<97, 34>>), Text(<<7>>)})
    @@ (3 :> {[bytes |-> <<>>], [bytes |-> <<0, 255>>]})
    @@ (4 :> {[f64 |-> x] : x \in {3, Negative(3), Negative(0), Fraction, Negative(Huge),
                                   Infinity, Negative(Infinity), NotANumber}})
    @@ (5 :> {I64(-5), I64(-(Word \div 2)), I64(8193)})
    @@ (6 :> {[bool |-> 0]}) @@ (7 :> {[enum |-> 2], [enum |-> -7]})
    @@ (8 :> {[list |-> <<>>], [list |-> <<I64(1), I64(-128)>>]})
    @@ (9 :> {[list |-> <<[enum |-> 2]>>]})
    @@ (10 :> {[list |-> <<LeafOf(1)>>]})
    @@ (11 :> {Deep}) @@ (12 :> {Text(<<98>>)})
    @@ (13 :> {[map |-> <<>>], [map |-> <<<<Text(<<98>>), U64(1)>>, <<Text(<<97>>), U64(2)>>>>],
               [map |-> <<<<Text(<<97>>), U64(1)>>, <<Text(<<97>>), U64(2)>>>>]})
    @@ (14 :> {[map |-> <<<<[bool |-> 0], LeafOf(0)>>, <<[bool |-> 1], LeafOf(2)>>>>],
               [map |-> <<<<[bool |-> 1], Deep>>>>]})
    @@ (15 :> {SecsNanos("Timestamp", 7, 99), SecsNanos("Timestamp", -500, 0),
               SecsNanos("Timestamp", 2, 100), SecsNanos("Timestamp", 2, -1),
               OfType(Google("Timestamp"), 1 :> I64(1))})
    @@ (16 :> {SecsNanos("Duration", -3, -50), SecsNanos("Duration", 3, -50),
               SecsNanos("Duration", -3, 50), SecsNanos("Duration", 0, -120), SecsNanos("Duration", 0, -7),
               SecsNanos("Duration", -(Word \div 2), 0)})
    @@ (17 :> {OfType(Google("FieldMask"), 1 :> [list |-> paths]) :
                    paths \in {<<>>, <<Text(<<>>)>>, <<Text(<<97>>), Text(<<>>)>>, <<Text(<<97, 44>>)>>}})
    @@ (18 :> {StructOf(<<>>), OfType(Google("Struct"), <<>>),
               StructOf(<<<<Text(<<97>>), ValueOf(1, I64(0))>>, <<Text(<<98>>), ValueOf(6, ListOf(<<>>))>>>>),
               StructOf(<<<<I64(0), ValueOf(4, [bool |-> 1])>>>>)})
    @@ (19 :> {ValueOf(1, [enum |-> 0]), ValueOf(1, I64(0)), ValueOf(2, [f64 |-> 5]),
               ValueOf(2, [f64 |-> NotANumber]), ValueOf(3, Text(<<110>>)), OfType(ValueType, <<>>),
               ValueOf(5, StructOf(<<<<Text(<<99>>), ValueOf(4, [bool |-> 1])>>>>)),
               ValueOf(6, ListOf(<<ValueOf(1, I64(0)), ValueOf(3, Text(<<>>))>>))})
    @@ (20 :> {AnyOf(LeafUrl, <<8, 5>>), AnyOf(LeafUrl, <<8, 5, 8, 6>>), AnyOf(LeafUrl, <<8>>),
               AnyOf(DurationUrl, <<8, 5, 16, 0>>), AnyOf(<<120>>, <<8>>), AnyOf(StructUrl, <<>>),
               OfType(Google("Any"), 1 :> Text(<<120>>))})
    @@ (21 :> {OfType(Google("Int64Value"), <<>>), OfType(Google("Int64Value"), 1 :> I64(-9))})
    @@ (22 :> {OfType(Google("UInt64Value"), 1 :> U64(Word - 1))})
    @@ (23 :> {OfType(Google("DoubleValue"), 1 :> [f64 |-> Infinity])})
    @@ (24 :> {OfType(Google("Empty"), <<>>)})
    @@ (26 :> {OfType(Google("BytesValue"), 1 :> [bytes |-> bytes]) : bytes \in {<<>>, <<1>>}})

TopType == <<"ex", "Top">>
At(type, fields) == OfType(<<"ex", type>>, fields)
ExLeafOf(x) == At("Leaf", 1 :> I64(x))

TopValues ==
    (1 :> {I64(0), I64(-1)}) @@ (2 :> {Text(<<97>>)})
    @@ (3 :> {[list |-> <<>>], [list |-> <<I64(-128), I64(1)>>]})
    @@ (4 :> {[list |-> <<>>], [list |-> <<Text(<<>>)>>]})
    @@ (5 :> {[list |-> <<[enum |-> 2]>>]})
    @@ (6 :> {[list |-> <<ExLeafOf(1)>>]})
    @@ (7 :> {At("Mid", <<>>), At("Mid", 1 :> ExLeafOf(3)), At("Mid", 2 :> [list |-> <<[u64 |-> 200]>>])})
    @@ (8 :> {I64(-5)}) @@ (9 :> {ExLeafOf(0)})
    @@ (10 :> {[map |-> <<>>], [map |-> <<<<Text(<<97>>), I64(7)>>, <<Text(<<97>>), I64(8)>>>>]})
    @@ (11 :> {[map |-> <<<<I64(3), At("Leaf", 2 :> [bytes |-> <<255>>])>>>>]})
    @@ (12 :> {[u64 |-> 0], [u64 |-> 65535]}) @@ (13 :> {[enum |-> 0], [enum |-> 9]})
    @@ (14 :> {At("Leaf", <<>>), ExLeafOf(4)})

TopExtensions ==
    (20 :> {[list |-> <<I64(1), I64(2)>>]}) @@ (21 :> {[list |-> <<Text(<<98>>)>>], Text(<<98>>)})

TopChunks ==
    {encode_tag(30, 0) \o <<5>>,                          \* a field from a newer schema
     encode_tag(30, 2) \o <<1, 200>>,
     encode_tag(3, 0) \o <<2>>,                           \* one element, not packed
     encode_tag(5, 0) \o <<2>>,
     encode_tag(9, 2) \o <<2, 8, 0>>,                     \* the other member of the oneof
     encode_tag(8, 0) \o <<1>>,
     encode_tag(10, 2) \o <<5, 10, 1, 97, 16, 2>>,        \* a key that may be there already
     encode_tag(10, 2) \o <<3, 10, 1, 98>>,               \* an entry without a value
     encode_tag(10, 2) \o <<2, 16, 2>>,                   \* ... without a key
     encode_tag(11, 2) \o <<2, 8, 1>>,
     encode_tag(14, 2) \o <<2, 24, 1>>,                   \* unknown inside a message
     encode_tag(30, 3) \o encode_tag(30, 4)}              \* a group

TheLimits == [max_bytes |-> 100, max_depth |-> 2, max_fields |-> 20, max_length_delimited |-> 30,
              max_string_len |-> 10, max_unknown_bytes |-> 6]

TheFieldValues == (DocType :> DocValues) @@ (TopType :> TopValues)
TheExtensionValues == (DocType :> <<>>) @@ (TopType :> TopExtensions)
TheChunks == (DocType :> {}) @@ (TopType :> TopChunks)

W(word) == [word |-> word]
S(sym) == [sym |-> sym]
K(name) == [name |-> name]
Json(fields) == [json |-> [object |-> fields]]
JsonText(s) == [string |-> [text |-> s]]
Decimal(x) == [string |-> [dec |-> x]]

DocDocuments ==
    {[text |-> <<W("nums"), S(":"), [dec |-> 1], S(","), W("nums"), S(":"), [dec |-> 300]>>],
     [text |-> <<S("["), [path |-> LeafType], S("]"), S("<"), W("x"), S(":"), [dec |-> 4], S(">")>>],
     [text |-> <<S("["), [path |-> DocType], S("]"), W("color"), S(":"), W("BLUE")>>],
     [text |-> <<W("labels"), S("{"), S("}"), W("data"), S(":"), [str |-> <<48, 97>>]>>],
     [text |-> <<W("u"), S("{"), S(">"), W("flag"), S(":"), W("inf")>>],
     [text |-> <<W("v"), S("<"), W("null_value"), S(":"), W("NULL_VALUE")>>],
     [text |-> <<W("color"), S(":"), W("PINK")>>],
     [text |-> <<W("b"), S(":"), S("{"), S("}"), W("a"), S(":"), [str |-> <<>>]>>],
     Json((K("u") :> Decimal(-1)) @@ (K("big") :> [number |-> 70000])),
     Json((K("big") :> Decimal(70000))), Json((K("u") :> [number |-> 70000])),
     Json(K("nothere") :> [null |-> 0]), Json(K("nums") :> [number |-> 257]),
     Json(K("colors") :> [string |-> [name |-> "BLUE"]]),
     Json((K("color") :> Decimal(1)) @@ (K("v") :> [null |-> 0])),
     Json((K("a") :> JsonText(<<97>>)) @@ (K("b") :> [object |-> <<>>])),
     Json(K("st") :> [object |-> ([text |-> <<97>>] :> [null |-> 0])]),
     Json(K("any") :> [object |-> (K("@type") :> JsonText(LeafUrl)) @@ (K("x") :> Decimal(5))]),
     Json(K("any") :> [object |-> (K("x") :> Decimal(5))]),
     Json(K("dw") :> [string |-> [float |-> Infinity]]), Json(K("dw") :> [number |-> Fraction]),
     Json(K("bw") :> [number |-> 1]), Json(K("bw") :> [bool |-> 1]),
     Json(K("any") :> [object |-> (K("@type") :> JsonText(<<120>>)) @@ (K("value") :> JsonText(<<97>>))]),
     [text |-> <<W("u"), S(":"), [float |-> Fraction]>>],
     [text |-> <<W("ratio"), S(":"), [float |-> Huge]>>],
     [text |-> <<W("dw"), S("{"), W("value"), S(":"), W("true"), S("}")>>],
     Json(K("when") :> JsonText(<<97>>)),
     Json((K("uw") :> [object |-> K("value") :> Decimal(9)]) @@ (K("w") :> [number |-> Word - 1])),
     [json |-> [array |-> <<>>]]}

TheDocuments == (DocType :> DocDocuments) @@ (TopType :> {})

TextOf(deterministic, numbers, braces, depth) ==
    [deterministic |-> deterministic, use_field_numbers |-> numbers, use_braces |-> braces, max_depth |-> depth]
JsonOf(ints, strings, all, lax, depth) ==
    [enum_as_ints |-> ints, int64_as_string |-> strings, always_print |-> all,
     ignore_unknown_fields |-> lax, max_depth |-> depth]

TheOptions == {[text |-> TextOf(FALSE, FALSE, FALSE, 5), json |-> JsonOf(FALSE, TRUE, FALSE, FALSE, 10)],
               [text |-> TextOf(TRUE, FALSE, TRUE, 2), json |-> JsonOf(TRUE, FALSE, FALSE, TRUE, 5)],
               [text |-> TextOf(FALSE, TRUE, FALSE, 5), json |-> JsonOf(FALSE, TRUE, TRUE, FALSE, 10)]}

TheDefaultLimits == [max_bytes |-> 100, max_depth |-> 4, max_fields |-> 20, max_length_delimited |-> 30,
                     max_string_len |-> 10, max_unknown_bytes |-> 6]
TheChronoSeconds == -20000..20000
TheFourDigitYears == -400..10000
=============================================================================
