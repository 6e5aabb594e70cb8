------------------------------ MODULE Formats ------------------------------
(***************************************************************************)
(* The programs of Exchange also write a message as text or as JSON, and   *)
(* another reads the document back; documents also come from elsewhere.    *)
(***************************************************************************)
EXTENDS Exchange

CONSTANTS Documents,      \* for every type, those written by hand: records of one field, text or json
          Options,        \* records [text, json] of the options of the two formats
          DefaultLimits, TypeUrl, NanosPerSecond, MantissaBits, ChronoSeconds, FourDigitYears

VARIABLE doc
all_vars == <<pool, msg, wire, doc>>

T(o) == INSTANCE TextFormat WITH TextOptions <- o.text
J(o) == INSTANCE JsonMapping WITH JsonOptions <- o.json

NoDocument == [none |-> 0]

Write(document) == doc = NoDocument /\ doc' = document /\ UNCHANGED wire

PrintText(o) == wire = <<>> /\ Write([text |-> T(o)!message_to_text(msg)]) /\ msg' = new(msg.type)

WriteJson(j) == j.err = "ok" /\ Write([json |-> j.val])
PrintJson(o) == /\ wire = <<>>
                /\ WriteJson(J(o)!message_to_json(msg.type, msg))
                /\ msg' = new(msg.type)

WriteByHand(document) == wire = <<>> /\ msg = new(msg.type) /\ Write(document) /\ UNCHANGED msg

\* A document that cannot be read leaves the program with the message it had.
Read(o) == /\ doc # NoDocument
           /\ msg' = OrKept(IF Kind(doc) = "text" THEN T(o)!text_to_message(msg.type, doc.text)
                            ELSE J(o)!json_to_message(msg.type, doc.json))
           /\ doc' = NoDocument
           /\ UNCHANGED wire

FormatNext == \/ \E o \in Options : PrintText(o) \/ PrintJson(o) \/ Read(o)
              \/ \E document \in Documents[msg.type] : WriteByHand(document)

MessagesInit == Init /\ doc = NoDocument
MessagesNext == \/ doc = NoDocument /\ Next /\ UNCHANGED <<doc, pool>>
                \/ FormatNext /\ UNCHANGED pool
MessagesSpec == MessagesInit /\ [][MessagesNext]_all_vars

-----------------------------------------------------------------------------
(***************************************************************************)
(* What survives a format.                                                 *)
(***************************************************************************)
FieldOf(type, n) == The(FieldNumbered(type, n))
OnlyDeclared(m) == m.extensions = <<>> /\ m.unknown = NoUnknown
OneMemberEach(m) == \A n \in DOMAIN m.fields :
                        OneofMembers(m.type, n) \cap DOMAIN m.fields \subseteq {n}
DeclaredAfter(type, f, g) == \E i, j \in DOMAIN DescriptorOf(type).field :
                                i > j /\ DescriptorOf(type).field[i] = f /\ DescriptorOf(type).field[j] = g
Keys(entries) == {entries[i][1] : i \in DOMAIN entries}

\* Text loses every bytes value, minus infinity, minus zero, every whole float of 64 bits
\* or more, most control characters, and whatever is printed under a field number.  A repeated field that JSON gave a single
\* value becomes a list.  Lists and maps must not be empty, and a
\* sorted map must have been sorted.  A literal such as true is
\* what it is in any field but an enum.  A value in a map entry is three levels deeper.
RECURSIVE TextSurvives(_, _, _)
TextSurvives(o, m, depth) ==
    LET Literals == {[f64 |-> x] : x \in {Infinity, NotANumber, Fraction, Negative(Fraction)}}
                        \cup {[bool |-> 0], [bool |-> 1]}
        Unreadable == {Negative(Infinity), Negative(0), Huge, Negative(Huge)}
        Scalar(f, v) == /\ \/ Kind(v) = variant(f.type)
                           \/ f.type # "enum" /\ v \in Literals
                        /\ CASE Kind(v) = "bytes" -> FALSE
                             [] Kind(v) = "string" -> T(o)!Reread(v.string) = v.string
                             [] OTHER -> v \notin {[f64 |-> x] : x \in Unreadable}
        One(f, v, levels) == IF Kind(v) = "message" THEN TextSurvives(o, v.message, depth + levels)
                             ELSE ~IsMessageType(f.type) /\ Scalar(f, v)
        Field(f, v) == CASE Kind(v) = "list" ->
                              v.list # <<>> /\ \A i \in DOMAIN v.list : One(f, v.list[i], 1)
                         [] Kind(v) = "map" ->
                              /\ v.map # <<>> /\ depth < o.text.max_depth
                              /\ o.text.deterministic => T(o)!SortedEntries(v.map) = v.map
                              /\ \A i \in DOMAIN v.map, k \in 1..2 :
                                     One(FieldOf(SubOf(f), k), v.map[i][k], 3)
                         [] OTHER -> f.label # "repeated" /\ One(f, v, 1)
    IN  /\ depth <= o.text.max_depth
        /\ OnlyDeclared(m) /\ OneMemberEach(m)
        /\ \A n \in DOMAIN m.fields : ~o.text.use_field_numbers /\ Field(FieldOf(m.type, n), m.fields[n])

\* What survives text is read back from it as it was (message_to_text() and
\* text_to_message()).
TextRoundTrip ==
    \A o \in Options :
        TextSurvives(o, msg, 0) =>
            Gives(T(o)!text_to_message(msg.type, T(o)!message_to_text(msg)), msg)

\* The well-known types have forms that say less than the message.
JsonSurvivesAs(o, name, m, depth, Stays(_, _)) ==
    LET set == DOMAIN m.fields
        Part(n) == J(o)!Integer(m, n)
        Sub(v, as) == Kind(v) = "message" /\ v.message.type = J(o)!Protobuf(as) /\ Stays(v.message, depth + 1)
    IN  CASE name = "Timestamp" -> /\ set = {1, 2} /\ Part(1) \in FourDigitYears
                                   /\ Part(2) \in 0..NanosPerSecond - 1
          [] name = "Duration" -> /\ set = {1, 2} /\ Part(1) # -(Word \div 2)
                                  /\ Part(2) \in 1 - NanosPerSecond..NanosPerSecond - 1
                                  /\ Part(1) * Part(2) >= 0
          [] name = "FieldMask" -> /\ set = {1} /\ m.fields[1] # [list |-> <<[string |-> <<>>]>>]
                                   /\ \A i \in DOMAIN m.fields[1].list :
                                        J(o)!Comma \notin Range(m.fields[1].list[i].string)
          [] name = "Struct" -> /\ set = {1} /\ Len(m.fields[1].map) = Cardinality(Keys(m.fields[1].map))
                                /\ \A i \in DOMAIN m.fields[1].map :
                                        /\ Kind(m.fields[1].map[i][1]) = "string"
                                        /\ Sub(m.fields[1].map[i][2], "Value")
          [] name = "ListValue" -> /\ set = {1}
                                   /\ \A i \in DOMAIN m.fields[1].list : Sub(m.fields[1].list[i], "Value")
          [] name = "Value" -> /\ Cardinality(set) = 1
                               /\ LET v == m.fields[The(set)] IN
                                  CASE set = {1} -> v = [i64 |-> 0]
                                    [] set = {2} -> v.f64 \notin NonFinite
                                    [] set = {5} -> Sub(v, "Struct")
                                    [] set = {6} -> Sub(v, "ListValue")
                                    [] OTHER -> TRUE
          [] name = "Empty" -> set = {}
          [] name \in J(o)!Wrappers ->
                /\ set = {1}
                /\ LET v == m.fields[1] t == FieldOf(m.type, 1).type IN
                   CASE Kind(v) = "i64" -> variant(t) # "f64"
                     [] Kind(v) = "f64" -> variant(t) = "f64" /\ v.f64 \notin NonFinite
                     [] OTHER -> Kind(v) = variant(t) /\ Kind(v) # "u64"
          [] name = "Any" ->
                /\ set = {1, 2}
                /\ \A type \in {k \in DOMAIN TypeUrl : TypeUrl[k] = m.fields[1].string} :
                     LET inner == decode(type, NewReader(m.fields[2].bytes, DefaultLimits)) IN
                     /\ inner.err = "ok" /\ encode(inner.val) = Ok(m.fields[2].bytes)
                     /\ \/ J(o)!wkt_name(type) \in {"", "Struct", "Empty"}
                        \/ J(o)!wkt_name(type) = "Value" /\ DOMAIN inner.val.fields = {5}
                     /\ m.fields[2].bytes = <<>> \/ Stays(inner.val, depth + 1)

\* JSON reads no list of messages or enums.  A message that is printed as null is taken
\* for absent.  always_print adds what was not set, but for a oneof whose member comes
\* after it; a number passes through an f64.  The
\* depth that counts is the writer's, three levels for each message.
RECURSIVE JsonSurvives(_, _, _)
JsonSurvives(o, m, depth) ==
    LET Scalar(f, v) == /\ Kind(v) = variant(f.type)
                        /\ \/ Kind(v) \notin {"i64", "u64"} \/ o.json.int64_as_string
                           \/ J(o)!Rounded(Payload(v)) = Payload(v)
                           \/ v \in {[i64 |-> Word \div 2 - 1], [u64 |-> Word - 1]}
        One(f, v) == IF IsMessageType(f.type)
                     THEN Kind(v) = "message" /\ JsonSurvives(o, v.message, depth + 3) ELSE Scalar(f, v)
        IsNull(v) == /\ Kind(v) = "message" /\ J(o)!wkt_name(v.message.type) = "Value"
                     /\ DOMAIN v.message.fields \subseteq {1}
        Field(f, v) == CASE Kind(v) = "list" ->
                              /\ ~IsMessageType(f.type) /\ f.type # "enum"
                              /\ \A i \in DOMAIN v.list : Scalar(f, v.list[i])
                         [] Kind(v) = "map" ->
                              /\ Len(v.map) = Cardinality(Keys(v.map))
                              /\ \A i \in DOMAIN v.map, k \in 1..2 :
                                     One(FieldOf(SubOf(f), k), v.map[i][k])
                         [] OTHER -> One(f, v) /\ ~IsNull(v)
        name == J(o)!wkt_name(m.type)
    IN  /\ depth <= o.json.max_depth
        /\ OnlyDeclared(m) /\ OneMemberEach(m)
        /\ IF name \in J(o)!Wrappers \cup {"Timestamp", "Duration", "FieldMask", "Struct", "Value",
                                        "ListValue", "Any", "Empty"}
           THEN JsonSurvivesAs(o, name, m, depth, LAMBDA x, d : JsonSurvives(o, x, d))
           ELSE /\ \A n \in DOMAIN m.fields : Field(FieldOf(m.type, n), m.fields[n])
                /\ o.json.always_print =>
                     \A f \in FieldsOf(m.type) :
                        \/ f.number \in DOMAIN m.fields
                        \/ IsMessageType(f.type) /\ ~is_map_field(f)
                        \/ \E n \in OneofMembers(m.type, f.number) \cap DOMAIN m.fields :
                               DeclaredAfter(m.type, FieldOf(m.type, n), f)

\* The entries of a map in no order.
RECURSIVE Unordered(_)
Unordered(m) ==
    LET Value(v) == IF Kind(v) = "message" THEN [message |-> Unordered(v.message)] ELSE v
        Field(v) == CASE Kind(v) = "map" -> [map |-> <<Len(v.map), {<<e[1], Value(e[2])>> : e \in Range(v.map)}>>]
                      [] Kind(v) = "list" -> [list |-> [i \in DOMAIN v.list |-> Value(v.list[i])]]
                      [] OTHER -> Value(v)
    IN  [m EXCEPT !.fields = [n \in DOMAIN @ |-> Field(@[n])]]

\* What survives JSON is read back from it as it was but for the order of its maps
\* (message_to_json() and json_to_message()).
JsonRoundTrip ==
    \A o \in Options : JsonSurvives(o, msg, 0) =>
        Gives(Then(Then(J(o)!message_to_json(msg.type, msg),
                        LAMBDA sent : J(o)!json_to_message(msg.type, sent.val)),
                   LAMBDA got : Ok(Unordered(got.val))), Unordered(msg))
=============================================================================
