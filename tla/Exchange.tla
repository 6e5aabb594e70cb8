------------------------------ MODULE Exchange ------------------------------
(***************************************************************************)
(* Messages on their way between programs: one program edits a dynamic     *)
(* message and sends it, peers add to what is on the wire, a program with  *)
(* generated code relays it, and the receiver decodes all that arrived.    *)
(***************************************************************************)
EXTENDS Generated

CONSTANTS FieldValues,     \* for every type of message, the values of each field
          ExtensionValues, \* ... of each extension
          Chunks,          \* ... and what peers write: whole fields, in forms of their own
          Limits,          \* the receiver's DecoderLimits
          MaxFields,       \* bounds: fields and extensions set, and bytes on the wire
          MaxWire

VARIABLES msg, wire
vars == <<pool, msg, wire>>

Init == pool = from_set(Files) /\ (\E type \in DOMAIN FieldValues : msg = new(type)) /\ wire = <<>>

Size(m) == Cardinality(DOMAIN m.fields) + Cardinality(DOMAIN m.extensions)

\* The program edits a message when none is under way, and keeps none that it sent.
SetField(n, v) == /\ wire = <<>>
                  /\ msg' = set_field(msg, n, v)
                  /\ Size(msg') <= MaxFields
                  /\ UNCHANGED wire

ClearField(n) == /\ wire = <<>>
                 /\ n \in DOMAIN msg.fields /\ Size(msg) <= MaxFields
                 /\ msg' = clear_field(msg, n)
                 /\ UNCHANGED wire

SetExtension(n, v) == /\ wire = <<>>
                      /\ msg' = set_extension(msg, n, v)
                      /\ Size(msg') <= MaxFields
                      /\ UNCHANGED wire

Sent(encoded) == encoded.err = "ok" /\ wire' = encoded.val
Send == /\ wire = <<>>
        /\ Sent(encode(msg))
        /\ Len(wire') <= MaxWire
        /\ msg' = new(msg.type)

PeerWrites(chunk) == /\ msg = new(msg.type)
                     /\ wire' = wire \o chunk
                     /\ Len(wire') <= MaxWire
                     /\ UNCHANGED msg

\* Generated code decodes what arrived and sends it on; on an error nothing goes on.
Relayed(s) == IF s.err = "ok" THEN encode_struct(s.val) ELSE <<>>
Relay == /\ wire # <<>> /\ HasCode(msg.type)
         /\ wire' = Relayed(decode_struct(msg.type, wire, Limits))
         /\ UNCHANGED msg

\* What cannot be decoded leaves the message as it was.
OrKept(got) == IF got.err = "ok" THEN got.val ELSE msg
Receive == /\ wire # <<>>
           /\ msg' = OrKept(decode(msg.type, NewReader(wire, Limits)))
           /\ wire' = <<>>

Next == \/ LET values == FieldValues[msg.type] IN
           \E n \in DOMAIN values : (\E v \in values[n] : SetField(n, v)) \/ ClearField(n)
        \/ LET values == ExtensionValues[msg.type] IN
           \E n \in DOMAIN values : \E v \in values[n] : SetExtension(n, v)
        \/ \E chunk \in Chunks[msg.type] : PeerWrites(chunk)
        \/ Send \/ Relay \/ Receive

Spec == Init /\ [][Next /\ UNCHANGED pool]_vars

-----------------------------------------------------------------------------
(***************************************************************************)
(* What survives the wire.                                                 *)
(***************************************************************************)
\* How deep the readers go: one level for a message, a packed list and a map entry.
RECURSIVE DepthOf(_)
DepthOf(m) ==
    LET Inside(v) == IF Kind(v) = "message" THEN 1 + DepthOf(v.message) ELSE 0
        OfValue(f, v) ==
            CASE Kind(v) = "list" -> IF packed_allowed(f.type) THEN 1 ELSE 0
              [] Kind(v) = "map" -> 1 + Max({0} \cup {Inside(v.map[i][n]) : i \in DOMAIN v.map, n \in 1..2})
              [] OTHER -> Inside(v)
    IN  Max({0} \cup {OfValue(The(FieldNumbered(m.type, n)), m.fields[n]) : n \in DOMAIN m.fields}
                \cup {OfValue(pool.extensions[n], m.extensions[n]) : n \in DOMAIN m.extensions})
WithinDepth(m) == DepthOf(m) <= Limits.max_depth

\* The values that the reader gives back as they were written.  Lists of messages
\* cannot be written, those of enums cannot be read; lists of the other types survive
\* when they are packed or not empty; a map entry that came without its key or value
\* has a zero of int64 in its place.
RECURSIVE Writable(_)
Writable(m) ==
    LET Value(f, v) ==
            CASE Kind(v) = "list" ->
                    /\ ~IsMessageType(f.type) /\ f.type # "enum"
                    /\ \A i \in DOMAIN v.list : Kind(v.list[i]) = variant(f.type)
                    /\ packed_allowed(f.type) \/ v.list # <<>>
              [] Kind(v) = "map" ->
                    /\ v.map # <<>>
                    /\ \A i \in DOMAIN v.map, n \in 1..2 :
                         LET part == The(FieldNumbered(SubOf(f), n)) x == v.map[i][n]
                         IN  Kind(x) = variant(part.type)
                                /\ (part.type = "message" => Writable(x.message))
              [] Kind(v) = "message" -> IsMessageType(f.type) /\ Writable(v.message)
              [] OTHER -> Kind(v) = variant(f.type)
    IN  /\ \A n \in DOMAIN m.fields :
             LET f == The(FieldNumbered(m.type, n)) v == m.fields[n] IN
             /\ Kind(v) \in {"list", "map"} <=> f.label = "repeated"
             /\ Value(f, v)
        /\ \A n \in DOMAIN m.extensions :
             LET f == pool.extensions[n] IN
             /\ Kind(m.extensions[n]) = "list" => packed_allowed(f.type)
             /\ Value(f, m.extensions[n])

Survives(m) == WithinDepth(m) /\ Writable(m)

\* What survives the wire is received as it was: nothing of it is lost, changed or
\* refused on the way; what is nested deeper than the limit is not received as it was
\* (DynamicMessage::encode() and decode()).
Gives(result, m) == result.err = "ok" /\ result.val = m
Received(type, bytes) == decode(type, NewReader(bytes, Limits))
OverTheWire(m) == Then(encode(m), LAMBDA sent : Received(m.type, sent.val))
WireRoundTrip == /\ Survives(msg) => Gives(OverTheWire(msg), msg)
                 /\ Gives(OverTheWire(msg), msg) => WithinDepth(msg)

\* Fields that no descriptor names keep their total in bytes, and within the limit, in
\* the message and in the messages inside it (UnknownFieldSet::insert(), store()).
RECURSIVE WithNested(_)
WithNested(m) == {m} \cup UNION {WithNested(m.fields[n].message) :
                                    n \in {k \in DOMAIN m.fields : Kind(m.fields[k]) = "message"}}
UnknownAccounted ==
    \A m \in WithNested(msg) : /\ m.unknown.total_len = Len(encode_unknown(m.unknown))
                               /\ m.unknown.total_len <= Limits.max_unknown_bytes

(***************************************************************************)
(* Generated code and dynamic messages.                                    *)
(***************************************************************************)
\* What is the same to both: zeros of implicit fields, empty lists and maps and all but
\* the last entry of a key stand for nothing; of a oneof the highest member was written last.
LastOfKey(entries) ==
    {entries[i] : i \in {j \in DOMAIN entries :
        \A k \in DOMAIN entries : entries[k][1] = entries[j][1] => k <= j}}

RECURSIVE Meaning(_)
Meaning(m) ==
    LET Field(n) == The(FieldNumbered(m.type, n))
        Read(v) == CASE Kind(v) = "map" -> [map |-> {<<e[1], IF Kind(e[2]) = "message"
                                                   THEN Meaning(e[2].message) ELSE e[2]>> :
                                                e \in LastOfKey(v.map)}]
                     [] Kind(v) = "message" -> [message |-> Meaning(v.message)]
                     [] Kind(v) = "list" -> v
                     [] OTHER -> v
        Nothing(n) == LET f == Field(n) v == m.fields[n] IN
            \/ Kind(v) \in {"list", "map"} /\ Payload(v) = <<>>
            \/ /\ f.oneof_index = {} /\ f.label # "repeated" /\ presence(m.type, f) = "implicit"
               /\ \/ Kind(v) = "message" /\ Meaning(v.message) = Meaning(new(v.message.type))
                  \/ Kind(v) # "message" /\ v = zero(f)
        Hidden(n) == \E k \in OneofMembers(m.type, n) \cap DOMAIN m.fields : k > n
    IN  [fields |-> [n \in {k \in DOMAIN m.fields : ~Nothing(k) /\ ~Hidden(k)} |-> Read(m.fields[n])],
         unknown |-> m.unknown.fields]

\* A program with generated code passes on, of every message that survives the wire and
\* has no extension, just what the message means (the code gen_message_impl() writes
\* against DynamicMessage::decode()).
RelayKeepsMeaning ==
    HasCode(msg.type) /\ Survives(msg) /\ DOMAIN msg.extensions = {} =>
        Gives(Then(Then(Then(encode(msg),
                             LAMBDA sent : decode_struct(msg.type, sent.val, Limits)),
                        LAMBDA s : Received(msg.type, encode_struct(s.val))),
                   LAMBDA got : Ok(Meaning(got.val))), Meaning(msg))

(***************************************************************************)
(* What docs/wire-format.md says and the code does not do.                 *)
(***************************************************************************)
\* "packed - a single length-delimited field holding concatenated elements; mixed input -
\* decoders accept both packed and unpacked forms and merge them": every list of scalars
\* or enums is read back from the packed form encode_field() writes (decode_one()).
RepeatedIsRead ==
    \A n \in DOMAIN msg.fields :
        LET f == The(FieldNumbered(msg.type, n))
            alone == [new(msg.type) EXCEPT !.fields = n :> msg.fields[n]]
        IN  packed_allowed(f.type) /\ Kind(msg.fields[n]) = "list" => Gives(OverTheWire(alone), alone)

\* "oneof fields are mutually exclusive; if multiple oneof fields appear in a single
\* message, the last value wins" (insert_field() on decode).
OneofExclusive ==
    \A n \in DOMAIN msg.fields : OneofMembers(msg.type, n) \cap DOMAIN msg.fields \subseteq {n}
=============================================================================
