----------------------------- MODULE TextFormat -----------------------------
(***************************************************************************)
(* tpt-proto-text: a dynamic message as text and back.  Text is a sequence *)
(* of lexemes, each a record of one field: a symbol, a word, a dotted      *)
(* path, a decimal, the digits of a float, the bytes of a 0x literal or of *)
(* a quoted string.  Extensions and unknown fields are not printed.        *)
(***************************************************************************)
EXTENDS DynamicMessages

CONSTANT TextOptions      \* deterministic, use_field_numbers, use_braces, max_depth

Sym(c) == [sym |-> c]
Opening == {Sym("{"), Sym("<")}
Closing == {Sym("}"), Sym(">")}

print_scalar_inline(v) ==
    CASE Kind(v) = "string" -> [str |-> v.string]
      [] Kind(v) = "bytes" -> [hex |-> v.bytes]
      [] Kind(v) = "bool" -> [word |-> IF v.bool = 1 THEN "true" ELSE "false"]
      [] Kind(v) = "f64" -> IF v.f64 = Infinity THEN [word |-> "inf"]
                             ELSE IF v.f64 = NotANumber THEN [word |-> "nan"]
                             ELSE [float |-> v.f64]
      [] Kind(v) \in {"i64", "u64", "enum"} -> [dec |-> Payload(v)]
      [] OTHER -> Sym("?")

BytesBefore(a, b) ==
    \/ Len(a) < Len(b) /\ IsPrefix(a, b)
    \/ \E i \in DOMAIN a \cap DOMAIN b : a[i] < b[i] /\ SubSeq(a, 1, i - 1) = SubSeq(b, 1, i - 1)

\* Kinds in an order of their own: a decoded entry without a key has an i64, whatever the others have.
Rank == [string |-> 0, bytes |-> 1, bool |-> 2, i64 |-> 3, u64 |-> 4, f64 |-> 5]
map_key_less(a, b) ==
    IF Kind(a) # Kind(b) THEN Rank[Kind(a)] < Rank[Kind(b)]
    ELSE IF Kind(a) \in {"string", "bytes"} THEN BytesBefore(Payload(a), Payload(b))
    ELSE Payload(a) < Payload(b)

SortedEntries(entries) ==
    LET Before(i, j) == \/ map_key_less(entries[i][1], entries[j][1])
                        \/ ~map_key_less(entries[j][1], entries[i][1]) /\ i < j
        Place(i) == Cardinality({j \in DOMAIN entries : Before(j, i)}) + 1
    IN  [r \in DOMAIN entries |-> entries[CHOOSE i \in DOMAIN entries : Place(i) = r]]

RECURSIVE print_message(_, _), print_value(_, _)
print_message(type, m) ==
    LET declared == DescriptorOf(type).field
        numbers == Ascending({f.number : f \in Range(declared)})
        order == IF TextOptions.deterministic
                 THEN [i \in DOMAIN numbers |-> The(FieldNumbered(type, numbers[i]))] ELSE declared
        Printed(f) == IF f.number \in DOMAIN m.fields
                      THEN print_value(f, m.fields[f.number]) ELSE <<>>
        braces == IF TextOptions.use_braces THEN <<"{", "}">> ELSE <<"<", ">">>
    IN  <<Sym(braces[1])>> \o FlattenSeq([i \in DOMAIN order |-> Printed(order[i])])
            \o <<Sym(braces[2])>>

print_value(f, v) ==
    LET name == IF TextOptions.use_field_numbers THEN [dec |-> f.number] ELSE [word |-> f.name]
        entries == IF TextOptions.deterministic THEN SortedEntries(v.map) ELSE v.map
        sub == TypeOfField(f)
        MapValue(x) ==
            IF Kind(x) # "message" THEN <<print_scalar_inline(x)>>
            ELSE LET types == UNION {lookup_message(g.type_name) : g \in FieldNumbered(sub, 2)}
                 IN  print_message(IF types = {} THEN sub ELSE The(types), x.message)
        Entry(kv) == <<name, Sym("{"), [word |-> "key"], Sym(":"), print_scalar_inline(kv[1]),
                       [word |-> "value"], Sym(":")>> \o MapValue(kv[2]) \o <<Sym("}")>>
    IN  CASE Kind(v) = "list" ->
                FlattenSeq([i \in DOMAIN v.list |-> print_value(f, v.list[i])])
          [] Kind(v) = "map" -> FlattenSeq([i \in DOMAIN v.map |-> Entry(entries[i])])
          [] Kind(v) = "message" -> <<name>> \o print_message(sub, v.message)
          [] OTHER -> IF IsMessageType(f.type) THEN <<name>>
                      ELSE <<name, Sym(":"), print_scalar_inline(v)>>

message_to_text(m) == print_message(m.type, m)

(***************************************************************************)
(* The tokens of a text.  A control character is printed as \u{..}, whose  *)
(* backslash the tokenizer drops; a 0x literal is a number to it.  A float *)
(* is printed without a point when it is whole, and is an integer then: it *)
(* must fit into 64 bits, and minus zero is 0.  "-inf" is no number to it. *)
(***************************************************************************)
Reread(s) ==
    LET hex(d) == IF d < 10 THEN 48 + d ELSE 87 + d
        Char(c) == IF c \notin (1..31 \cup {127}) \ {9, 10, 13} THEN <<c>>
                   ELSE <<117, 123>> \o (IF c < 16 THEN <<>> ELSE <<hex(c \div 16)>>)
                            \o <<hex(c % 16), 125>>
    IN  FlattenSeq([i \in DOMAIN s |-> Char(s[i])])

classify_ident(w) == IF w \in {"true", "false", "inf", "nan"} THEN [raw |-> w] ELSE [ident |-> w]

IntToken(n) == IF n >= 0 THEN [uint |-> n] ELSE [int |-> n]

Token(lexeme) ==
    CASE Kind(lexeme) = "word" -> Ok(classify_ident(lexeme.word))
      [] Kind(lexeme) = "path" -> Ok(lexeme)
      [] Kind(lexeme) = "str" -> Ok([str |-> Reread(lexeme.str)])
      [] Kind(lexeme) = "dec" -> Ok(IntToken(lexeme.dec))
      [] Kind(lexeme) = "hex" ->
            LET digits == {i \in DOMAIN lexeme.hex : \E j \in 1..i : lexeme.hex[j] # 0} IN
            IF lexeme.hex = <<>> \/ Cardinality(digits) > WordBits \div 8 THEN Error("lex")
            ELSE Ok([uint |-> FoldLeft(LAMBDA v, b : 256 * v + b, 0, lexeme.hex)])
      [] Kind(lexeme) = "float" ->
            CASE Magnitude(lexeme.float) \in {Infinity, Huge} -> Error("lex")
              [] Magnitude(lexeme.float) = Fraction -> Ok(lexeme)
              [] OTHER -> Ok(IntToken(WholeOf(lexeme.float)))
      [] Kind(lexeme) = "sym" -> IF lexeme.sym = "?" THEN Error("lex") ELSE Ok(lexeme)

tokenize(text) == Collected([i \in DOMAIN text |-> Token(text[i])])

(***************************************************************************)
(* The parser: the tokens, how many are taken, the error and the value.    *)
(***************************************************************************)
peek(p) == IF p.pos < Len(p.toks) THEN p.toks[p.pos + 1] ELSE [end |-> 0]
next(p) == [p EXCEPT !.pos = IF p.pos < Len(p.toks) THEN @ + 1 ELSE @, !.val = peek(p)]
expect(p, toks) == IF peek(p) \in toks THEN next(p) ELSE Failed(p, "syntax")

int_to_scalar(t, n) ==
    LET kind == variant(t) IN
    CASE t \in {"int32", "sint32", "sfixed32"} -> Ok([i64 |-> Signed(n, Half)])
      [] t \in {"int64", "sint64", "sfixed64"} -> Ok([i64 |-> Signed(n, Word)])
      [] t \in {"uint32", "fixed32"} -> Ok([u64 |-> n % Half])
      [] t \in {"uint64", "fixed64"} -> Ok([u64 |-> n % Word])
      [] t = "bool" -> Ok([bool |-> IF n # 0 THEN 1 ELSE 0])
      [] kind = "f64" -> Ok([f64 |-> FloatOf(n)])
      [] OTHER -> Error("value")

\* A quoted bytes literal is read as hexadecimal; pairs that are not are dropped.
parse_hex(s) ==
    LET even == IF Len(s) % 2 = 0 THEN s ELSE <<48>> \o s
        digit == [c \in 48..57 |-> c - 48] @@ [c \in 97..102 |-> c - 87] @@ [c \in 65..70 |-> c - 55]
        Pair(i) == IF {even[2 * i - 1], even[2 * i]} \subseteq DOMAIN digit
                   THEN <<16 * digit[even[2 * i - 1]] + digit[even[2 * i]]>> ELSE <<>>
    IN  FlattenSeq([i \in 1..Len(even) \div 2 |-> Pair(i)])

ScalarToken(t, tok) ==
    CASE Kind(tok) = "str" -> IF t = "string" THEN Ok([string |-> tok.str])
                              ELSE IF t = "bytes" THEN Ok([bytes |-> parse_hex(tok.str)]) ELSE Error("value")
      [] Kind(tok) \in {"int", "uint"} -> int_to_scalar(t, Payload(tok))
      [] Kind(tok) = "float" -> Ok([f64 |-> tok.float])
      [] Kind(tok) = "raw" -> Ok(CASE tok.raw = "true" -> [bool |-> 1]
                                   [] tok.raw = "false" -> [bool |-> 0]
                                   [] tok.raw = "inf" -> [f64 |-> Infinity]
                                   [] tok.raw = "nan" -> [f64 |-> NotANumber])
      [] OTHER -> Error("value")

EnumToken(f, tok) ==
    LET named == UNION {{v \in Range(pool.enums[e].value) : v.name = Payload(tok)} :
                            e \in lookup_enum(f.type_name)}
    IN  CASE Kind(tok) \in {"int", "uint"} -> Ok([enum |-> Signed(Payload(tok), Half)])
          [] Kind(tok) \in {"ident", "raw"} ->
                IF named = {} THEN Error("value") ELSE Ok([enum |-> The(named).number])
          [] OTHER -> Error("value")

RECURSIVE parse_message_body(_, _, _, _), parse_field(_, _, _, _), parse_value(_, _, _)

\* An opening delimiter, the body of a message of that type, and a closing one.
Braced(p, type, depth) ==
    LET Close(q) == LET c == expect(q, Closing)
                    IN  IF c.err = "ok" THEN [c EXCEPT !.val = [message |-> q.val]] ELSE c
    IN  Then(parse_message_body(next(p), type, new(type), depth + 1), Close)

map_entry_to_value(v) ==
    LET part(k) == IF k \in DOMAIN v.message.fields THEN v.message.fields[k] ELSE [i64 |-> 0]
    IN  <<part(1), part(2)>>

\* The last element of a repeated field replaces the others.
StoreParsedBug(m, f, v) ==
    LET old(kind) == IF f.number \in DOMAIN m.fields THEN m.fields[f.number] ELSE (kind :> <<>>)
    IN  IF is_map_field(f)
        THEN [m EXCEPT !.fields =
                Put(@, f.number, [map |-> Append(old("map").map, map_entry_to_value(v))])]
        ELSE set_field(m, f.number, IF f.label = "repeated" THEN [list |-> <<v>>] ELSE v)

StoreParsed(m, f, v) ==
    LET old(kind) == IF f.number \in DOMAIN m.fields THEN m.fields[f.number] ELSE (kind :> <<>>)
    IN  IF is_map_field(f)
        THEN [m EXCEPT !.fields =
                Put(@, f.number, [map |-> Append(old("map").map, map_entry_to_value(v))])]
        ELSE IF f.label = "repeated"
        THEN [m EXCEPT !.fields = Put(@, f.number, [list |-> Append(old("list").list, v)])]
        ELSE set_field(m, f.number, v)

parse_value(p, f, depth) ==
    LET tok == peek(p)
        Taken(res) == IF res.err = "ok" THEN [next(p) EXCEPT !.val = res.val]
                      ELSE Failed(p, res.err)
    IN  IF IsMessageType(f.type)
        THEN IF tok \in Opening THEN Braced(p, TypeOfField(f), depth) ELSE Failed(p, "syntax")
        ELSE IF Kind(tok) = "end" THEN Failed(p, "syntax")
        ELSE IF f.type = "enum" THEN Taken(EnumToken(f, tok)) ELSE Taken(ScalarToken(f.type, tok))

parse_field(p, m, name, depth) ==
    LET found == {f \in FieldsOf(m.type) : f.name = name}
        f == The(found)
        Store(q) == LET s == [q EXCEPT !.val = StoreParsed(m, f, q.val)]
                    IN  IF peek(s) = Sym(",") THEN [s EXCEPT !.pos = @ + 1] ELSE s
    IN  IF found = {} THEN Failed(p, "unknown")
        ELSE IF peek(p) \in Opening THEN Then(Braced(p, TypeOfField(f), depth), Store)
        ELSE IF peek(p) = Sym(":") THEN Then(parse_value(next(p), f, depth + 1), Store)
        ELSE Failed(p, "syntax")

\* [type] { ... } is a message for the first field of that type.
BracketedType(p, m, depth) ==
    LET name == peek(next(p))
        after == expect(next(next(p)), {Sym("]")})
        types == lookup_message(name.path)
        order == DescriptorOf(m.type).field
        target == {i \in DOMAIN order : order[i].type_name = name.path}
        Set(q) == Return(q, IF target = {} THEN m
                            ELSE set_field(m, order[Min(target)].number, q.val))
    IN  IF Kind(name) # "path" THEN Failed(p, "syntax")
        ELSE IF after.err # "ok" THEN after
        ELSE IF types = {} THEN Failed(p, "unknown")
        ELSE IF peek(after) \in Opening THEN Then(Braced(after, The(types), depth), Set)
        ELSE Set(Return(after, [message |-> new(The(types))]))

parse_message_body(p, type, m, depth) ==
    LET Rest(q) == parse_message_body(q, type, q.val, depth)
        tok == peek(p)
    IN  IF depth > TextOptions.max_depth THEN Failed(p, "recursion_limit")
        ELSE IF Kind(tok) = "end" \/ tok \in Closing THEN Return(p, m)
        ELSE IF tok = Sym("[") THEN Then(BracketedType(p, m, depth), Rest)
        ELSE IF Kind(tok) \in {"ident", "raw"}
        THEN Then(parse_field(next(p), m, Payload(tok), depth), Rest)
        ELSE Failed(p, "syntax")

text_to_message(type, text) ==
    LET Parse(all) ==
            LET start == [toks |-> all.val, pos |-> 0, err |-> "ok", val |-> 0]
            IN  parse_message_body(IF peek(start) \in Opening THEN next(start) ELSE start,
                                   type, new(type), 0)
    IN  Then(tokenize(text), Parse)
=============================================================================
