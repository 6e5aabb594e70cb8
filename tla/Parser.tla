------------------------------- MODULE Parser -------------------------------
(***************************************************************************)
(* The recursive-descent parser of the proto language (parser.rs of        *)
(* tpt-proto-language) over a sequence of tokens.  A token is a string:    *)
(* a punctuation mark, an integer literal (a member of DOMAIN IntOf), a    *)
(* string literal (a member of DOMAIN TextOf) or an identifier.             *)
(*                                                                         *)
(* A parser state s holds the tokens t, the position p of the next one,    *)
(* the number e of diagnostics, the message nesting d with the deepest one *)
(* reached, and whether a loop of the parser never ends (h).  A parse      *)
(* function returns Some(s, value) or None(s), like the code's Option.     *)
(* Names are sequences of tokens; a missing value is the empty sequence.   *)
(***************************************************************************)
EXTENDS Integers, Sequences, FiniteSetsExt

CONSTANTS IntOf,              \* the value of every integer literal
          TextOf,             \* the text of every string literal
          MAX_PROTO_NESTING   \* how deep messages may be nested

Punctuation == {"{", "}", "(", ")", "[", "]", "<", ">", ",", ";", ".", "=", ":"}
Scalars     == {"int32", "string"}
Strings     == DOMAIN TextOf
IsIdent(t)  == t \notin DOMAIN IntOf \cup Strings \cup Punctuation \cup {""}

peek(s)    == IF s.p <= Len(s.t) THEN s.t[s.p] ELSE ""
advance(s) == IF s.p <= Len(s.t) THEN [s EXCEPT !.p = @ + 1] ELSE s
error(s)   == [s EXCEPT !.e = @ + 1]
Hang(s)    == [s EXCEPT !.h = TRUE, !.p = Len(s.t) + 1]

Some(s, v) == [ok |-> TRUE, s |-> s, v |-> v]
None(s)    == [ok |-> FALSE, s |-> s, v |-> <<>>]
Either(r, Use(_, _), Else(_)) == IF r.ok THEN Use(r.s, r.v) ELSE Else(r.s)
Then(r, Use(_, _))            == Either(r, Use, None)

expect(s, kind) == IF peek(s) = kind THEN advance(s) ELSE error(s)

(* The end of the source is no diagnostic here. *)
expect_ident(s) == IF peek(s) = "" THEN None(s)
                   ELSE IF IsIdent(peek(s)) THEN Some(advance(s), peek(s))
                   ELSE None(error(advance(s)))

expect_int(s) == IF peek(s) \in DOMAIN IntOf THEN Some(advance(s), peek(s)) ELSE None(error(s))

SkipWhile(s, Q(_)) == [s EXCEPT !.p = Min({i \in s.p .. Len(s.t) : ~Q(s.t[i])} \cup {Len(s.t) + 1})]
recover(s) == SkipWhile(s, LAMBDA k : k \notin {";", "}"})

(***************************************************************************)
(* The loops `while the next token is not close and there is one': Item    *)
(* reads one item and gives the new state and accumulator, or None to      *)
(* leave the function.  An iteration that reads no token repeats for ever. *)
(***************************************************************************)
Loop(s, close, Item(_, _), acc) ==
  LET RECURSIVE rounds(_, _)
      rounds(q, a) ==
        LET r == Item(q, a)
        IN  IF peek(q) \in {close, ""} THEN Some(q, a)
            ELSE IF ~r.ok THEN r
            ELSE IF r.s.p = q.p THEN None(Hang(q))
            ELSE rounds(r.s, r.v)
  IN  rounds(s, acc)

Push(r, acc, part)         == Some(r.s, IF r.ok THEN [acc EXCEPT ![part] = Append(@, r.v)] ELSE acc)
PushOrRecover(r, acc, part) == IF r.ok THEN Push(r, acc, part) ELSE Some(recover(r.s), acc)
(* Mutant: the unexpected token is reported and not skipped. *)
UnexpectedBug(s, acc)      == Some(error(s), acc)
Unexpected(s, acc)         == Some(advance(error(s)), acc)
Skip(s, kind)              == IF peek(s) = kind THEN advance(s) ELSE s
SkipComma(r)               == [r EXCEPT !.s = Skip(@, ",")]

(* The further segments `. name' of a qualified name.  A missing one ends a strict name,
   whose first segments are kept. *)
RECURSIVE Segments(_, _, _)
Segments(s, name, strict) ==
  IF peek(s) # "." THEN Some(s, name)
  ELSE Either(expect_ident(advance(s)),
              LAMBDA q, n : Segments(q, name \o <<".", n>>, strict),
              LAMBDA q : IF strict THEN [None(q) EXCEPT !.v = Append(name, ".")]
                         ELSE Segments(q, Append(name, "."), strict))

(* The name of an extension is what was read from its parenthesis on. *)
ExtensionName(s, q)  == Segments(q, SubSeq(s.t, s.p, q.p - 1), FALSE)
parse_option_name(s) ==
  IF peek(s) = "(" THEN ExtensionName(s, Skip(SkipWhile(advance(s), LAMBDA k : IsIdent(k) \/ k = "."), ")"))
  ELSE Then(expect_ident(s), LAMBDA q, n : Segments(q, <<n>>, FALSE))

(* A constant is its kind and the tokens that spell it. *)
RECURSIVE parse_constant(_)
parse_constant(s) ==
  LET t == peek(s)
      Literal(kind) == Some(advance(s), [kind |-> kind, toks |-> <<t>>])
      Entry(q, toks) ==
        Then(parse_option_name(q), LAMBDA u, key :
          IF peek(u) = "{"
          THEN Then(parse_constant(u), LAMBDA w, c : Some(w, toks \o key \o c.toks))
          ELSE Then(parse_constant(expect(u, ":")), LAMBDA w, c :
                 Some(expect(w, ";"), toks \o key \o <<":">> \o c.toks \o <<";">>)))
      Element(q, toks) ==
        SkipComma(Either(parse_constant(q), LAMBDA u, c : Some(u, toks \o c.toks), LAMBDA u : Some(u, toks)))
  IN  CASE t = ""                -> None(s)
        [] t \in DOMAIN IntOf    -> Literal("int")
        [] t \in Strings         -> Literal("string")
        [] t \in {"true", "false"} -> Literal("bool")
        [] t = "{" -> Then(Loop(advance(s), "}", Entry, <<>>), LAMBDA q, toks :
                        Some(expect(q, "}"), [kind |-> "aggregate", toks |-> <<"{">> \o toks \o <<"}">>]))
        [] t = "[" -> Then(Loop(advance(s), "]", Element, <<>>), LAMBDA q, toks :
                        Some(expect(q, "]"), [kind |-> "list", toks |-> <<"[">> \o toks \o <<"]">>]))
        [] OTHER -> IF IsIdent(t) THEN Literal("ident") ELSE None(error(s))

parse_option_stmt(s) ==
  Then(parse_option_name(advance(s)), LAMBDA q, name :
    Then(parse_constant(expect(q, "=")), LAMBDA u, c :
      Some(expect(u, ";"), [name |-> name, value |-> c])))

parse_syntax(s) ==
  LET q == expect(advance(s), "=")
  IN  IF peek(q) \in Strings THEN Some(expect(advance(q), ";"), TextOf[peek(q)]) ELSE None(error(q))

(* Mutant: the kind of the import is read and not kept. *)
parse_importBug(s) ==
  LET a == advance(s)
      q == IF peek(a) \in {"public", "weak"} THEN advance(a) ELSE a
  IN  IF peek(q) \in Strings THEN Some(expect(advance(q), ";"), [path |-> TextOf[peek(q)], kind |-> "default"])
      ELSE None(error(q))

parse_import(s) ==
  LET a    == advance(s)
      kind == IF peek(a) \in {"public", "weak"} THEN peek(a) ELSE "default"
      q    == IF kind = "default" THEN a ELSE advance(a)
  IN  IF peek(q) \in Strings THEN Some(expect(advance(q), ";"), [path |-> TextOf[peek(q)], kind |-> kind])
      ELSE None(error(q))

parse_type_ref(s) ==
  IF peek(s) = "" THEN None(s)
  ELSE IF peek(s) \in Scalars THEN Some(advance(s), <<peek(s)>>)
  ELSE LET dot == IF peek(s) = "." THEN <<".">> ELSE <<>>
       IN  Then(expect_ident(IF dot = <<>> THEN s ELSE advance(s)),
                LAMBDA q, n : Segments(q, Append(dot, n), TRUE))

parse_label(s) == IF peek(s) \in {"optional", "required", "repeated"}
                  THEN Some(advance(s), <<peek(s)>>) ELSE Some(s, <<>>)

(* One option in brackets; json_name and default go to places of their own. *)
FieldOption(q, name, acc) ==
  IF name = <<"json_name">>
  THEN IF peek(q) \in Strings THEN Some(advance(q), [acc EXCEPT !.json_name = <<TextOf[peek(q)]>>])
       ELSE Some(q, acc)
  ELSE Either(parse_constant(q),
              LAMBDA u, c : Some(u, IF name = <<"default">> THEN [acc EXCEPT !.default = <<c>>]
                                    ELSE [acc EXCEPT !.options = Append(@, [name |-> name, value |-> c])]),
              LAMBDA u : Some(u, acc))
parse_field_option(s, acc) ==
  Either(parse_option_name(s), LAMBDA q, name : FieldOption(expect(q, "="), name, acc), LAMBDA q : Some(q, acc))

NoOptions == [options |-> <<>>, json_name |-> <<>>, default |-> <<>>]
BracketOptions(s) ==
  IF peek(s) # "[" THEN Some(s, NoOptions)
  ELSE Then(Loop(advance(s), "]", LAMBDA q, acc : SkipComma(parse_field_option(q, acc)), NoOptions),
            LAMBDA q, o : Some(expect(q, "]"), o))

(* `name = number [options] ;' *)
NumberedName(s) ==
  Then(expect_ident(s), LAMBDA q, name :
    Then(expect_int(expect(q, "=")), LAMBDA u, number :
      Then(BracketOptions(u), LAMBDA w, o :
        Some(expect(w, ";"), [name |-> name, number |-> number, options |-> o.options,
                              json_name |-> o.json_name, default |-> o.default]))))

parse_field(s) ==
  LET l == parse_label(s)
  IN  Then(parse_type_ref(l.s), LAMBDA q, ty :
        Then(NumberedName(q), LAMBDA u, f :
          Some(u, [name |-> f.name, number |-> f.number, ty |-> ty, label |-> l.v,
                   json_name |-> f.json_name, default |-> f.default, options |-> f.options])))

(* A member of a oneof keeps neither json_name nor default, and a broken one ends the oneof. *)
parse_oneof_member(s, oneof) ==
  Then(parse_field(s), LAMBDA q, f :
    Some(q, [oneof EXCEPT !.fields = Append(@, [f EXCEPT !.json_name = <<>>, !.default = <<>>])]))
(* An option of the oneof is read before its brace. *)
OneofHead(s, oneof) == IF peek(s) = "option" THEN Push(parse_option_stmt(s), oneof, "options") ELSE Some(s, oneof)
parse_oneof(s) ==
  Then(expect_ident(advance(s)), LAMBDA q, name :
    Then(OneofHead(q, [name |-> name, fields |-> <<>>, options |-> <<>>]), LAMBDA u, head :
      Then(Loop(expect(u, "{"), "}", parse_oneof_member, head), LAMBDA w, oneof :
        Some(expect(w, "}"), oneof))))

parse_map(s) ==
  Then(parse_type_ref(expect(advance(s), "<")), LAMBDA q, key :
    Then(parse_type_ref(expect(q, ",")), LAMBDA u, value :
      Then(NumberedName(expect(u, ">")), LAMBDA w, f :
        Some(w, [name |-> f.name, number |-> f.number, key |-> key, value |-> value,
                 options |-> f.options]))))

(* The ranges after `reserved' or `extensions'; `to' without a bound ends where it starts. *)
IsBound(t) == t = "max" \/ t \in DOMAIN IntOf
RangeEnd(s) == IF peek(s) # "to" THEN Some(s, <<>>)
               ELSE IF IsBound(peek(advance(s))) THEN Some(advance(advance(s)), <<peek(advance(s))>>)
               ELSE Some(advance(s), <<>>)
RECURSIVE parse_ranges(_, _)
parse_ranges(s, ranges) ==
  IF peek(s) \notin DOMAIN IntOf THEN Some(error(s), ranges)
  ELSE Then(RangeEnd(advance(s)), LAMBDA q, end :
         LET rs == Append(ranges, [start |-> peek(s), end |-> end])
         IN  IF peek(q) = "," THEN parse_ranges(advance(q), rs) ELSE Some(q, rs))

RECURSIVE StringList(_, _)
StringList(s, names) ==
  LET q    == advance(s)
      more == Append(names, TextOf[peek(s)])
  IN  IF peek(s) \notin Strings THEN Some(s, names)
      ELSE IF peek(q) = "," THEN StringList(advance(q), more) ELSE Some(q, more)

(* Names are added to those of the block; ranges take the place of earlier ones. *)
parse_reserved(s, block) ==
  IF peek(advance(s)) \in Strings
  THEN Then(StringList(advance(s), block.reserved_names), LAMBDA q, names :
         Some(expect(q, ";"), [block EXCEPT !.reserved_names = names]))
  ELSE Then(parse_ranges(advance(s), <<>>), LAMBDA q, ranges :
         Some(expect(q, ";"), [block EXCEPT !.reserved_ranges = ranges]))

parse_extensions(s, msg) ==
  Then(parse_ranges(advance(s), <<>>), LAMBDA q, ranges :
    Some(expect(q, ";"), [msg EXCEPT !.extension_ranges = ranges]))

parse_enum_option(s, en) ==
  Either(parse_option_stmt(s), LAMBDA q, o :
           Some(q, [en EXCEPT !.options = Append(@, o),
                              !.allow_alias = @ \/ (o.name = <<"allow_alias">> /\ o.value.toks = <<"true">>)]),
         LAMBDA q : Some(q, en))
parse_enum_value(s, en) ==
  Then(NumberedName(s), LAMBDA q, v :
    Some(q, [en EXCEPT !.values = Append(@, [name |-> v.name, number |-> v.number, options |-> v.options])]))
parse_enum_item(s, en) ==
  CASE peek(s) = "option"   -> parse_enum_option(s, en)
    [] peek(s) = "reserved" -> parse_reserved(s, en)
    [] peek(s) \notin {"option", "reserved"} /\ IsIdent(peek(s)) -> parse_enum_value(s, en)
    [] OTHER -> Unexpected(s, en)
parse_enum(s) ==
  Then(expect_ident(advance(s)), LAMBDA q, name :
    Then(Loop(expect(q, "{"), "}", parse_enum_item,
              [name |-> name, values |-> <<>>, reserved_ranges |-> <<>>, reserved_names |-> <<>>,
               options |-> <<>>, allow_alias |-> FALSE]),
         LAMBDA u, en : Some(expect(u, "}"), en)))

(* `( [stream] type )', the two halves of a method's signature *)
SignatureType(s, stream) ==
  Then(parse_type_ref(s), LAMBDA q, ty : Some(expect(q, ")"), [ty |-> ty, stream |-> stream]))
Signature(s) ==
  LET q == expect(s, "(")
  IN  SignatureType(Skip(q, "stream"), peek(q) = "stream")

parse_method_option(s, options) ==
  Either(parse_option_stmt(s), LAMBDA q, o : Some(q, Append(options, o)), LAMBDA q : Some(advance(q), options))
MethodOptions(s) ==
  IF peek(s) # "{" THEN Some(expect(s, ";"), <<>>)
  ELSE Then(Loop(advance(s), "}", parse_method_option, <<>>), LAMBDA q, options : Some(expect(q, "}"), options))
parse_method(s) ==
  Then(expect_ident(advance(s)), LAMBDA q, name :
    Then(Signature(q), LAMBDA u, in :
      IF peek(u) # "returns" THEN None(error(u))
      ELSE Then(Signature(advance(u)), LAMBDA w, out :
        Then(MethodOptions(w), LAMBDA x, options :
          Some(x, [name |-> name, input |-> in.ty, output |-> out.ty, client_streaming |-> in.stream,
                   server_streaming |-> out.stream, options |-> options])))))

parse_service_item(s, service) ==
  CASE peek(s) = "option" -> Push(parse_option_stmt(s), service, "options")
    [] peek(s) = "rpc"    -> PushOrRecover(parse_method(s), service, "methods")
    [] OTHER              -> Unexpected(s, service)
parse_service(s) ==
  Then(expect_ident(advance(s)), LAMBDA q, name :
    Then(Loop(expect(q, "{"), "}", parse_service_item, [name |-> name, methods |-> <<>>, options |-> <<>>]),
         LAMBDA u, service : Some(expect(u, "}"), service)))

parse_extend_item(s, ext) ==
  IF peek(s) = "option" THEN Push(parse_option_stmt(s), ext, "options")
  ELSE PushOrRecover(parse_field(s), ext, "fields")
parse_extend(s) ==
  Then(expect_ident(advance(s)), LAMBDA q, extendee :
    Then(Loop(expect(q, "{"), "}", parse_extend_item, [extendee |-> extendee, fields |-> <<>>, options |-> <<>>]),
         LAMBDA u, ext : Some(expect(u, "}"), ext)))

(* The brace that closes the one at the cursor, or the end of the source *)
skip_balanced_block(s) ==
  LET Level(i) == Cardinality({j \in s.p .. i : s.t[j] = "{"}) - Cardinality({j \in s.p .. i : s.t[j] = "}"})
      ends     == {i \in s.p .. Len(s.t) : s.t[i] = "}" /\ Level(i) <= 0}
  IN  [s EXCEPT !.p = IF ends = {} THEN Len(s.t) + 1 ELSE 1 + CHOOSE i \in ends : \A j \in ends : i <= j]

EmptyMessage(name, is_group) ==
  [name |-> name, fields |-> <<>>, oneofs |-> <<>>, maps |-> <<>>, nested_messages |-> <<>>,
   nested_enums |-> <<>>, nested_extends |-> <<>>, reserved_ranges |-> <<>>, reserved_names |-> <<>>,
   extension_ranges |-> <<>>, options |-> <<>>, is_group |-> is_group]

RECURSIVE parse_message(_, _)
parse_message_item(s, msg) ==
  CASE peek(s) = "option"     -> Push(parse_option_stmt(s), msg, "options")
    [] peek(s) = "message"    -> PushOrRecover(parse_message(s, FALSE), msg, "nested_messages")
    [] peek(s) = "enum"       -> PushOrRecover(parse_enum(s), msg, "nested_enums")
    [] peek(s) = "oneof"      -> PushOrRecover(parse_oneof(s), msg, "oneofs")
    [] peek(s) = "map"        -> PushOrRecover(parse_map(s), msg, "maps")
    [] peek(s) = "reserved"   -> parse_reserved(s, msg)
    [] peek(s) = "extensions" -> parse_extensions(s, msg)
    [] peek(s) = "extend"     -> PushOrRecover(parse_extend(s), msg, "nested_extends")
    [] peek(s) = "group"      -> PushOrRecover(parse_message(s, TRUE), msg, "nested_messages")
    [] OTHER -> IF peek(s) = "." \/ IsIdent(peek(s)) THEN PushOrRecover(parse_field(s), msg, "fields")
                ELSE Unexpected(s, msg)

(* A group is a message that has itself as a field. *)
parse_message_inner(s, is_group) ==
  Then(expect_ident(advance(s)), LAMBDA q, name :
    LET n    == expect_int(expect(q, "="))
        self == [name |-> name, number |-> IF n.ok THEN n.v ELSE "0", ty |-> <<name>>,
                 label |-> <<"optional">>, json_name |-> <<>>, default |-> <<>>, options |-> <<>>]
        m    == EmptyMessage(name, is_group)
        msg  == IF is_group THEN [m EXCEPT !.fields = <<self>>] ELSE m
    IN  Then(Loop(expect(IF is_group THEN n.s ELSE q, "{"), "}", parse_message_item, msg),
             LAMBDA u, done : Some(expect(u, "}"), done)))

(* Too deep: one token is skipped, and a block only if it follows at once. *)
parse_message(s, is_group) ==
  IF s.d >= MAX_PROTO_NESTING
  THEN LET q == advance(error(s)) IN None(IF peek(q) = "{" THEN skip_balanced_block(q) ELSE q)
  ELSE [parse_message_inner([s EXCEPT !.d = @ + 1, !.deepest = IF @ > s.d THEN @ ELSE s.d + 1], is_group)
          EXCEPT !.s.d = s.d]

EmptyFile(name) ==
  [name |-> name, syntax |-> <<>>, edition |-> <<>>, package |-> <<>>, imports |-> <<>>, options |-> <<>>,
   messages |-> <<>>, enums |-> <<>>, services |-> <<>>, extensions |-> <<>>]

(* Where a file-level statement stops short, what was read of it is kept or left. *)
parse_edition(s, file) ==
  LET q == expect(advance(s), "=")
  IN  IF peek(q) \in Strings THEN Some(expect(advance(q), ";"), [file EXCEPT !.edition = <<TextOf[peek(q)]>>])
      ELSE Some(expect(q, ";"), file)
parse_package(s, file) ==
  Either(expect_ident(advance(s)), LAMBDA q, first :
           LET name == Segments(q, <<first>>, TRUE)
           IN  Some(expect(name.s, ";"), [file EXCEPT !.package = name.v]),
         LAMBDA q : Some(expect(q, ";"), file))
parse_file_item(s, file) ==
  CASE peek(s) = "syntax"  -> Either(parse_syntax(s), LAMBDA q, v : Some(q, [file EXCEPT !.syntax = <<v>>]),
                                     LAMBDA q : Some(q, file))
    [] peek(s) = "edition" -> parse_edition(s, file)
    [] peek(s) = "package" -> parse_package(s, file)
    [] peek(s) = "import"  -> Push(parse_import(s), file, "imports")
    [] peek(s) = "option"  -> Push(parse_option_stmt(s), file, "options")
    [] peek(s) = "message" -> PushOrRecover(parse_message(s, FALSE), file, "messages")
    [] peek(s) = "enum"    -> PushOrRecover(parse_enum(s), file, "enums")
    [] peek(s) = "service" -> PushOrRecover(parse_service(s), file, "services")
    [] peek(s) = "extend"  -> PushOrRecover(parse_extend(s), file, "extensions")
    [] OTHER               -> Unexpected(s, file)

(* What parse_file() makes of the tokens of a file: its syntax tree and the state at the end. *)
parse_file(name, tokens) ==
  Loop([t |-> tokens, p |-> 1, e |-> 0, d |-> 0, deepest |-> 0, h |-> FALSE], "", parse_file_item,
       EmptyFile(name))
=============================================================================
