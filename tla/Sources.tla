------------------------------ MODULE Sources ------------------------------
(***************************************************************************)
(* An author writes a proto file statement by statement, makes slips,      *)
(* annotates it with comments; the parser and the formatter are run on     *)
(* what is there at every moment.                                          *)
(***************************************************************************)
EXTENDS Parser, Formatter

CONSTANTS Forms,         \* for every kind of block, the statements that may be written in it
          Slips,         \* tokens that are written by mistake
          MaxStatements, \* bound on the statements of a source
          MaxBroken,     \* bound on the statements of a source in which a slip is made
          MaxSlips,      \* bound on the slips
          MaxNotes       \* bound on the comments and line breaks added to a source

VARIABLES source,  \* the items of the file
          count,   \* how many statements were written
          open,    \* the kinds of the blocks that are open, the innermost last
          slips,   \* how many slips were made
          notes    \* how many comments and line breaks were added
vars == <<source, count, open, slips, notes>>

Init == source = <<>> /\ count = 0 /\ open = <<"file">> /\ slips = 0 /\ notes = 0

Line(tokens) == [i \in DOMAIN tokens |-> item(tokens[i], IF i = 1 /\ source # <<>> THEN 1 ELSE 0, 0)]

(* A statement is written, or the head of a block. *)
Declare ==
  \E f \in Forms[Last(open)] :
    /\ slips = 0 /\ notes = 0
    /\ count < MaxStatements /\ count' = count + 1
    /\ source' = source \o Line(f.tokens)
    /\ open' = IF f.opens = "" THEN open ELSE Append(open, f.opens)
    /\ UNCHANGED <<slips, notes>>

Close == /\ Len(open) > 1 /\ slips = 0 /\ notes = 0
         /\ source' = source \o Line(<<"}">>)
         /\ open' = Front(open)
         /\ UNCHANGED <<count, slips, notes>>

(* A token is left out, or another one is written in its place. *)
Slip == /\ slips < MaxSlips /\ count <= MaxBroken /\ notes = 0 /\ open = <<"file">>
        /\ slips' = slips + 1
        /\ \E i \in DOMAIN source :
             \/ source' = RemoveAt(source, i)
             \/ \E t \in Slips \ {source[i].t} : source' = [source EXCEPT ![i].t = t]
        /\ UNCHANGED <<count, open, notes>>

(* A comment, with nothing after a line comment on its line, or a blank line, is put in. *)
Annotate ==
  /\ notes < MaxNotes /\ slips = 0 /\ open = <<"file">>
  /\ notes' = notes + 1
  /\ \E i \in DOMAIN source :
       \/ \E c \in Comments, nl \in 0 .. 1 :
            source' = InsertAt([source EXCEPT ![i].nl = IF c \in LineComments /\ @ = 0 THEN 1 ELSE @],
                               i, item(c, IF i = 1 THEN 0 ELSE nl, 0))
       \/ i > 1 /\ source' = [source EXCEPT ![i].nl = 2]
  /\ UNCHANGED <<count, open, slips>>

Next == Declare \/ Close \/ Slip \/ Annotate
Spec == Init /\ [][Next]_vars

----------------------------------------------------------------------------
(* A syntax tree spelled out again, as the language reference defines it. *)
Each(seq, Spell(_)) == FlattenSeq([i \in DOMAIN seq |-> Spell(seq[i])])
Assign(name, c)     == name \o <<"=">> \o c.toks
OptionText(o)       == <<"option">> \o Assign(o.name, o.value)
Numbered(f)         == <<f.name, "=", f.number>> \o Each(f.options, LAMBDA o : Assign(o.name, o.value))
FieldText(f) == f.label \o f.ty \o Numbered(f) \o Each(f.default, LAMBDA c : Assign(<<"default">>, c))
                  \o Each(f.json_name, LAMBDA j : <<"json_name", "=", j>>)
RangeText(r) == <<r.start>> \o Each(r.end, LAMBDA e : <<"to", e>>)
Block(head, body)    == head \o <<"{">> \o body \o <<"}">>
List(keyword, texts) == IF texts = <<>> THEN <<>> ELSE <<keyword>> \o texts
EnumText(e) == Block(<<"enum", e.name>>,
  Each(e.options, OptionText) \o Each(e.values, Numbered) \o List("reserved", Each(e.reserved_ranges, RangeText))
    \o List("reserved", e.reserved_names))
ExtendText(x) == Block(<<"extend", x.extendee>>, Each(x.options, OptionText) \o Each(x.fields, FieldText))
OneofText(o)  == <<"oneof", o.name>> \o Each(o.options, OptionText) \o Block(<<>>, Each(o.fields, FieldText))
MapText(m)    == <<"map", "<">> \o m.key \o <<",">> \o m.value \o <<">">> \o Numbered(m)
Side(ty, stream) == <<"(">> \o (IF stream THEN <<"stream">> ELSE <<>>) \o ty \o <<")">>
MethodText(m) == <<"rpc", m.name>> \o Side(m.input, m.client_streaming) \o <<"returns">>
                   \o Side(m.output, m.server_streaming) \o Block(<<>>, Each(m.options, OptionText))
ServiceText(s) == Block(<<"service", s.name>>, Each(s.options, OptionText) \o Each(s.methods, MethodText))
RECURSIVE MessageText(_)
MessageText(m) ==
  LET own == IF m.is_group THEN Tail(m.fields) ELSE m.fields
  IN  Block(IF m.is_group THEN <<"group", m.name, "=", m.fields[1].number>> ELSE <<"message", m.name>>,
        Each(m.options, OptionText) \o Each(own, FieldText) \o Each(m.oneofs, OneofText) \o Each(m.maps, MapText)
          \o Each(m.nested_messages, MessageText) \o Each(m.nested_enums, EnumText)
          \o Each(m.nested_extends, ExtendText) \o List("reserved", Each(m.reserved_ranges, RangeText))
          \o List("reserved", m.reserved_names) \o List("extensions", Each(m.extension_ranges, RangeText)))
ImportText(i) == <<"import">> \o (IF i.kind = "default" THEN <<>> ELSE <<i.kind>>) \o <<i.path>>
FileText(f) ==
  Each(f.syntax, LAMBDA v : <<"syntax", "=", v>>) \o Each(f.edition, LAMBDA v : <<"edition", "=", v>>)
    \o List("package", f.package) \o Each(f.imports, ImportText) \o Each(f.options, OptionText)
    \o Each(f.messages, MessageText) \o Each(f.enums, EnumText) \o Each(f.services, ServiceText)
    \o Each(f.extensions, ExtendText)

(* How often a token stands at a nesting depth; the separators and the keywords of lists are layout. *)
Separators  == {"{", "}", ";", ",", "[", "]", "reserved", "extensions"}
Depth(t, i) == Cardinality({j \in 1 .. i : t[j] = "{"}) - Cardinality({j \in 1 .. i : t[j] = "}"})
Said(t)     == {<<t[i], Depth(t, i)>> : i \in {j \in DOMAIN t : t[j] \notin Separators}}
Times(t, s) == Cardinality({i \in DOMAIN t : t[i] = s[1] /\ Depth(t, i) = s[2]})
SaysTheSame(t, u) == Said(t) = Said(u) /\ \A s \in Said(t) : Times(t, s) = Times(u, s)

(* What the parser leaves out without a word: *)
Follow(t, i)  == IF i < Len(t) THEN t[i + 1] ELSE ""
Opening(t, i)  == LET opens == {j \in 1 .. i : t[j] = "{" /\ \A k \in j .. i : Depth(t, k) >= Depth(t, j)}
                 IN  IF opens = {} THEN 0 ELSE Max(opens)
BlockKind(t, i) == IF Opening(t, i) < 3 THEN "file" ELSE t[Opening(t, i) - 2]
StatementOf(t, i) == t[1 + Max({0} \cup {j \in 1 .. i - 1 : t[j] \in {";", "{", "}"}})]
Unsaid(t) ==
  \/ \E i \in DOMAIN t :                  \* a value that is missing, or is not of the kind expected
       \/ t[i] \in {"json_name", "edition"} /\ Follow(t, i) = "=" /\ Follow(t, i + 1) \notin Strings
       \/ t[i] = "to" /\ Follow(t, i) \notin DOMAIN IntOf \cup {"max"}
       \/ t[i] \in {"message", "enum", "service", "extend", "option"} /\ i = Len(t)
  \/ \E i \in 2 .. Len(t) :              \* the first token of an option of a method, whatever it is
       /\ t[i - 1] \in {"{", ";"} /\ t[i] # "option" /\ Opening(t, i - 1) > 1
       /\ t[Opening(t, i - 1) - 1] = ")"
  \/ \E i \in DOMAIN t :                  \* json_name and default where there is no place for them
       /\ t[i] \in {"json_name", "default"} /\ Follow(t, i) = "="
       /\ BlockKind(t, i) \in {"oneof", "enum"} \/ StatementOf(t, i) = "map"
  \/ \E i, j \in DOMAIN t :               \* the second of two takes the place of the first
       /\ i < j /\ t[i] = t[j] /\ Opening(t, i) = Opening(t, j)
       /\ \/ t[i] \in {"syntax", "edition", "package"}
          \/ t[i] \in {"reserved", "extensions"} /\ {Follow(t, i), Follow(t, j)} \subseteq DOMAIN IntOf
----------------------------------------------------------------------------
text   == Tokens(source)
parsed == parse_file("f", text)

(* The parser ends on every source, except one with a list constant that   *)
(* holds a token no constant begins with (parse_constant()).               *)
ParserEnds ==
  parsed.s.h => \E i, j \in DOMAIN text :
                  /\ i < j /\ text[i] = "[" /\ \A k \in i .. j : text[k] # "]"
                  /\ text[j] \in Punctuation \ {"{", "[", ","}

(* A file without diagnostics says in its syntax tree what its source says, *)
(* at the same nesting: nothing is dropped, moved or doubled, however the   *)
(* source was broken.  Unsaid lists the exceptions.                         *)
NothingDropped ==
  Lexes(source) /\ ~parsed.s.h /\ parsed.s.e = 0 => SaysTheSame(text, FileText(parsed.v)) \/ Unsaid(text)

(* Where a comment shares the line of a statement that is not over. *)
MidLine(i) == /\ source[i].t \in Comments /\ i > 1 /\ source[i].nl = 0
              /\ source[i - 1].t \notin {";", "}"}
              /\ ~(source[i - 1].t = "{" /\ source[i].t \in LineComments /\ i < Len(source)
                     /\ source[i + 1].t # "}")

(* Formatting keeps every token and every comment, unless a comment stands *)
(* in the middle of a line.  Formatting again changes nothing but the lines *)
(* before and within block comments, and a third time nothing at all unless *)
(* a comment of several lines is indented.                                 *)
FormatKeeps ==
  Lexes(source) /\ (\A i \in DOMAIN source : ~MidLine(i)) =>
    LET once  == Relex(format_source(source))
        twice == Relex(format_source(once))
        third == Relex(format_source(twice))
        texts(s) == [i \in DOMAIN s |-> s[i].t]
    IN  /\ texts(once) = texts(source) /\ texts(twice) = texts(once)
        /\ \A i \in DOMAIN once : once[i].t \notin BlockComments => twice[i] = once[i]
        /\ third = twice \/ \E i \in DOMAIN once : once[i].t \in MultiLine /\ Depth(texts(once), i) > 0
=============================================================================
