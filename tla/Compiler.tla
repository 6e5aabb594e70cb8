------------------------------ MODULE Compiler ------------------------------
(***************************************************************************)
(* The compiler of one file (lib.rs and features.rs of tpt-proto-compiler) *)
(* from the syntax tree of the parser to a descriptor and diagnostics.     *)
(*                                                                         *)
(* A diagnostic is <<severity, code, what>>.  A reference to a type is the *)
(* path of identifiers written and whether it began with a dot; a resolved *)
(* reference is absolute.  A number is kept as the code keeps it, in 32    *)
(* bits: the end `max' of a range, the largest 64-bit value, becomes -1.   *)
(***************************************************************************)
EXTENDS Parser, SequencesExt

CONSTANTS JsonNameOf,            \* lowerCamelCase of the field names that it changes
          MaxFieldNumber,        \* 536870911
          ImplementationNumbers  \* 19000 .. 19999

Map(Op(_), seq) == [i \in DOMAIN seq |-> Op(seq[i])]
Flat(Op(_), seq) == FlattenSeq(Map(Op, seq))
Errors(diags)   == {d \in diags : d[1] = "error"}
Names(seq)      == {seq[i].name : i \in DOMAIN seq}

to_json_name(n) == IF n \in DOMAIN JsonNameOf THEN JsonNameOf[n] ELSE n

scalar_to_field_type(s) == IF s = "int32" THEN "Int32" ELSE "String"

(* The simple names of the enums that a file defines, at any depth *)
RECURSIVE collect_enum_names(_)
collect_enum_names(scope) ==
  LET enums == IF "enums" \in DOMAIN scope THEN scope.enums ELSE scope.nested_enums
      inner == IF "messages" \in DOMAIN scope THEN scope.messages ELSE scope.nested_messages
  IN  Names(enums) \cup UNION {collect_enum_names(inner[i]) : i \in DOMAIN inner}

(* A name is an enum if an enum of this file has the same last segment, and a message otherwise. *)
resolve_type(ty, enum_names) ==
  LET path == SelectSeq(ty, LAMBDA t : t # ".")
  IN  IF ty[1] \in Scalars THEN [type |-> scalar_to_field_type(ty[1]), type_name |-> <<>>]
      ELSE [type |-> IF Last(path) \in enum_names THEN "Enum" ELSE "Message",
            type_name |-> <<[abs |-> ty[1] = ".", path |-> path]>>]

check_field_number(number) ==
  (IF number \in 1 .. MaxFieldNumber THEN {} ELSE {<<"error", "InvalidFieldNumber", number>>})
    \cup (IF number \in ImplementationNumbers THEN {<<"warning", "InvalidFieldNumber", number>>} ELSE {})

convert_label(label) == IF label = <<>> THEN "optional" ELSE label[1]
constant_to_text(c)  == IF c.kind \in {"aggregate", "list"} THEN <<>> ELSE c.toks

convert_field(f, enum_names, syntax) ==
  LET r == resolve_type(f.ty, enum_names)
  IN  [name |-> f.name, number |-> IntOf[f.number], label |-> convert_label(f.label), type |-> r.type,
       type_name |-> r.type_name, default |-> Map(constant_to_text, f.default),
       json_name |-> IF f.json_name = <<>> THEN <<to_json_name(f.name)>> ELSE f.json_name,
       proto3_optional |-> f.label = <<"optional">> /\ syntax = "proto3", oneof_index |-> 0]

range_to_descriptor(r) ==
  [start |-> IntOf[r.start],
   end |-> IF r.end = <<>> THEN IntOf[r.start] ELSE IF r.end = <<"max">> THEN -1 ELSE IntOf[r.end[1]]]

(* A map is a repeated field of a message of two fields that is nested under its name. *)
EntryOf(mf) == mf.name \o "Entry"
map_entry(mf, enum_names) ==
  LET Part(name, number, ty) ==
        LET r == resolve_type(ty, enum_names)
        IN  [name |-> name, number |-> number, label |-> "optional", type |-> r.type, type_name |-> r.type_name,
             default |-> <<>>, json_name |-> <<>>, proto3_optional |-> FALSE, oneof_index |-> 0]
  IN  [name |-> EntryOf(mf), fields |-> <<Part("key", 1, mf.key), Part("value", 2, mf.value)>>, oneofs |-> 0,
       nested |-> <<>>, enums |-> <<>>, extensions |-> <<>>, reserved_ranges |-> <<>>, reserved_names |-> <<>>,
       extension_ranges |-> <<>>, map_entry |-> TRUE]

convert_enum(e) ==
  [name |-> e.name, values |-> Map(LAMBDA v : [name |-> v.name, number |-> IntOf[v.number]], e.values),
   reserved_ranges |-> Map(range_to_descriptor, e.reserved_ranges), reserved_names |-> e.reserved_names]

Reused(e) == IF e.allow_alias THEN {}
             ELSE {<<"warning", "Other", e.values[j].name>> :
                     j \in {k \in DOMAIN e.values : \E i \in 1 .. k - 1 : e.values[i].number = e.values[k].number}}

(* The members of oneofs come first, then fields, then maps; entries come before nested messages. *)
RECURSIVE convert_message(_, _, _, _)
convert_message(m, path, enum_names, syntax) ==
  LET self == Append(path, m.name)
      Member(i) == Map(LAMBDA f : [convert_field(f, enum_names, syntax) EXCEPT
                                     !.label = "optional", !.proto3_optional = FALSE, !.oneof_index = i],
                       m.oneofs[i].fields)
      MapField(mf) == [name |-> mf.name, number |-> IntOf[mf.number], label |-> "repeated", type |-> "Message",
                       type_name |-> <<[abs |-> TRUE, path |-> Append(self, EntryOf(mf))]>>, default |-> <<>>,
                       json_name |-> <<>>, proto3_optional |-> FALSE, oneof_index |-> 0]
  IN  [name |-> m.name, oneofs |-> Len(m.oneofs),
       fields |-> FlattenSeq([i \in DOMAIN m.oneofs |-> Member(i)])
                    \o Map(LAMBDA f : convert_field(f, enum_names, syntax), m.fields) \o Map(MapField, m.maps),
       nested |-> Map(LAMBDA mf : map_entry(mf, enum_names), m.maps)
                    \o Map(LAMBDA n : convert_message(n, self, enum_names, syntax), m.nested_messages),
       enums |-> Map(convert_enum, m.nested_enums),
       extensions |-> Flat(LAMBDA x : Map(LAMBDA f : convert_field(f, enum_names, syntax), x.fields), m.nested_extends),
       reserved_ranges |-> Map(range_to_descriptor, m.reserved_ranges), reserved_names |-> m.reserved_names,
       extension_ranges |-> Map(range_to_descriptor, m.extension_ranges), map_entry |-> FALSE]

convert_service(s) ==
  LET TypeRefName(ty) == IF ty[1] \in Scalars THEN <<>> ELSE resolve_type(ty, {}).type_name
  IN  [name |-> s.name,
       methods |-> Map(LAMBDA m : [name |-> m.name, input |-> TypeRefName(m.input), output |-> TypeRefName(m.output),
                                   streaming |-> <<m.client_streaming, m.server_streaming>>], s.methods)]

(* Members of oneofs count as fields of their message, maps do not. *)
Duplicates(names) == {names[j] : j \in {k \in DOMAIN names : \E i \in 1 .. k - 1 : names[i] = names[k]}}
Duplicated(names) == {<<"error", "DuplicateSymbol", n>> : n \in Duplicates(names)}
NamesOf(seq)      == Map(LAMBDA x : x.name, seq)
OneofFields(m)    == Flat(LAMBDA o : o.fields, m.oneofs)

RECURSIVE MessageDiagnostics(_)
MessageDiagnostics(m) ==     \* check_message_duplicates() and what the conversion reports
  Duplicated(NamesOf(m.fields) \o NamesOf(OneofFields(m)))
    \cup UNION {check_field_number(IntOf[f.number]) :
                  f \in Range(m.fields) \cup Range(OneofFields(m)) \cup Range(m.maps)
                          \cup Range(Flat(LAMBDA x : x.fields, m.nested_extends))}
    \cup UNION {Reused(e) : e \in Range(m.nested_enums)}
    \cup UNION {MessageDiagnostics(n) : n \in Range(m.nested_messages)}

check_duplicates(file) == Duplicated(NamesOf(file.messages) \o NamesOf(file.enums))

syntax_of(file) == IF file.edition # <<>> THEN "editions"
                   ELSE IF file.syntax = <<>> THEN "proto2" ELSE file.syntax[1]
package_of(file) == SelectSeq(file.package, LAMBDA t : t # ".")

compile(file) ==
  LET enum_names == collect_enum_names(file)
      syntax     == syntax_of(file)
  IN  [fd |-> [name |-> file.name, package |-> package_of(file), syntax |-> syntax, dependency |-> file.imports,
               messages |-> Map(LAMBDA m : convert_message(m, package_of(file), enum_names, syntax), file.messages),
               enums |-> Map(convert_enum, file.enums), services |-> Map(convert_service, file.services),
               extensions |-> Flat(LAMBDA x : Map(LAMBDA f : convert_field(f, enum_names, syntax), x.fields),
                                   file.extensions)],
       diags |-> check_duplicates(file)
                   \cup UNION {MessageDiagnostics(m) : m \in Range(file.messages)}
                   \cup UNION {Reused(e) : e \in Range(file.enums)}
                   \cup UNION {check_field_number(IntOf[f.number]) : f \in Range(Flat(LAMBDA x : x.fields, file.extensions))}]

----------------------------------------------------------------------------
(* The features of a file: presence of fields, openness of enums, packing, UTF-8 checks, JSON. *)
Features(presence, enum_type, repeated, utf8, json) ==
  [field_presence |-> presence, enum_type |-> enum_type, repeated_field_encoding |-> repeated,
   utf8_validation |-> utf8, json_format |-> json, message_encoding |-> "LengthPrefixed"]
for_proto2 == Features("LegacyRequired", "Closed", "Expanded", "None", "LegacyBestEffort")
for_proto3 == Features("Implicit", "Open", "Packed", "Verify", "Allow")
for_edition(e) == IF e = "2024" THEN Features("Explicit", "Closed", "Packed", "Verify", "Allow") ELSE for_proto3
for_syntax(file) == IF file.edition # <<>> THEN for_edition(file.edition[1])
                    ELSE IF syntax_of(file) = "proto3" THEN for_proto3 ELSE for_proto2
=============================================================================
