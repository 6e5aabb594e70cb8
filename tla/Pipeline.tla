------------------------------ MODULE Pipeline ------------------------------
(***************************************************************************)
(* Compiling files together: the search for imports (resolve_and_parse()   *)
(* of tpt-proto-compiler), the import graph, visibility, the symbol table, *)
(* the resolution of type references and the validation of options         *)
(* (pipeline.rs), and the gate before what the tools do with the result    *)
(* (compile_set_with_includes() of the cli, compile_one() of the build).   *)
(*                                                                         *)
(* A symbol is its fully-qualified path.  HashMaps keyed by file name are  *)
(* functions; when two files have one name the later one is in them.       *)
(***************************************************************************)
EXTENDS Compiler

ByName(files) ==
  [n \in Names(files) |-> files[CHOOSE i \in DOMAIN files : /\ files[i].name = n
                                                            /\ \A j \in i + 1 .. Len(files) : files[j].name # n]]

(***************************************************************************)
(* The parsed files of a directory tree, in the order in which a depth-    *)
(* first visit leaves them; a file is seen when its visit begins.  A file  *)
(* that is not on the disk ends the search, a weak import too.             *)
(***************************************************************************)
RECURSIVE visit(_, _, _)
visit(name, disk, acc) ==
  IF name \in acc.seen THEN acc
  ELSE IF name \notin DOMAIN disk THEN [acc EXCEPT !.ok = FALSE]
  ELSE LET Dep(a, import) == IF a.ok THEN visit(import.path, disk, a) ELSE a
           after == FoldLeft(Dep, [acc EXCEPT !.seen = @ \cup {name}], disk[name].v.imports)
       IN  [after EXCEPT !.files = Append(@, disk[name])]
resolve_and_parse(entry, disk) == visit(entry, disk, [seen |-> {}, files |-> <<>>, ok |-> TRUE])

(***************************************************************************)
(* Import cycles: a depth-first visit that reports a file it meets while   *)
(* the visit of that file is in progress.                                  *)
(***************************************************************************)
RECURSIVE visit_cycle(_, _, _)
visit_cycle(name, by_name, acc) ==
  CASE name \in acc.done     -> acc
    [] name \in acc.progress -> [acc EXCEPT !.diags = @ \cup {<<"error", "Other", name>>}]
    [] OTHER ->
         LET paths == SelectSeq(by_name[name].imports, LAMBDA i : i.path \in DOMAIN by_name)
             after == FoldLeft(LAMBDA a, i : visit_cycle(i.path, by_name, a),
                               [acc EXCEPT !.progress = @ \cup {name}], paths)
         IN  [after EXCEPT !.progress = @ \ {name}, !.done = @ \cup {name}]
detect_import_cycles(files) ==
  FoldLeft(LAMBDA a, f : visit_cycle(f.name, ByName(files), a),
           [progress |-> {}, done |-> {}, diags |-> {}], files).diags

(***************************************************************************)
(* What a file re-exports: the closure of its public imports, memoised.  A *)
(* file whose own closure is being computed contributes nothing, and what  *)
(* was computed meanwhile stays in the memo without it.                    *)
(***************************************************************************)
RECURSIVE reexported_of(_, _, _)
reexported_of(name, by_name, memo) ==
  IF name \in DOMAIN memo THEN [set |-> memo[name], memo |-> memo]
  ELSE LET public == SelectSeq(by_name[name].imports,
                               LAMBDA i : i.kind = "public" /\ i.path \in DOMAIN by_name)
           Add(a, i) == LET r == reexported_of(i.path, by_name, a.memo)
                        IN  [set |-> a.set \cup {i.path} \cup r.set, memo |-> r.memo]
           inside == [n \in DOMAIN memo \cup {name} |-> IF n = name THEN {} ELSE memo[n]]
           all    == FoldLeft(Add, [set |-> {}, memo |-> inside], public)
       IN  [set |-> all.set, memo |-> [all.memo EXCEPT ![name] = all.set]]

(* The files whose symbols each file sees.  The memo is shared by all of them. *)
compute_visibility(files) ==
  LET by_name == ByName(files)
      Direct(a, i) == IF i.path \notin DOMAIN by_name THEN a
                      ELSE LET r == reexported_of(i.path, by_name, a.memo)
                           IN  [a EXCEPT !.vis = @ \cup {i.path} \cup r.set, !.memo = r.memo]
      OneFile(a, f) == LET r == FoldLeft(Direct, [vis |-> {}, memo |-> a.memo], f.imports)
                       IN  [memo |-> r.memo,
                            out |-> [n \in DOMAIN a.out \cup {f.name} |-> IF n = f.name THEN r.vis ELSE a.out[n]]]
  IN  FoldLeft(OneFile, [memo |-> [n \in {} |-> {}], out |-> [n \in {} |-> {}]], files).out

missing_imports(files) ==
  {<<"error", "Other", i.path>> :
     i \in {j \in UNION {Range(f.imports) : f \in Range(files)} :
              j.kind # "weak" /\ j.path \notin Names(files)}}

(***************************************************************************)
(* The symbol table.  Extensions and services define no symbols.           *)
(***************************************************************************)
RECURSIVE collect_message(_, _)
collect_message(m, prefix) ==
  LET fqn == Append(prefix, m.name)
  IN  {fqn} \cup {Append(fqn, e) : e \in Names(m.enums)}
        \cup UNION {collect_message(n, fqn) : n \in Range(m.nested)}
collect_symbols(fd) == UNION {collect_message(m, fd.package) : m \in Range(fd.messages)}
                         \cup {Append(fd.package, e) : e \in Names(fd.enums)}
insert_symbols(fds) == {<<"error", "DuplicateSymbol", s>> :
                          s \in UNION {collect_symbols(fds[i]) \cap collect_symbols(fds[j]) :
                                         <<i, j>> \in {p \in (DOMAIN fds) \X (DOMAIN fds) :
                                                         fds[p[1]].name # fds[p[2]].name}}}

(***************************************************************************)
(* References are looked up from the innermost scope outwards.  The scope  *)
(* of a field is the scope its message is declared in.                     *)
(***************************************************************************)
resolve_type_nameBug(ref, scope, visible) ==      \* Mutant: the outermost scope comes first.
  LET found == {k \in 0 .. Len(scope) : SubSeq(scope, 1, k) \o ref.path \in visible}
  IN  IF ref.abs THEN IF ref.path \in visible THEN <<ref>> ELSE <<>>
      ELSE IF found = {} THEN <<>>
      ELSE <<[abs |-> TRUE, path |-> SubSeq(scope, 1, Min(found)) \o ref.path]>>

resolve_type_name(ref, scope, visible) ==
  LET candidates == IF ref.abs THEN <<ref.path>>
                    ELSE [k \in 1 .. Len(scope) + 1 |-> SubSeq(scope, 1, Len(scope) + 1 - k) \o ref.path]
      found      == SelectSeq(candidates, LAMBDA c : c \in visible)
  IN  IF found = <<>> THEN <<>> ELSE <<[abs |-> TRUE, path |-> found[1]]>>
IfAny(ref, otherwise) == IF ref = <<>> THEN otherwise ELSE ref
OrUnresolved(ref, scope, visible) ==
  IF ref = <<>> THEN ref ELSE IfAny(resolve_type_name(ref[1], scope, visible), ref)
Unknown(ref, scope, visible) ==
  IF ref # <<>> /\ resolve_type_name(ref[1], scope, visible) = <<>>
  THEN {<<"error", "UnknownType", ref[1].path>>} ELSE {}

RECURSIVE resolve_message(_, _, _)
resolve_message(m, prefix, visible) ==
  [m EXCEPT !.fields = Map(LAMBDA f : [f EXCEPT !.type_name = OrUnresolved(@, prefix, visible)], @),
            !.nested = Map(LAMBDA n : resolve_message(n, Append(prefix, m.name), visible), @)]
RECURSIVE unknown_types(_, _, _)
unknown_types(m, prefix, visible) ==
  UNION {Unknown(f.type_name, prefix, visible) : f \in Range(m.fields)}
    \cup UNION {unknown_types(n, Append(prefix, m.name), visible) : n \in Range(m.nested)}
resolve_service(s, package, visible) ==
  [s EXCEPT !.methods = Map(LAMBDA m : [m EXCEPT !.input = OrUnresolved(@, package, visible),
                                                 !.output = OrUnresolved(@, package, visible)], @)]

resolve_references(fd, visible) ==
  [fd |-> [fd EXCEPT !.messages = Map(LAMBDA m : resolve_message(m, fd.package, visible), @),
                     !.services = Map(LAMBDA s : resolve_service(s, fd.package, visible), @)],
   diags |-> UNION {unknown_types(m, fd.package, visible) : m \in Range(fd.messages)}
               \cup UNION {Unknown(m.input, fd.package, visible) \cup Unknown(m.output, fd.package, visible) :
                             m \in Range(Flat(LAMBDA s : s.methods, fd.services))}]

(***************************************************************************)
(* Options.  Known gives the kind of value of the options of a declaration *)
(* that the code knows; custom options, in parentheses, are not looked at. *)
(***************************************************************************)
Known == [file    |-> [java_package |-> "string", deprecated |-> "bool", optimize_for |-> "SPEED"],
          message |-> [deprecated |-> "bool", message_set_wire_format |-> "bool"],
          field   |-> [deprecated |-> "bool", packed |-> "bool", ctype |-> "CORD"],
          enum    |-> [allow_alias |-> "bool", deprecated |-> "bool"],
          value   |-> [deprecated |-> "bool"], oneof |-> [deprecated |-> "bool"],
          map     |-> [deprecated |-> "bool"],
          method  |-> [deprecated |-> "bool", idempotency_level |-> "IDEMPOTENT"],
          none    |-> [n \in {} |-> ""]]
value_matches(c, kind) == c.kind = kind \/ (c.kind = "ident" /\ c.toks = <<kind>>)
validate_options(opts, known) ==
  UNION {IF o.name[1] = "(" THEN {}
         ELSE IF Len(o.name) = 1 /\ o.name[1] \in DOMAIN Known[known]
              THEN IF value_matches(o.value, Known[known][o.name[1]]) THEN {}
                   ELSE {<<"error", "InvalidOption", o.name>>}
         ELSE {<<"warning", "InvalidOption", o.name>>} : o \in Range(opts)}
OptionsOf(seq, known) == UNION {validate_options(x.options, known) : x \in Range(seq)}
EnumOptions(enums)    == OptionsOf(enums, "enum") \cup OptionsOf(Flat(LAMBDA e : e.values, enums), "value")
ExtendOptions(exts)   == OptionsOf(exts, "none") \cup OptionsOf(Flat(LAMBDA x : x.fields, exts), "field")
RECURSIVE validate_message_options(_)
validate_message_options(m) ==
  validate_options(m.options, "message") \cup OptionsOf(m.fields, "field") \cup OptionsOf(m.oneofs, "oneof")
    \cup OptionsOf(OneofFields(m), "field") \cup OptionsOf(m.maps, "map") \cup EnumOptions(m.nested_enums)
    \cup ExtendOptions(m.nested_extends) \cup UNION {validate_message_options(n) : n \in Range(m.nested_messages)}
validate_options_in_file(f) ==
  validate_options(f.options, "file") \cup UNION {validate_message_options(m) : m \in Range(f.messages)}
    \cup EnumOptions(f.enums) \cup OptionsOf(f.services, "none")
    \cup OptionsOf(Flat(LAMBDA s : s.methods, f.services), "method") \cup ExtendOptions(f.extensions)

(***************************************************************************)
(* compile_set(): every step runs whatever the earlier ones reported.      *)
(***************************************************************************)
Linked(files, fds, sees) ==
  LET SymbolsOf(n) == UNION {collect_symbols(fd) : fd \in {fds[i] : i \in {j \in DOMAIN fds : fds[j].name = n}}}
      Visible(n)   == UNION {SymbolsOf(d) : d \in {n} \cup sees[n]}
  IN  Map(LAMBDA fd : resolve_references(fd, Visible(fd.name)), fds)
Result(files, converted, resolved) ==
  [set |-> Map(LAMBDA r : r.fd, resolved),
   features |-> [n \in Names(files) |-> for_syntax(ByName(files)[n])],
   diags |-> Duplicated(NamesOf(files)) \cup detect_import_cycles(files) \cup missing_imports(files)
               \cup UNION {c.diags : c \in Range(converted)} \cup insert_symbols(Map(LAMBDA c : c.fd, converted))
               \cup UNION {r.diags : r \in Range(resolved)}
               \cup UNION {validate_options_in_file(f) : f \in Range(files)}]
compile_set(files) ==
  LET converted == Map(compile, files)
  IN  Result(files, converted, Linked(files, Map(LAMBDA c : c.fd, converted), compute_visibility(files)))

(* What the tools go on with: the descriptors of an entry and its imports, unless there is an error. *)
Gate(found, result) ==
  IF found.ok /\ (\A r \in Range(found.files) : r.s.e = 0) /\ Errors(result.diags) = {}
  THEN <<result.set>> ELSE <<>>
compile_set_with_includes(entry, disk) ==
  LET found == resolve_and_parse(entry, disk) IN Gate(found, compile_set(Map(LAMBDA r : r.v, found.files)))
=============================================================================
