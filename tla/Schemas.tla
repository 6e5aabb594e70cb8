------------------------------ MODULE Schemas ------------------------------
(***************************************************************************)
(* The releases of module Releases with the parser and the compiler that   *)
(* lint_files() calls, and what the compiler makes of references.          *)
(***************************************************************************)
EXTENDS SourceTree, Releases, Relation

(* What compiling the entry gives, for every state of the tree *)
CompiledEntry == [d \in Disks |-> compile_set_with_includes(EntryFile, OnDisk(d))]

(* The numbers that the source text of an entry declares reserved; an end of 0 is read as the start. *)
RangeOf(r) == LET start == IntOf[r.start]
                  end   == IF r.end = <<>> THEN start ELSE IF r.end = <<"max">> THEN MaxNumber ELSE IntOf[r.end[1]]
              IN  start .. (IF end = 0 THEN start ELSE end)
RECURSIVE ReservedIn(_, _, _)
ReservedIn(messages, taken, path) ==
  UNION {{<<Append(path, messages[i].name), n>> :
            n \in (UNION {RangeOf(r) : r \in Range(messages[i].reserved_ranges)}) \cap 1 .. MaxNumber}
           \cup ReservedIn(messages[i].nested_messages, {EntryOf(mf) : mf \in Range(messages[i].maps)},
                           Append(path, messages[i].name)) :
           i \in {j \in DOMAIN messages : messages[j].name \notin taken \cup Names(SubSeq(messages, 1, j - 1))}}
ReservedText == [v \in DOMAIN Versions[EntryFile] |->
                   LET file == Parsed[EntryFile][v].v IN ReservedIn(file.messages, {}, package_of(file))]

----------------------------------------------------------------------------
(***************************************************************************)
(* What the language reference says of references: a name is looked up in  *)
(* the scope it is used in and then outwards, among what the file itself,  *)
(* its imports and what they import publicly declare.                      *)
(***************************************************************************)
RECURSIVE DeclaredIn(_, _)
DeclaredIn(m, path) ==
  LET self == Append(path, m.name)
  IN  {self} \cup {Append(self, n) : n \in Names(m.nested_enums) \cup {EntryOf(mf) : mf \in Range(m.maps)}}
        \cup UNION {DeclaredIn(n, self) : n \in Range(m.nested_messages)}
Declared(f) == UNION {DeclaredIn(m, package_of(f)) : m \in Range(f.messages)}
                 \cup {Append(package_of(f), e) : e \in Names(f.enums)}

(* The references of a file: the scope they are used in, the field or method they belong to, the name used *)
RECURSIVE UsesIn(_, _)
UsesIn(m, path) ==
  LET self == Append(path, m.name)
  IN  {[scope |-> self, by |-> f.name, ty |-> f.ty] : f \in Range(m.fields) \cup Range(OneofFields(m))}
        \cup UNION {{[scope |-> Append(self, EntryOf(mf)), by |-> "key", ty |-> mf.key],
                     [scope |-> Append(self, EntryOf(mf)), by |-> "value", ty |-> mf.value]} : mf \in Range(m.maps)}
        \cup UNION {UsesIn(n, self) : n \in Range(m.nested_messages)}
NamedTypes(uses) == {u \in uses : u.ty[1] \notin Scalars}
FieldUses(f)  == NamedTypes(UNION {UsesIn(m, package_of(f)) : m \in Range(f.messages)})
MethodUses(f) == NamedTypes(UNION {UNION {{[scope |-> package_of(f), by |-> m.name, ty |-> m.input],
                                           [scope |-> package_of(f), by |-> m.name, ty |-> m.output]} :
                                            m \in Range(s.methods)} : s \in Range(f.services)})
Written(ty)   == SelectSeq(ty, LAMBDA t : t # ".")

Resolves(files, result) ==
  LET names     == Names(files)
      file      == [n \in names |-> CHOOSE f \in Range(files) : f.name = n]
      Imports(kinds) == [m, n \in names |-> \E i \in Range(file[m].imports) : i.path = n /\ i.kind \in kinds]
      direct    == Imports({"default", "public", "weak"})
      reaches   == TransitiveClosure(direct, names)
      passes    == ReflexiveTransitiveClosure(Imports({"public"}), names)
      Sees(n)   == {n} \cup {m \in names : \E d \in names : direct[n, d] /\ passes[d, m]}
      Visible(n) == UNION {Declared(file[m]) : m \in Sees(n)}
      Scopes(u)  == {Written(u.ty)} \cup IF u.ty[1] = "." THEN {}
                    ELSE {SubSeq(u.scope, 1, k) \o Written(u.ty) : k \in 1 .. Len(u.scope)}
      Targets(n, u)  == Scopes(u) \cap Visible(n)
      Innermost(n, u) == CHOOSE t \in Targets(n, u) : \A o \in Targets(n, u) : Len(o) <= Len(t)
      Outcome(n) == CHOOSE fd \in Range(result.set) : fd.name = n
      Dangling   == {Written(u.ty) : u \in UNION {{v \in FieldUses(file[n]) \cup MethodUses(file[n]) :
                                                     Targets(n, v) = {}} : n \in names}}
      OwnScope(n, u) == u.ty[1] # "." /\ u.by \notin {"key", "value"} /\ u.scope \o Written(u.ty) \in Visible(n)
  IN  IF \E n \in names : reaches[n, n]
      THEN \E d \in result.diags : d[1] = "error" /\ d[2] = "Other"
      ELSE /\ \A d \in result.diags : d[2] # "Other" \/ d[1] = "warning"
           /\ Dangling = {d[3] : d \in {e \in result.diags : e[2] = "UnknownType"}}
                 \/ \E n \in names : \E u \in FieldUses(file[n]) : OwnScope(n, u)
           /\ \A n \in names : \A u \in FieldUses(file[n]) :
                Targets(n, u) # {} /\ ~OwnScope(n, u) =>
                  \E x \in MessagesOf(Outcome(n)) : \E f \in Range(x.m.fields) :
                    /\ x.path = u.scope /\ f.name = u.by
                    /\ f.type_name = <<[abs |-> TRUE, path |-> Innermost(n, u)]>>

FilesOf(found) == Map(LAMBDA r : r.v, found.files)
WellResolved(found) == found.ok => Resolves(FilesOf(found), compile_set(FilesOf(found)))
ResolvedWell == [d \in Disks |-> \A f \in Files : WellResolved(resolve_and_parse(f, OnDisk(d)))]

(* Whatever file the compiler starts from, it reports a cycle of imports   *)
(* exactly when there is one; without one, every reference of a field is   *)
(* resolved to the innermost declaration that the file can see, and is an  *)
(* unknown type exactly when there is none.  A name that the message of    *)
(* the field declares itself is the exception: it is not looked up there.  *)
ReferencesResolve == ResolvedWell[disk]
=============================================================================
