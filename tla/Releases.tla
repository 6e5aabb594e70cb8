------------------------------ MODULE Releases ------------------------------
(***************************************************************************)
(* The life of a schema: authors edit the files of a source tree, and a    *)
(* release of its entry file is made when the files compile and the lint   *)
(* command finds nothing breaking against the entry file released last.    *)
(*                                                                         *)
(* lint_files() compiles the two versions of the entry file with the same  *)
(* include directories, so the old version is compiled again with the      *)
(* imports as they are now.  What the compiler makes of the entry file and *)
(* its imports is Compiled; module Schemas gives it the compiler.          *)
(***************************************************************************)
EXTENDS ProtoFiles, Lint

CONSTANTS EntryFile,     \* the file that is released
          MaxReleases,   \* bound on the releases
          MaxNumber,     \* bound on the reserved numbers that are looked at
          Compiled,      \* for every state of the tree, <<the files compiled, the entry last>> or <<>>
          ReservedBy     \* the numbers that a version of the entry declares reserved

FileOf(set) == set[1][Len(set[1])]

(***************************************************************************)
(* The messages of a file, by their depth.  Two messages inside of another *)
(* may have one name, which the compiler accepts; lint looks at the first. *)
(***************************************************************************)
Nodes(path, list, first) ==
  {[path |-> Append(path, list[i].name), m |-> list[i],
    first |-> first /\ \A j \in DOMAIN list : list[j].name = list[i].name => i <= j] : i \in DOMAIN list}
Deeper(nodes) == UNION {Nodes(x.path, x.m.nested, x.first) : x \in nodes}
Level(fd) == LET level[k \in Nat] == IF k = 0 THEN Nodes(fd.package, fd.messages, TRUE) ELSE Deeper(level[k - 1])
             IN  level
MessagesOf(fd) == UNION {Level(fd)[k] : k \in 0 .. MaxNesting}
FirstOnes(fd)  == {x \in MessagesOf(fd) : x.first}

(* What the fields of a file mean to the data that is written with it *)
GivenOnce(m, number) == \A i, j \in Places(m, number) : i = j
Meaning(x, f) == [at |-> x.path, number |-> f.number, name |-> f.name, type |-> f.type, label |-> f.label,
                  of |-> f.type_name, twice |-> ~GivenOnce(x.m, f.number)]
Meanings(fd)  == UNION {{Meaning(x, f) : f \in Range(x.m.fields)} : x \in FirstOnes(fd)}
Use(h)          == <<h.at, h.number>>
InUse(meanings) == {Use(h) : h \in meanings}

(* The numbers that it declares reserved; a range without an upper bound ends at -1. *)
Holds(r, n)  == r.start <= n /\ (r.end = -1 \/ n <= (IF r.end = 0 THEN r.start ELSE r.end))
Reserved(fd) ==
  UNION {{<<x.path, n>> : n \in {k \in 1 .. MaxNumber : \E r \in Range(x.m.reserved_ranges) : Holds(r, k)}} :
           x \in FirstOnes(fd)}

(***************************************************************************)
(* What the compiler guarantees of its descriptors: names and numbers have *)
(* their types, the numbers of a range fit into 31 bits, the imports of a  *)
(* file decide its references and nothing else, and a file that is not     *)
(* there does not compile.                                                 *)
(***************************************************************************)
Descriptor(fd) ==
  /\ fd.package \in Seq(STRING)
  /\ \A list \in {fd.messages, fd.enums, fd.services} \cup {s.methods : s \in Range(fd.services)} :
       DOMAIN list \subseteq Nat
  /\ \A x \in MessagesOf(fd) :
       /\ x.m.name \in STRING
       /\ \A list \in {x.m.nested, x.m.fields, x.m.enums} : DOMAIN list \subseteq Nat
       /\ \A r \in Range(x.m.reserved_ranges) \cup Range(x.m.extension_ranges) : r.start \in Nat /\ r.end \in Int
CompiledFrom(v)  == {d \in Disks : d[EntryFile] = v /\ Compiled[d] # <<>>}
Unreferenced(fd) == {[h EXCEPT !.of = <<>>] : h \in Meanings(fd)}
ASSUME CompilerAssumption ==
  /\ EntryFile \in Files /\ MaxNumber \in Nat
  /\ \A d \in Disks : d[EntryFile] = Absent => Compiled[d] = <<>>
  /\ \A v \in DOMAIN Versions[EntryFile] :
       /\ \A d \in CompiledFrom(v) : /\ Descriptor(FileOf(Compiled[d]))
                                     /\ Reserved(FileOf(Compiled[d])) = ReservedBy[v]
       /\ \A a, b \in {Unreferenced(FileOf(Compiled[d])) : d \in CompiledFrom(v)} : a = b

----------------------------------------------------------------------------
VARIABLES released,  \* the version of the entry file released last
          releases,  \* how many releases were made
          shipped,   \* what the field numbers in use have meant since they came into use
          moved,     \* the numbers of them that meant something else when lint compiled them again
          kept       \* the numbers that a release declared reserved
vars == <<disk, released, releases, shipped, moved, kept>>

(* The compiled entry file, when the tree holds this version of it *)
EntryWith(v)         == Compiled[[disk EXCEPT ![EntryFile] = v]]
lint_files(old, new) == lint(FileOf(EntryWith(old)), FileOf(EntryWith(new)))

Init == /\ disk = [f \in Files |-> Absent]
        /\ released = Absent /\ releases = 0 /\ shipped = {} /\ moved = {} /\ kept = {}

Edit == EditFile /\ UNCHANGED <<released, releases, shipped, moved, kept>>

Passes(v) == /\ EntryWith(v) # <<>>
             /\ released # Absent => EntryWith(released) # <<>> /\ Breaking(lint_files(released, v)) = {}
MeansAnew == IF released = Absent THEN {} ELSE Meanings(FileOf(EntryWith(released))) \ shipped
Release ==
  LET v   == disk[EntryFile]
      now == Meanings(FileOf(EntryWith(v)))
  IN  /\ v # Absent /\ v # released /\ releases < MaxReleases
      /\ Passes(v)
      /\ shipped' = {h \in shipped : Use(h) \in InUse(now)} \cup now
      /\ moved' = (moved \cup InUse(MeansAnew)) \cap InUse(now)
      /\ kept' = kept \cup ReservedBy[v]
      /\ released' = v /\ releases' = releases + 1
      /\ UNCHANGED disk

Next == Edit \/ Release
Spec == Init /\ [][Next]_vars

----------------------------------------------------------------------------
(* As long as a number is in use its meaning does not change between       *)
(* releases that were linted (check_field_compat(), lint_message_fields()).*)
(* Two things escape lint: a number that one release gave to two fields,   *)
(* and a reference whose target moved with the imports, because the old    *)
(* file is compiled with the new imports.                                  *)
SameField(g, h) == g.name = h.name /\ g.type = h.type /\ g.label = h.label
NumbersKeepMeaning ==
  \A g, h \in shipped :
    Use(g) = Use(h) => \/ \E k \in shipped : Use(k) = Use(g) /\ k.twice
                       \/ SameField(g, h) /\ (g.of = h.of \/ Use(g) \in moved)

(* A number that a release declared reserved is declared reserved by every *)
(* later release (check_reserved_and_extensions()).                        *)
ReservedStays == released # Absent => kept \subseteq ReservedBy[released]

(* The comparison of a version with itself finds nothing, unless a number  *)
(* or a name is given twice or a range has no upper bound (lint()).        *)
NamedTwice(seq) == \E i, j \in DOMAIN seq : i # j /\ seq[i].name = seq[j].name
Ambiguous(fd) ==
  \/ NamedTwice(fd.enums) \/ NamedTwice(fd.services) \/ \E s \in Range(fd.services) : NamedTwice(s.methods)
  \/ \E x \in MessagesOf(fd) :
       ~x.first \/ NamedTwice(x.m.enums) \/ \E f \in Range(x.m.fields) : ~GivenOnce(x.m, f.number)
Unbounded(fd) ==
  \E x \in MessagesOf(fd) :
    \E r \in Range(x.m.reserved_ranges) \cup Range(x.m.extension_ranges) : r.end # 0 /\ r.end < r.start
Silent(fd) == lint(fd, fd) = {} \/ Ambiguous(fd) \/ Unbounded(fd)
SilentOn   == [d \in Disks |-> Compiled[d] # <<>> => Silent(FileOf(Compiled[d]))]
UnchangedIsSilent == SilentOn[disk]
=============================================================================
