----------------------------- MODULE BuildSteps -----------------------------
(***************************************************************************)
(* The build integration (compile_protos() of tpt-proto-build) run again   *)
(* and again over a source tree that is edited at any moment, also while a *)
(* build runs, with builds that fail or are killed between any two steps.  *)
(*                                                                         *)
(* For each file a build takes a fingerprint of the inputs, skips the file *)
(* if the stamp of the last build is equal, and otherwise compiles it and  *)
(* writes the code, then the stamp.  Whatever a compilation makes of a     *)
(* file and its imports is CompileOne; module Builds gives it the compiler.*)
(***************************************************************************)
EXTENDS Naturals, Sequences, Functions, ProtoFiles

CONSTANTS Protos,     \* the files that are compiled, in order
          Listing,    \* the files of the include directory in the order it lists them
          StemOf,     \* the name of the module made for each, `-' and `.' replaced
          Configs,    \* the configurations of builds
          MaxBuilds,  \* bound on the builds
          MaxEdits,   \* bound on the edits
          CompileOne(_, _, _)  \* compile_one() of a file, a tree and a configuration

ASSUME BuildAssumption == /\ Protos \in Seq(Files) /\ Configs # {}
                          /\ MaxBuilds \in Nat /\ MaxEdits \in Nat

Stems  == {StemOf[f] : f \in Range(Protos)}

(* The hash of the file, of all files of the include directory without their names, and of the configuration *)
Contents(d) == LET present == SelectSeq(Listing, LAMBDA f : d[f] # Absent)
               IN  [i \in DOMAIN present |-> Versions[present[i]][d[present[i]]]]
(* Mutant: the configuration is not part of it. *)
fingerprintBug(f, d, c) == [of |-> Versions[f][d[f]], includes |-> Contents(d), config |-> TRUE]
fingerprint(f, d, c)    == [of |-> Versions[f][d[f]], includes |-> Contents(d), config |-> c]

VARIABLES out,      \* the generated code of every module, when there is any
          stamp,    \* the fingerprint beside it, when there is one
          mod_rs,   \* the modules listed by the generated index, when there is one
          build,    \* the build that runs: its step, configuration, file, fingerprint, code and modules so far
          builds,   \* how many builds were started
          edits,    \* how many edits were made
          edited,   \* whether the tree was edited since the build started
          raced,    \* whether it was edited between the fingerprint and the compilation of the file
          torn      \* the modules whose code and stamp are not of one tree
ghosts == <<edited, raced, torn>>
vars   == <<disk, out, stamp, mod_rs, build, builds, edits, ghosts>>

CutShort == [set |-> <<>>, grpc |-> FALSE]
NoBuild(step, c) == [step |-> step, config |-> c, i |-> 1, fp |-> <<>>, code |-> <<>>, modules |-> <<>>]
File == Protos[build.i]
Stem == StemOf[File]

Init == /\ disk \in Disks /\ \A f \in Range(Protos) : disk[f] # Absent
        /\ out = [m \in Stems |-> <<>>] /\ stamp = [m \in Stems |-> <<>>] /\ mod_rs = <<>>
        /\ build = NoBuild("idle", CHOOSE c \in Configs : TRUE) /\ builds = 0 /\ edits = 0
        /\ edited = FALSE /\ raced = FALSE /\ torn = {}

Edit == /\ edits < MaxEdits /\ edits' = edits + 1
        /\ EditFile /\ \A f \in Range(Protos) : disk'[f] # Absent
        /\ edited' = (build.step # "idle")
        /\ raced' = (raced \/ build.step = "compile")
        /\ UNCHANGED <<out, stamp, mod_rs, build, builds, torn>>

Start == /\ build.step \in {"idle", "done"} /\ builds < MaxBuilds
         /\ \E c \in Configs :
              build' = NoBuild(IF Protos = <<>> THEN "index" ELSE "fingerprint", c)
         /\ builds' = builds + 1 /\ edited' = FALSE
         /\ UNCHANGED <<disk, edits, out, stamp, mod_rs, raced, torn>>

NextFile(b) == [b EXCEPT !.step = IF b.i = Len(Protos) THEN "index" ELSE "fingerprint", !.i = @ + 1,
                         !.modules = Append(@, Stem), !.fp = <<>>, !.code = <<>>]

Fingerprint ==
  LET fp   == fingerprint(File, disk, build.config)
      skip == build.config.incremental /\ stamp[Stem] = <<fp>> /\ out[Stem] # <<>>
  IN  /\ build.step = "fingerprint"
      /\ build' = IF skip THEN NextFile(build) ELSE [build EXCEPT !.step = "compile", !.fp = <<fp>>]
      /\ raced' = FALSE
      /\ UNCHANGED <<disk, edits, out, stamp, mod_rs, builds, edited, torn>>

(* Diagnostics end the whole build. *)
WithCode(code) == IF code.set = <<>> THEN NoBuild("idle", build.config)
                  ELSE [build EXCEPT !.step = "write", !.code = <<code>>]
Compile == /\ build.step = "compile"
           /\ build' = WithCode(CompileOne(File, disk, build.config))
           /\ UNCHANGED <<disk, edits, out, stamp, mod_rs, builds, ghosts>>

WriteOut == /\ build.step = "write"
            /\ out' = [out EXCEPT ![Stem] = build.code]
            /\ build' = [build EXCEPT !.step = "stamp"]
            /\ torn' = torn \cup {Stem}
            /\ UNCHANGED <<disk, edits, stamp, mod_rs, builds, edited, raced>>

WriteStamp == /\ build.step = "stamp"
              /\ stamp' = [stamp EXCEPT ![Stem] = build.fp]
              /\ build' = NextFile(build)
              /\ torn' = IF raced THEN torn ELSE torn \ {Stem}
              /\ UNCHANGED <<disk, edits, out, mod_rs, builds, edited, raced>>

WriteIndex == /\ build.step = "index"
              /\ mod_rs' = <<build.modules>>
              /\ build' = [build EXCEPT !.step = "done"]
              /\ UNCHANGED <<disk, edits, out, stamp, builds, ghosts>>

(* The build is killed; the file that is being written may be left cut short. *)
Kill == /\ build.step \notin {"idle", "done"}
        /\ \/ UNCHANGED <<out, torn>>
           \/ /\ build.step = "write"
              /\ out' = [out EXCEPT ![Stem] = <<CutShort>>] /\ torn' = torn \cup {Stem}
        /\ build' = NoBuild("idle", build.config)
        /\ edited' = FALSE /\ raced' = FALSE
        /\ UNCHANGED <<disk, edits, stamp, mod_rs, builds>>

Next == Edit \/ Start \/ Fingerprint \/ Compile \/ WriteOut \/ WriteStamp \/ WriteIndex \/ Kill
Spec == Init /\ [][Next]_vars

----------------------------------------------------------------------------
(* When a build that saw one tree is done, the code of every module is     *)
(* what compiling that tree gives, whatever was skipped and whatever       *)
(* happened to earlier builds.  Three things escape the fingerprint: code  *)
(* that was written without its stamp, or compiled from a later tree than  *)
(* the stamp is of; files around this one that were only renamed; and two  *)
(* files that make one module.                                             *)
Alone(f)      == \A g \in Range(Protos) \ {f} : StemOf[g] # StemOf[f]
Renamed(f, d) == {e \in Disks : /\ Contents(e) = Contents(d) /\ e[f] # Absent
                               /\ Versions[f][e[f]] = Versions[f][d[f]]}
Fresh(f) ==
  \/ ~Alone(f) \/ StemOf[f] \in torn
  \/ \E d \in Renamed(f, disk) : out[StemOf[f]] = <<CompileOne(f, d, build.config)>>
FreshOutput == build.step = "done" /\ ~edited => \A f \in Range(Protos) : Fresh(f)
=============================================================================
