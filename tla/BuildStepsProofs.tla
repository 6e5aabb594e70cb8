--------------------------- MODULE BuildStepsProofs ---------------------------
(***************************************************************************)
(* Proofs about incremental builds: any files, versions, configurations    *)
(* and compiler, and any number of builds, edits and kills.                *)
(***************************************************************************)
EXTENDS BuildSteps, SequenceTheorems, TLAPS

USE BuildAssumption

-----------------------------------------------------------------------------
\* Types.

Steps == {"idle", "fingerprint", "compile", "write", "stamp", "index", "done"}

\* A file that holds a stamp, or code, or is not there.
Stamps == {<<>>} \cup {<<fingerprint(f, d, c)>> : f \in Range(Protos), d \in Disks, c \in Configs}
Codes  == {<<>>} \cup {<<CompileOne(f, d, c)>> : f \in Range(Protos), d \in Disks, c \in Configs}

Types ==
    /\ disk \in Disks /\ \A f \in Range(Protos) : disk[f] # Absent
    /\ out \in [Stems -> Codes \cup {<<CutShort>>}]
    /\ stamp \in [Stems -> Stamps]
    /\ build \in [step : Steps, config : Configs, i : Nat, fp : Stamps, code : Codes,
                  modules : Seq(Stems)]
    /\ edited \in BOOLEAN /\ raced \in BOOLEAN /\ torn \subseteq Stems

-----------------------------------------------------------------------------
\* The inductive invariant.

\* A stamp and code that come from one tree and one configuration.
Vouches(fp, code, f) ==
    \E d \in Disks, c \in Configs :
        d[f] # Absent /\ fp = <<fingerprint(f, d, c)>> /\ code = <<CompileOne(f, d, c)>>

\* Stamps that were left behind vouch for the code beside them.
StampsVouch ==
    \A f \in Range(Protos) :
        Alone(f) /\ StemOf[f] \notin torn /\ stamp[StemOf[f]] # <<>>
            => Vouches(stamp[StemOf[f]], out[StemOf[f]], f)

\* Where a build is in its list of files.
InPlace ==
    /\ build.step \in {"fingerprint", "compile", "write", "stamp"} => build.i \in 1..Len(Protos)
    /\ build.step \in {"index", "done"} => build.i = Len(Protos) + 1

\* What the build has in hand is of the tree it looked at, unless an edit
\* came between; it is torn from the write of the code to that of the stamp.
InHand ==
    /\ build.step \in {"compile", "write", "stamp"} /\ raced => edited
    /\ build.step = "compile" /\ ~raced => build.fp = <<fingerprint(File, disk, build.config)>>
    /\ build.step \in {"write", "stamp"} =>
          /\ ~raced => Vouches(build.fp, build.code, File)
          /\ ~edited => build.code = <<CompileOne(File, disk, build.config)>>
    /\ build.step = "stamp" => Stem \in torn /\ out[Stem] = build.code

\* The files a build is through with are fresh while nothing is edited.
FreshSoFar ==
    build.step # "idle" /\ ~edited => \A j \in 1..(build.i - 1) : Fresh(Protos[j])

FreshInv == Types /\ StampsVouch /\ InPlace /\ InHand /\ FreshSoFar

LEMMA ProtosRange ==
    /\ Len(Protos) \in Nat
    /\ \A i \in 1..Len(Protos) : Protos[i] \in Range(Protos) /\ StemOf[Protos[i]] \in Stems
    /\ \A f \in Range(Protos) : f \in Files /\ \E i \in 1..Len(Protos) : f = Protos[i]
BY DEF Range, Stems

LEMMA EditedDisk ==
    ASSUME disk \in Disks, EditFile
    PROVE  disk' \in Disks
<1>1. PICK f \in Files :
        \E v \in DOMAIN Versions[f] \cup {Absent} : disk' = [disk EXCEPT ![f] = v]
  BY DEF EditFile
<1> DEFINE Names == (UNION {DOMAIN Versions[g] : g \in Files}) \cup {Absent}
<1>2. disk \in [Files -> Names] /\ \A g \in Files : disk[g] \in DOMAIN Versions[g] \cup {Absent}
  BY DEF Disks
<1>3. DOMAIN Versions[f] \cup {Absent} \subseteq Names
  <2>1. DOMAIN Versions[f] \in {DOMAIN Versions[g] : g \in Files}
    OBVIOUS
  <2>2. DOMAIN Versions[f] \subseteq UNION {DOMAIN Versions[g] : g \in Files}
    BY <2>1, Zenon
  <2> QED
    BY <2>2
<1>4. /\ disk' \in [Files -> Names]
      /\ \A g \in Files : disk'[g] \in DOMAIN Versions[g] \cup {Absent}
  <2> HIDE DEF Names
  <2> QED
    BY <1>1, <1>2, <1>3
<1> QED
  BY <1>4 DEF Disks

LEMMA NextFileType ==
    ASSUME Types, InPlace, build.step \in {"fingerprint", "stamp"}
    PROVE  /\ NextFile(build) \in [step : Steps, config : Configs, i : Nat, fp : Stamps,
                                   code : Codes, modules : Seq(Stems)]
           /\ NextFile(build).config = build.config
           /\ NextFile(build).i = build.i + 1
           /\ NextFile(build).step = IF build.i = Len(Protos) THEN "index" ELSE "fingerprint"
<1>1. /\ build.i \in 1..Len(Protos) /\ Stem \in Stems /\ build.i + 1 \in Nat
      /\ build.modules \in Seq(Stems)
  BY ProtosRange DEF InPlace, Types, Stem, File
<1>2. Append(build.modules, Stem) \in Seq(Stems)
  BY <1>1
<1>3. (IF build.i = Len(Protos) THEN "index" ELSE "fingerprint") \in Steps
      /\ <<>> \in Stamps /\ <<>> \in Codes
  BY DEF Steps, Stamps, Codes
<1> QED
  BY <1>1, <1>2, <1>3 DEF NextFile, Types

LEMMA NoBuildType ==
    ASSUME NEW step \in Steps, NEW c \in Configs
    PROVE  NoBuild(step, c) \in [step : Steps, config : Configs, i : Nat, fp : Stamps,
                                 code : Codes, modules : Seq(Stems)]
<1>1. <<>> \in Seq(Stems) /\ <<>> \in Stamps /\ <<>> \in Codes
  BY DEF Stamps, Codes
<1> QED
  BY <1>1 DEF NoBuild

\* What FreshSoFar says of a file depends on nothing but its code, its place
\* among the torn ones, the tree and the configuration.
LEMMA FreshKept ==
    ASSUME NEW f, Fresh(f), UNCHANGED disk, build'.config = build.config,
           out'[StemOf[f]] = out[StemOf[f]] \/ StemOf[f] \in torn' \/ ~Alone(f),
           StemOf[f] \in torn => StemOf[f] \in torn'
    PROVE  Fresh(f)'
BY DEF Fresh, Renamed, Alone

-----------------------------------------------------------------------------
\* The steps.

LEMMA EditStep ==
    ASSUME FreshInv, Edit
    PROVE  FreshInv'
<1>1. Types'
  BY EditedDisk DEF FreshInv, Types, Edit
<1>2. StampsVouch'
  BY DEF FreshInv, StampsVouch, Edit, Vouches, Alone, fingerprint
<1>3. InPlace'
  BY DEF FreshInv, InPlace, Edit
<1>4. InHand'
  BY DEF FreshInv, InHand, Edit, Vouches, Stem, File, fingerprint
<1>5. FreshSoFar'
  BY DEF FreshSoFar, Edit
<1> QED
  BY <1>1, <1>2, <1>3, <1>4, <1>5 DEF FreshInv

LEMMA StartStep ==
    ASSUME FreshInv, Start
    PROVE  FreshInv'
<1>1. PICK c \in Configs :
        build' = NoBuild(IF Protos = <<>> THEN "index" ELSE "fingerprint", c)
  BY DEF Start
<1>2. UNCHANGED <<disk, out, stamp, raced, torn>> /\ edited' = FALSE
  BY DEF Start
<1>3. /\ build'.i = 1 /\ build'.step = IF Protos = <<>> THEN "index" ELSE "fingerprint"
      /\ build' \in [step : Steps, config : Configs, i : Nat, fp : Stamps, code : Codes,
                     modules : Seq(Stems)]
  BY <1>1, NoBuildType DEF Steps, NoBuild
<1>4. Types'
  BY <1>2, <1>3 DEF FreshInv, Types
<1>5. StampsVouch'
  BY <1>2 DEF FreshInv, StampsVouch, Vouches, Alone
<1>6. InPlace'
  BY <1>3, ProtosRange DEF InPlace
<1>7. InHand'
  BY <1>3 DEF InHand
<1>8. FreshSoFar'
  BY <1>3 DEF FreshSoFar
<1> QED
  BY <1>4, <1>5, <1>6, <1>7, <1>8 DEF FreshInv

\* A stamp that is equal vouches for code of this very configuration, and of
\* a tree that only renames.
LEMMA EqualStampIsFresh ==
    ASSUME FreshInv, build.step = "fingerprint",
           stamp[Stem] = <<fingerprint(File, disk, build.config)>>
    PROVE  Fresh(File)
<1>1. build.i \in 1..Len(Protos) /\ File \in Range(Protos)
  BY ProtosRange DEF FreshInv, InPlace, File
<1>2. SUFFICES ASSUME Alone(File), Stem \notin torn
               PROVE  \E d \in Renamed(File, disk) :
                        out[Stem] = <<CompileOne(File, d, build.config)>>
  BY DEF Fresh, Stem
<1>3. Vouches(stamp[Stem], out[Stem], File)
  <2>1. stamp[Stem] # <<>>
    OBVIOUS
  <2> QED
    BY <1>1, <1>2, <2>1 DEF FreshInv, StampsVouch, Stem
<1>4. PICK d \in Disks, c \in Configs :
        /\ d[File] # Absent /\ stamp[Stem] = <<fingerprint(File, d, c)>>
        /\ out[Stem] = <<CompileOne(File, d, c)>>
  BY <1>3 DEF Vouches
<1>5. fingerprint(File, d, c) = fingerprint(File, disk, build.config)
  BY <1>4
<1>6. /\ Versions[File][d[File]] = Versions[File][disk[File]]
      /\ Contents(d) = Contents(disk) /\ c = build.config
  BY <1>5 DEF fingerprint
<1> QED
  BY <1>4, <1>6 DEF Renamed

LEMMA FingerprintStep ==
    ASSUME FreshInv, Fingerprint
    PROVE  FreshInv'
<1> DEFINE fp == fingerprint(File, disk, build.config)
<1>0. /\ build.step = "fingerprint" /\ raced' = FALSE /\ Types
      /\ UNCHANGED <<disk, out, stamp, edited, torn>>
      /\ build.i \in 1..Len(Protos) /\ File \in Range(Protos) /\ build.i \in Nat
  BY ProtosRange DEF FreshInv, InPlace, Fingerprint, File
<1>1. StampsVouch'
  BY <1>0 DEF FreshInv, StampsVouch, Vouches, Alone
<1>2. CASE stamp[Stem] = <<fp>> /\ build' = NextFile(build)
  <2>1. /\ build' \in [step : Steps, config : Configs, i : Nat, fp : Stamps,
                       code : Codes, modules : Seq(Stems)]
        /\ build'.config = build.config /\ build'.i = build.i + 1
        /\ build'.step = IF build.i = Len(Protos) THEN "index" ELSE "fingerprint"
    BY <1>0, <1>2, NextFileType DEF FreshInv
  <2>2. Types'
    BY <1>0, <2>1 DEF Types
  <2>3. InPlace'
    BY <1>0, <2>1, ProtosRange DEF InPlace
  <2>4. InHand'
    BY <2>1 DEF InHand
  <2>5. FreshSoFar'
    <3> SUFFICES ASSUME ~edited, NEW j \in 1..build.i
                 PROVE  Fresh(Protos[j])'
      BY <1>0, <2>1 DEF FreshSoFar
    <3>1. Fresh(Protos[j])
      BY <1>0, <1>2, EqualStampIsFresh DEF FreshInv, FreshSoFar, File
    <3> QED
      BY <1>0, <2>1, <3>1, FreshKept
  <2> QED
    BY <1>1, <2>2, <2>3, <2>4, <2>5 DEF FreshInv
<1>3. CASE build' = [build EXCEPT !.step = "compile", !.fp = <<fp>>]
  <2>1. <<fp>> \in Stamps
    BY <1>0 DEF Types, Stamps
  <2>2. /\ build' \in [step : Steps, config : Configs, i : Nat, fp : Stamps,
                       code : Codes, modules : Seq(Stems)]
        /\ build'.config = build.config /\ build'.i = build.i
        /\ build'.step = "compile" /\ build'.fp = <<fp>>
    BY <1>0, <1>3, <2>1 DEF Types, Steps
  <2>3. Types'
    BY <1>0, <2>2 DEF Types
  <2>4. InPlace'
    BY <1>0, <2>2 DEF InPlace
  <2>5. InHand'
    BY <1>0, <2>2 DEF InHand, File
  <2>6. FreshSoFar'
    BY <1>0, <2>2, FreshKept DEF FreshInv, FreshSoFar
  <2> QED
    BY <1>1, <2>3, <2>4, <2>5, <2>6 DEF FreshInv
<1> QED
  BY <1>2, <1>3 DEF Fingerprint

\* Code that is overwritten is torn until its stamp is written.
LEMMA LeftAlone ==
    ASSUME StampsVouch, UNCHANGED stamp, torn \subseteq torn',
           \A s \in Stems : out'[s] = out[s] \/ s \in torn'
    PROVE  StampsVouch'
<1> SUFFICES ASSUME NEW f \in Range(Protos), Alone(f), StemOf[f] \notin torn',
                    stamp[StemOf[f]] # <<>>
             PROVE  Vouches(stamp[StemOf[f]], out'[StemOf[f]], f)
  BY DEF StampsVouch, Alone, Vouches
<1>1. StemOf[f] \in Stems /\ StemOf[f] \notin torn
  BY DEF Stems
<1>2. Vouches(stamp[StemOf[f]], out[StemOf[f]], f)
  BY <1>1 DEF StampsVouch
<1> QED
  BY <1>1, <1>2

\* A build that gives up leaves the tree and the finished files alone.
LEMMA IdleInv ==
    ASSUME FreshInv, build' = NoBuild("idle", build.config), UNCHANGED <<disk, stamp>>,
           edited' \in BOOLEAN, raced' \in BOOLEAN, torn' \in SUBSET Stems, torn \subseteq torn',
           out' \in [Stems -> Codes \cup {<<CutShort>>}],
           \A s \in Stems : out'[s] = out[s] \/ s \in torn'
    PROVE  FreshInv'
<1>1. /\ build'.step = "idle" /\ build' \in [step : Steps, config : Configs, i : Nat,
                                             fp : Stamps, code : Codes, modules : Seq(Stems)]
  BY NoBuildType DEF NoBuild, Steps, FreshInv, Types
<1>2. Types'
  BY <1>1 DEF FreshInv, Types
<1>3. StampsVouch'
  BY LeftAlone DEF FreshInv
<1>4. InPlace' /\ InHand' /\ FreshSoFar'
  BY <1>1 DEF InPlace, InHand, FreshSoFar
<1> QED
  BY <1>2, <1>3, <1>4 DEF FreshInv

LEMMA KillStep ==
    ASSUME FreshInv, Kill
    PROVE  FreshInv'
<1>1. CASE UNCHANGED <<out, torn>>
  BY <1>1, IdleInv DEF FreshInv, Types, Kill
<1>2. CASE /\ build.step = "write"
           /\ out' = [out EXCEPT ![Stem] = <<CutShort>>] /\ torn' = torn \cup {Stem}
  <2>1. Stem \in Stems
    BY <1>2, ProtosRange DEF FreshInv, InPlace, Stem, File
  <2>2. /\ out' \in [Stems -> Codes \cup {<<CutShort>>}] /\ torn' \in SUBSET Stems
        /\ \A s \in Stems : out'[s] = out[s] \/ s \in torn'
    BY <1>2, <2>1 DEF FreshInv, Types
  <2> QED
    BY <1>2, <2>2, IdleInv DEF Kill
<1> QED
  BY <1>1, <1>2 DEF Kill

LEMMA CompileStep ==
    ASSUME FreshInv, Compile
    PROVE  FreshInv'
<1> DEFINE code == CompileOne(File, disk, build.config)
<1>0. /\ build.step = "compile" /\ Types
      /\ UNCHANGED <<disk, out, stamp, edited, raced, torn>>
      /\ build.i \in 1..Len(Protos) /\ File \in Range(Protos)
  BY ProtosRange DEF FreshInv, InPlace, Compile, File, ghosts
<1>1. CASE build' = NoBuild("idle", build.config)
  BY <1>0, <1>1, IdleInv DEF Types
<1>2. CASE build' = [build EXCEPT !.step = "write", !.code = <<code>>]
  <2>1. <<code>> \in Codes
    BY <1>0 DEF Types, Codes
  <2>2. /\ build' \in [step : Steps, config : Configs, i : Nat, fp : Stamps,
                       code : Codes, modules : Seq(Stems)]
        /\ build'.config = build.config /\ build'.i = build.i
        /\ build'.step = "write" /\ build'.fp = build.fp /\ build'.code = <<code>>
    BY <1>0, <1>2, <2>1 DEF Types, Steps
  <2>3. Types'
    BY <1>0, <2>2 DEF Types
  <2>4. StampsVouch'
    BY <1>0 DEF FreshInv, StampsVouch, Vouches, Alone
  <2>5. InPlace'
    BY <1>0, <2>2 DEF InPlace
  <2>6. InHand'
    <3>1. ~raced => Vouches(build.fp, <<code>>, File)
      BY <1>0 DEF FreshInv, InHand, Vouches, Types
    <3>2. File' = File
      BY <2>2 DEF File
    <3> QED
      BY <1>0, <2>2, <3>1, <3>2 DEF FreshInv, InHand, Vouches
  <2>7. FreshSoFar'
    BY <1>0, <2>2, FreshKept DEF FreshInv, FreshSoFar
  <2> QED
    BY <2>3, <2>4, <2>5, <2>6, <2>7 DEF FreshInv
<1> QED
  BY <1>1, <1>2 DEF Compile, WithCode

LEMMA WriteOutStep ==
    ASSUME FreshInv, WriteOut
    PROVE  FreshInv'
<1>0. /\ build.step = "write" /\ Types /\ Stem \in Stems
      /\ UNCHANGED <<disk, stamp, edited, raced>> /\ torn' = torn \cup {Stem}
      /\ build' = [build EXCEPT !.step = "stamp"]
      /\ out' = [out EXCEPT ![Stem] = build.code]
      /\ build.i \in 1..Len(Protos)
  BY ProtosRange DEF FreshInv, InPlace, WriteOut, Stem, File
<1>1. /\ build' \in [step : Steps, config : Configs, i : Nat, fp : Stamps,
                     code : Codes, modules : Seq(Stems)]
      /\ build'.config = build.config /\ build'.i = build.i
      /\ build'.step = "stamp" /\ build'.fp = build.fp /\ build'.code = build.code
  BY <1>0 DEF Types, Steps
<1>2. /\ out' \in [Stems -> Codes \cup {<<CutShort>>}] /\ out'[Stem] = build.code
      /\ \A s \in Stems : out'[s] = out[s] \/ s \in torn'
  BY <1>0 DEF Types
<1>3. Types'
  BY <1>0, <1>1, <1>2 DEF Types
<1>5. StampsVouch'
  BY <1>0, <1>2, LeftAlone DEF FreshInv
<1>6. InPlace'
  BY <1>0, <1>1 DEF InPlace
<1>7. InHand'
  <2>1. File' = File /\ Stem' = Stem
    BY <1>1 DEF File, Stem
  <2> QED
    BY <1>0, <1>1, <1>2, <2>1 DEF FreshInv, InHand, Vouches
<1>8. FreshSoFar'
  <2> SUFFICES ASSUME ~edited, NEW j \in 1..(build.i - 1)
               PROVE  Fresh(Protos[j])'
    BY <1>0, <1>1 DEF FreshSoFar
  <2>1. Fresh(Protos[j]) /\ StemOf[Protos[j]] \in Stems
    BY <1>0, ProtosRange DEF FreshInv, FreshSoFar
  <2> QED
    BY <1>0, <1>1, <1>2, <2>1, FreshKept
<1> QED
  BY <1>3, <1>5, <1>6, <1>7, <1>8 DEF FreshInv

LEMMA WriteStampStep ==
    ASSUME FreshInv, WriteStamp
    PROVE  FreshInv'
<1>0. /\ build.step = "stamp" /\ Types /\ Stem \in Stems /\ File \in Range(Protos)
      /\ UNCHANGED <<disk, out, edited, raced>>
      /\ torn' = IF raced THEN torn ELSE torn \ {Stem}
      /\ build' = NextFile(build) /\ stamp' = [stamp EXCEPT ![Stem] = build.fp]
      /\ build.i \in 1..Len(Protos) /\ Stem \in torn /\ out[Stem] = build.code
  BY ProtosRange DEF FreshInv, InPlace, InHand, WriteStamp, Stem, File
<1>1. /\ build' \in [step : Steps, config : Configs, i : Nat, fp : Stamps,
                     code : Codes, modules : Seq(Stems)]
      /\ build'.config = build.config /\ build'.i = build.i + 1
      /\ build'.step = IF build.i = Len(Protos) THEN "index" ELSE "fingerprint"
  BY <1>0, NextFileType DEF FreshInv
<1>2. Types'
  <2>1. stamp' \in [Stems -> Stamps] /\ torn' \subseteq Stems
    BY <1>0 DEF Types
  <2> QED
    BY <1>0, <1>1, <2>1 DEF Types
<1>3. \A f \in Range(Protos) \ {File} : Alone(f) => StemOf[f] # Stem
  BY <1>0 DEF Alone, Stem
<1>4. StampsVouch'
  <2> SUFFICES ASSUME NEW f \in Range(Protos), Alone(f), StemOf[f] \notin torn',
                      stamp'[StemOf[f]] # <<>>
               PROVE  Vouches(stamp'[StemOf[f]], out[StemOf[f]], f)
    BY <1>0 DEF StampsVouch, Alone, Vouches
  <2>1. CASE f = File
    <3>1. ~raced /\ stamp'[Stem] = build.fp
      BY <1>0, <2>1 DEF Types, Stem
    <3>2. Vouches(build.fp, build.code, File)
      BY <1>0, <3>1 DEF FreshInv, InHand
    <3> QED
      BY <1>0, <2>1, <3>1, <3>2 DEF Stem
  <2>2. CASE f # File
    <3>1. StemOf[f] # Stem /\ StemOf[f] \in Stems
      BY <1>3, <2>2 DEF Stems
    <3>2. StemOf[f] \notin torn /\ stamp'[StemOf[f]] = stamp[StemOf[f]]
      BY <1>0, <3>1 DEF Types
    <3> QED
      BY <3>2 DEF FreshInv, StampsVouch
  <2> QED
    BY <2>1, <2>2
<1>5. InPlace'
  BY <1>0, <1>1, ProtosRange DEF InPlace
<1>6. InHand'
  BY <1>1 DEF InHand
<1>7. FreshSoFar'
  <2> SUFFICES ASSUME ~edited, NEW j \in 1..build.i
               PROVE  Fresh(Protos[j])'
    BY <1>0, <1>1 DEF FreshSoFar
  <2>1. CASE Protos[j] = File
    <3>1. out[Stem] = <<CompileOne(File, disk, build.config)>>
      BY <1>0 DEF FreshInv, InHand
    <3>2. disk \in Renamed(Protos[j], disk)
      BY <1>0, <2>1 DEF Renamed, Types
    <3>3. out[StemOf[Protos[j]]] = <<CompileOne(Protos[j], disk, build.config)>>
      BY <2>1, <3>1 DEF Stem
    <3>4. \E d \in Renamed(Protos[j], disk) :
            out'[StemOf[Protos[j]]] = <<CompileOne(Protos[j], d, build'.config)>>
      BY <1>0, <1>1, <3>2, <3>3
    <3> QED
      BY <1>0, <3>4 DEF Fresh, Renamed
  <2>2. CASE Protos[j] # File
    <3>1. Protos[j] \in Range(Protos) /\ j \in 1..(build.i - 1)
      BY <1>0, <2>2, ProtosRange DEF File
    <3>2. Fresh(Protos[j])
      BY <1>0, <3>1 DEF FreshInv, FreshSoFar
    <3>3. ~Alone(Protos[j]) \/ StemOf[Protos[j]] # Stem
      BY <1>3, <2>2, <3>1
    <3> QED
      BY <1>0, <1>1, <3>2, <3>3, FreshKept DEF Fresh, Alone
  <2> QED
    BY <2>1, <2>2
<1> QED
  BY <1>2, <1>4, <1>5, <1>6, <1>7 DEF FreshInv

LEMMA WriteIndexStep ==
    ASSUME FreshInv, WriteIndex
    PROVE  FreshInv'
<1>0. /\ build.step = "index" /\ Types /\ UNCHANGED <<disk, out, stamp, edited, raced, torn>>
      /\ build' = [build EXCEPT !.step = "done"]
  BY DEF FreshInv, WriteIndex, ghosts
<1>1. /\ build' \in [step : Steps, config : Configs, i : Nat, fp : Stamps,
                     code : Codes, modules : Seq(Stems)]
      /\ build'.config = build.config /\ build'.i = build.i /\ build'.step = "done"
  BY <1>0 DEF Types, Steps
<1>2. Types' /\ InPlace' /\ InHand'
  BY <1>0, <1>1 DEF FreshInv, Types, InPlace, InHand
<1>3. StampsVouch'
  BY <1>0 DEF FreshInv, StampsVouch, Vouches, Alone
<1>4. FreshSoFar'
  BY <1>0, <1>1, FreshKept DEF FreshInv, FreshSoFar
<1> QED
  BY <1>2, <1>3, <1>4 DEF FreshInv

\* When a build that saw one tree is done, every module is what that tree
\* compiles to, whatever was skipped, and whatever builds were killed, failed
\* or overtaken by edits before (lib.rs:213); what the fingerprint cannot see
\* is named in FreshOutput.
THEOREM BuildsAreFresh == Spec => []FreshOutput
<1>1. Init => FreshInv
  <2> SUFFICES ASSUME Init PROVE FreshInv
    OBVIOUS
  <2>1. /\ build.step = "idle" /\ (CHOOSE c \in Configs : TRUE) \in Configs
        /\ build = NoBuild("idle", CHOOSE c \in Configs : TRUE)
    BY DEF Init, NoBuild
  <2>2. Types
    <3>1. <<>> \in Stamps /\ <<>> \in Codes
      BY DEF Stamps, Codes
    <3>2. build \in [step : Steps, config : Configs, i : Nat, fp : Stamps, code : Codes,
                     modules : Seq(Stems)]
      BY <2>1, NoBuildType DEF Steps
    <3> QED
      BY <3>1, <3>2 DEF Init, Types
  <2>3. StampsVouch
    BY DEF Init, StampsVouch, Stems
  <2> QED
    BY <2>1, <2>2, <2>3 DEF FreshInv, InPlace, InHand, FreshSoFar
<1>2. ASSUME FreshInv, [Next]_vars
      PROVE  FreshInv'
  <2>1. CASE UNCHANGED vars
    <3>1. UNCHANGED <<disk, out, stamp, build, edited, raced, torn>>
      BY <2>1 DEF vars, ghosts
    <3>2. StampsVouch' /\ FreshSoFar'
      BY <1>2, <3>1, LeftAlone, FreshKept DEF FreshInv, FreshSoFar
    <3>3. Types' /\ InPlace' /\ InHand'
      BY <1>2, <3>1 DEF FreshInv, Types, InPlace, InHand, File, Stem, Vouches
    <3> QED
      BY <3>2, <3>3 DEF FreshInv
  <2> QED
    BY <1>2, <2>1, EditStep, StartStep, FingerprintStep, CompileStep, WriteOutStep,
       WriteStampStep, WriteIndexStep, KillStep DEF Next
<1>3. FreshInv => FreshOutput
  <2> SUFFICES ASSUME FreshInv, build.step = "done", ~edited, NEW f \in Range(Protos)
               PROVE  Fresh(f)
    BY DEF FreshOutput
  <2>1. PICK i \in 1..Len(Protos) : f = Protos[i]
    BY ProtosRange
  <2> QED
    BY <2>1, ProtosRange DEF FreshInv, InPlace, FreshSoFar
<1> QED
  BY <1>1, <1>2, <1>3, PTL DEF Spec
=============================================================================
