--------------------------- MODULE ReleasesProofs ---------------------------
(***************************************************************************)
(* What a comparison without breaking findings guarantees, for any two     *)
(* versions of a message, for any two versions of a file however deep its  *)
(* messages are nested, and over a history of releases.                    *)
(***************************************************************************)
EXTENDS Releases, SequenceTheorems, WellFoundedInduction, TLAPS

\* The two parts of the comparison of two messages that are about themselves.
Findings(old, new) == lint_message_fields(old, new) \cup check_reserved_and_extensions(old, new)

\* A range with numbers at its ends, and one that holds them both.
WholeRange(r)   == r.start \in Int /\ r.end \in Int
BoundedRange(r) == WholeRange(r) /\ (r.end = 0 \/ r.start <= r.end)

-----------------------------------------------------------------------------
(***************************************************************************)
(* One message                                                             *)
(***************************************************************************)
LEMMA CompatibleFields ==
    ASSUME NEW of, NEW nf, Breaking(check_field_compat(of, nf)) = {}
    PROVE  /\ nf.type = of.type /\ nf.label = of.label /\ nf.type_name = of.type_name
           /\ of.json_name # <<>> /\ nf.json_name # <<>> => nf.json_name = of.json_name
<1>1. \A x \in check_field_compat(of, nf) : x[1] # "breaking"
  BY DEF Breaking
<1>2. of.type # nf.type => <<"breaking", "FIELD_TYPE_CHANGED", nf.name>> \in check_field_compat(of, nf)
  BY DEF check_field_compat, When
<1>3. of.label # nf.label => <<"breaking", "FIELD_LABEL_CHANGED", nf.name>> \in check_field_compat(of, nf)
  BY DEF check_field_compat, When
<1>4. of.type_name # nf.type_name =>
        <<"breaking", "FIELD_TYPE_NAME_CHANGED", nf.name>> \in check_field_compat(of, nf)
  BY DEF check_field_compat, When
<1>5. of.json_name # <<>> /\ nf.json_name # <<>> /\ of.json_name # nf.json_name =>
        <<"breaking", "JSON_NAME_CHANGED", nf.name>> \in check_field_compat(of, nf)
  BY DEF check_field_compat, When
<1> QED
  BY <1>1, <1>2, <1>3, <1>4, <1>5

\* With one place for a number, the field that is compared is the one there.
LEMMA OldField ==
    ASSUME NEW m, NEW n, GivenOnce(m, n), NEW i \in Places(m, n), Places(m, n) \subseteq Int
    PROVE  (CHOOSE k \in Places(m, n) : \A j \in Places(m, n) : j <= k) = i
<1>1. Places(m, n) = {i}
  BY DEF GivenOnce
<1>2. i \in Int /\ \A j \in Places(m, n) : j <= i
  BY <1>1
<1> QED
  BY <1>1, <1>2

\* As long as a number is in use, the field that has it keeps its name, its
\* type and its label, and the name it has in JSON: from one release to the
\* next, if the old one gives the number to one field.  (lib.rs:166-310)
THEOREM FieldsKeepMeaning ==
    ASSUME NEW old, NEW new, Breaking(Findings(old, new)) = {}, DOMAIN old.fields \subseteq Int,
           NEW of \in Range(old.fields), NEW nf \in Range(new.fields),
           nf.number = of.number, GivenOnce(old, of.number)
    PROVE  /\ nf.name = of.name /\ nf.type = of.type /\ nf.label = of.label
           /\ nf.type_name = of.type_name
           /\ of.json_name # <<>> /\ nf.json_name # <<>> => nf.json_name = of.json_name
<1>1. PICK i \in DOMAIN old.fields : old.fields[i] = of
  BY DEF Range
<1> DEFINE At == Places(old, nf.number)
           k  == CHOOSE j \in At : \A l \in At : l <= j
<1>2. i \in At /\ At \subseteq Int /\ GivenOnce(old, nf.number)
  BY <1>1 DEF Places
<1>3. k = i
  BY <1>2, OldField
<1>4. lint_field(old, nf) = IF of.name # nf.name THEN {<<"breaking", "FIELD_NUMBER_REUSED", nf.name>>}
                            ELSE check_field_compat(of, nf)
  <2>1. lint_field(old, nf) =
          IF At = {} THEN {<<"warning", "FIELD_ADDED", nf.name>>}
          ELSE IF old.fields[k].name # nf.name THEN {<<"breaking", "FIELD_NUMBER_REUSED", nf.name>>}
          ELSE check_field_compat(old.fields[k], nf)
    BY DEF lint_field
  <2> HIDE DEF At, k
  <2> QED
    BY <1>1, <1>2, <1>3, <2>1
<1>5. Breaking(lint_field(old, nf)) = {}
  BY DEF lint_message_fields, Findings, Breaking
<1>6. of.name = nf.name
  <2> SUFFICES ASSUME of.name # nf.name PROVE FALSE
    OBVIOUS
  <2>1. <<"breaking", "FIELD_NUMBER_REUSED", nf.name>> \in lint_field(old, nf)
    BY <1>4
  <2> QED
    BY <1>5, <2>1 DEF Breaking
<1> QED
  BY <1>4, <1>5, <1>6, CompatibleFields

\* A number that goes out of use is declared reserved, or the name of its
\* field is.  (lib.rs:205-236)
THEOREM RemovedFieldsAreReserved ==
    ASSUME NEW old, NEW new, Breaking(Findings(old, new)) = {},
           NEW of \in Range(old.fields), \A nf \in Range(new.fields) : nf.number # of.number
    PROVE  \/ \E r \in Range(new.reserved_ranges) : declared_reserved(r, of.number)
           \/ of.name \in Range(new.reserved_names)
<1> SUFFICES ASSUME \A r \in Range(new.reserved_ranges) : ~declared_reserved(r, of.number),
                    of.name \notin Range(new.reserved_names)
             PROVE  FALSE
  OBVIOUS
<1>1. of \in {f \in Range(old.fields) : \A n \in Range(new.fields) : n.number # f.number}
  OBVIOUS
<1>2. <<"breaking", "FIELD_REMOVED", of.name>> \in lint_message_fields(old, new)
  BY <1>1 DEF lint_message_fields
<1> QED
  BY <1>2 DEF Findings, Breaking

\* No number and no name that was reserved comes free.  (lib.rs:337-370)
THEOREM ReservedStaysReserved ==
    ASSUME NEW old, NEW new, Breaking(Findings(old, new)) = {},
           \A r \in Range(old.reserved_ranges) \cup Range(new.reserved_ranges) : WholeRange(r)
    PROVE  /\ \A n \in Int : (\E r \in Range(old.reserved_ranges) : range_covers(r, n))
                               => \E r \in Range(new.reserved_ranges) : range_covers(r, n)
           /\ Range(old.reserved_names) \subseteq Range(new.reserved_names)
<1>1. ASSUME NEW n \in Int, NEW r \in Range(old.reserved_ranges), range_covers(r, n)
      PROVE  \E s \in Range(new.reserved_ranges) : range_covers(s, n)
  <2>1. PICK s \in Range(new.reserved_ranges) : range_covers_range(s, r)
    <3> SUFFICES ASSUME \A s \in Range(new.reserved_ranges) : ~range_covers_range(s, r) PROVE FALSE
      OBVIOUS
    <3>1. <<"breaking", "RESERVED_RANGE_SHRUNK", r.start>> \in check_reserved_and_extensions(old, new)
      BY DEF check_reserved_and_extensions
    <3> QED
      BY <3>1 DEF Findings, Breaking
  <2>2. WholeRange(r) /\ WholeRange(s)
    OBVIOUS
  <2> QED
    BY <1>1, <2>1, <2>2 DEF range_covers, range_covers_range, WholeRange
<1>2. ASSUME NEW x \in Range(old.reserved_names), x \notin Range(new.reserved_names)
      PROVE  FALSE
  <2>1. <<"breaking", "RESERVED_NAME_REMOVED", x>> \in check_reserved_and_extensions(old, new)
    BY <1>2 DEF check_reserved_and_extensions
  <2> QED
    BY <2>1 DEF Findings, Breaking
<1> QED
  BY <1>1, <1>2

\* A message that did not change has no findings, unless it gives a number
\* twice or has a range with its end before its start.
THEOREM UnchangedHasNoFindings ==
    ASSUME NEW m, DOMAIN m.fields \subseteq Int,
           \A f \in Range(m.fields) : GivenOnce(m, f.number),
           \A r \in Range(m.reserved_ranges) \cup Range(m.extension_ranges) : BoundedRange(r)
    PROVE  Findings(m, m) = {}
<1>1. \A r \in Range(m.reserved_ranges) \cup Range(m.extension_ranges) : range_covers_range(r, r)
  BY DEF BoundedRange, WholeRange, range_covers, range_covers_range
<1>2. check_reserved_and_extensions(m, m) = {}
  BY <1>1 DEF check_reserved_and_extensions
<1>3. ASSUME NEW f \in Range(m.fields)
      PROVE  /\ Places(m, f.number) # {}
             /\ m.fields[CHOOSE i \in Places(m, f.number) : \A j \in Places(m, f.number) : j <= i] = f
  <2>1. PICK i \in DOMAIN m.fields : m.fields[i] = f
    BY DEF Range
  <2>2. i \in Places(m, f.number) /\ Places(m, f.number) \subseteq Int
    BY <2>1 DEF Places
  <2> QED
    BY <2>1, <2>2, OldField
<1>4. \A f \in Range(m.fields) : lint_field(m, f) = {}
  BY <1>3 DEF lint_field, check_field_compat, When
<1>5. lint_message_fields(m, m) = {}
  <2>1. {f \in Range(m.fields) : \A n \in Range(m.fields) : n.number # f.number} = {}
    OBVIOUS
  <2> QED
    BY <1>4, <2>1 DEF lint_message_fields
<1> QED
  BY <1>2, <1>5 DEF Findings

-----------------------------------------------------------------------------
(***************************************************************************)
(* Induction over the depth of nesting                                     *)
(***************************************************************************)
LEMMA SmallestOf ==
    ASSUME NEW T, T \subseteq Nat, T # {}
    PROVE  \E x \in T : \A y \in T : x <= y
<1> DEFINE R == {p \in Nat \X Nat : p[1] < p[2]}
<1>1. IsWellFoundedOn(R, Nat)
  BY NatLessThanWellFounded DEF OpToRel
<1> HIDE DEF R
<1>2. PICK x \in T : \A y \in T : <<y, x>> \notin R
  BY <1>1, WFMin
<1>3. \A y \in T : ~(y < x)
  BY <1>2 DEF R
<1> QED
  BY <1>3

LEMMA InductionOver ==
    ASSUME NEW T, 0 \in T, \A n \in Nat : n \in T => n + 1 \in T
    PROVE  Nat \subseteq T
<1> SUFFICES ASSUME NEW a \in Nat, a \notin T PROVE FALSE
  OBVIOUS
<1> DEFINE U == {n \in Nat : n \notin T}
<1>1. PICK x \in U : \A y \in U : x <= y
  BY SmallestOf
<1>2. x # 0 /\ x - 1 \in Nat
  BY <1>1
<1>3. x - 1 \in T
  BY <1>1, <1>2
<1> QED
  BY <1>1, <1>2, <1>3

\* The lists compared at a depth, from those one level above.
LEMMA ComparedLevels ==
    ASSUME NEW old, NEW new
    PROVE  Compared(old, new) = [k \in Nat |-> IF k = 0 THEN {<<old, new>>} ELSE Inside(Compared(old, new)[k - 1])]
<1> DEFINE Start      == {<<old, new>>}
           Step(f, k) == IF k = 0 THEN Start ELSE Inside(f[k - 1])
           Upto(f, n) == \A k \in 0..n : f[k] = Step(f, k)
<1>1. Compared(old, new) = CHOOSE f : f = [k \in Nat |-> IF k = 0 THEN Start ELSE Inside(f[k - 1])]
  BY DEF Compared
<1> HIDE DEF Start
<1>2. \A n \in Nat : \E f : Upto(f, n)
  <2> DEFINE T == {n \in Nat : \E f : Upto(f, n)}
  <2>1. 0 \in T
    <3>1. Upto([k \in Nat |-> Start], 0)
      OBVIOUS
    <3> QED
      BY <3>1
  <2>2. ASSUME NEW n \in Nat, NEW f, Upto(f, n)
        PROVE  \E g : Upto(g, n + 1)
    <3> DEFINE g == [k \in Nat |-> IF k = n + 1 THEN Inside(f[n]) ELSE f[k]]
    <3>1. ASSUME NEW k \in 0..(n + 1) PROVE g[k] = Step(g, k)
      <4>1. CASE k = n + 1
        BY <4>1
      <4>2. CASE k # n + 1 /\ k # 0
        <5>1. k \in 0..n /\ k - 1 \in 0..n /\ k - 1 \in Nat /\ k \in Nat
          BY <4>2
        <5>2. f[k] = Inside(f[k - 1])
          BY <2>2, <4>2, <5>1
        <5> QED
          BY <4>2, <5>1, <5>2
      <4>3. CASE k = 0
        <5>1. f[0] = Start
          BY <2>2
        <5> QED
          BY <4>3, <5>1
      <4> QED
        BY <4>1, <4>2, <4>3
    <3> QED
      BY <3>1
  <2> HIDE DEF Upto
  <2>3. \A n \in Nat : n \in T => n + 1 \in T
    BY <2>2
  <2>4. Nat \subseteq T
    <3> HIDE DEF T
    <3> QED
      BY <2>1, <2>3, InductionOver
  <2> QED
    BY <2>4
<1>3. \A f, g : \A m, n \in Nat :
        Upto(f, m) /\ Upto(g, n) => \A k \in Nat : k <= m /\ k <= n => f[k] = g[k]
  <2> SUFFICES ASSUME NEW f, NEW g, NEW m \in Nat, NEW n \in Nat, Upto(f, m), Upto(g, n)
               PROVE  \A k \in Nat : k <= m /\ k <= n => f[k] = g[k]
    <3> HIDE DEF Upto
    <3> QED
      OBVIOUS
  <2> DEFINE T == {k \in Nat : k <= m /\ k <= n => f[k] = g[k]}
  <2>1. 0 \in T
    <3>1. 0 \in 0..m /\ 0 \in 0..n
      OBVIOUS
    <3> QED
      BY <3>1
  <2>2. ASSUME NEW k \in Nat, k \in T PROVE k + 1 \in T
    <3> SUFFICES ASSUME k + 1 <= m, k + 1 <= n PROVE f[k + 1] = g[k + 1]
      OBVIOUS
    <3>1. k + 1 \in 0..m /\ k + 1 \in 0..n /\ k + 1 - 1 = k /\ k + 1 # 0
      OBVIOUS
    <3>2. f[k + 1] = Inside(f[k]) /\ g[k + 1] = Inside(g[k])
      BY <3>1
    <3>3. f[k] = g[k]
      BY <2>2
    <3> QED
      BY <3>2, <3>3
  <2>3. Nat \subseteq T
    <3> HIDE DEF T
    <3> QED
      BY <2>1, <2>2, InductionOver
  <2> QED
    BY <2>3
<1> DEFINE H == [n \in Nat |-> (CHOOSE f : Upto(f, n))[n]]
<1>4. H = [k \in Nat |-> IF k = 0 THEN Start ELSE Inside(H[k - 1])]
  <2>1. ASSUME NEW k \in Nat PROVE H[k] = IF k = 0 THEN Start ELSE Inside(H[k - 1])
    <3> DEFINE f == CHOOSE f : Upto(f, k)
    <3>1. Upto(f, k)
      <4> HIDE DEF Upto
      <4> QED
        BY <1>2
    <3>2. H[k] = f[k]
      OBVIOUS
    <3> HIDE DEF f
    <3>3. CASE k = 0
      BY <3>1, <3>2, <3>3
    <3>4. CASE k # 0
      <4> DEFINE g == CHOOSE g : Upto(g, k - 1)
      <4>1. k - 1 \in Nat
        BY <3>4
      <4>2. Upto(g, k - 1)
        <5> HIDE DEF Upto
        <5> QED
          BY <1>2, <4>1
      <4>3. H[k - 1] = g[k - 1]
        BY <4>1
      <4> HIDE DEF g
      <4>4. f[k - 1] = g[k - 1]
        <5> HIDE DEF Upto
        <5> QED
          BY <1>3, <3>1, <4>1, <4>2
      <4>5. f[k] = Inside(f[k - 1])
        BY <3>1, <3>4
      <4> QED
        BY <3>2, <3>4, <4>3, <4>4, <4>5
    <3> QED
      BY <3>3, <3>4
  <2> HIDE DEF H
  <2>2. H = [k \in Nat |-> H[k]]
    BY DEF H
  <2> QED
    BY <2>1, <2>2
<1> HIDE DEF H
<1>5. Compared(old, new) = [k \in Nat |-> IF k = 0 THEN Start ELSE Inside(Compared(old, new)[k - 1])]
  BY <1>1, <1>4
<1> QED
  BY <1>5 DEF Start

\* The messages at a depth, from those one level above.
LEMMA MessageLevels ==
    ASSUME NEW fd
    PROVE  Level(fd) = [k \in Nat |-> IF k = 0 THEN Nodes(fd.package, fd.messages, TRUE) ELSE Deeper(Level(fd)[k - 1])]
<1> DEFINE Start      == Nodes(fd.package, fd.messages, TRUE)
           Step(f, k) == IF k = 0 THEN Start ELSE Deeper(f[k - 1])
           Upto(f, n) == \A k \in 0..n : f[k] = Step(f, k)
<1>1. Level(fd) = CHOOSE f : f = [k \in Nat |-> IF k = 0 THEN Start ELSE Deeper(f[k - 1])]
  BY DEF Level
<1> HIDE DEF Start
<1>2. \A n \in Nat : \E f : Upto(f, n)
  <2> DEFINE T == {n \in Nat : \E f : Upto(f, n)}
  <2>1. 0 \in T
    <3>1. Upto([k \in Nat |-> Start], 0)
      OBVIOUS
    <3> QED
      BY <3>1
  <2>2. ASSUME NEW n \in Nat, NEW f, Upto(f, n)
        PROVE  \E g : Upto(g, n + 1)
    <3> DEFINE g == [k \in Nat |-> IF k = n + 1 THEN Deeper(f[n]) ELSE f[k]]
    <3>1. ASSUME NEW k \in 0..(n + 1) PROVE g[k] = Step(g, k)
      <4>1. CASE k = n + 1
        BY <4>1
      <4>2. CASE k # n + 1 /\ k # 0
        <5>1. k \in 0..n /\ k - 1 \in 0..n /\ k - 1 \in Nat /\ k \in Nat
          BY <4>2
        <5>2. f[k] = Deeper(f[k - 1])
          BY <2>2, <4>2, <5>1
        <5> QED
          BY <4>2, <5>1, <5>2
      <4>3. CASE k = 0
        <5>1. f[0] = Start
          BY <2>2
        <5> QED
          BY <4>3, <5>1
      <4> QED
        BY <4>1, <4>2, <4>3
    <3> QED
      BY <3>1
  <2> HIDE DEF Upto
  <2>3. \A n \in Nat : n \in T => n + 1 \in T
    BY <2>2
  <2>4. Nat \subseteq T
    <3> HIDE DEF T
    <3> QED
      BY <2>1, <2>3, InductionOver
  <2> QED
    BY <2>4
<1>3. \A f, g : \A m, n \in Nat :
        Upto(f, m) /\ Upto(g, n) => \A k \in Nat : k <= m /\ k <= n => f[k] = g[k]
  <2> SUFFICES ASSUME NEW f, NEW g, NEW m \in Nat, NEW n \in Nat, Upto(f, m), Upto(g, n)
               PROVE  \A k \in Nat : k <= m /\ k <= n => f[k] = g[k]
    <3> HIDE DEF Upto
    <3> QED
      OBVIOUS
  <2> DEFINE T == {k \in Nat : k <= m /\ k <= n => f[k] = g[k]}
  <2>1. 0 \in T
    <3>1. 0 \in 0..m /\ 0 \in 0..n
      OBVIOUS
    <3> QED
      BY <3>1
  <2>2. ASSUME NEW k \in Nat, k \in T PROVE k + 1 \in T
    <3> SUFFICES ASSUME k + 1 <= m, k + 1 <= n PROVE f[k + 1] = g[k + 1]
      OBVIOUS
    <3>1. k + 1 \in 0..m /\ k + 1 \in 0..n /\ k + 1 - 1 = k /\ k + 1 # 0
      OBVIOUS
    <3>2. f[k + 1] = Deeper(f[k]) /\ g[k + 1] = Deeper(g[k])
      BY <3>1
    <3>3. f[k] = g[k]
      BY <2>2
    <3> QED
      BY <3>2, <3>3
  <2>3. Nat \subseteq T
    <3> HIDE DEF T
    <3> QED
      BY <2>1, <2>2, InductionOver
  <2> QED
    BY <2>3
<1> DEFINE H == [n \in Nat |-> (CHOOSE f : Upto(f, n))[n]]
<1>4. H = [k \in Nat |-> IF k = 0 THEN Start ELSE Deeper(H[k - 1])]
  <2>1. ASSUME NEW k \in Nat PROVE H[k] = IF k = 0 THEN Start ELSE Deeper(H[k - 1])
    <3> DEFINE f == CHOOSE f : Upto(f, k)
    <3>1. Upto(f, k)
      <4> HIDE DEF Upto
      <4> QED
        BY <1>2
    <3>2. H[k] = f[k]
      OBVIOUS
    <3> HIDE DEF f
    <3>3. CASE k = 0
      BY <3>1, <3>2, <3>3
    <3>4. CASE k # 0
      <4> DEFINE g == CHOOSE g : Upto(g, k - 1)
      <4>1. k - 1 \in Nat
        BY <3>4
      <4>2. Upto(g, k - 1)
        <5> HIDE DEF Upto
        <5> QED
          BY <1>2, <4>1
      <4>3. H[k - 1] = g[k - 1]
        BY <4>1
      <4> HIDE DEF g
      <4>4. f[k - 1] = g[k - 1]
        <5> HIDE DEF Upto
        <5> QED
          BY <1>3, <3>1, <4>1, <4>2
      <4>5. f[k] = Deeper(f[k - 1])
        BY <3>1, <3>4
      <4> QED
        BY <3>2, <3>4, <4>3, <4>4, <4>5
    <3> QED
      BY <3>3, <3>4
  <2> HIDE DEF H
  <2>2. H = [k \in Nat |-> H[k]]
    BY DEF H
  <2> QED
    BY <2>1, <2>2
<1> HIDE DEF H
<1>5. Level(fd) = [k \in Nat |-> IF k = 0 THEN Start ELSE Deeper(Level(fd)[k - 1])]
  BY <1>1, <1>4
<1> QED
  BY <1>5 DEF Start

LEMMA LevelStep ==
    ASSUME NEW fd
    PROVE  /\ Level(fd)[0] = Nodes(fd.package, fd.messages, TRUE)
           /\ \A k \in Nat : Level(fd)[k + 1] = Deeper(Level(fd)[k])
<1>1. \A k \in Nat : Level(fd)[k] = IF k = 0 THEN Nodes(fd.package, fd.messages, TRUE)
                                    ELSE Deeper(Level(fd)[k - 1])
  BY MessageLevels
<1>2. ASSUME NEW k \in Nat PROVE Level(fd)[k + 1] = Deeper(Level(fd)[k])
  <2>1. k + 1 \in Nat /\ k + 1 # 0 /\ (k + 1) - 1 = k
    OBVIOUS
  <2> QED
    BY <1>1, <2>1
<1> QED
  BY <1>1, <1>2

LEMMA ComparedStep ==
    ASSUME NEW old, NEW new
    PROVE  /\ Compared(old, new)[0] = {<<old, new>>}
           /\ \A k \in Nat : Compared(old, new)[k + 1] = Inside(Compared(old, new)[k])
<1> DEFINE C     == Compared(old, new)
           Start == {<<old, new>>}
<1>0. C = [k \in Nat |-> IF k = 0 THEN Start ELSE Inside(C[k - 1])]
  BY ComparedLevels
<1> HIDE DEF C, Start
<1>1. \A k \in Nat : C[k] = IF k = 0 THEN Start ELSE Inside(C[k - 1])
  BY <1>0
<1>2. ASSUME NEW k \in Nat PROVE C[k + 1] = Inside(C[k])
  <2>1. k + 1 \in Nat /\ k + 1 # 0 /\ (k + 1) - 1 = k
    OBVIOUS
  <2> QED
    BY <1>1, <2>1
<1>3. C[0] = Start
  BY <1>1
<1> QED
  BY <1>2, <1>3 DEF C, Start

-----------------------------------------------------------------------------
(***************************************************************************)
(* Two files                                                               *)
(***************************************************************************)
LEMMA NodeParts ==
    ASSUME NEW path, NEW list, NEW first, NEW x \in Nodes(path, list, first)
    PROVE  \E i \in DOMAIN list :
             /\ x.m = list[i] /\ x.path = Append(path, x.m.name)
             /\ x.first => first /\ \A j \in DOMAIN list : list[j].name = list[i].name => i <= j
<1> DEFINE Leads(i) == first /\ \A j \in DOMAIN list : list[j].name = list[i].name => i <= j
<1>1. PICK i \in DOMAIN list : x = [path |-> Append(path, list[i].name), m |-> list[i], first |-> Leads(i)]
  BY Zenon DEF Nodes
<1> HIDE DEF Leads
<1>2. x.m = list[i] /\ x.path = Append(path, list[i].name)
  BY <1>1
<1>3. x.first = Leads(i)
  BY <1>1, Zenon
<1> QED
  BY <1>2, <1>3, Zenon DEF Leads

\* The first of a name, when the list is searched for it.
LEMMA FirstFound ==
    ASSUME NEW list, DOMAIN list \subseteq Nat, NEW i \in DOMAIN list,
           \A j \in DOMAIN list : list[j].name = list[i].name => i <= j
    PROVE  Named(list, list[i].name) # {} /\ First(list, list[i].name) = list[i]
<1> DEFINE At == Named(list, list[i].name)
<1>1. i \in At /\ (\A j \in At : i <= j) /\ At \subseteq Nat
  BY DEF Named
<1>2. \A k \in At : (\A j \in At : k <= j) => k = i
  <2> HIDE DEF At
  <2>1. ASSUME NEW k \in At, \A j \in At : k <= j PROVE k = i
    <3>1. k <= i /\ i <= k /\ k \in Nat /\ i \in Nat
      BY <1>1, <2>1
    <3> QED
      BY <3>1
  <2> QED
    BY <2>1
<1>3. First(list, list[i].name) = list[CHOOSE k \in At : \A j \in At : k <= j]
  BY DEF First
<1> HIDE DEF At
<1>4. (CHOOSE k \in At : \A j \in At : k <= j) = i
  BY <1>1, <1>2
<1> QED
  BY <1>1, <1>3, <1>4 DEF At

\* A name in a list belongs to a first one.
LEMMA SomeFirst ==
    ASSUME NEW path, NEW list, DOMAIN list \subseteq Nat, NEW first, first = TRUE, NEW name, Named(list, name) # {}
    PROVE  \E x \in Nodes(path, list, first) : x.first /\ x.path = Append(path, name)
<1>1. Named(list, name) \subseteq Nat
  BY DEF Named
<1>2. PICK i \in Named(list, name) : \A j \in Named(list, name) : i <= j
  BY <1>1, SmallestOf
<1> DEFINE Leads(n) == first /\ \A j \in DOMAIN list : list[j].name = list[n].name => n <= j
           x        == [path |-> Append(path, list[i].name), m |-> list[i], first |-> Leads(i)]
<1>3. i \in DOMAIN list /\ list[i].name = name
  BY <1>2 DEF Named
<1>4. Leads(i)
  BY <1>2, <1>3 DEF Named
<1>5. x \in Nodes(path, list, first)
  BY <1>3, Zenon DEF Nodes
<1> HIDE DEF Leads
<1>6. x.m.name = name /\ x.path = Append(path, name)
  BY <1>3
<1>7. x.first = Leads(i)
  BY Zenon
<1>8. x.first = TRUE
  BY <1>4, <1>7, Zenon
<1> HIDE DEF x
<1> QED
  BY <1>5, <1>6, <1>8

\* What a comparison without breaking findings says of the lists that it compared.
LEMMA CleanParts ==
    ASSUME NEW old, NEW new, Breaking(lint(old, new)) = {}
    PROVE  /\ old.package = new.package
           /\ \A k \in 0..MaxNesting : \A l \in Compared(old.messages, new.messages)[k] :
                /\ \A n \in Range(l[2]) : Named(l[1], n.name) # {} =>
                                            Breaking(Findings(First(l[1], n.name), n)) = {}
                /\ \A o \in Range(l[1]) : Named(l[2], o.name) # {}
<1>1. \A x \in lint(old, new) : x[1] # "breaking"
  BY DEF Breaking
<1>2. old.package = new.package
  <2>1. old.package # new.package => <<"breaking", "PACKAGE_CHANGED", "">> \in lint(old, new)
    BY DEF lint, When
  <2> QED
    BY <1>1, <2>1
<1>3. \A x \in lint_messages(old.messages, new.messages) : x[1] # "breaking"
  BY <1>1 DEF lint
<1>4. ASSUME NEW k \in 0..MaxNesting, NEW l \in Compared(old.messages, new.messages)[k]
      PROVE  \A x \in LintLists(l[1], l[2]) : x[1] # "breaking"
  BY <1>3 DEF lint_messages
<1>5. ASSUME NEW k \in 0..MaxNesting, NEW l \in Compared(old.messages, new.messages)[k],
             NEW n \in Range(l[2]), Named(l[1], n.name) # {}
      PROVE  Breaking(Findings(First(l[1], n.name), n)) = {}
  <2>1. lint_message(First(l[1], n.name), n) \subseteq LintLists(l[1], l[2])
    BY <1>5 DEF LintLists, ByNames
  <2>2. Findings(First(l[1], n.name), n) \subseteq lint_message(First(l[1], n.name), n)
    BY DEF Findings, lint_message
  <2> QED
    BY <1>4, <2>1, <2>2 DEF Breaking
<1>6. ASSUME NEW k \in 0..MaxNesting, NEW l \in Compared(old.messages, new.messages)[k],
             NEW o \in Range(l[1]), Named(l[2], o.name) = {}
      PROVE  FALSE
  <2> DEFINE gone == {x \in Range(l[1]) : Named(l[2], x.name) = {}}
  <2>1. <<"breaking", "MESSAGE_REMOVED", o.name>> \in LintLists(l[1], l[2])
    <3>1. {<<"breaking", "MESSAGE_REMOVED", x.name>> : x \in gone} \subseteq LintLists(l[1], l[2])
      BY Zenon DEF LintLists, ByNames
    <3>2. o \in gone
      BY <1>6
    <3> QED
      BY <3>1, <3>2
  <2> QED
    BY <1>4, <2>1
<1> QED
  BY <1>2, <1>5, <1>6

-----------------------------------------------------------------------------
LEMMA FirstIsBoolean ==
    ASSUME NEW path, NEW list, NEW first, NEW x \in Nodes(path, list, first)
    PROVE  x.first = TRUE \/ x.first = FALSE
<1> DEFINE Leads(i) == first /\ \A j \in DOMAIN list : list[j].name = list[i].name => i <= j
<1>1. PICK i \in DOMAIN list : x = [path |-> Append(path, list[i].name), m |-> list[i], first |-> Leads(i)]
  BY Zenon DEF Nodes
<1>2. Leads(i) = TRUE \/ Leads(i) = FALSE
  BY Zenon
<1> HIDE DEF Leads
<1>3. x.first = Leads(i)
  BY <1>1, Zenon
<1> QED
  BY <1>2, <1>3, Zenon

LEMMA Parent ==
    ASSUME NEW fd, NEW k \in Nat, NEW x \in Level(fd)[k + 1]
    PROVE  \E p \in Level(fd)[k] : x \in Nodes(p.path, p.m.nested, p.first)
<1>1. x \in Deeper(Level(fd)[k])
  BY LevelStep
<1> QED
  BY <1>1 DEF Deeper

LEMMA IsFirst ==
    ASSUME NEW fd, NEW k \in Nat, NEW x \in Level(fd)[k], x.first
    PROVE  x.first = TRUE
<1>1. \E path, list, first : x \in Nodes(path, list, first)
  <2>1. CASE k = 0
    BY <2>1, LevelStep
  <2>2. CASE k # 0
    <3>1. k - 1 \in Nat /\ (k - 1) + 1 = k
      BY <2>2
    <3>2. \E p \in Level(fd)[k - 1] : x \in Nodes(p.path, p.m.nested, p.first)
      BY <3>1, Parent
    <3> QED
      BY <3>2
  <2> QED
    BY <2>1, <2>2
<1>2. x.first = TRUE \/ x.first = FALSE
  BY <1>1, FirstIsBoolean
<1> QED
  BY <1>2, Zenon

\* What a descriptor says of the messages at a depth.
LEMMA Shapes ==
    ASSUME NEW fd, Descriptor(fd), NEW k \in 0..MaxNesting, NEW x \in Level(fd)[k]
    PROVE  /\ x \in MessagesOf(fd) /\ x.m.name \in STRING
           /\ DOMAIN x.m.nested \subseteq Nat /\ DOMAIN x.m.fields \subseteq Nat /\ DOMAIN x.m.enums \subseteq Nat
           /\ \A r \in Range(x.m.reserved_ranges) \cup Range(x.m.extension_ranges) : r.start \in Nat /\ r.end \in Int
<1>1. x \in MessagesOf(fd)
  BY DEF MessagesOf
<1> QED
  BY <1>1 DEF Descriptor

\* The length of a message's path tells its depth.
LEMMA PathsOf ==
    ASSUME NEW fd, Descriptor(fd)
    PROVE  \A k \in 0..MaxNesting : \A x \in Level(fd)[k] :
             x.path \in Seq(STRING) /\ Len(x.path) = Len(fd.package) + k + 1
<1> DEFINE At(k, x) == x.path \in Seq(STRING) /\ Len(x.path) = Len(fd.package) + k + 1
           T        == {k \in Nat : k <= MaxNesting => \A x \in Level(fd)[k] : At(k, x)}
<1>0. fd.package \in Seq(STRING) /\ Len(fd.package) \in Nat
  BY DEF Descriptor
<1>1. ASSUME NEW k \in 0..MaxNesting, NEW path \in Seq(STRING), Len(path) = Len(fd.package) + k,
             NEW list, NEW first, NEW x \in Nodes(path, list, first), x \in Level(fd)[k]
      PROVE  At(k, x)
  <2>1. x.m.name \in STRING
    BY <1>1, Shapes
  <2>2. x.path = Append(path, x.m.name)
    BY NodeParts
  <2>3. Append(path, x.m.name) \in Seq(STRING) /\ Len(Append(path, x.m.name)) = Len(path) + 1
    BY <2>1, AppendProperties
  <2> QED
    BY <1>0, <1>1, <2>2, <2>3
<1>2. 0 \in T
  <2>1. ASSUME NEW x \in Level(fd)[0], 0 <= MaxNesting PROVE At(0, x)
    <3>1. x \in Nodes(fd.package, fd.messages, TRUE)
      BY LevelStep
    <3>2. 0 \in 0..MaxNesting
      BY NestingAssumption
    <3>3. Len(fd.package) = Len(fd.package) + 0
      BY <1>0
    <3> HIDE DEF At
    <3> QED
      BY <1>0, <1>1, <3>1, <3>2, <3>3
  <2> QED
    BY <2>1
<1>3. ASSUME NEW k \in Nat, k \in T PROVE k + 1 \in T
  <2>1. ASSUME k + 1 <= MaxNesting, NEW x \in Level(fd)[k + 1] PROVE At(k + 1, x)
    <3>1. PICK p \in Level(fd)[k] : x \in Nodes(p.path, p.m.nested, p.first)
      BY Parent
    <3>2. k <= MaxNesting /\ k + 1 \in 0..MaxNesting
      BY <2>1, NestingAssumption
    <3>3. At(k, p)
      BY <1>3, <3>1, <3>2
    <3>4. p.path \in Seq(STRING) /\ Len(p.path) = Len(fd.package) + (k + 1)
      <4>1. \A n \in Nat : n + k + 1 = n + (k + 1)
        OBVIOUS
      <4> HIDE DEF T
      <4> QED
        BY <1>0, <3>3, <4>1
    <3> HIDE DEF At
    <3> QED
      BY <1>1, <2>1, <3>1, <3>2, <3>4
  <2> HIDE DEF At
  <2> QED
    BY <2>1
<1>4. Nat \subseteq T
  <2> HIDE DEF T
  <2> QED
    BY <1>2, <1>3, InductionOver
<1> HIDE DEF At
<1>5. \A k \in 0..MaxNesting : \A x \in Level(fd)[k] : At(k, x)
  BY <1>4, NestingAssumption
<1> QED
  BY <1>5 DEF At

\* A message that is compared is compared with the first of its name.
LEMMA FoundBefore ==
    ASSUME NEW path, NEW list, NEW first, NEW x \in Nodes(path, list, first), DOMAIN list \subseteq Nat, x.first,
           NEW path2, NEW list2, NEW first2, NEW y \in Nodes(path2, list2, first2), x.m.name = y.m.name
    PROVE  first /\ y.m \in Range(list2) /\ Named(list, y.m.name) # {} /\ First(list, y.m.name) = x.m
<1>1. PICK i \in DOMAIN list : /\ x.m = list[i] /\ first
                               /\ \A j \in DOMAIN list : list[j].name = list[i].name => i <= j
  BY NodeParts
<1>2. PICK j \in DOMAIN list2 : y.m = list2[j]
  BY NodeParts
<1>3. y.m \in Range(list2)
  BY <1>2 DEF Range
<1>4. Named(list, list[i].name) # {} /\ First(list, list[i].name) = list[i]
  BY <1>1, FirstFound
<1> QED
  BY <1>1, <1>3, <1>4

\* Messages with one path are compared, as far as lint looks at them.
Matches(lists, x, y) == \E l \in lists : y.m \in Range(l[2]) /\ Named(l[1], y.m.name) # {} /\ First(l[1], y.m.name) = x.m

LEMMA MatchedInside ==
    ASSUME NEW lists, NEW x, NEW y, Matches(lists, x, y)
    PROVE  <<x.m.nested, y.m.nested>> \in Inside(lists)
<1>1. PICK l \in lists : y.m \in Range(l[2]) /\ Named(l[1], y.m.name) # {} /\ First(l[1], y.m.name) = x.m
  BY DEF Matches
<1>2. <<First(l[1], y.m.name).nested, y.m.nested>> \in
        {<<First(l[1], n.name).nested, n.nested>> : n \in {m \in Range(l[2]) : Named(l[1], m.name) # {}}}
  BY <1>1
<1> QED
  BY <1>1, <1>2 DEF Inside

LEMMA Matched ==
    ASSUME NEW old, NEW new, Descriptor(old), Descriptor(new), old.package = new.package
    PROVE  \A k \in 0..MaxNesting : \A x \in Level(old)[k], y \in Level(new)[k] :
             x.first /\ x.path = y.path => Matches(Compared(old.messages, new.messages)[k], x, y)
<1> DEFINE C           == Compared(old.messages, new.messages)
           Same(k, x, y) == x.first /\ x.path = y.path => Matches(C[k], x, y)
           T           == {k \in Nat : k <= MaxNesting => \A x \in Level(old)[k], y \in Level(new)[k] : Same(k, x, y)}
<1>1. ASSUME NEW k \in 0..MaxNesting, NEW x \in Level(old)[k], NEW y \in Level(new)[k], x.first, x.path = y.path,
             NEW path \in Seq(STRING), NEW list, NEW first, NEW path2 \in Seq(STRING), NEW list2, NEW first2,
             x \in Nodes(path, list, first), y \in Nodes(path2, list2, first2), DOMAIN list \subseteq Nat
      PROVE  /\ path = path2 /\ first
             /\ <<list, list2>> \in C[k] => Matches(C[k], x, y)
  <2>1. x.m.name \in STRING /\ y.m.name \in STRING
    BY Shapes
  <2>2. x.path = Append(path, x.m.name) /\ y.path = Append(path2, y.m.name)
    BY <1>1, NodeParts
  <2>3. path = path2 /\ x.m.name = y.m.name
    <3>1. Append(path, x.m.name) = Append(path2, y.m.name)
      BY <1>1, <2>2
    <3>2. Append(path, x.m.name) = Append(path2, y.m.name) <=> path = path2 /\ x.m.name = y.m.name
      BY <2>1, AppendInjective
    <3> QED
      BY <3>1, <3>2
  <2>4. first /\ y.m \in Range(list2) /\ Named(list, y.m.name) # {} /\ First(list, y.m.name) = x.m
    BY <1>1, <2>3, FoundBefore
  <2> HIDE DEF C
  <2>5. ASSUME <<list, list2>> \in C[k] PROVE Matches(C[k], x, y)
    <3> DEFINE l == <<list, list2>>
    <3>1. l[1] = list /\ l[2] = list2
      OBVIOUS
    <3> HIDE DEF l
    <3> QED
      BY <2>4, <2>5, <3>1 DEF Matches, l
  <2> QED
    BY <2>3, <2>4, <2>5
<1>2. 0 \in T
  <2>1. ASSUME NEW x \in Level(old)[0], NEW y \in Level(new)[0], x.first, x.path = y.path PROVE Matches(C[0], x, y)
    <3>1. x \in Nodes(old.package, old.messages, TRUE) /\ y \in Nodes(new.package, new.messages, TRUE)
      BY LevelStep
    <3>2. 0 \in 0..MaxNesting
      BY NestingAssumption
    <3>3. old.package \in Seq(STRING) /\ new.package \in Seq(STRING) /\ DOMAIN old.messages \subseteq Nat
      BY DEF Descriptor
    <3>4. <<old.messages, new.messages>> \in C[0]
      BY ComparedStep
    <3> DEFINE top   == TRUE
               list  == old.messages
               list2 == new.messages
               path  == old.package
               path2 == new.package
    <3>5. /\ x \in Nodes(path, list, top) /\ y \in Nodes(path2, list2, top)
          /\ path \in Seq(STRING) /\ path2 \in Seq(STRING) /\ DOMAIN list \subseteq Nat /\ <<list, list2>> \in C[0]
      BY <3>1, <3>3, <3>4
    <3> HIDE DEF C, top, list, list2, path, path2
    <3> QED
      BY <1>1, <2>1, <3>2, <3>5
  <2> HIDE DEF C
  <2> QED
    BY <2>1
<1>3. ASSUME NEW k \in Nat, k \in T PROVE k + 1 \in T
  <2>1. ASSUME k + 1 <= MaxNesting, NEW x \in Level(old)[k + 1], NEW y \in Level(new)[k + 1], x.first, x.path = y.path
        PROVE  Matches(C[k + 1], x, y)
    <3>1. PICK p \in Level(old)[k] : x \in Nodes(p.path, p.m.nested, p.first)
      BY Parent
    <3>2. PICK q \in Level(new)[k] : y \in Nodes(q.path, q.m.nested, q.first)
      BY Parent
    <3>3. k <= MaxNesting /\ k \in 0..MaxNesting /\ k + 1 \in 0..MaxNesting
      BY <2>1, NestingAssumption
    <3>4. p.path \in Seq(STRING) /\ q.path \in Seq(STRING)
      BY <3>3, PathsOf
    <3>5. DOMAIN p.m.nested \subseteq Nat
      BY <3>3, Shapes
    <3> HIDE DEF C
    <3>6. /\ p.path = q.path /\ p.first
          /\ <<p.m.nested, q.m.nested>> \in C[k + 1] => Matches(C[k + 1], x, y)
      BY <1>1, <2>1, <3>1, <3>2, <3>3, <3>4, <3>5
    <3>7. Matches(C[k], p, q)
      BY <1>3, <3>3, <3>6
    <3>8. C[k + 1] = Inside(C[k])
      BY ComparedStep DEF C
    <3> QED
      BY <3>6, <3>7, <3>8, MatchedInside
  <2> HIDE DEF C
  <2> QED
    BY <2>1
<1> HIDE DEF C
<1>4. Nat \subseteq T
  <2> HIDE DEF T
  <2> QED
    BY <1>2, <1>3, InductionOver
<1> QED
  BY <1>4, NestingAssumption DEF C

\* Two messages with one path, of two versions without breaking findings.
LEMMA MatchedIsClean ==
    ASSUME NEW old, NEW new, Descriptor(old), Descriptor(new), Breaking(lint(old, new)) = {},
           NEW k \in 0..MaxNesting, NEW x \in Level(old)[k], NEW y \in Level(new)[k], x.first, x.path = y.path
    PROVE  /\ Breaking(Findings(x.m, y.m)) = {}
           /\ <<x.m.nested, y.m.nested>> \in Compared(old.messages, new.messages)[k + 1]
<1>1. old.package = new.package
  BY CleanParts
<1> DEFINE C == Compared(old.messages, new.messages)
<1>2. Matches(C[k], x, y)
  BY <1>1, Matched
<1>3. \A l \in C[k] : \A n \in Range(l[2]) : Named(l[1], n.name) # {} => Breaking(Findings(First(l[1], n.name), n)) = {}
  BY CleanParts
<1>4. C[k + 1] = Inside(C[k])
  BY ComparedStep, NestingAssumption
<1> HIDE DEF C
<1>5. Breaking(Findings(x.m, y.m)) = {}
  BY <1>2, <1>3 DEF Matches
<1>6. <<x.m.nested, y.m.nested>> \in C[k + 1]
  BY <1>2, <1>4, MatchedInside
<1> QED
  BY <1>5, <1>6 DEF C

\* No message goes away.
LEMMA StillThere ==
    ASSUME NEW old, NEW new, Descriptor(old), Descriptor(new), Breaking(lint(old, new)) = {}
    PROVE  \A k \in 0..MaxNesting : \A x \in Level(old)[k] :
             x.first => \E y \in Level(new)[k] : y.first /\ y.path = x.path
<1> DEFINE C       == Compared(old.messages, new.messages)
           In(k, x) == \E y \in Level(new)[k] : y.first /\ y.path = x.path
           T       == {k \in Nat : k <= MaxNesting => \A x \in Level(old)[k] : x.first => In(k, x)}
<1>0. old.package = new.package
  BY CleanParts
<1>1. \A k \in 0..MaxNesting : \A l \in C[k] : \A o \in Range(l[1]) : Named(l[2], o.name) # {}
  BY CleanParts
<1>2. ASSUME NEW k \in 0..MaxNesting, NEW path, NEW list, NEW first, NEW list2, NEW first2,
             NEW x \in Nodes(path, list, first), x.first, <<list, list2>> \in C[k],
             DOMAIN list2 \subseteq Nat, first2 = TRUE, Nodes(path, list2, first2) \subseteq Level(new)[k]
      PROVE  In(k, x)
  <2>1. PICK i \in DOMAIN list : x.m = list[i] /\ x.path = Append(path, x.m.name)
    BY NodeParts
  <2>2. x.m \in Range(list)
    BY <2>1 DEF Range
  <2>3. Named(list2, x.m.name) # {}
    <3> DEFINE l == <<list, list2>>
    <3>1. l[1] = list /\ l[2] = list2
      OBVIOUS
    <3> HIDE DEF l
    <3>2. l \in C[k]
      BY <1>2 DEF l
    <3> HIDE DEF C
    <3> QED
      BY <1>1, <2>2, <3>1, <3>2
  <2>4. PICK y \in Nodes(path, list2, first2) : y.first /\ y.path = Append(path, x.m.name)
    <3> DEFINE name == x.m.name
    <3>1. DOMAIN list2 \subseteq Nat /\ first2 = TRUE /\ Named(list2, name) # {}
      BY <1>2, <2>3
    <3> HIDE DEF name
    <3>2. \E y \in Nodes(path, list2, first2) : y.first /\ y.path = Append(path, name)
      BY <3>1, SomeFirst
    <3> QED
      BY <3>2, Zenon DEF name
  <2> QED
    BY <1>2, <2>1, <2>4
<1>3. 0 \in T
  <2>1. ASSUME NEW x \in Level(old)[0], x.first PROVE In(0, x)
    <3>1. x \in Nodes(old.package, old.messages, TRUE) /\ Level(new)[0] = Nodes(old.package, new.messages, TRUE)
      BY <1>0, LevelStep
    <3>2. 0 \in 0..MaxNesting
      BY NestingAssumption
    <3>3. DOMAIN new.messages \subseteq Nat
      BY DEF Descriptor
    <3>4. <<old.messages, new.messages>> \in C[0]
      BY ComparedStep
    <3> HIDE DEF C, In
    <3> QED
      BY <1>2, <2>1, <3>1, <3>2, <3>3, <3>4
  <2> HIDE DEF In
  <2> QED
    BY <2>1
<1>4. ASSUME NEW k \in Nat, k \in T PROVE k + 1 \in T
  <2>1. ASSUME k + 1 <= MaxNesting, NEW x \in Level(old)[k + 1], x.first PROVE In(k + 1, x)
    <3>1. PICK p \in Level(old)[k] : x \in Nodes(p.path, p.m.nested, p.first)
      BY Parent
    <3>2. p.first
      BY <2>1, <3>1, NodeParts
    <3>3. k <= MaxNesting /\ k \in 0..MaxNesting /\ k + 1 \in 0..MaxNesting
      BY <2>1, NestingAssumption
    <3>4. PICK q \in Level(new)[k] : q.first /\ q.path = p.path
      BY <1>4, <3>1, <3>2, <3>3
    <3>5. <<p.m.nested, q.m.nested>> \in C[k + 1]
      BY <3>1, <3>2, <3>3, <3>4, MatchedIsClean
    <3>6. DOMAIN q.m.nested \subseteq Nat
      BY <3>3, <3>4, Shapes
    <3>7. q.first = TRUE /\ Nodes(p.path, q.m.nested, q.first) \subseteq Level(new)[k + 1]
      <4>1. Level(new)[k + 1] = Deeper(Level(new)[k])
        BY LevelStep
      <4>2. q.first = TRUE
        BY <3>4, IsFirst
      <4>3. Nodes(q.path, q.m.nested, q.first) \subseteq Level(new)[k + 1]
        BY <4>1 DEF Deeper
      <4> QED
        BY <3>4, <4>2, <4>3
    <3> DEFINE list  == p.m.nested
               list2 == q.m.nested
               in    == p.first
               in2   == q.first
               path  == p.path
    <3>8. /\ <<list, list2>> \in C[k + 1] /\ x \in Nodes(path, list, in)
          /\ DOMAIN list2 \subseteq Nat /\ in2 = TRUE /\ Nodes(path, list2, in2) \subseteq Level(new)[k + 1]
      BY <3>1, <3>5, <3>6, <3>7
    <3> HIDE DEF C, In, list, list2, in, in2, path
    <3> QED
      BY <1>2, <2>1, <3>3, <3>8
  <2> HIDE DEF In
  <2> QED
    BY <2>1
<1> HIDE DEF In
<1>5. Nat \subseteq T
  <2> HIDE DEF T
  <2> QED
    BY <1>3, <1>4, InductionOver
<1>6. \A k \in 0..MaxNesting : \A x \in Level(old)[k] : x.first => In(k, x)
  BY <1>5, NestingAssumption
<1> QED
  BY <1>6 DEF In

-----------------------------------------------------------------------------
(***************************************************************************)
(* What passes from a version to the next                                  *)
(***************************************************************************)
LEMMA FirstAtDepth ==
    ASSUME NEW fd, NEW x \in FirstOnes(fd)
    PROVE  x.first /\ \E k \in 0..MaxNesting : x \in Level(fd)[k]
<1>1. x \in MessagesOf(fd) /\ x.first
  BY Zenon DEF FirstOnes
<1>2. \E k \in 0..MaxNesting : x \in Level(fd)[k]
  BY <1>1 DEF MessagesOf
<1> QED
  BY <1>1, <1>2, Zenon

LEMMA ReservedKept ==
    ASSUME NEW old, NEW new, Descriptor(old), Descriptor(new), Breaking(lint(old, new)) = {},
           MaxNumber \in Nat
    PROVE  Reserved(old) \subseteq Reserved(new)
<1> SUFFICES ASSUME NEW e \in Reserved(old) PROVE e \in Reserved(new)
  OBVIOUS
<1>1. PICK x \in FirstOnes(old) :
        e \in {<<x.path, n>> : n \in {k \in 1..MaxNumber : \E r \in Range(x.m.reserved_ranges) : Holds(r, k)}}
  BY Zenon DEF Reserved
<1>2. PICK n \in 1..MaxNumber : e = <<x.path, n>> /\ \E r \in Range(x.m.reserved_ranges) : Holds(r, n)
  BY <1>1
<1>3. PICK r \in Range(x.m.reserved_ranges) : Holds(r, n)
  BY <1>2
<1>4. PICK k \in 0..MaxNesting : x \in Level(old)[k] /\ x.first
  BY <1>1, FirstAtDepth
<1>5. PICK y \in Level(new)[k] : y.first /\ y.path = x.path
  BY <1>4, StillThere
<1>6. Breaking(Findings(x.m, y.m)) = {}
  BY <1>4, <1>5, MatchedIsClean
<1>7. PICK s \in Range(y.m.reserved_ranges) : range_covers_range(s, r)
  <2> SUFFICES ASSUME \A s \in Range(y.m.reserved_ranges) : ~range_covers_range(s, r) PROVE FALSE
    OBVIOUS
  <2>1. <<"breaking", "RESERVED_RANGE_SHRUNK", r.start>> \in check_reserved_and_extensions(x.m, y.m)
    BY <1>3 DEF check_reserved_and_extensions
  <2> QED
    BY <1>6, <2>1 DEF Findings, Breaking
<1>8. r.start \in Nat /\ r.end \in Int /\ s.start \in Nat /\ s.end \in Int
  BY <1>3, <1>4, <1>5, <1>7, Shapes
<1>9. Holds(s, n)
  BY <1>2, <1>3, <1>7, <1>8 DEF Holds, range_covers, range_covers_range
<1>10. y \in FirstOnes(new)
  <2>1. y \in MessagesOf(new)
    BY <1>5, Shapes
  <2> QED
    BY <1>5, <2>1, Zenon DEF FirstOnes
<1> DEFINE Of(z) == {<<z.path, i>> : i \in {j \in 1..MaxNumber : \E q \in Range(z.m.reserved_ranges) : Holds(q, j)}}
<1>11. e \in Of(y)
  BY <1>2, <1>5, <1>7, <1>9
<1>12. Reserved(new) = UNION {Of(z) : z \in FirstOnes(new)}
  BY Zenon DEF Reserved
<1> HIDE DEF Of
<1> QED
  BY <1>10, <1>11, <1>12

\* The field that has a meaning.
Describes(h, x, f) ==
  /\ h.at = x.path /\ h.number = f.number
  /\ h.name = f.name /\ h.type = f.type /\ h.label = f.label /\ h.of = f.type_name
  /\ h.twice <=> ~GivenOnce(x.m, f.number)

LEMMA MeaningParts ==
    ASSUME NEW fd, NEW h \in Meanings(fd)
    PROVE  \E x \in FirstOnes(fd) : \E f \in Range(x.m.fields) : Describes(h, x, f)
<1>1. PICK x \in FirstOnes(fd) : h \in {Meaning(x, f) : f \in Range(x.m.fields)}
  BY Zenon DEF Meanings
<1>2. PICK f \in Range(x.m.fields) : h = Meaning(x, f)
  BY <1>1
<1>3. /\ h.at = x.path /\ h.number = f.number
      /\ h.name = f.name /\ h.type = f.type /\ h.label = f.label /\ h.of = f.type_name
  BY <1>2 DEF Meaning
<1>4. h.twice = ~GivenOnce(x.m, f.number)
  BY <1>2, Zenon DEF Meaning
<1>5. h.twice <=> ~GivenOnce(x.m, f.number)
  BY <1>4, Zenon
<1>6. Describes(h, x, f)
  BY <1>3, <1>5, Zenon DEF Describes
<1> QED
  BY <1>1, <1>2, <1>6

LEMMA MeaningKept ==
    ASSUME NEW old, NEW new, Descriptor(old), Descriptor(new), Breaking(lint(old, new)) = {},
           NEW g \in Meanings(old), NEW h \in Meanings(new), Use(g) = Use(h), ~g.twice
    PROVE  SameField(g, h) /\ g.of = h.of
<1>0. g.at = h.at /\ g.number = h.number
  BY DEF Use
<1>a. PICK x \in FirstOnes(old) : \E f \in Range(x.m.fields) : Describes(g, x, f)
  BY MeaningParts
<1>1. PICK f \in Range(x.m.fields) : Describes(g, x, f)
  BY <1>a
<1>2. /\ g.at = x.path /\ g.number = f.number
      /\ g.name = f.name /\ g.type = f.type /\ g.label = f.label /\ g.of = f.type_name
      /\ GivenOnce(x.m, f.number)
  BY <1>1, Zenon DEF Describes
<1>b. PICK y \in FirstOnes(new) : \E e \in Range(y.m.fields) : Describes(h, y, e)
  BY MeaningParts
<1>3. PICK e \in Range(y.m.fields) : Describes(h, y, e)
  BY <1>b
<1>4. /\ h.at = y.path /\ h.number = e.number
      /\ h.name = e.name /\ h.type = e.type /\ h.label = e.label /\ h.of = e.type_name
  BY <1>3, Zenon DEF Describes
<1>5. PICK k \in 0..MaxNesting : x \in Level(old)[k] /\ x.first
  BY <1>1, FirstAtDepth
<1>6. PICK l \in 0..MaxNesting : y \in Level(new)[l]
  BY <1>3, FirstAtDepth
<1>7. x.path = y.path
  BY <1>0, <1>2, <1>4
<1>8. k = l
  <2>1. Len(x.path) = Len(old.package) + k + 1 /\ Len(y.path) = Len(new.package) + l + 1
    BY <1>5, <1>6, PathsOf
  <2>2. old.package = new.package
    BY CleanParts
  <2>4. Len(old.package) \in Nat
    <3>1. old.package \in Seq(STRING)
      BY DEF Descriptor
    <3> QED
      BY <3>1
  <2>3. \A n \in Nat : n + k + 1 = n + l + 1 => k = l
    OBVIOUS
  <2> QED
    BY <1>7, <2>1, <2>2, <2>3, <2>4
<1>9. Breaking(Findings(x.m, y.m)) = {}
  BY <1>5, <1>6, <1>7, <1>8, MatchedIsClean
<1>10. DOMAIN x.m.fields \subseteq Int
  BY <1>5, Shapes
<1>11. e.name = f.name /\ e.type = f.type /\ e.label = f.label /\ e.type_name = f.type_name
  <2>1. e.number = f.number /\ GivenOnce(x.m, f.number)
    BY <1>0, <1>2, <1>4
  <2> DEFINE om == x.m
             nm == y.m
  <2>2. /\ f \in Range(om.fields) /\ e \in Range(nm.fields) /\ GivenOnce(om, f.number)
        /\ Breaking(Findings(om, nm)) = {} /\ DOMAIN om.fields \subseteq Int
    BY <1>1, <1>3, <1>9, <1>10, <2>1
  <2> HIDE DEF om, nm
  <2> QED
    BY <2>1, <2>2, FieldsKeepMeaning
<1> QED
  BY <1>2, <1>4, <1>11 DEF SameField

-----------------------------------------------------------------------------
(***************************************************************************)
(* A version against itself                                                *)
(***************************************************************************)
\* Without a name given twice, what is found for a name is what has it.
LEMMA FoundItself ==
    ASSUME NEW list, DOMAIN list \subseteq Nat, ~NamedTwice(list), NEW n \in Range(list)
    PROVE  Named(list, n.name) # {} /\ First(list, n.name) = n
<1>1. PICK i \in DOMAIN list : list[i] = n
  BY DEF Range
<1>2. \A j \in DOMAIN list : list[j].name = list[i].name => i <= j
  BY <1>1 DEF NamedTwice
<1> QED
  BY <1>1, <1>2, FirstFound

LEMMA EnumsAgainstThemselves ==
    ASSUME NEW list, DOMAIN list \subseteq Nat, ~NamedTwice(list)
    PROVE  lint_enums(list, list) = {}
<1>1. \A n \in Range(list) : Named(list, n.name) # {} /\ First(list, n.name) = n
  BY FoundItself
<1> QED
  BY <1>1 DEF lint_enums, ByNames

LEMMA MethodsAgainstThemselves ==
    ASSUME NEW list, DOMAIN list \subseteq Nat, ~NamedTwice(list)
    PROVE  ByNames(list, list, check_method_compat, <<"warning", "METHOD_ADDED">>, <<"breaking", "METHOD_REMOVED">>) = {}
<1>1. \A n \in Range(list) : Named(list, n.name) # {} /\ First(list, n.name) = n
  BY FoundItself
<1>2. \A m : check_method_compat(m, m) = {}
  BY DEF check_method_compat, When
<1> QED
  BY <1>1, <1>2 DEF ByNames

LEMMA ServicesAgainstThemselves ==
    ASSUME NEW list, DOMAIN list \subseteq Nat, ~NamedTwice(list),
           \A s \in Range(list) : DOMAIN s.methods \subseteq Nat /\ ~NamedTwice(s.methods)
    PROVE  lint_services(list, list) = {}
<1>1. \A n \in Range(list) : Named(list, n.name) # {} /\ First(list, n.name) = n
  BY FoundItself
<1>2. \A s \in Range(list) :
        ByNames(s.methods, s.methods, check_method_compat, <<"warning", "METHOD_ADDED">>, <<"breaking", "METHOD_REMOVED">>)
          = {}
  BY MethodsAgainstThemselves
<1> DEFINE Methods(os, ns) == ByNames(os.methods, ns.methods, check_method_compat,
                                      <<"warning", "METHOD_ADDED">>, <<"breaking", "METHOD_REMOVED">>)
<1>3. lint_services(list, list) =
        (UNION {IF Named(list, n.name) = {} THEN {<<"safe", "SERVICE_ADDED", n.name>>}
                ELSE Methods(First(list, n.name), n) : n \in Range(list)})
          \cup {<<"breaking", "SERVICE_REMOVED", o.name>> : o \in {x \in Range(list) : Named(list, x.name) = {}}}
  BY DEF lint_services, ByNames
<1>4. \A s \in Range(list) : Methods(s, s) = {}
  BY <1>2
<1> HIDE DEF Methods
<1> QED
  BY <1>1, <1>3, <1>4

LEMMA MessageAgainstItself ==
    ASSUME NEW fd, Descriptor(fd), ~Ambiguous(fd), ~Unbounded(fd), NEW x \in MessagesOf(fd)
    PROVE  lint_message(x.m, x.m) = {}
<1> DEFINE m == x.m
<1>1. /\ DOMAIN m.fields \subseteq Nat /\ DOMAIN m.enums \subseteq Nat
      /\ \A r \in Range(m.reserved_ranges) \cup Range(m.extension_ranges) : r.start \in Nat /\ r.end \in Int
  BY DEF Descriptor
<1>2. ~NamedTwice(m.enums) /\ \A f \in Range(m.fields) : GivenOnce(m, f.number)
  BY Zenon DEF Ambiguous
<1>3. \A r \in Range(m.reserved_ranges) \cup Range(m.extension_ranges) : ~(r.end # 0 /\ r.end < r.start)
  BY Zenon DEF Unbounded
<1> HIDE DEF m
<1>4. \A r \in Range(m.reserved_ranges) \cup Range(m.extension_ranges) : BoundedRange(r)
  BY <1>1, <1>3 DEF BoundedRange, WholeRange
<1>5. DOMAIN m.fields \subseteq Int
  BY <1>1
<1>6. Findings(m, m) = {}
  BY <1>2, <1>4, <1>5, UnchangedHasNoFindings
<1>7. lint_enums(m.enums, m.enums) = {}
  BY <1>1, <1>2, EnumsAgainstThemselves
<1>8. lint_message(m, m) = {}
  BY <1>6, <1>7 DEF Findings, lint_message
<1> QED
  BY <1>8 DEF m

\* Every list is compared with itself, and holds messages of the file.
LEMMA ListsAgainstThemselves ==
    ASSUME NEW fd, Descriptor(fd), ~Ambiguous(fd)
    PROVE  \A k \in 0..MaxNesting : \A l \in Compared(fd.messages, fd.messages)[k] :
             /\ l[1] = l[2]
             /\ \A n \in Range(l[1]) : /\ Named(l[1], n.name) # {} /\ First(l[1], n.name) = n
                                       /\ \E x \in Level(fd)[k] : x.m = n
<1> DEFINE C           == Compared(fd.messages, fd.messages)
           Own(k, list) == DOMAIN list \subseteq Nat /\ \E path, first : Nodes(path, list, first) \subseteq Level(fd)[k]
           T           == {k \in Nat : k <= MaxNesting => \A l \in C[k] : l[1] = l[2] /\ Own(k, l[1])}
<1>1. ASSUME NEW k \in 0..MaxNesting, NEW list, Own(k, list), NEW n \in Range(list)
      PROVE  /\ Named(list, n.name) # {} /\ First(list, n.name) = n
             /\ \E x \in Level(fd)[k] : x.m = n
  <2>1. PICK path, first : Nodes(path, list, first) \subseteq Level(fd)[k]
    BY <1>1
  <2>2. PICK i \in DOMAIN list : list[i] = n
    BY DEF Range
  <2> DEFINE Leads == first /\ \A j \in DOMAIN list : list[j].name = list[i].name => i <= j
             x     == [path |-> Append(path, list[i].name), m |-> list[i], first |-> Leads]
  <2>3. x \in Nodes(path, list, first)
    BY <2>2, Zenon DEF Nodes
  <2>4. x \in Level(fd)[k]
    BY <2>1, <2>3, Zenon
  <2>5. x \in MessagesOf(fd)
    BY <2>4, Shapes
  <2>6. x.first
    BY <2>5, Zenon DEF Ambiguous
  <2>7. x.first = Leads
    BY Zenon
  <2>8. \A j \in DOMAIN list : list[j].name = list[i].name => i <= j
    BY <2>6, <2>7, Zenon
  <2>9. x.m = n
    BY <2>2
  <2> HIDE DEF x, Leads
  <2>10. DOMAIN list \subseteq Nat
    BY <1>1
  <2>11. Named(list, n.name) # {} /\ First(list, n.name) = n
    BY <2>2, <2>8, <2>10, FirstFound
  <2> QED
    BY <2>4, <2>9, <2>11
<1>2. 0 \in T
  <2>1. C[0] = {<<fd.messages, fd.messages>>}
    BY ComparedStep
  <2>2. Own(0, fd.messages)
    <3>1. Nodes(fd.package, fd.messages, TRUE) \subseteq Level(fd)[0]
      BY LevelStep
    <3>2. DOMAIN fd.messages \subseteq Nat
      BY DEF Descriptor
    <3> QED
      BY <3>1, <3>2
  <2> HIDE DEF C, Own
  <2> QED
    BY <2>1, <2>2
<1>3. ASSUME NEW k \in Nat, k \in T PROVE k + 1 \in T
  <2>1. ASSUME k + 1 <= MaxNesting, NEW l \in C[k + 1] PROVE l[1] = l[2] /\ Own(k + 1, l[1])
    <3>1. k <= MaxNesting /\ k \in 0..MaxNesting
      BY <2>1, NestingAssumption
    <3>2. l \in Inside(C[k])
      BY <2>1, ComparedStep
    <3>3. PICK up \in C[k] : l \in {<<First(up[1], n.name).nested, n.nested>> :
                                      n \in {m \in Range(up[2]) : Named(up[1], m.name) # {}}}
      BY <3>2 DEF Inside
    <3>4. PICK n \in Range(up[2]) : l = <<First(up[1], n.name).nested, n.nested>>
      BY <3>3
    <3>5. up[1] = up[2] /\ Own(k, up[1])
      BY <1>3, <3>1, <3>3
    <3> HIDE DEF C, Own
    <3>6. First(up[1], n.name) = n /\ \E x \in Level(fd)[k] : x.m = n
      BY <1>1, <3>1, <3>4, <3>5
    <3>7. PICK x \in Level(fd)[k] : x.m = n
      BY <3>6
    <3>8. l[1] = n.nested /\ l[2] = n.nested
      BY <3>4, <3>6
    <3>9. Own(k + 1, n.nested)
      <4>1. DOMAIN n.nested \subseteq Nat
        BY <3>1, <3>7, Shapes
      <4>2. Nodes(x.path, x.m.nested, x.first) \subseteq Deeper(Level(fd)[k])
        BY DEF Deeper
      <4>3. Level(fd)[k + 1] = Deeper(Level(fd)[k])
        BY LevelStep
      <4>4. Nodes(x.path, n.nested, x.first) \subseteq Level(fd)[k + 1]
        BY <3>7, <4>2, <4>3
      <4> QED
        BY <4>1, <4>4, Zenon DEF Own
    <3> QED
      BY <3>8, <3>9
  <2> HIDE DEF C, Own
  <2> QED
    BY <2>1
<1> HIDE DEF C, Own
<1>4. Nat \subseteq T
  <2> HIDE DEF T
  <2> QED
    BY <1>2, <1>3, InductionOver
<1>5. \A k \in 0..MaxNesting : \A l \in C[k] : l[1] = l[2] /\ Own(k, l[1])
  BY <1>4, NestingAssumption
<1> QED
  BY <1>1, <1>5 DEF C

LEMMA FileAgainstItself ==
    ASSUME NEW fd, Descriptor(fd)
    PROVE  Silent(fd)
<1> SUFFICES ASSUME ~Ambiguous(fd), ~Unbounded(fd) PROVE lint(fd, fd) = {}
  BY DEF Silent
<1> DEFINE C == Compared(fd.messages, fd.messages)
<1>1. ASSUME NEW k \in 0..MaxNesting, NEW l \in C[k] PROVE LintLists(l[1], l[2]) = {}
  <2> DEFINE list == l[1]
  <2>1. l[1] = l[2]
    BY ListsAgainstThemselves
  <2>2. \A n \in Range(list) : Named(list, n.name) # {} /\ First(list, n.name) = n
    BY ListsAgainstThemselves
  <2>3. ASSUME NEW n \in Range(list) PROVE lint_message(n, n) = {}
    <3>1. PICK x \in Level(fd)[k] : x.m = n
      BY ListsAgainstThemselves
    <3>2. x \in MessagesOf(fd)
      BY Shapes
    <3> QED
      BY <3>1, <3>2, MessageAgainstItself
  <2> HIDE DEF list
  <2>4. LintLists(list, list) = {}
    BY <2>2, <2>3 DEF LintLists, ByNames
  <2> QED
    BY <2>1, <2>4 DEF list
<1>2. lint_messages(fd.messages, fd.messages) = {}
  BY <1>1 DEF lint_messages
<1>3. /\ DOMAIN fd.enums \subseteq Nat /\ DOMAIN fd.services \subseteq Nat
      /\ \A s \in Range(fd.services) : DOMAIN s.methods \subseteq Nat
  BY DEF Descriptor
<1>4. ~NamedTwice(fd.enums) /\ ~NamedTwice(fd.services) /\ \A s \in Range(fd.services) : ~NamedTwice(s.methods)
  BY Zenon DEF Ambiguous
<1>5. lint_enums(fd.enums, fd.enums) = {}
  BY <1>3, <1>4, EnumsAgainstThemselves
<1>6. lint_services(fd.services, fd.services) = {}
  BY <1>3, <1>4, ServicesAgainstThemselves
<1> QED
  BY <1>2, <1>5, <1>6 DEF lint, When

-----------------------------------------------------------------------------
(***************************************************************************)
(* One file                                                                *)
(***************************************************************************)
LEMMA FirstIsOne ==
    ASSUME NEW path, NEW path2, NEW list, NEW first, NEW first2, DOMAIN list \subseteq Nat,
           NEW x \in Nodes(path, list, first), NEW y \in Nodes(path2, list, first2),
           x.first, y.first, x.m.name = y.m.name
    PROVE  x.m = y.m
<1>1. PICK i \in DOMAIN list : x.m = list[i] /\ \A j \in DOMAIN list : list[j].name = list[i].name => i <= j
  BY NodeParts
<1>2. PICK k \in DOMAIN list : y.m = list[k] /\ \A j \in DOMAIN list : list[j].name = list[k].name => k <= j
  BY NodeParts
<1>3. list[i].name = list[k].name
  BY <1>1, <1>2
<1>4. i <= k /\ k <= i /\ i \in Nat /\ k \in Nat
  BY <1>1, <1>2, <1>3
<1>5. i = k
  BY <1>4
<1> QED
  BY <1>1, <1>2, <1>5

\* Of the messages with one path, lint and the data mean the same one.
LEMMA OneMessage ==
    ASSUME NEW fd, Descriptor(fd)
    PROVE  \A k \in 0..MaxNesting : \A x, y \in Level(fd)[k] : x.first /\ y.first /\ x.path = y.path => x.m = y.m
<1> DEFINE One(x, y) == x.first /\ y.first /\ x.path = y.path => x.m = y.m
           T         == {k \in Nat : k <= MaxNesting => \A x, y \in Level(fd)[k] : One(x, y)}
<1>1. ASSUME NEW k \in 0..MaxNesting, NEW x \in Level(fd)[k], NEW y \in Level(fd)[k], x.path = y.path,
             NEW path \in Seq(STRING), NEW list, NEW first, NEW path2 \in Seq(STRING), NEW list2, NEW first2,
             x \in Nodes(path, list, first), y \in Nodes(path2, list2, first2)
      PROVE  path = path2 /\ x.m.name = y.m.name
  <2>1. x.m.name \in STRING /\ y.m.name \in STRING
    BY Shapes
  <2>2. x.path = Append(path, x.m.name) /\ y.path = Append(path2, y.m.name)
    BY <1>1, NodeParts
  <2>3. Append(path, x.m.name) = Append(path2, y.m.name)
    BY <1>1, <2>2
  <2>4. Append(path, x.m.name) = Append(path2, y.m.name) <=> path = path2 /\ x.m.name = y.m.name
    BY <2>1, AppendInjective
  <2> QED
    BY <2>3, <2>4
<1>2. 0 \in T
  <2>1. ASSUME NEW x \in Level(fd)[0], NEW y \in Level(fd)[0], x.first, y.first, x.path = y.path PROVE x.m = y.m
    <3>1. x \in Nodes(fd.package, fd.messages, TRUE) /\ y \in Nodes(fd.package, fd.messages, TRUE)
      BY LevelStep
    <3>2. 0 \in 0..MaxNesting
      BY NestingAssumption
    <3>3. fd.package \in Seq(STRING) /\ DOMAIN fd.messages \subseteq Nat
      BY DEF Descriptor
    <3>4. x.m.name = y.m.name
      BY <1>1, <2>1, <3>1, <3>2, <3>3
    <3> DEFINE top  == TRUE
               list == fd.messages
    <3>5. x \in Nodes(fd.package, list, top) /\ y \in Nodes(fd.package, list, top) /\ DOMAIN list \subseteq Nat
      BY <3>1, <3>3
    <3> HIDE DEF top, list
    <3> QED
      BY <2>1, <3>4, <3>5, FirstIsOne
  <2> QED
    BY <2>1
<1>3. ASSUME NEW k \in Nat, k \in T PROVE k + 1 \in T
  <2>1. ASSUME k + 1 <= MaxNesting, NEW x \in Level(fd)[k + 1], NEW y \in Level(fd)[k + 1],
               x.first, y.first, x.path = y.path
        PROVE  x.m = y.m
    <3>1. PICK p \in Level(fd)[k] : x \in Nodes(p.path, p.m.nested, p.first)
      BY Parent
    <3>2. PICK q \in Level(fd)[k] : y \in Nodes(q.path, q.m.nested, q.first)
      BY Parent
    <3>3. k <= MaxNesting /\ k \in 0..MaxNesting /\ k + 1 \in 0..MaxNesting
      BY <2>1, NestingAssumption
    <3>4. p.path \in Seq(STRING) /\ q.path \in Seq(STRING)
      BY <3>3, PathsOf
    <3>5. p.path = q.path /\ x.m.name = y.m.name
      BY <1>1, <2>1, <3>1, <3>2, <3>3, <3>4
    <3>6. p.first /\ q.first
      BY <2>1, <3>1, <3>2, NodeParts
    <3>7. p.m = q.m
      BY <1>3, <3>3, <3>5, <3>6
    <3>8. DOMAIN p.m.nested \subseteq Nat
      BY <3>3, Shapes
    <3>9. y \in Nodes(q.path, p.m.nested, q.first)
      BY <3>2, <3>7
    <3> QED
      BY <2>1, <3>1, <3>5, <3>8, <3>9, FirstIsOne
  <2> QED
    BY <2>1
<1> HIDE DEF One
<1>4. Nat \subseteq T
  <2> HIDE DEF T
  <2> QED
    BY <1>2, <1>3, InductionOver
<1>5. \A k \in 0..MaxNesting : \A x, y \in Level(fd)[k] : One(x, y)
  BY <1>4, NestingAssumption
<1> QED
  BY <1>5 DEF One

\* A number that is given once has one meaning.
LEMMA OneMeaning ==
    ASSUME NEW fd, Descriptor(fd), NEW g \in Meanings(fd), NEW h \in Meanings(fd), Use(g) = Use(h), ~g.twice
    PROVE  SameField(g, h) /\ g.of = h.of
<1>0. g.at = h.at /\ g.number = h.number
  BY DEF Use
<1>a. PICK x \in FirstOnes(fd) : \E f \in Range(x.m.fields) : Describes(g, x, f)
  BY MeaningParts
<1>1. PICK f \in Range(x.m.fields) : Describes(g, x, f)
  BY <1>a
<1>2. /\ g.at = x.path /\ g.number = f.number
      /\ g.name = f.name /\ g.type = f.type /\ g.label = f.label /\ g.of = f.type_name
      /\ GivenOnce(x.m, f.number)
  BY <1>1, Zenon DEF Describes
<1>b. PICK y \in FirstOnes(fd) : \E e \in Range(y.m.fields) : Describes(h, y, e)
  BY MeaningParts
<1>3. PICK e \in Range(y.m.fields) : Describes(h, y, e)
  BY <1>b
<1>4. /\ h.at = y.path /\ h.number = e.number
      /\ h.name = e.name /\ h.type = e.type /\ h.label = e.label /\ h.of = e.type_name
  BY <1>3, Zenon DEF Describes
<1>5. PICK k \in 0..MaxNesting : x \in Level(fd)[k] /\ x.first
  BY <1>a, FirstAtDepth
<1>6. PICK l \in 0..MaxNesting : y \in Level(fd)[l] /\ y.first
  BY <1>b, FirstAtDepth
<1>7. x.path = y.path
  BY <1>0, <1>2, <1>4
<1>8. k = l
  <2>1. Len(x.path) = Len(fd.package) + k + 1 /\ Len(y.path) = Len(fd.package) + l + 1
    BY <1>5, <1>6, PathsOf
  <2>2. Len(fd.package) \in Nat
    <3>1. fd.package \in Seq(STRING)
      BY DEF Descriptor
    <3> QED
      BY <3>1
  <2>3. \A n \in Nat : n + k + 1 = n + l + 1 => k = l
    OBVIOUS
  <2> QED
    BY <1>7, <2>1, <2>2, <2>3
<1>9. x.m = y.m
  BY <1>5, <1>6, <1>7, <1>8, OneMessage
<1> DEFINE m == x.m
<1>10. f \in Range(m.fields) /\ e \in Range(m.fields) /\ f.number = e.number /\ GivenOnce(m, f.number)
  BY <1>0, <1>1, <1>2, <1>3, <1>4, <1>9
<1> HIDE DEF m
<1>11. f = e
  <2>1. PICK i \in DOMAIN m.fields : m.fields[i] = f
    BY <1>10 DEF Range
  <2>2. PICK j \in DOMAIN m.fields : m.fields[j] = e
    BY <1>10 DEF Range
  <2>3. i \in Places(m, f.number) /\ j \in Places(m, f.number)
    BY <1>10, <2>1, <2>2 DEF Places
  <2>4. i = j
    BY <1>10, <2>3 DEF GivenOnce
  <2> QED
    BY <2>1, <2>2, <2>4
<1> QED
  BY <1>2, <1>4, <1>11 DEF SameField

-----------------------------------------------------------------------------
(***************************************************************************)
(* The history of releases                                                 *)
(***************************************************************************)
\* What is on disk and what was released are states of the files.
Standing ==
  /\ disk \in Disks
  /\ released \in DOMAIN Versions[EntryFile] \cup {Absent}
  /\ released = Absent => kept = {} /\ shipped = {}

LEMMA WithEntry ==
    ASSUME disk \in Disks, NEW v \in DOMAIN Versions[EntryFile], EntryWith(v) # <<>>
    PROVE  \E d \in CompiledFrom(v) : EntryWith(v) = Compiled[d]
<1> DEFINE d == [disk EXCEPT ![EntryFile] = v]
<1>1. EntryFile \in Files
  BY CompilerAssumption
<1>2. d \in [Files -> (UNION {DOMAIN Versions[f] : f \in Files}) \cup {Absent}]
  BY <1>1 DEF Disks
<1>3. d[EntryFile] = v
  BY <1>1 DEF Disks
<1>4. \A f \in Files : d[f] \in DOMAIN Versions[f] \cup {Absent}
  BY <1>1 DEF Disks
<1>5. EntryWith(v) = Compiled[d]
  BY DEF EntryWith
<1> HIDE DEF d
<1>6. d \in CompiledFrom(v)
  BY <1>2, <1>3, <1>4, <1>5 DEF CompiledFrom, Disks
<1> QED
  BY <1>5, <1>6

\* What the compiler makes of a version is a descriptor and declares what its text reserves.
LEMMA EntryIsDescriptor ==
    ASSUME disk \in Disks, NEW v \in DOMAIN Versions[EntryFile], EntryWith(v) # <<>>
    PROVE  Descriptor(FileOf(EntryWith(v))) /\ Reserved(FileOf(EntryWith(v))) = ReservedBy[v]
<1>1. PICK d \in CompiledFrom(v) : EntryWith(v) = Compiled[d]
  BY WithEntry
<1> QED
  BY <1>1, CompilerAssumption

LEMMA StandingInit == Init => Standing
<1> SUFFICES ASSUME Init PROVE Standing
  OBVIOUS
<1>1. disk \in Disks
  BY DEF Init, Disks
<1> QED
  BY <1>1 DEF Init, Standing

LEMMA StandingStep == Standing /\ [Next]_vars => Standing'
<1> SUFFICES ASSUME Standing, [Next]_vars PROVE Standing'
  OBVIOUS
<1>1. CASE Edit
  <2>0. PICK f \in Files : \E v \in DOMAIN Versions[f] \cup {Absent} : disk' = [disk EXCEPT ![f] = v]
    BY <1>1 DEF Edit, EditFile
  <2>1. PICK v \in DOMAIN Versions[f] \cup {Absent} : disk' = [disk EXCEPT ![f] = v]
    BY <2>0
  <2>2. disk' \in [Files -> (UNION {DOMAIN Versions[g] : g \in Files}) \cup {Absent}]
    BY <2>1 DEF Standing, Disks
  <2>3. \A g \in Files : disk'[g] \in DOMAIN Versions[g] \cup {Absent}
    BY <2>1 DEF Standing, Disks
  <2>4. disk' \in Disks
    BY <2>2, <2>3 DEF Disks
  <2> QED
    BY <1>1, <2>4 DEF Edit, Standing
<1>2. CASE Release
  <2>1. disk' = disk /\ released' = disk[EntryFile] /\ disk[EntryFile] # Absent
    BY <1>2 DEF Release
  <2>2. disk[EntryFile] \in DOMAIN Versions[EntryFile]
    BY <2>1, CompilerAssumption DEF Standing, Disks
  <2> QED
    BY <2>1, <2>2 DEF Standing
<1>3. CASE UNCHANGED vars
  BY <1>3 DEF Standing, vars
<1> QED
  BY <1>1, <1>2, <1>3 DEF Next

\* A release is made of a version that compiles, and if one was released
\* before, lint found nothing breaking between the two.
LEMMA ReleaseParts ==
    ASSUME Standing, Release
    PROVE  /\ disk[EntryFile] \in DOMAIN Versions[EntryFile] /\ released' = disk[EntryFile] /\ released' # Absent
           /\ EntryWith(disk[EntryFile]) # <<>>
           /\ released # Absent =>
                /\ released \in DOMAIN Versions[EntryFile] /\ EntryWith(released) # <<>>
                /\ Breaking(lint(FileOf(EntryWith(released)), FileOf(EntryWith(disk[EntryFile])))) = {}
<1>1. /\ released' = disk[EntryFile] /\ disk[EntryFile] # Absent
      /\ EntryWith(disk[EntryFile]) # <<>>
      /\ released # Absent => /\ EntryWith(released) # <<>>
                              /\ Breaking(lint_files(released, disk[EntryFile])) = {}
  BY DEF Release, Passes
<1>2. disk[EntryFile] \in DOMAIN Versions[EntryFile]
  BY <1>1, CompilerAssumption DEF Standing, Disks
<1>3. released # Absent => released \in DOMAIN Versions[EntryFile]
  BY DEF Standing
<1> QED
  BY <1>1, <1>2, <1>3 DEF lint_files

\* A number that a release declared reserved is declared reserved by every
\* later release: every file, every depth of nesting, any number of releases.
\* (check_reserved_and_extensions(), lint_files())
THEOREM ReservedNumbersStay == Spec => []ReservedStays
<1>1. Init => Standing /\ ReservedStays
  BY StandingInit DEF Init, ReservedStays
<1>2. Standing /\ ReservedStays /\ [Next]_vars => (Standing /\ ReservedStays)'
  <2> SUFFICES ASSUME Standing, ReservedStays, [Next]_vars PROVE ReservedStays'
    BY StandingStep
  <2>1. CASE Edit
    BY <2>1 DEF Edit, ReservedStays
  <2>2. CASE Release
    <3> DEFINE v == disk[EntryFile]
    <3>1. /\ v \in DOMAIN Versions[EntryFile] /\ released' = v /\ EntryWith(v) # <<>>
          /\ kept' = kept \cup ReservedBy[v]
      BY <2>2, ReleaseParts DEF Release
    <3>2. CASE released = Absent
      BY <3>1, <3>2 DEF Standing, ReservedStays
    <3>3. CASE released # Absent
      <4>1. /\ released \in DOMAIN Versions[EntryFile] /\ EntryWith(released) # <<>>
            /\ Breaking(lint(FileOf(EntryWith(released)), FileOf(EntryWith(v)))) = {}
        BY <2>2, <3>3, ReleaseParts
      <4> DEFINE old == FileOf(EntryWith(released))
                 new == FileOf(EntryWith(v))
      <4>2. Descriptor(old) /\ Reserved(old) = ReservedBy[released]
        BY <4>1, EntryIsDescriptor DEF Standing
      <4>3. Descriptor(new) /\ Reserved(new) = ReservedBy[v]
        BY <3>1, EntryIsDescriptor DEF Standing
      <4> HIDE DEF old, new, v
      <4>4. Reserved(old) \subseteq Reserved(new)
        BY <4>1, <4>2, <4>3, ReservedKept, CompilerAssumption DEF old, new
      <4>5. kept \subseteq ReservedBy[released]
        BY <3>3 DEF ReservedStays
      <4> QED
        BY <3>1, <4>2, <4>3, <4>4, <4>5 DEF ReservedStays
    <3> QED
      BY <3>2, <3>3
  <2>3. CASE UNCHANGED vars
    BY <2>3 DEF ReservedStays, vars
  <2> QED
    BY <2>1, <2>2, <2>3 DEF Next
<1> QED
  BY <1>1, <1>2, PTL DEF Spec

\* A version that did not change has no findings, whatever its messages,
\* enums and services are and however deep they are nested, unless a name or
\* a number is given twice or a range has no upper bound.  (lint())
THEOREM UnchangedVersionsAreSilent == Spec => []UnchangedIsSilent
<1>1. Standing => UnchangedIsSilent
  <2> SUFFICES ASSUME disk \in Disks, Compiled[disk] # <<>> PROVE Silent(FileOf(Compiled[disk]))
    BY DEF Standing, UnchangedIsSilent, SilentOn
  <2>1. disk[EntryFile] # Absent /\ EntryFile \in Files
    BY CompilerAssumption
  <2>2. disk[EntryFile] \in DOMAIN Versions[EntryFile]
    BY <2>1 DEF Disks
  <2>3. disk \in CompiledFrom(disk[EntryFile])
    BY DEF CompiledFrom
  <2>4. Descriptor(FileOf(Compiled[disk]))
    BY <2>2, <2>3, CompilerAssumption
  <2> QED
    BY <2>4, FileAgainstItself
<1> QED
  BY <1>1, StandingInit, StandingStep, PTL DEF Spec

-----------------------------------------------------------------------------
\* Everything that a meaning says, but for what it refers to.
LEMMA ButForReference ==
    ASSUME NEW fd, NEW h \in Meanings(fd)
    PROVE  LET e == [h EXCEPT !.of = <<>>]
           IN  /\ e.at = h.at /\ e.number = h.number /\ e.name = h.name /\ e.type = h.type /\ e.label = h.label
               /\ e.twice = h.twice
<1>1. PICK x \in FirstOnes(fd) : h \in {Meaning(x, f) : f \in Range(x.m.fields)}
  BY Zenon DEF Meanings
<1>2. PICK f \in Range(x.m.fields) : h = Meaning(x, f)
  BY <1>1
<1> DEFINE once == ~GivenOnce(x.m, f.number)
<1>3. h = [at |-> x.path, number |-> f.number, name |-> f.name, type |-> f.type, label |-> f.label,
           of |-> f.type_name, twice |-> once]
  BY <1>2 DEF Meaning
<1> HIDE DEF once
<1> QED
  BY <1>3

\* Two files that differ in what they refer to only.
LEMMA Counterpart ==
    ASSUME NEW a, NEW b, Unreferenced(a) = Unreferenced(b), NEW g \in Meanings(a)
    PROVE  \E h \in Meanings(b) : Use(h) = Use(g) /\ SameField(h, g) /\ h.twice = g.twice
<1>1. [g EXCEPT !.of = <<>>] \in Unreferenced(b)
  BY DEF Unreferenced
<1>2. PICK h \in Meanings(b) : [g EXCEPT !.of = <<>>] = [h EXCEPT !.of = <<>>]
  BY <1>1 DEF Unreferenced
<1> DEFINE e == [g EXCEPT !.of = <<>>]
<1>3. /\ e.at = g.at /\ e.number = g.number /\ e.name = g.name /\ e.type = g.type /\ e.label = g.label
      /\ e.twice = g.twice
  BY ButForReference
<1>4. /\ e.at = h.at /\ e.number = h.number /\ e.name = h.name /\ e.type = h.type /\ e.label = h.label
      /\ e.twice = h.twice
  BY <1>2, ButForReference
<1> HIDE DEF e
<1>5. Use(h) = Use(g)
  BY <1>3, <1>4 DEF Use
<1>6. SameField(h, g)
  BY <1>3, <1>4 DEF SameField
<1>7. h.twice = g.twice
  BY <1>3, <1>4
<1> QED
  BY <1>5, <1>6, <1>7

\* The numbers in use are those of the release, with its meanings among theirs.
Carried(d) == LET now == Meanings(FileOf(Compiled[d])) IN now \subseteq shipped /\ InUse(shipped) = InUse(now)
Carries    == released # Absent => \E d \in CompiledFrom(released) : Carried(d)

LEMMA CarriesStep == Standing /\ Carries /\ [Next]_vars => Carries'
<1> SUFFICES ASSUME Standing, Carries, [Next]_vars PROVE Carries'
  OBVIOUS
<1>1. CASE Edit
  BY <1>1 DEF Edit, Carries, Carried
<1>2. CASE Release
  <2> DEFINE v   == disk[EntryFile]
             now == Meanings(FileOf(EntryWith(v)))
  <2>1. v \in DOMAIN Versions[EntryFile] /\ released' = v /\ EntryWith(v) # <<>>
    BY <1>2, ReleaseParts
  <2>2. PICK d \in CompiledFrom(v) : EntryWith(v) = Compiled[d]
    BY <2>1, WithEntry DEF Standing
  <2>3. shipped' = {h \in shipped : Use(h) \in InUse(now)} \cup now
    BY <1>2 DEF Release
  <2>4. now = Meanings(FileOf(Compiled[d]))
    BY <2>2
  <2> HIDE DEF now, v
  <2>5. now \subseteq shipped' /\ InUse(shipped') = InUse(now)
    BY <2>3 DEF InUse
  <2>6. Carried(d)'
    BY <2>4, <2>5 DEF Carried
  <2> QED
    BY <2>1, <2>2, <2>6 DEF Carries
<1>3. CASE UNCHANGED vars
  BY <1>3 DEF Carries, Carried, vars
<1> QED
  BY <1>1, <1>2, <1>3 DEF Next

\* As long as a number is in use its meaning does not change, in any history
\* of releases that were linted: but for numbers that a release gave to two
\* fields, and for references that moved with the imports.
\* (check_field_compat(), lint_message_fields(), lint_files())
THEOREM NumbersKeepTheirMeaning == Spec => []NumbersKeepMeaning
<1>1. Init => Standing /\ Carries /\ NumbersKeepMeaning
  <2>1. Init => Standing
    BY StandingInit
  <2>2. Init => Carries
    BY DEF Init, Carries
  <2>3. Init => NumbersKeepMeaning
    <3> SUFFICES ASSUME shipped = {} PROVE NumbersKeepMeaning
      BY DEF Init
    <3> QED
      BY Zenon DEF NumbersKeepMeaning
  <2> QED
    BY <2>1, <2>2, <2>3
<1>2. ASSUME Standing, Carries, NumbersKeepMeaning, Release
      PROVE  NumbersKeepMeaning'
  <2> DEFINE Twice(h)   == h.twice
             Again(s, h) == \E k \in s : Use(k) = Use(h) /\ Twice(k)
             v          == disk[EntryFile]
             new        == FileOf(EntryWith(v))
             now        == Meanings(new)
             old        == FileOf(EntryWith(released))
             was        == Meanings(old)
             ships      == shipped'
             moves      == moved'
             Fine(g, h)  == Again(ships, g) \/ (SameField(g, h) /\ (g.of = h.of \/ Use(g) \in moves))
  <2>1. v \in DOMAIN Versions[EntryFile] /\ released' = v /\ EntryWith(v) # <<>>
    BY <1>2, ReleaseParts
  <2>2. Descriptor(new)
    BY <1>2, <2>1, EntryIsDescriptor DEF Standing
  <2>3. /\ ships = {h \in shipped : Use(h) \in InUse(now)} \cup now
        /\ moves = (moved \cup InUse(MeansAnew)) \cap InUse(now)
    BY <1>2 DEF Release
  <2>4. \A g, h \in shipped : Use(g) = Use(h) =>
          Again(shipped, g) \/ (SameField(g, h) /\ (g.of = h.of \/ Use(g) \in moved))
    BY <1>2, Zenon DEF NumbersKeepMeaning
  <2>5. ASSUME NEW g \in now, NEW h \in now, Use(g) = Use(h) PROVE Fine(g, h)
    <3>1. CASE Twice(g)
      <4>1. g \in ships
        BY <2>3
      <4> HIDE DEF ships, Twice
      <4> QED
        BY <3>1, <4>1
    <3>2. CASE ~Twice(g)
      <4>1. SameField(g, h) /\ g.of = h.of
        BY <2>2, <2>5, <3>2, OneMeaning
      <4> QED
        BY <4>1, Zenon
    <3> QED
      BY <3>1, <3>2, Zenon
  <2>6. ASSUME NEW g \in shipped, NEW h \in shipped, Use(g) \in InUse(now), Use(g) = Use(h) PROVE Fine(g, h)
    <3>1. CASE Again(shipped, g)
      <4> HIDE DEF ships, Twice, now
      <4>1. PICK k \in shipped : Use(k) = Use(g) /\ Twice(k)
        BY <3>1
      <4>2. k \in ships
        BY <2>3, <2>6, <4>1
      <4> QED
        BY <4>1, <4>2
    <3>2. CASE ~Again(shipped, g)
      <4> HIDE DEF ships, moves, Again, now
      <4>1. SameField(g, h) /\ (g.of = h.of \/ Use(g) \in moved)
        BY <2>4, <2>6, <3>2
      <4> QED
        BY <2>3, <2>6, <4>1
    <3> QED
      BY <3>1, <3>2, Zenon
  <2>7. ASSUME NEW g \in shipped, NEW h \in now, Use(g) = Use(h), Use(g) \in InUse(now), ~Again(ships, g)
        PROVE  SameField(g, h) /\ (g.of = h.of \/ Use(g) \in moves)
    <3>1. released # Absent
      BY <1>2, <2>7 DEF Standing
    <3>2. PICK d \in CompiledFrom(released) : Carried(d)
      BY <1>2, <3>1 DEF Carries
    <3> DEFINE first  == FileOf(Compiled[d])
               before == Meanings(first)
    <3>3. before \subseteq shipped /\ InUse(shipped) = InUse(before)
      BY <3>2 DEF Carried
    <3>4. /\ released \in DOMAIN Versions[EntryFile] /\ EntryWith(released) # <<>>
          /\ Breaking(lint(old, new)) = {}
      BY <1>2, <3>1, ReleaseParts
    <3>5. PICK c \in CompiledFrom(released) : EntryWith(released) = Compiled[c]
      BY <1>2, <3>4, WithEntry DEF Standing
    <3>6. Unreferenced(old) = Unreferenced(first)
      BY <3>2, <3>4, <3>5, CompilerAssumption
    <3>7. Descriptor(old)
      BY <1>2, <3>4, EntryIsDescriptor DEF Standing
    <3>8. MeansAnew = was \ shipped
      BY <3>1 DEF MeansAnew
    <3> HIDE DEF Again, Twice, now, new, old, ships, moves, first
    <3>9. PICK b \in before : Use(b) = Use(g)
      BY <2>7, <3>3 DEF InUse
    <3>10. PICK a \in was : Use(a) = Use(b) /\ SameField(a, b) /\ a.twice = b.twice
      BY <3>6, <3>9, Counterpart
    <3> HIDE DEF before, was
    <3>11. b \in shipped /\ b \in ships
      BY <2>3, <2>7, <3>3, <3>9
    <3>12. ~Again(shipped, g)
      <4> SUFFICES ASSUME NEW k \in shipped, Use(k) = Use(g), Twice(k) PROVE FALSE
        BY DEF Again
      <4>1. k \in ships
        BY <2>3, <2>7
      <4> QED
        BY <2>7, <4>1 DEF Again
    <3>13. ~Twice(b)
      BY <2>7, <3>9, <3>11 DEF Again
    <3>14. ~a.twice
      BY <3>10, <3>13, Zenon DEF Twice
    <3>15. SameField(a, h) /\ a.of = h.of
      <4>1. a \in Meanings(old) /\ h \in Meanings(new) /\ Use(a) = Use(h)
        BY <2>7, <3>9, <3>10 DEF was, now
      <4> QED
        BY <2>2, <3>4, <3>7, <3>14, <4>1, MeaningKept
    <3>16. CASE a \in shipped
      <4>1. SameField(g, a) /\ (g.of = a.of \/ Use(g) \in moved)
        BY <2>4, <3>9, <3>10, <3>12, <3>16
      <4>2. SameField(g, h)
        BY <3>15, <4>1 DEF SameField
      <4>3. Use(g) \in moved => Use(g) \in moves
        BY <2>3, <2>7
      <4> QED
        BY <3>15, <4>1, <4>2, <4>3
    <3>17. CASE a \notin shipped
      <4>1. SameField(g, b)
        BY <2>4, <3>9, <3>11, <3>12
      <4>2. SameField(g, h)
        BY <3>10, <3>15, <4>1 DEF SameField
      <4>3. a \in MeansAnew
        BY <3>8, <3>10, <3>17
      <4>4. Use(g) \in InUse(MeansAnew)
        BY <3>9, <3>10, <4>3 DEF InUse
      <4> QED
        BY <2>3, <2>7, <4>2, <4>4
    <3> QED
      BY <3>16, <3>17
  <2>8. ASSUME NEW g \in ships, NEW h \in ships, Use(g) = Use(h) PROVE Fine(g, h)
    <3> HIDE DEF Again, Twice, now, new, old, ships, moves
    <3>1. ASSUME NEW k \in now PROVE Use(k) \in InUse(now)
      BY DEF InUse
    <3>2. CASE g \in now /\ h \in now
      <4> HIDE DEF Fine
      <4> QED
        BY <2>5, <2>8, <3>2
    <3>3. CASE g \notin now /\ h \notin now
      <4>1. g \in shipped /\ h \in shipped /\ Use(g) \in InUse(now)
        BY <2>3, <3>3
      <4> HIDE DEF Fine
      <4> QED
        BY <2>6, <2>8, <4>1
    <3>4. CASE g \notin now /\ h \in now
      <4>1. g \in shipped /\ Use(g) \in InUse(now)
        BY <2>3, <3>4
      <4> QED
        BY <2>7, <2>8, <3>4, <4>1
    <3>5. CASE g \in now /\ h \notin now
      <4>1. h \in shipped /\ Use(h) \in InUse(now)
        BY <2>3, <3>5
      <4>2. ~Again(ships, h) => SameField(h, g) /\ (h.of = g.of \/ Use(h) \in moves)
        BY <2>7, <2>8, <3>5, <4>1
      <4>3. Again(ships, h) => Again(ships, g)
        BY <2>8 DEF Again
      <4> QED
        BY <2>8, <4>2, <4>3 DEF SameField
    <3> QED
      BY <3>2, <3>3, <3>4, <3>5
  <2> QED
    BY <2>8, Zenon DEF NumbersKeepMeaning
<1>3. Standing /\ Carries /\ NumbersKeepMeaning /\ [Next]_vars => (Standing /\ Carries /\ NumbersKeepMeaning)'
  <2> SUFFICES ASSUME Standing, Carries, NumbersKeepMeaning, [Next]_vars PROVE NumbersKeepMeaning'
    BY StandingStep, CarriesStep
  <2>1. ASSUME shipped' = shipped, moved' = moved PROVE NumbersKeepMeaning'
    BY <2>1, Zenon DEF NumbersKeepMeaning
  <2>2. CASE Edit
    BY <2>1, <2>2 DEF Edit
  <2>3. CASE UNCHANGED vars
    BY <2>1, <2>3 DEF vars
  <2> QED
    BY <1>2, <2>2, <2>3 DEF Next
<1> QED
  BY <1>1, <1>3, PTL DEF Spec
=============================================================================
