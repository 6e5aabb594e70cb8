---------------------------- MODULE MessageLint -----------------------------
(***************************************************************************)
(* The comparison of two versions of one message (tpt-proto-lint): the     *)
(* findings about its fields and its ranges, each <<severity, code, where>>. *)
(***************************************************************************)
EXTENDS Integers, Functions

Breaking(findings) == {f \in findings : f[1] = "breaking"}

When(condition, severity, code, at) == IF condition THEN {<<severity, code, at>>} ELSE {}

(* Mutant: the end of a range is not part of it. *)
range_coversBug(r, num) == r.start <= num /\ (IF r.end = 0 THEN r.start = num ELSE num < r.end)

(* Ranges are inclusive; an end of 0 stands for the start. *)
range_covers(r, num) == r.start <= num /\ (IF r.end = 0 THEN r.start = num ELSE num <= r.end)

(* Mutant: a range that covers the start of another covers all of it. *)
range_covers_rangeBug(a, b) == range_covers(a, b.start)
range_covers_range(a, b) == range_covers(a, b.start) /\ range_covers(a, IF b.end = 0 THEN b.start ELSE b.end)

(* Mutant: a type is compared by its name only. *)
check_field_compatBug(of, nf) ==
  When(of.type_name # nf.type_name, "breaking", "FIELD_TYPE_NAME_CHANGED", nf.name)
    \cup When(of.label # nf.label, "breaking", "FIELD_LABEL_CHANGED", nf.name)

check_field_compat(of, nf) ==
  When(of.type # nf.type, "breaking", "FIELD_TYPE_CHANGED", nf.name)
    \cup When(of.label # nf.label, "breaking", "FIELD_LABEL_CHANGED", nf.name)
    \cup When(of.type_name # nf.type_name, "breaking", "FIELD_TYPE_NAME_CHANGED", nf.name)
    \cup When(of.json_name # <<>> /\ nf.json_name # <<>> /\ of.json_name # nf.json_name,
              "breaking", "JSON_NAME_CHANGED", nf.name)
    \cup When(of.json_name # <<>> /\ nf.json_name = <<>>, "warning", "JSON_NAME_CHANGED", nf.name)
    \cup When(of.default # nf.default, "warning", "DEFAULT_VALUE_CHANGED", nf.name)

(* The test for the numbers of removed fields: an end of 0 is also taken for a bound. *)
declared_reserved(r, num) == r.start <= num /\ ((r.end = 0 /\ r.start = num) \/ num <= r.end)

(* A field of the new version against the old; of several old fields with its number the last is compared. *)
Places(m, num) == {i \in DOMAIN m.fields : m.fields[i].number = num}
lint_field(old, f) ==
  LET At == Places(old, f.number)
      of == old.fields[CHOOSE i \in At : \A j \in At : j <= i]
  IN  IF At = {} THEN {<<"warning", "FIELD_ADDED", f.name>>}
      ELSE IF of.name # f.name THEN {<<"breaking", "FIELD_NUMBER_REUSED", f.name>>}
      ELSE check_field_compat(of, f)

lint_message_fields(old, new) ==
  LET Reserved(f) == (\E r \in Range(new.reserved_ranges) : declared_reserved(r, f.number))
                       \/ f.name \in Range(new.reserved_names)
      gone == {f \in Range(old.fields) : \A n \in Range(new.fields) : n.number # f.number}
  IN  (UNION {lint_field(old, f) : f \in Range(new.fields)})
        \cup {IF Reserved(f) THEN <<"safe", "FIELD_RESERVED", f.name>> ELSE <<"breaking", "FIELD_REMOVED", f.name>> :
                f \in gone}

check_reserved_and_extensions(old, new) ==
  LET Kept(ranges, r) == \E n \in Range(ranges) : range_covers_range(n, r)
  IN  {<<"breaking", "RESERVED_RANGE_SHRUNK", r.start>> :
         r \in {x \in Range(old.reserved_ranges) : ~Kept(new.reserved_ranges, x)}}
        \cup {<<"breaking", "RESERVED_NAME_REMOVED", n>> : n \in Range(old.reserved_names) \ Range(new.reserved_names)}
        \cup {<<"warning", "EXTENSION_RANGE_REMOVED", r.start>> :
                r \in {x \in Range(old.extension_ranges) : ~Kept(new.extension_ranges, x)}}
=============================================================================
