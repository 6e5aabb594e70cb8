-------------------------------- MODULE Lint --------------------------------
(***************************************************************************)
(* The comparison of two versions of a file (tpt-proto-lint): the findings *)
(* about its package, messages, enums and services.                        *)
(***************************************************************************)
EXTENDS MessageLint, Sequences

CONSTANT MaxNesting    \* how deep messages are nested at most

ASSUME NestingAssumption == MaxNesting \in Nat

Named(seq, name) == {i \in DOMAIN seq : seq[i].name = name}
First(seq, name) == seq[CHOOSE i \in Named(seq, name) : \A j \in Named(seq, name) : i <= j]

(* What is found for the named things of the new version, for those in both, and for those removed. *)
ByNames(old, new, Both(_, _), added, removed) ==
  (UNION {IF Named(old, n.name) = {} THEN {<<added[1], added[2], n.name>>} ELSE Both(First(old, n.name), n) :
            n \in Range(new)})
    \cup {<<removed[1], removed[2], o.name>> : o \in {x \in Range(old) : Named(new, x.name) = {}}}

(* Values are told apart by their numbers; their names may change. *)
lint_enums(old, new) ==
  LET Numbers(e) == {v.number : v \in Range(e.values)}
      Both(oe, ne) == {<<"breaking", "ENUM_VALUE_REMOVED", n>> : n \in Numbers(oe) \ Numbers(ne)}
                        \cup {<<"warning", "ENUM_VALUE_ADDED", n>> : n \in Numbers(ne) \ Numbers(oe)}
  IN  ByNames(old, new, Both, <<"safe", "ENUM_ADDED">>, <<"breaking", "ENUM_REMOVED">>)

lint_message(om, nm) == lint_message_fields(om, nm) \cup check_reserved_and_extensions(om, nm)
                          \cup lint_enums(om.enums, nm.enums)
LintLists(old, new) == ByNames(old, new, lint_message, <<"safe", "MESSAGE_ADDED">>, <<"breaking", "MESSAGE_REMOVED">>)

(***************************************************************************)
(* The lists of messages that are compared, by their depth: those of the   *)
(* files first, then those inside of two messages that are compared.       *)
(***************************************************************************)
Inside(lists) ==
  UNION {{<<First(l[1], n.name).nested, n.nested>> : n \in {m \in Range(l[2]) : Named(l[1], m.name) # {}}} :
           l \in lists}
Compared(old, new) == LET lists[k \in Nat] == IF k = 0 THEN {<<old, new>>} ELSE Inside(lists[k - 1]) IN lists
lint_messages(old, new) ==
  UNION {UNION {LintLists(l[1], l[2]) : l \in Compared(old, new)[k]} : k \in 0 .. MaxNesting}

check_method_compat(om, nm) ==
  When(om.input # nm.input, "breaking", "METHOD_INPUT_CHANGED", nm.name)
    \cup When(om.output # nm.output, "breaking", "METHOD_OUTPUT_CHANGED", nm.name)
    \cup When(om.streaming # nm.streaming, "breaking", "METHOD_STREAMING_CHANGED", nm.name)
lint_services(old, new) ==
  ByNames(old, new,
          LAMBDA os, ns : ByNames(os.methods, ns.methods, check_method_compat,
                                  <<"warning", "METHOD_ADDED">>, <<"breaking", "METHOD_REMOVED">>),
          <<"safe", "SERVICE_ADDED">>, <<"breaking", "SERVICE_REMOVED">>)

lint(old, new) ==
  When(old.package # new.package, "breaking", "PACKAGE_CHANGED", "")
    \cup lint_messages(old.messages, new.messages) \cup lint_enums(old.enums, new.enums)
    \cup lint_services(old.services, new.services)
=============================================================================
