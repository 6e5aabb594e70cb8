----------------------------- MODULE SourceTree -----------------------------
(***************************************************************************)
(* What the files of a source tree are, as the parser sees them.           *)
(***************************************************************************)
EXTENDS Pipeline, ProtoFiles

Parsed == [f \in Files |-> [v \in DOMAIN Versions[f] |-> parse_file(f, Versions[f][v])]]
OnDisk(d) == [f \in {g \in Files : d[g] # Absent} |-> Parsed[f][d[f]]]
=============================================================================
