----------------------------- MODULE ProtoFiles -----------------------------
(***************************************************************************)
(* A directory of proto files that authors edit: every file is absent or   *)
(* in one of a few versions.                                               *)
(***************************************************************************)
CONSTANTS Versions      \* for every file, its versions and the tokens they consist of

Files  == DOMAIN Versions
Absent == "absent"
Disks  == {d \in [Files -> (UNION {DOMAIN Versions[f] : f \in Files}) \cup {Absent}] :
             \A f \in Files : d[f] \in DOMAIN Versions[f] \cup {Absent}}

VARIABLES disk          \* the version of every file

EditFile == \E f \in Files : \E v \in (DOMAIN Versions[f] \cup {Absent}) \ {disk[f]} : disk' = [disk EXCEPT ![f] = v]
=============================================================================
