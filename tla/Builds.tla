------------------------------- MODULE Builds -------------------------------
(***************************************************************************)
(* The builds of module BuildSteps with the compiler they call.            *)
(***************************************************************************)
EXTENDS SourceTree, BuildSteps

Sets == [f \in Range(Protos) |-> [d \in Disks |-> compile_set_with_includes(f, OnDisk(d))]]
compile_one(f, d, c) == [set |-> Sets[f][d], grpc |-> c.grpc]
=============================================================================
