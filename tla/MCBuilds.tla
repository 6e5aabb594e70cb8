------------------------------ MODULE MCBuilds ------------------------------
(* A file with an import that is edited, removed or renamed, and two files of one stem. *)
EXTENDS Builds, TLC

MCInts  == [t \in {"1", "2"} |-> IF t = "1" THEN 1 ELSE 2]
MCTexts == [t \in {"'b.proto'"} |-> "b.proto"]
MCJsonNames == [n \in {} |-> ""]
T(body) == <<"message", "T", "{">> \o body \o <<"}">>
A       == <<"import", "'b.proto'", ";", "message", "A", "{", "T", "t", "=", "1", ";", "}">>
B1      == T(<<"int32", "v", "=", "1", ";">>)
MCVersions ==
  "a.proto" :> [one |-> A]
  @@ "b.proto" :> [one |-> B1, two |-> T(<<"string", "v", "=", "1", ";">>)]
  @@ "c.proto" :> [one |-> B1]
  @@ "m-n.proto" :> [one |-> <<"message", "M", "{", "}">>]
  @@ "m.n.proto" :> [one |-> <<"message", "N", "{", "}">>]
MCListing == <<"a.proto", "b.proto", "c.proto", "m-n.proto", "m.n.proto">>
MCProtos  == <<"a.proto", "m-n.proto", "m.n.proto">>
MCStems   == "a.proto" :> "a" @@ "m-n.proto" :> "m_n" @@ "m.n.proto" :> "m_n"
MCConfigs == {[grpc |-> TRUE, incremental |-> TRUE], [grpc |-> FALSE, incremental |-> FALSE]}
=============================================================================
