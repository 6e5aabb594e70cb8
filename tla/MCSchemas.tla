----------------------------- MODULE MCSchemas -----------------------------
(* An entry file, an import and an import of the import, in their versions. *)
EXTENDS Schemas, TLC

MCInts == [t \in {"0", "1", "2", "3", "4", "5", "6", "7"} |->
             CHOOSE n \in 0 .. 7 : ToString(n) = t]
MCTexts == [t \in {"'a'", "'a.proto'", "'b.proto'", "'c.proto'", "'z.proto'", "'proto3'"} |->
              CASE t = "'a'" -> "a" [] t = "'a.proto'" -> "a.proto" [] t = "'b.proto'" -> "b.proto"
                [] t = "'c.proto'" -> "c.proto" [] t = "'z.proto'" -> "z.proto" [] OTHER -> "proto3"]
MCJsonNames == [n \in {} |-> ""]

F(type, name, number) == <<type, name, "=", number, ";">>
MessageM(body) == <<"message", "M", "{">> \o body \o <<"}">>
AFile(body)    == <<"package", "p", ".", "q", ";", "import", "'b.proto'", ";">> \o MessageM(body)
A1 == F("int32", "a", "1")
T2 == F("T", "t", "2")
Reserving(what) == <<"reserved">> \o what \o <<";">>
N(body) == <<"message", "N", "{">> \o body \o <<"}">>
MCVersions ==
  "a.proto" :> [base    |-> AFile(A1 \o T2),
          retyped |-> AFile(F("string", "a", "1") \o T2),
          moved   |-> AFile(<<"oneof", "u", "{">> \o A1 \o <<"}">> \o T2),
          twice   |-> AFile(A1 \o F("string", "b", "1") \o T2),
          renamed |-> AFile(F("string", "b", "1") \o T2),
          gone    |-> AFile(T2 \o Reserving(<<"1">>)),
          forgot  |-> AFile(T2 \o Reserving(<<"'a'">>)),
          wide    |-> AFile(T2 \o Reserving(<<"1", ",", "5", "to", "7">>)),
          narrow  |-> AFile(T2 \o Reserving(<<"1", "to", "1", ",", "5", "to", "6">>)),
          open    |-> AFile(T2 \o Reserving(<<"5", "to", "max">>)),
          inner   |-> AFile(T2 \o <<"message", "T", "{">> \o F("M", "m", "3") \o <<"}">> \o
                            <<"map", "<", "int32", ",", "T", ">", "x", "=", "4", ";">>),
          clash   |-> AFile(<<"enum", "U", "{", "Z", "=", "0", ";", "}">> \o F("U", "u", "5") \o F("T", "t", "2")
                            \o <<"message", "N", "{">> \o F("U", "u", "1") \o <<".", "p", ".", "q", ".", "M", "m", "=", "2", ";">> \o <<"}">>),
          doubled |-> AFile(T2 \o N(Reserving(<<"5">>)) \o N(Reserving(<<"6">>))),
          single  |-> AFile(T2 \o N(Reserving(<<"5", "to", "5">>))),
          deep    |-> AFile(N(T2)) \o <<"message", "T", "{", "}">>,
          deeper  |-> AFile(A1 \o N(T2)) \o <<"message", "T", "{", "}">>,
          served  |-> AFile(A1 \o T2) \o <<"service", "S", "{", "rpc", "f", "(", "T", ")", "returns", "(", "stream",
                                           "M", ")", ";", "}">>]
  @@ "b.proto" :> [here    |-> <<"package", "p", ".", "q", ";", "message", "T", "{">> \o F("int32", "v", "1") \o <<"}">>,
          above   |-> <<"package", "p", ";", "import", "public", "'c.proto'", ";", "message", "T", "{">> \o F("U", "u", "1") \o <<"}">>,
          nearer  |-> <<"package", "p", ".", "q", ".", "M", ";", "message", "T", "{", "}">>,
          passing |-> <<"import", "public", "'c.proto'", ";">>,
          private |-> <<"import", "'c.proto'", ";", "message", "X", "{">> \o F("T", "t", "1") \o <<"}">>,
          weak    |-> <<"import", "weak", "'z.proto'", ";", "message", "T", "{", "}">>,
          broken  |-> <<"message", "T", "{", "}", "}">>,
          other   |-> <<"package", "p", ".", "q", ";", "message", "M", "{", "}">>]
  @@ "c.proto" :> [plain   |-> <<"package", "p", ";", "message", "U", "{", "}">>,
          root    |-> <<"message", "T", "{", "}", "enum", "U", "{", "Z", "=", "0", ";", "}">>,
          back    |-> <<"package", "p", ";", "import", "public", "'a.proto'", ";", "message", "U", "{">> \o F("M", "m", "1") \o <<"}">>,
          odd     |-> <<"syntax", "=", "'proto3'", ";", "package", "p", ";", "option", "deprecated", "=", "1", ";",
                        "message", "U", "{", "}">>,
          around  |-> <<"import", "'b.proto'", ";", "message", "U", "{", "}">>]
=============================================================================
