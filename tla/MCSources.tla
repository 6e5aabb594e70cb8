----------------------------- MODULE MCSources -----------------------------
(* Statements of every kind of block, and the slips an author makes. *)
EXTENDS Sources, TLC

S(tokens)       == [tokens |-> tokens, opens |-> ""]
B(tokens, kind) == [tokens |-> tokens, opens |-> kind]
MCInts    == [t \in {"1", "2", "0"} |-> CASE t = "0" -> 0 [] t = "1" -> 1 [] t = "2" -> 2]
MCTexts   == [t \in {"'a'"} |-> t]      \* as it is spelled, to be compared with the source
MCForms ==
  [file |-> {S(<<"syntax", "=", "'a'", ";">>), S(<<"edition", "=", "'a'", ";">>), S(<<"package", "p", ".", "q", ";">>),
             S(<<"import", "public", "'a'", ";">>),
             S(<<"option", "(", "o", ")", ".", "x", "=", "[", "1", ",", "{", "k", ":", "2", ";", "}", "]", ";">>),
             B(<<"message", "M", "{">>, "message"), B(<<"enum", "E", "{">>, "enum"),
             B(<<"service", "S", "{">>, "service"), B(<<"extend", "M", "{">>, "extend")},
   message |-> {S(<<"option", "o", "=", "true", ";">>), S(<<"repeated", "int32", "a", "=", "1", ";">>),
                S(<<".", "p", ".", "N", "b", "=", "2", "[", "json_name", "=", "'a'", ",", "default", "=", "x", "]", ";">>),
                S(<<"map", "<", "int32", ",", "N", ">", "m", "=", "1", ";">>),
                S(<<"reserved", "1", "to", "2", ",", "2", ";">>), S(<<"reserved", "'a'", ";">>),
                S(<<"extensions", "2", "to", "max", ";">>),
                B(<<"message", "N", "{">>, "message"), B(<<"group", "G", "=", "1", "{">>, "message"),
                B(<<"oneof", "u", "{">>, "oneof"), B(<<"extend", "N", "{">>, "extend")},
   enum |-> {S(<<"A", "=", "0", ";">>), S(<<"option", "allow_alias", "=", "true", ";">>), S(<<"reserved", "1", ";">>)},
   service |-> {S(<<"rpc", "f", "(", "N", ")", "returns", "(", "stream", "N", ")", ";">>),
                S(<<"rpc", "g", "(", "N", ")", "returns", "(", "N", ")", "{", "option", "o", "=", "1", ";", "}">>)},
   extend |-> {S(<<"optional", "int32", "e", "=", "2", ";">>)},
   oneof |-> {S(<<"int32", "v", "=", "1", "[", "json_name", "=", "'a'", "]", ";">>),
              S(<<"int32", "w", "=", "2", ";">>)}]
=============================================================================
