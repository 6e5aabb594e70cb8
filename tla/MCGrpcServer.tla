---------------------------- MODULE MCGrpcServer ----------------------------
(* The requests of the runs of GrpcServer; the other bounds are in the cfgs. *)
EXTENDS GrpcServer, TLC

Req(k, d) == [kind |-> k, deadline |-> d, denied |-> FALSE, known |-> TRUE]
Denied(q) == [q EXCEPT !.denied = TRUE]
Unknown(q) == [q EXCEPT !.known = FALSE]

\* Each way through handle_request: the policy, the routing, both at once, a
\* request read whole and one handed to the handler, one response and a
\* stream of them.  An unknown method is taken for a unary one.
AllPaths == {Req("unary", TRUE), Req("bidi", FALSE), Denied(Req("unary", FALSE)),
             Unknown(Req("unary", FALSE)), Denied(Unknown(Req("unary", FALSE)))}

\* A call whose whole life the select! covers.
Bounded == {Req("unary", TRUE)}

Unbounded == {Req("unary", FALSE)}
Streams == {Req("server", TRUE)}

RpcSymmetry == Permutations(Rpcs)
=============================================================================
