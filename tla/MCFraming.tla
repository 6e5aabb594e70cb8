------------------------------ MODULE MCFraming ------------------------------
(* The bodies of the runs of Framing.                                        *)
EXTENDS Framing

\* Empty, short, maximal and oversize messages, one that does not decode.
SomeFrames == [len : {0, 2, 5}, ok : {TRUE}] \cup [len : {1}, ok : {FALSE}]
ShortBodies == UNION {[1..n -> SomeFrames] : n \in 0..3}

\* One message of the maximum size, longer than the window.
LargeBody == {<<[len |-> MaxMessage, ok |-> TRUE]>>}
=============================================================================
