----------------------------- MODULE FrameReader -----------------------------
(***************************************************************************)
(* What the reader of a body promises (framed.rs:24-25), without bytes,    *)
(* chunks and buffers: the frames of the body one by one; then, if         *)
(* something is wrong, one error, which is terminal; then the end, which   *)
(* hides no error status.                                                  *)
(***************************************************************************)
EXTENDS Naturals, Sequences

VARIABLES frames,   \* the body: of each frame its bytes, whether it decodes, whether it is acceptable
          status,   \* what the trailers say
          answers,  \* what the consumer was given
          over      \* whether it was told that there is no more

Due == Len(answers) + 1

Failed == \E i \in DOMAIN answers : answers[i].kind # "message"

Init == answers = <<>> /\ over = FALSE

Give(answer) == ~Failed /\ answers' = Append(answers, answer)
                        /\ UNCHANGED <<frames, status, over>>
Fail(kind)   == Give([kind |-> kind, bytes |-> <<>>])

Deliver ==
    /\ Due \in DOMAIN frames /\ frames[Due].fits
    /\ Give([kind |-> IF frames[Due].ok THEN "message" ELSE "undecodable",
             bytes |-> frames[Due].bytes])

Refuse == Due \in DOMAIN frames /\ ~frames[Due].fits /\ Fail("oversize")
Break  == Fail("partial") \/ Fail("reset")
Report == status = "error" /\ Fail("status")

Finish ==
    /\ status = "error" => Failed
    /\ over' = TRUE
    /\ UNCHANGED <<frames, status, answers>>

Next == ~over /\ (Deliver \/ Refuse \/ Break \/ Report \/ Finish)

Spec == Init /\ [][Next]_<<frames, status, answers, over>>
=============================================================================
