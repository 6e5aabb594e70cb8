----------------------------- MODULE CallPromise -----------------------------
(***************************************************************************)
(* What a caller may rely on of a call, whatever transport carries it: it  *)
(* gets one outcome and keeps it, the server runs it at most limit times,  *)
(* and a reply comes from a run.                                           *)
(***************************************************************************)
EXTENDS Naturals

CONSTANTS Calls,
          Errors    \* the statuses a call can fail with

VARIABLES limit,    \* of each call, how often it may run
          outcome,  \* what it told its caller
          runs      \* how often the server has run it

Outcomes == {"PENDING", "REPLY", "STREAM"} \cup Errors

Init == /\ limit \in [Calls -> Nat \ {0}]
        /\ outcome = [c \in Calls |-> "PENDING"]
        /\ runs = [c \in Calls |-> 0]

\* The server runs the call, maybe after the caller has given up on it.
Run(c) == /\ runs[c] < limit[c]
          /\ runs' = [runs EXCEPT ![c] = @ + 1]
          /\ UNCHANGED <<limit, outcome>>

\* The caller is told: a reply of a run, a stream of replies, or an error.
Tell(c) ==
    \E o \in Outcomes \ {"PENDING"} :
        /\ outcome[c] = "PENDING"
        /\ o = "REPLY" => runs[c] > 0
        /\ outcome' = [outcome EXCEPT ![c] = o]
        /\ UNCHANGED <<limit, runs>>

Next == \E c \in Calls : Run(c) \/ Tell(c)

Spec == Init /\ [][Next]_<<limit, outcome, runs>>
=============================================================================
