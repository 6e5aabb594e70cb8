---------------------------- MODULE MCHealthWatch ----------------------------
(* Who sets what in the runs of HealthWatch.                                 *)
EXTENDS HealthWatch, TLC
CONSTANTS a, b, t1, t2

\* One owner per service, and nobody sets the overall status.
Owners == (t1 :> {a}) @@ (t2 :> {b})
\* Two threads set the same service.
Rivals == (t1 :> {a}) @@ (t2 :> {a})
=============================================================================
