------------------------------ MODULE MCOneShot ------------------------------
(* One call of either transport; other callers of the client touch only its *)
(* cached connection.                                                       *)
EXTENDS OneShot
CONSTANT c1
=============================================================================
