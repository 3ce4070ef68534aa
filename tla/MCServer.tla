------------------------------ MODULE MCServer ------------------------------
(* Model values for Server. *)
EXTENDS Server, TLC

CONSTANTS r1, r2
RequestSet == {r1, r2}
=============================================================================
