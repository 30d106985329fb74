-------------------------------- MODULE MCViews --------------------------------
(***************************************************************************)
(* Two nodes; a label of one digit, and of two once the numbers arrived.   *)
(***************************************************************************)
EXTENDS Views

CONSTANTS n1, n2

MCTicks == [label \in {"first", "data"} |-> IF label = "first" THEN 3 ELSE 7]
===============================================================================
