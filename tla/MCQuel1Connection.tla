-------------------------- MODULE MCQuel1Connection --------------------------
(* Two boxes, with two outputs and one. *)
EXTENDS Quel1Connection

CONSTANTS b1, b2, o1, o2, o3

MCBoxOf == [o \in Outputs |-> IF o = o3 THEN b2 ELSE b1]
==============================================================================
