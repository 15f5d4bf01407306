---------------------------- MODULE MCQuel3Session ----------------------------
(* Instances of Quel3Session for TLC: two executions on different resources. *)
EXTENDS Quel3Session

CONSTANTS ids1, ids2

MCBinding == <<ids1, ids2>>
MCBindings == {ids1, ids2}
================================================================================
