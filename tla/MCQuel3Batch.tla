----------------------------- MODULE MCQuel3Batch -----------------------------
(* A batch of two executions, the first on one alias and the second on two, *)
(* and an alias of another unit that no execution plays on.                 *)
EXTENDS Quel3Batch

CONSTANTS a, b, c, p1, q1, u, v

MCUnitOf == [p \in Ports |-> IF p = q1 THEN v ELSE u]

At(alias, port) == [alias |-> alias, port |-> port]

MCPlacements == {At(a, p1), At(b, p1), At(c, q1)}
MCConfigurations == {MCPlacements}

MCPlan == <<{a}, {a, b}>>
================================================================================
