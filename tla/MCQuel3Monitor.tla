---------------------------- MODULE MCQuel3Monitor ----------------------------
(* Two targets and a monitor; one port and the monitor port of a unit, and a  *)
(* port of another unit.                                                      *)
EXTENDS Quel3Monitor

CONSTANTS a, b, m, p, um, q, u, v

MCUnitOf == [x \in Ports |-> IF x = q THEN v ELSE u]
MCMonitorPort == [x \in Units |-> IF x = u THEN um ELSE q]
MCPlacements == Specs
MCConfigurations == {{[alias |-> a, port |-> p], [alias |-> b, port |-> p]}}
================================================================================
