------------------------------ MODULE MCSystemSync ------------------------------
(* A readout target whose generator and capture ports are on two boxes, and   *)
(* a control target on the second one.                                        *)
EXTENDS SystemSync, TLC
CONSTANTS b1, b2, p1, p2, t1, t2, v1, v2, f1, f2
MCBoxes == {b1, b2}
MCPorts == {p1, p2}
MCBoxOf == [p \in MCPorts |-> IF p = p1 THEN b1 ELSE b2]
MCTargets == {t1, t2}
MCPathOf == [t \in MCTargets |-> IF t = t1 THEN <<p1, p2>> ELSE <<p2, p2>>]
MCVals == {v1, v2}
MCFreqs == {f1, f2}
MCConfigs == {[es |-> [p \in MCPorts |-> v1], freq |-> [t \in MCTargets |-> f1]],
              [es |-> [p \in MCPorts |-> IF p = p1 THEN v1 ELSE v2],
               freq |-> [t \in MCTargets |-> IF t = t1 THEN f1 ELSE NoVal]]}
MCCustom == {<<t2, f2, v1>>}
===============================================================================
