---------------------------- MODULE HardwareMirror ----------------------------
(***************************************************************************)
(* What the system manager's backend settings promise: they are what was   *)
(* read from the hardware, box by box.  The hardware changes at any time;  *)
(* what is known of it changes by reading it, and then as a whole, or by   *)
(* being forgotten.                                                        *)
(***************************************************************************)
CONSTANTS Ports, Vals, NoVal

VARIABLES
    hw,     \* what is set at each port
    dump,   \* what is being read from some of them
    seen    \* what is known

vars == <<hw, dump, seen>>

Nothing == [p \in Ports |-> NoVal]

Init == hw \in [Ports -> Vals] /\ dump = Nothing /\ seen = Nothing

Changes == hw' \in [Ports -> Vals] /\ UNCHANGED <<dump, seen>>

Reads == /\ dump = Nothing
         /\ \E read \in SUBSET Ports :
               dump' = [p \in Ports |-> IF p \in read THEN hw[p] ELSE NoVal]
         /\ UNCHANGED <<hw, seen>>

Publishes == /\ seen' = [p \in Ports |-> IF dump[p] = NoVal THEN seen[p] ELSE dump[p]]
             /\ dump' = Nothing
             /\ UNCHANGED hw

Drops == dump' = Nothing /\ UNCHANGED <<hw, seen>>

Forgets == dump = Nothing /\ seen' = Nothing /\ UNCHANGED <<hw, dump>>

Next == Changes \/ Reads \/ Publishes \/ Drops \/ Forgets

Spec == Init /\ [][Next]_vars
===============================================================================
