----------------------------- MODULE SessionLease -----------------------------
(***************************************************************************)
(* What a QuEL-3 batch promises its caller, with the quelware protocol     *)
(* left out: executions are completed in plan order, each under a lease on *)
(* the resources of that execution; the lease is given up before another   *)
(* one is taken and before the caller is answered; the caller gets results *)
(* only when every execution is complete.  Quel3Session implements this.   *)
(***************************************************************************)
EXTENDS Naturals

CONSTANTS NRuns,     \* number of executions the plan produced, at least one
          Binding,   \* Binding[i]: the ids execution i needs
          NoLease    \* no lease is held: no execution's ids

VARIABLES completed,  \* how many executions have returned their result
          lease,      \* the ids leased now, or NoLease
          answer      \* "none" while the batch runs

vars == <<completed, lease, answer>>

Answers == {"none", "results", "notFound", "error", "cancelled"}

Init == /\ completed = 0
        /\ lease = NoLease
        /\ answer = "none"

Acquire == /\ answer = "none"
           /\ lease = NoLease
           /\ completed < NRuns
           /\ lease' = Binding[completed + 1]
           /\ UNCHANGED <<completed, answer>>

\* The lease stays with the batch until the next execution or the cleanup.
Complete == /\ completed < NRuns
            /\ lease = Binding[completed + 1]
            /\ completed' = completed + 1
            /\ UNCHANGED <<lease, answer>>

Release == /\ lease # NoLease
           /\ lease' = NoLease
           /\ UNCHANGED <<completed, answer>>

Answer(a) == /\ answer = "none"
             /\ lease = NoLease
             /\ a = "results" => completed = NRuns
             /\ answer' = a
             /\ UNCHANGED <<completed, lease>>

Next == \/ Acquire
        \/ Complete
        \/ Release
        \/ \E a \in Answers \ {"none"} : Answer(a)

Spec == Init /\ [][Next]_vars
================================================================================
