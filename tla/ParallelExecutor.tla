--------------------------- MODULE ParallelExecutor ---------------------------
(***************************************************************************)
(* core/parallel_executor.py: run_parallel and run_parallel_map hand the   *)
(* items to a pool of threads and look at the futures one after another,   *)
(* in the order of their completion or of the items.  The calling thread   *)
(* may be interrupted (KeyboardInterrupt) wherever it is.                  *)
(*                                                                         *)
(* Keys are unique, as those of all callers; run_parallel is the call in   *)
(* the order of completion whose results nobody reads.  Without items      *)
(* nothing happens.                                                        *)
(***************************************************************************)
EXTENDS Naturals, FiniteSets

CONSTANTS
    NItems,
    MaxWorkers,      \* max_workers, or its default
    MaxInterrupts    \* bound: interrupts of the calling thread

ASSUME CallAssumption == NItems \in Nat \ {0} /\ MaxWorkers \in Nat \ {0}
ASSUME InterruptsAssumption == MaxInterrupts \in Nat

Items == 1..NItems
Workers == IF MaxWorkers < NItems THEN MaxWorkers ELSE NItems

VARIABLES
    inOrder,      \* the futures are looked at in the order of the items
    handles,      \* on_error is given
    pc,           \* of the caller
    submitted,    \* number of items in the pool
    work,         \* how far the worker of each item is
    due,          \* the item whose future the caller is looking at
    results,      \* what the caller has collected
    failing,      \* an exception is on its way to the caller's caller
    interrupts, blamed, cut   \* ghosts: interrupts, where they struck

pool == <<submitted, work>>
struck == <<interrupts, blamed, cut>>
vars == <<inOrder, handles, pc, pool, due, results, failing, struck>>

Ended(i) == work[i] \in {"value", "error"}
Running == {i \in Items : work[i] = "running"}
Collected == {i \in Items : results[i] # "none"}

Init ==
    /\ inOrder \in BOOLEAN /\ handles \in BOOLEAN
    /\ pc = "submit" /\ submitted = 0 /\ due = 1
    /\ work = [i \in Items |-> "none"] /\ results = [i \in Items |-> "none"]
    /\ failing = FALSE
    /\ interrupts = 0 /\ blamed = {} /\ cut = FALSE

-----------------------------------------------------------------------------
(* The threads of the pool take the items in the order of submission; an    *)
(* error of the caller does not take back the items that wait.              *)

StartWork(i) ==
    /\ work[i] = "queued" /\ \A j \in Items : work[j] = "queued" => i <= j
    /\ Cardinality(Running) < Workers
    /\ work' = [work EXCEPT ![i] = "running"]
    /\ UNCHANGED <<inOrder, handles, pc, submitted, due, results, failing, struck>>

EndWork(i, how) ==
    /\ work[i] = "running"
    /\ work' = [work EXCEPT ![i] = how]
    /\ UNCHANGED <<inOrder, handles, pc, submitted, due, results, failing, struck>>

-----------------------------------------------------------------------------
(* The caller.                                                              *)

Submit ==
    /\ pc = "submit" /\ submitted < NItems
    /\ submitted' = submitted + 1
    /\ work' = [work EXCEPT ![submitted'] = "queued"]
    /\ pc' = IF submitted' = NItems THEN "wait" ELSE "submit"
    /\ UNCHANGED <<inOrder, handles, due, results, failing, struck>>

\* The next future: in order the next one, otherwise one that is done.
NextFuture ==
    /\ pc = "wait" /\ Collected # Items
    /\ \E i \in Items \ Collected :
          /\ IF inOrder THEN \A j \in Items \ Collected : i <= j ELSE Ended(i)
          /\ due' = i
    /\ pc' = "result"
    /\ UNCHANGED <<inOrder, handles, pool, results, failing, struck>>

Collect(what) == results' = [results EXCEPT ![due] = what] /\ pc' = "wait" /\ UNCHANGED failing
Fail == failing' = TRUE /\ pc' = "shutdown" /\ UNCHANGED results

TakeResult ==
    /\ pc = "result" /\ work[due] = "value"
    /\ Collect("value")
    /\ UNCHANGED <<inOrder, handles, pool, due, struck>>

\* The except clause: the handler's answer, its own error, or no handler.
Excepted == \/ handles /\ Collect("fallback")
            \/ Fail

TakeError ==
    /\ pc = "result" /\ work[due] = "error"
    /\ Excepted
    /\ UNCHANGED <<inOrder, handles, pool, due, struck>>

AllCollected ==
    /\ pc = "wait" /\ Collected = Items
    /\ pc' = "shutdown"
    /\ UNCHANGED <<inOrder, handles, pool, due, results, failing, struck>>

\* It leaves without waiting.
Leave_NoWait ==
    /\ pc = "shutdown"
    /\ pc' = IF failing THEN "raised" ELSE "returned"
    /\ UNCHANGED <<inOrder, handles, pool, due, results, failing, struck>>

\* Leaving the with statement waits for everything that was submitted.
Leave ==
    /\ pc = "shutdown" /\ \A i \in 1..submitted : Ended(i)
    /\ pc' = IF failing THEN "raised" ELSE "returned"
    /\ UNCHANGED <<inOrder, handles, pool, due, results, failing, struck>>

Interrupted ==
    /\ interrupts < MaxInterrupts /\ interrupts' = interrupts + 1
    /\ UNCHANGED <<inOrder, handles, pool, due>>

InterruptLoop ==
    /\ pc \in {"submit", "wait"} /\ Interrupted
    /\ Fail
    /\ UNCHANGED <<blamed, cut>>

\* result() is called inside the try statement, which catches BaseException.
InterruptResult ==
    /\ pc = "result" /\ Interrupted
    /\ Excepted
    /\ blamed' = blamed \cup {due} /\ UNCHANGED cut

\* The threads are left running.
InterruptShutdown ==
    /\ pc = "shutdown" /\ Interrupted
    /\ pc' = "raised" /\ failing' = TRUE /\ cut' = TRUE
    /\ UNCHANGED <<results, blamed>>

Next ==
    \/ \E i \in Items : StartWork(i) \/ EndWork(i, "value") \/ EndWork(i, "error")
    \/ Submit \/ NextFuture \/ TakeResult \/ TakeError \/ AllCollected \/ Leave
    \/ InterruptLoop \/ InterruptResult \/ InterruptShutdown

Spec == Init /\ [][Next]_vars

-----------------------------------------------------------------------------
TypeOK ==
    /\ inOrder \in BOOLEAN /\ handles \in BOOLEAN
    /\ pc \in {"submit", "wait", "result", "shutdown", "returned", "raised"}
    /\ submitted \in 0..NItems /\ due \in Items
    /\ work \in [Items -> {"none", "queued", "running", "value", "error"}]
    /\ results \in [Items -> {"none", "value", "fallback"}]
    /\ failing \in BOOLEAN
    /\ interrupts \in 0..MaxInterrupts /\ blamed \subseteq Items /\ cut \in BOOLEAN

\* Whoever goes on after a call goes on alone: also one that raised at the
\* first error has waited for all the others, unless it was interrupted while
\* it waited.  One that returns has for every item what its own worker ended
\* with, a fallback only where a handler was given, and hides no error; exempt
\* are the items during which it was interrupted.
CallComplete ==
    /\ pc \in {"returned", "raised"} /\ ~cut => \A i \in 1..submitted : Ended(i)
    /\ pc = "returned" =>
          \A i \in Items \ blamed :
              \/ work[i] = "value" /\ results[i] = "value"
              \/ work[i] = "error" /\ results[i] = "fallback" /\ handles

\* The docstring of run_parallel_map: on_error is the "Optional per-item
\* fallback result provider on errors." (parallel_executor.py:82)  Not kept: an
\* interrupt in the wait for a result is given to it as well.
FallbackOnlyOnError ==
    pc = "returned" => \A i \in Items : results[i] = "fallback" => work[i] = "error"
===============================================================================
