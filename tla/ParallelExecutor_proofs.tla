------------------------ MODULE ParallelExecutor_proofs ------------------------
(***************************************************************************)
(* Proofs about ParallelExecutor, for any number of items, threads and     *)
(* interrupts.                                                             *)
(***************************************************************************)
EXTENDS ParallelExecutor, TLAPS

\* What is collected is what the worker ended with.
Truthful(i) ==
    /\ results[i] = "value" => work[i] = "value"
    /\ results[i] = "fallback" => work[i] = "error" /\ handles

ResultInv == \A i \in Items \ blamed : Truthful(i)

\* Everything is submitted before the first result is looked at, and collected
\* before a call without an error ends.
CallerInv ==
    /\ pc \in {"wait", "result"} => submitted = NItems
    /\ failing => pc \in {"shutdown", "raised"}
    /\ pc = "raised" => failing
    /\ pc \in {"shutdown", "returned"} /\ ~failing => Collected = Items

\* Nothing is taken back from the pool, and the with statement waits for it.
PoolInv ==
    /\ pc \in {"returned", "raised"} /\ ~cut => \A i \in 1..submitted : Ended(i)
    /\ \A i \in Items : work[i] = "none" <=> i > submitted

IInv == TypeOK /\ ResultInv /\ CallerInv /\ PoolInv

-----------------------------------------------------------------------------
LEMMA Constants ==
  NItems \in Nat \ {0} /\ Items = 1..NItems /\ 1 \in Items /\ MaxInterrupts \in Nat
BY CallAssumption, InterruptsAssumption DEF Items

LEMMA Initially == ASSUME Init PROVE IInv
<1>1. TypeOK
  <2>1. inOrder \in BOOLEAN /\ handles \in BOOLEAN /\ failing \in BOOLEAN /\ cut \in BOOLEAN
    BY DEF Init
  <2>2. submitted \in 0..NItems /\ due \in Items /\ interrupts \in 0..MaxInterrupts
    BY Constants DEF Init
  <2> QED
    BY <2>1, <2>2 DEF Init, TypeOK
<1>2. ResultInv /\ CallerInv
  BY DEF Init, ResultInv, Truthful, CallerInv
<1>3. PoolInv
  BY Constants DEF Init, PoolInv
<1> QED
  BY <1>1, <1>2, <1>3 DEF IInv

\* A step of a pool thread: ended work stays as it is.
LEMMA PoolStep ==
  ASSUME IInv, NEW i \in Items,
         StartWork(i) \/ EndWork(i, "value") \/ EndWork(i, "error")
  PROVE  IInv'
<1>1. /\ UNCHANGED <<inOrder, handles, pc, submitted, due, results, failing, struck>>
      /\ \E how \in {"running", "value", "error"} : work' = [work EXCEPT ![i] = how]
      /\ work[i] \in {"queued", "running"}
  BY DEF StartWork, EndWork
<1>2. /\ \A j \in Items : Ended(j) => work'[j] = work[j]
      /\ \A j \in Items : work'[j] = "none" <=> work[j] = "none"
  BY <1>1 DEF Ended, IInv, TypeOK
<1>3. TypeOK'
  BY <1>1 DEF IInv, TypeOK, struck
<1>4. ResultInv'
  BY <1>1, <1>2 DEF IInv, ResultInv, Truthful, Ended, struck
<1>5. CallerInv'
  BY <1>1 DEF IInv, CallerInv, Collected
<1>6. PoolInv'
  BY <1>1, <1>2, Constants DEF IInv, TypeOK, PoolInv, Ended, struck
<1> QED
  BY <1>3, <1>4, <1>5, <1>6 DEF IInv

LEMMA SubmitStep == ASSUME IInv, Submit PROVE IInv'
<1>1. submitted' \in Items /\ submitted' = submitted + 1 /\ work[submitted'] = "none"
  BY Constants DEF Submit, IInv, TypeOK, PoolInv
<1>2. /\ \A j \in Items \ {submitted'} : work'[j] = work[j]
      /\ work'[submitted'] = "queued"
  BY <1>1 DEF Submit, IInv, TypeOK
<1>3. TypeOK'
  BY <1>1, Constants DEF Submit, IInv, TypeOK, struck
<1>4. ResultInv'
  BY <1>1, <1>2 DEF Submit, IInv, ResultInv, Truthful, struck
<1>5. CallerInv'
  BY DEF Submit, IInv, CallerInv
<1>6. PoolInv'
  BY <1>1, <1>2, Constants DEF Submit, IInv, TypeOK, PoolInv, struck
<1> QED
  BY <1>3, <1>4, <1>5, <1>6 DEF IInv

\* The caller records something for the item it looks at.
LEMMA CollectStep ==
  ASSUME IInv, pc = "result", NEW what \in {"value", "fallback"}, Collect(what),
         UNCHANGED <<inOrder, handles, pool, due, cut>>,
         interrupts' \in 0..MaxInterrupts,
         \/ blamed' = blamed \cup {due}
         \/ /\ blamed' = blamed
            /\ what = "value" => work[due] = "value"
            /\ what = "fallback" => work[due] = "error" /\ handles
  PROVE  IInv'
<1>1. due \in Items /\ results' = [results EXCEPT ![due] = what]
  BY DEF IInv, TypeOK, Collect
<1>2. TypeOK'
  BY <1>1 DEF IInv, TypeOK, Collect, pool
<1>3. ResultInv'
  BY <1>1 DEF IInv, TypeOK, ResultInv, Truthful, pool
<1>4. CallerInv'
  BY DEF IInv, CallerInv, Collect, pool
<1>5. PoolInv'
  BY DEF IInv, PoolInv, Collect, Ended, pool
<1> QED
  BY <1>2, <1>3, <1>4, <1>5 DEF IInv

\* The caller leaves the loop with an exception.
LEMMA FailStep ==
  ASSUME IInv, pc \in {"submit", "wait", "result"}, Fail,
         UNCHANGED <<inOrder, handles, pool, due, cut>>,
         interrupts' \in 0..MaxInterrupts, blamed' \in {blamed, blamed \cup {due}}
  PROVE  IInv'
<1>1. TypeOK'
  BY DEF IInv, TypeOK, Fail, pool
<1>2. ResultInv'
  BY DEF IInv, ResultInv, Truthful, Fail, pool
<1>3. CallerInv' /\ PoolInv'
  BY DEF IInv, CallerInv, PoolInv, Ended, Fail, pool
<1> QED
  BY <1>1, <1>2, <1>3 DEF IInv

\* The caller goes on without an answer of its own.
LEMMA MoveStep ==
  ASSUME IInv, NextFuture \/ AllCollected \/ Leave \/ InterruptShutdown
  PROVE  IInv'
<1>1. UNCHANGED <<inOrder, handles, submitted, work, results, blamed>>
  BY DEF NextFuture, AllCollected, Leave, InterruptShutdown, Interrupted, pool, struck
<1>2. TypeOK'
  <2>1. failing' \in BOOLEAN /\ cut' \in BOOLEAN
    BY DEF IInv, TypeOK, NextFuture, AllCollected, Leave, InterruptShutdown, struck
  <2>2. interrupts' \in 0..MaxInterrupts
    BY Constants
       DEF IInv, TypeOK, NextFuture, AllCollected, Leave, InterruptShutdown, Interrupted, struck
  <2>3. due' \in Items /\ pc' \in {"wait", "result", "shutdown", "returned", "raised"}
    BY DEF IInv, TypeOK, NextFuture, AllCollected, Leave, InterruptShutdown, Interrupted
  <2> QED
    BY <1>1, <2>1, <2>2, <2>3 DEF IInv, TypeOK
<1>3. ResultInv'
  BY <1>1 DEF IInv, ResultInv, Truthful
<1>4. Collected' = Collected
  BY <1>1 DEF Collected
<1>5. CallerInv'
  BY <1>1, <1>4 DEF IInv, TypeOK, CallerInv, NextFuture, AllCollected, Leave, InterruptShutdown,
                    Interrupted, pool, struck
<1>6. PoolInv'
  BY <1>1 DEF IInv, PoolInv, Ended, NextFuture, AllCollected, Leave, InterruptShutdown,
              Interrupted, pool, struck
<1> QED
  BY <1>2, <1>3, <1>5, <1>6 DEF IInv

LEMMA InterruptsBounded ==
  ASSUME IInv, Interrupted
  PROVE  interrupts' \in 0..MaxInterrupts /\ UNCHANGED <<inOrder, handles, pool, due>>
BY Constants DEF IInv, TypeOK, Interrupted

LEMMA StepKeeps == ASSUME IInv, [Next]_vars PROVE IInv'
<1>1. ASSUME NEW i \in Items, StartWork(i) \/ EndWork(i, "value") \/ EndWork(i, "error")
      PROVE  IInv'
  BY <1>1, PoolStep
<1>2. CASE Submit
  BY <1>2, SubmitStep
<1>3. CASE NextFuture \/ AllCollected \/ Leave \/ InterruptShutdown
  BY <1>3, MoveStep
<1>4. ASSUME UNCHANGED struck
      PROVE  interrupts' \in 0..MaxInterrupts /\ blamed' = blamed /\ cut' = cut
  BY <1>4 DEF IInv, TypeOK, struck
<1>5. CASE TakeResult
  BY <1>4, <1>5, CollectStep DEF TakeResult
<1>6. CASE TakeError
  <2>1. CASE handles /\ Collect("fallback")
    BY <1>4, <1>6, <2>1, CollectStep DEF TakeError
  <2>2. CASE Fail
    BY <1>4, <1>6, <2>2, FailStep DEF TakeError
  <2> QED
    BY <1>6, <2>1, <2>2 DEF TakeError, Excepted
<1>7. CASE InterruptLoop
  BY <1>7, InterruptsBounded, FailStep DEF InterruptLoop
<1>8. CASE InterruptResult
  <2>1. CASE handles /\ Collect("fallback")
    BY <1>8, <2>1, InterruptsBounded, CollectStep DEF InterruptResult
  <2>2. CASE Fail
    BY <1>8, <2>2, InterruptsBounded, FailStep DEF InterruptResult
  <2> QED
    BY <1>8, <2>1, <2>2 DEF InterruptResult, Excepted
<1>9. CASE UNCHANGED vars
  BY <1>9 DEF vars, pool, struck, IInv, TypeOK, ResultInv, Truthful, CallerInv, PoolInv,
              Collected, Ended
<1> QED
  BY <1>1, <1>2, <1>3, <1>5, <1>6, <1>7, <1>8, <1>9 DEF Next

\* The invariant that the theorems rest on.
THEOREM InductiveInvariant == Spec => []IInv
<1>1. Init => IInv
  BY Initially
<1>2. IInv /\ [Next]_vars => IInv'
  BY StepKeeps
<1> QED
  BY <1>1, <1>2, PTL DEF Spec

\* The variables of a call keep their types.
THEOREM TypeCorrect == Spec => []TypeOK
<1>1. IInv => TypeOK
  BY DEF IInv
<1> QED
  BY <1>1, InductiveInvariant, PTL

\* Whoever goes on after a parallel call goes on alone and with the outcome of
\* each worker, for any number of items, threads and interrupts.
THEOREM CallsComplete == Spec => []CallComplete
<1>1. ASSUME IInv, pc = "returned", NEW i \in Items \ blamed
      PROVE  \/ work[i] = "value" /\ results[i] = "value"
             \/ work[i] = "error" /\ results[i] = "fallback" /\ handles
  <2>1. i \in Collected
    BY <1>1 DEF IInv, CallerInv
  <2>2. results[i] \in {"value", "fallback"}
    BY <1>1, <2>1 DEF IInv, TypeOK, Collected
  <2> QED
    BY <1>1, <2>2 DEF IInv, ResultInv, Truthful
<1>2. IInv => CallComplete
  BY <1>1 DEF IInv, PoolInv, CallComplete
<1> QED
  BY <1>2, InductiveInvariant, PTL
===============================================================================
