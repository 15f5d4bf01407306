-------------------------- MODULE AsyncBridge_proofs --------------------------
(***************************************************************************)
(* Proofs about AsyncBridge.  That an answer is true depends on what of a  *)
(* call is still on its way through the loop (QueueInv); that no task is   *)
(* left depends on the loop being stopped from outside only once.          *)
(***************************************************************************)
EXTENDS AsyncBridge, SequenceTheorems, TLAPS

Queued(callback) == \E n \in 1..Len(ready) : ready[n] = callback

Once(callback) ==
    \A m, n \in 1..Len(ready) : ready[m] = callback /\ ready[n] = callback => m = n

AllEnded == \A c \in Callers : Ended(c)

\* A call that is not yet enqueued has left no trace on the loop.
Place(c) ==
    /\ caller[c] \in {"idle", "checked"} => future[c] = "none"
    /\ caller[c] = "submitting" => future[c] = "pending"
    /\ caller[c] \in {"idle", "checked", "submitting"}
         => task[c] = "none" /\ creating # c /\ ~Queued(Schedule(c))
    /\ caller[c] = "returned" <=> answer[c] # "none"

PlaceInv == \A c \in Callers : Place(c)

\* A call is scheduled once, and its task made once.
Way(c) ==
    /\ Queued(Schedule(c)) => creating # c /\ Once(Schedule(c))
    /\ Queued(Schedule(c)) \/ creating = c
         => /\ task[c] = "none" /\ future[c] \in {"pending", "cancelled"}
            /\ answer[c] \notin {"closed", "value"}
    /\ Queued(TaskDone(c)) => task[c] \in {"done", "cancelled"}

QueueInv == \A c \in Callers : Way(c)

\* Futures and answers agree with the tasks.
TruthInv ==
    \A c \in Callers :
        /\ future[c] = "closed" \/ answer[c] = "closed" => task[c] = "none"
        /\ future[c] = "value" \/ answer[c] = "value" => task[c] = "done"

ThreadInv ==
    /\ loop = "none" <=> thread = "new"
    /\ loop = "closed" <=> thread = "finished"
    /\ todo <= Len(ready)
    /\ ~InLoop => todo = 0
    /\ thread \in {"new", "created", "starting"} => \A c \in Callers : task[c] = "none"
    /\ creating # "none" => thread = "running"
    /\ thread \in {"closing", "finished"} => AllEnded

\* The loop is stopped from outside once; what stops it when it drains is
\* the end of the last task.
StopInv ==
    /\ \A k, l \in Closing : closer[k] = "stop" /\ closer[l] = "stop" => k = l
    /\ (\E k \in Closing : closer[k] = "stop")
         => ~Queued(Stop) /\ ~stopping /\ thread \notin {"stopped", "draining"}
    /\ ~closed => /\ \A k \in Closing : closer[k] # "stop"
                  /\ ~Queued(Stop) /\ ~stopping /\ thread \notin {"stopped", "draining"}
    /\ thread \notin {"draining", "closing", "finished"} => Once(Stop) /\ ~(Queued(Stop) /\ stopping)
    /\ thread = "stopped" => ~Queued(Stop)
    /\ stopping => InLoop
    /\ thread = "draining" /\ (Queued(Stop) \/ stopping) => AllEnded

IInv == TypeOK /\ PlaceInv /\ QueueInv /\ TruthInv /\ ThreadInv /\ StopInv

-----------------------------------------------------------------------------
(* The queue of callbacks.                                                   *)

LEMMA ReadyType == ASSUME TypeOK PROVE ready \in Seq(Callbacks) /\ Len(ready) \in Nat
BY DEF TypeOK

LEMMA CallbackTypes ==
  ASSUME NEW c \in Callers
  PROVE  /\ Schedule(c) \in Callbacks /\ CancelTask(c) \in Callbacks
         /\ TaskDone(c) \in Callbacks /\ Stop \in Callbacks
         /\ Schedule(c) # Stop /\ CancelTask(c) # Stop /\ TaskDone(c) # Stop
         /\ \A d : /\ Schedule(c) # TaskDone(d) /\ Schedule(c) # CancelTask(d)
                   /\ TaskDone(c) # CancelTask(d)
                   /\ (Schedule(c) = Schedule(d)) => (c = d)
                   /\ (TaskDone(c) = TaskDone(d)) => (c = d)
BY DEF Schedule, CancelTask, TaskDone, Stop, Callbacks

LEMMA Appended ==
  ASSUME TypeOK, NEW x \in Callbacks, ready' = Append(ready, x)
  PROVE  /\ \A y : Queued(y)' <=> Queued(y) \/ y = x
         /\ \A y : ~Queued(y) \/ (Once(y) /\ y # x) => Once(y)'
         /\ ready' \in Seq(Callbacks) /\ Len(ready') = Len(ready) + 1
<1>1. ready \in Seq(Callbacks) /\ Len(ready) \in Nat
  BY ReadyType
<1>2. /\ ready' \in Seq(Callbacks) /\ Len(ready') = Len(ready) + 1
      /\ \A n \in 1..Len(ready) : ready'[n] = ready[n]
      /\ ready'[Len(ready) + 1] = x
  BY <1>1, AppendProperties
<1>3. ASSUME NEW y PROVE Queued(y)' <=> Queued(y) \/ y = x
  BY <1>1, <1>2 DEF Queued
<1>4. ASSUME NEW y, ~Queued(y) \/ (Once(y) /\ y # x) PROVE Once(y)'
  BY <1>1, <1>2, <1>4 DEF Once, Queued
<1> QED
  BY <1>2, <1>3, <1>4

LEMMA Taken ==
  ASSUME TypeOK, NEW x, ready # <<>>, Head(ready) = x, ready' = Tail(ready)
  PROVE  /\ \A y : Queued(y)' => Queued(y)
         /\ \A y : Once(y) => Once(y)'
         /\ Queued(x) /\ (Once(x) => ~Queued(x)')
         /\ ready' \in Seq(Callbacks) /\ Len(ready') = Len(ready) - 1
<1>1. ready \in Seq(Callbacks) /\ Len(ready) \in Nat /\ Len(ready) > 0
  BY ReadyType, EmptySeq
<1>2. /\ ready' \in Seq(Callbacks) /\ Len(ready') = Len(ready) - 1
      /\ \A n \in 1..Len(ready') : ready'[n] = ready[n + 1]
      /\ x = ready[1]
  BY <1>1, HeadTailProperties
<1>3. ASSUME NEW y PROVE Queued(y)' => Queued(y)
  BY <1>1, <1>2 DEF Queued
<1>4. ASSUME NEW y, Once(y) PROVE Once(y)'
  <2> SUFFICES ASSUME NEW m \in 1..Len(ready'), NEW n \in 1..Len(ready'),
                      ready'[m] = y, ready'[n] = y
               PROVE  m = n
    BY DEF Once
  <2>1. m + 1 \in 1..Len(ready) /\ n + 1 \in 1..Len(ready)
    BY <1>1, <1>2
  <2>2. ready[m + 1] = y /\ ready[n + 1] = y
    BY <1>2
  <2> QED
    BY <1>1, <1>4, <2>1, <2>2 DEF Once
<1>5. Queued(x)
  BY <1>1, <1>2 DEF Queued
<1>6. ASSUME Once(x), NEW n \in 1..Len(ready'), ready'[n] = x PROVE FALSE
  <2>1. n + 1 \in 1..Len(ready) /\ 1 \in 1..Len(ready) /\ n + 1 # 1
    BY <1>1, <1>2
  <2> QED
    BY <1>2, <1>6, <2>1 DEF Once
<1> QED
  BY <1>2, <1>3, <1>4, <1>5, <1>6 DEF Queued

LEMMA TakenStopping ==
  ASSUME TypeOK, ready # <<>>, ready' = Append(Tail(ready), Stop)
  PROVE  /\ \A y : Queued(y)' => Queued(y) \/ y = Stop
         /\ \A y : Once(y) /\ y # Stop => Once(y)'
         /\ ready' \in Seq(Callbacks) /\ Len(ready') = Len(ready)
<1>1. ready \in Seq(Callbacks) /\ Len(ready) \in Nat /\ Len(ready) > 0
  BY ReadyType, EmptySeq
<1>2. /\ Tail(ready) \in Seq(Callbacks) /\ Len(Tail(ready)) = Len(ready) - 1
      /\ \A n \in 1..(Len(ready) - 1) : Tail(ready)[n] = ready[n + 1]
  BY <1>1, HeadTailProperties
<1>3. Stop \in Callbacks
  BY DEF Callbacks
<1>4. /\ ready' \in Seq(Callbacks) /\ Len(ready') = Len(ready)
      /\ \A n \in 1..Len(ready') :
            IF n < Len(ready) THEN ready'[n] = ready[n + 1] ELSE ready'[n] = Stop
  <2>1. /\ ready' \in Seq(Callbacks) /\ Len(ready') = Len(ready) - 1 + 1
        /\ \A n \in 1..(Len(ready) - 1) : ready'[n] = Tail(ready)[n]
        /\ ready'[Len(ready) - 1 + 1] = Stop
    BY <1>2, <1>3, AppendProperties
  <2>2. Len(ready') = Len(ready)
    BY <1>1, <2>1
  <2>3. ASSUME NEW n \in 1..Len(ready') 
               PROVE  IF n < Len(ready) THEN ready'[n] = ready[n + 1] ELSE ready'[n] = Stop
    <3>1. CASE n < Len(ready)
      <4>1. n \in 1..(Len(ready) - 1)
        BY <1>1, <2>2, <3>1
      <4> QED
        BY <1>2, <2>1, <3>1, <4>1
    <3>2. CASE ~(n < Len(ready))
      <4>1. n = Len(ready) /\ n = n - 1 + 1
        <5>1. n \in 1..Len(ready) /\ Len(ready) \in Nat
          BY <1>1, <2>2
        <5> QED
          BY <3>2, <5>1
      <4> QED
        BY <2>1, <3>2, <4>1
    <3> QED
      BY <3>1, <3>2
  <2> QED
    BY <2>1, <2>2, <2>3
<1>5. ASSUME NEW y, Queued(y)' PROVE Queued(y) \/ y = Stop
  <2>1. PICK n \in 1..Len(ready') : ready'[n] = y
    BY <1>5 DEF Queued
  <2>2. n < Len(ready) => n + 1 \in 1..Len(ready)
    BY <1>1
  <2> QED
    BY <1>4, <2>1, <2>2 DEF Queued
<1>6. ASSUME NEW y, Once(y), y # Stop PROVE Once(y)'
  <2> SUFFICES ASSUME NEW m \in 1..Len(ready'), NEW n \in 1..Len(ready'),
                      ready'[m] = y, ready'[n] = y
               PROVE  m = n
    BY DEF Once
  <2>1. m < Len(ready) /\ n < Len(ready) /\ ready[m + 1] = y /\ ready[n + 1] = y
    BY <1>4, <1>6
  <2>2. m + 1 \in 1..Len(ready) /\ n + 1 \in 1..Len(ready)
    BY <1>1, <2>1
  <2> QED
    BY <1>1, <1>6, <2>1, <2>2 DEF Once
<1> QED
  BY <1>4, <1>5, <1>6

LEMMA Takes ==
  ASSUME TypeOK, ThreadInv, NEW x, Taking(x)
  PROVE  /\ InLoop /\ creating = "none" /\ Head(ready) = x /\ ready # <<>>
         /\ Queued(x) /\ todo' \in Nat /\ todo' <= Len(ready) - 1
<1>1. ready \in Seq(Callbacks) /\ Len(ready) > 0
  BY DEF TypeOK, ThreadInv, Taking
<1>2. ready # <<>>
  BY <1>1, EmptySeq
<1>3. 1 \in 1..Len(ready) /\ ready[1] = Head(ready)
  BY <1>1, <1>2, HeadTailProperties
<1> QED
  BY <1>1, <1>2, <1>3 DEF TypeOK, ThreadInv, Taking, Queued

LEMMA SameQueue ==
  ASSUME UNCHANGED ready
  PROVE  \A y : (Queued(y)' <=> Queued(y)) /\ (Once(y)' <=> Once(y))
BY DEF Queued, Once

-----------------------------------------------------------------------------
(* Every action preserves the invariant.                                     *)

LEMMA EnsureNotClosedStep ==
  ASSUME IInv, NEW c \in Callers, EnsureNotClosed(c)
  PROVE  IInv'
<1>1. TypeOK'
  BY ReadyType, ThreadsAssumption DEF IInv, TypeOK, TaskStates, FutureStates, Answers, EnsureNotClosed, Answered, CallerAt, Built, loopVars, callVars, closeVars
<1>2. PlaceInv'
  BY SameQueue, ThreadsAssumption DEF IInv, TypeOK, PlaceInv, Place, EnsureNotClosed, Answered, CallerAt, Built, loopVars, callVars, closeVars
<1>3. QueueInv'
  BY SameQueue, ThreadsAssumption DEF IInv, TypeOK, PlaceInv, Place, QueueInv, Way, EnsureNotClosed, Answered, CallerAt, Built, loopVars, callVars, closeVars
<1>4. TruthInv'
  BY ThreadsAssumption DEF IInv, TypeOK, PlaceInv, Place, QueueInv, Way, TruthInv, EnsureNotClosed, Answered, CallerAt, Built, loopVars, callVars, closeVars
<1>5. ThreadInv'
  BY ReadyType DEF IInv, TypeOK, ThreadInv, InLoop, AllEnded, Ended, EnsureNotClosed, Answered, CallerAt, Built, loopVars, callVars, closeVars
<1>6. StopInv'
  BY SameQueue DEF IInv, TypeOK, ThreadInv, StopInv, AllEnded, Ended, InLoop, EnsureNotClosed, Answered, CallerAt, Built, loopVars, callVars, closeVars
<1> QED
  BY <1>1, <1>2, <1>3, <1>4, <1>5, <1>6 DEF IInv

LEMMA SubmitStep ==
  ASSUME IInv, NEW c \in Callers, Submit(c)
  PROVE  IInv'
<1>1. TypeOK'
  BY ReadyType, ThreadsAssumption DEF IInv, TypeOK, TaskStates, FutureStates, Answers, Submit, Answered, CallerAt, loopVars, callVars, closeVars
<1>2. PlaceInv'
  BY SameQueue, ThreadsAssumption DEF IInv, TypeOK, PlaceInv, Place, Submit, Answered, CallerAt, loopVars, callVars, closeVars
<1>3. QueueInv'
  BY SameQueue, ThreadsAssumption DEF IInv, TypeOK, PlaceInv, Place, QueueInv, Way, Submit, Answered, CallerAt, loopVars, callVars, closeVars
<1>4. TruthInv'
  BY ThreadsAssumption DEF IInv, TypeOK, PlaceInv, Place, QueueInv, Way, TruthInv, Submit, Answered, CallerAt, loopVars, callVars, closeVars
<1>5. ThreadInv'
  BY ReadyType DEF IInv, TypeOK, ThreadInv, InLoop, AllEnded, Ended, Submit, Answered, CallerAt, loopVars, callVars, closeVars
<1>6. StopInv'
  BY SameQueue DEF IInv, TypeOK, ThreadInv, StopInv, AllEnded, Ended, InLoop, Submit, Answered, CallerAt, loopVars, callVars, closeVars
<1> QED
  BY <1>1, <1>2, <1>3, <1>4, <1>5, <1>6 DEF IInv

LEMMA EnqueueStep ==
  ASSUME IInv, NEW c \in Callers, Enqueue(c)
  PROVE  IInv'
<1>0. \/ UNCHANGED ready
      \/ /\ \A y : Queued(y)' <=> Queued(y) \/ y = Schedule(c)
         /\ \A y : ~Queued(y) \/ (Once(y) /\ y # Schedule(c)) => Once(y)'
         /\ ready' \in Seq(Callbacks) /\ Len(ready') = Len(ready) + 1
  BY Appended, CallbackTypes DEF IInv, Enqueue
<1>q. ASSUME NEW d \in Callers
      PROVE  /\ Queued(Schedule(d))' => Queued(Schedule(d)) \/ (d = c /\ caller'[c] = "waiting")
             /\ ~Queued(Schedule(d)) \/ (Once(Schedule(d)) /\ d # c) => Once(Schedule(d))'
             /\ Once(Schedule(d)) /\ caller'[c] # "waiting" => Once(Schedule(d))'
             /\ Queued(TaskDone(d))' => Queued(TaskDone(d))
  <2>1. CASE UNCHANGED ready
    BY <2>1, SameQueue DEF Once, Queued
  <2>2. CASE ready' = Append(ready, Schedule(c)) /\ caller' = [caller EXCEPT ![c] = "waiting"]
    <3>1. /\ \A y : Queued(y)' <=> Queued(y) \/ y = Schedule(c)
          /\ \A y : ~Queued(y) \/ (Once(y) /\ y # Schedule(c)) => Once(y)'
      BY <2>2, Appended, CallbackTypes DEF IInv
    <3>2. (d # c => Schedule(d) # Schedule(c)) /\ TaskDone(d) # Schedule(c)
      BY DEF Schedule, CancelTask, TaskDone
    <3> QED
      BY <2>2, <3>1, <3>2 DEF TypeOK, IInv
  <2> QED
    BY <2>1, <2>2 DEF Enqueue, CallerAt
<1>1. TypeOK'
  BY <1>0, SameQueue, ReadyType, ThreadsAssumption DEF IInv, TypeOK, TaskStates, FutureStates, Answers, Enqueue, Answered, CallerAt, loopVars, callVars, closeVars
<1>2. PlaceInv'
  <2> SUFFICES ASSUME NEW d \in Callers PROVE Place(d)'
    BY DEF PlaceInv
  <2>0. Place(d) /\ Way(d)
    BY DEF IInv, PlaceInv, QueueInv
  <2>1. CASE d = c
    BY <1>q, <2>0, <2>1 DEF IInv, TypeOK, Place, Way, Enqueue, Answered, CallerAt, loopVars, callVars, closeVars
  <2>2. CASE d # c
    BY <1>q, <2>0, <2>2 DEF IInv, TypeOK, Place, Way, Enqueue, Answered, CallerAt, loopVars, callVars, closeVars
  <2> QED
    BY <2>1, <2>2
<1>3. QueueInv'
  <2> SUFFICES ASSUME NEW d \in Callers PROVE Way(d)'
    BY DEF QueueInv
  <2>0. Place(d) /\ Way(d)
    BY DEF IInv, PlaceInv, QueueInv
  <2>1. CASE d = c
    BY <1>q, <2>0, <2>1 DEF IInv, TypeOK, Place, Way, Enqueue, Answered, CallerAt, loopVars, callVars, closeVars
  <2>2. CASE d # c
    BY <1>q, <2>0, <2>2 DEF IInv, TypeOK, Place, Way, Enqueue, Answered, CallerAt, loopVars, callVars, closeVars
  <2> QED
    BY <2>1, <2>2
<1>4. TruthInv'
  BY <1>0, SameQueue, ThreadsAssumption DEF IInv, TypeOK, PlaceInv, Place, QueueInv, Way, TruthInv, Enqueue, Answered, CallerAt, loopVars, callVars, closeVars
<1>5. ThreadInv'
  BY <1>0, SameQueue, ReadyType DEF IInv, TypeOK, ThreadInv, InLoop, AllEnded, Ended, Enqueue, Answered, CallerAt, loopVars, callVars, closeVars
<1>6. StopInv'
  BY <1>0, SameQueue, CallbackTypes DEF IInv, TypeOK, ThreadInv, StopInv, AllEnded, Ended, InLoop, Enqueue, Answered, CallerAt, loopVars, callVars, closeVars
<1> QED
  BY <1>1, <1>2, <1>3, <1>4, <1>5, <1>6 DEF IInv

LEMMA ReturnStep ==
  ASSUME IInv, NEW c \in Callers, Return(c)
  PROVE  IInv'
<1>1. TypeOK'
  BY ReadyType, ThreadsAssumption DEF IInv, TypeOK, TaskStates, FutureStates, Answers, Return, Answered, loopVars, callVars, closeVars
<1>2. PlaceInv'
  BY SameQueue, ThreadsAssumption DEF IInv, TypeOK, PlaceInv, Place, Return, Answered, loopVars, callVars, closeVars
<1>3. QueueInv'
  BY SameQueue, ThreadsAssumption DEF IInv, TypeOK, PlaceInv, Place, QueueInv, Way, Return, Answered, loopVars, callVars, closeVars
<1>4. TruthInv'
  BY ThreadsAssumption DEF IInv, TypeOK, PlaceInv, Place, QueueInv, Way, TruthInv, Return, Answered, loopVars, callVars, closeVars
<1>5. ThreadInv'
  BY ReadyType DEF IInv, TypeOK, ThreadInv, InLoop, AllEnded, Ended, Return, Answered, loopVars, callVars, closeVars
<1>6. StopInv'
  BY SameQueue DEF IInv, TypeOK, ThreadInv, StopInv, AllEnded, Ended, InLoop, Return, Answered, loopVars, callVars, closeVars
<1> QED
  BY <1>1, <1>2, <1>3, <1>4, <1>5, <1>6 DEF IInv

LEMMA TimeOutStep ==
  ASSUME IInv, NEW c \in Callers, TimeOut(c)
  PROVE  IInv'
<1>1. TypeOK'
  BY ReadyType, ThreadsAssumption DEF IInv, TypeOK, TaskStates, FutureStates, Answers, TimeOut, CallerAt, loopVars, callVars, closeVars
<1>2. PlaceInv'
  BY SameQueue, ThreadsAssumption DEF IInv, TypeOK, PlaceInv, Place, TimeOut, CallerAt, loopVars, callVars, closeVars
<1>3. QueueInv'
  BY SameQueue, ThreadsAssumption DEF IInv, TypeOK, PlaceInv, Place, QueueInv, Way, TimeOut, CallerAt, loopVars, callVars, closeVars
<1>4. TruthInv'
  BY ThreadsAssumption DEF IInv, TypeOK, PlaceInv, Place, QueueInv, Way, TruthInv, TimeOut, CallerAt, loopVars, callVars, closeVars
<1>5. ThreadInv'
  BY ReadyType DEF IInv, TypeOK, ThreadInv, InLoop, AllEnded, Ended, TimeOut, CallerAt, loopVars, callVars, closeVars
<1>6. StopInv'
  BY SameQueue DEF IInv, TypeOK, ThreadInv, StopInv, AllEnded, Ended, InLoop, TimeOut, CallerAt, loopVars, callVars, closeVars
<1> QED
  BY <1>1, <1>2, <1>3, <1>4, <1>5, <1>6 DEF IInv

LEMMA InterruptStep ==
  ASSUME IInv, NEW c \in Callers, Interrupt(c)
  PROVE  IInv'
<1>1. TypeOK'
  BY ReadyType, ThreadsAssumption DEF IInv, TypeOK, TaskStates, FutureStates, Answers, Interrupt, CallerAt, loopVars, callVars, closeVars
<1>2. PlaceInv'
  BY SameQueue, ThreadsAssumption DEF IInv, TypeOK, PlaceInv, Place, Interrupt, CallerAt, loopVars, callVars, closeVars
<1>3. QueueInv'
  BY SameQueue, ThreadsAssumption DEF IInv, TypeOK, PlaceInv, Place, QueueInv, Way, Interrupt, CallerAt, loopVars, callVars, closeVars
<1>4. TruthInv'
  BY ThreadsAssumption DEF IInv, TypeOK, PlaceInv, Place, QueueInv, Way, TruthInv, Interrupt, CallerAt, loopVars, callVars, closeVars
<1>5. ThreadInv'
  BY ReadyType DEF IInv, TypeOK, ThreadInv, InLoop, AllEnded, Ended, Interrupt, CallerAt, loopVars, callVars, closeVars
<1>6. StopInv'
  BY SameQueue DEF IInv, TypeOK, ThreadInv, StopInv, AllEnded, Ended, InLoop, Interrupt, CallerAt, loopVars, callVars, closeVars
<1> QED
  BY <1>1, <1>2, <1>3, <1>4, <1>5, <1>6 DEF IInv

LEMMA CancelFutureStep ==
  ASSUME IInv, NEW c \in Callers, CancelFuture(c)
  PROVE  IInv'
<1>0. \/ UNCHANGED ready
      \/ /\ \A y : Queued(y)' <=> Queued(y) \/ y = CancelTask(c)
         /\ \A y : ~Queued(y) \/ (Once(y) /\ y # CancelTask(c)) => Once(y)'
         /\ ready' \in Seq(Callbacks) /\ Len(ready') = Len(ready) + 1
  BY Appended, CallbackTypes DEF IInv, CancelFuture
<1>q. ASSUME NEW d \in Callers
      PROVE  /\ Queued(Schedule(d))' <=> Queued(Schedule(d))
             /\ Once(Schedule(d)) => Once(Schedule(d))'
             /\ Queued(TaskDone(d))' <=> Queued(TaskDone(d))
  <2>1. CASE UNCHANGED ready
    BY <2>1, SameQueue
  <2>2. CASE ready' = Append(ready, CancelTask(c))
    <3>1. /\ \A y : Queued(y)' <=> Queued(y) \/ y = CancelTask(c)
          /\ \A y : ~Queued(y) \/ (Once(y) /\ y # CancelTask(c)) => Once(y)'
      BY <2>2, Appended, CallbackTypes DEF IInv
    <3>2. Schedule(d) # CancelTask(c) /\ TaskDone(d) # CancelTask(c)
      BY DEF Schedule, CancelTask, TaskDone
    <3> QED
      BY <2>2, <3>1, <3>2
  <2> QED
    BY <2>1, <2>2 DEF CancelFuture
<1>1. TypeOK'
  BY <1>0, SameQueue, ReadyType, ThreadsAssumption DEF IInv, TypeOK, TaskStates, FutureStates, Answers, CancelFuture, Answered, loopVars, callVars, closeVars
<1>2. PlaceInv'
  <2> SUFFICES ASSUME NEW d \in Callers PROVE Place(d)'
    BY DEF PlaceInv
  <2>0. Place(d) /\ Way(d)
    BY DEF IInv, PlaceInv, QueueInv
  <2>1. CASE d = c
    BY <1>q, <2>0, <2>1 DEF IInv, TypeOK, Place, Way, CancelFuture, Answered, loopVars, callVars, closeVars
  <2>2. CASE d # c
    BY <1>q, <2>0, <2>2 DEF IInv, TypeOK, Place, Way, CancelFuture, Answered, loopVars, callVars, closeVars
  <2> QED
    BY <2>1, <2>2
<1>3. QueueInv'
  <2> SUFFICES ASSUME NEW d \in Callers PROVE Way(d)'
    BY DEF QueueInv
  <2>0. Place(d) /\ Way(d)
    BY DEF IInv, PlaceInv, QueueInv
  <2>1. CASE d = c
    BY <1>q, <2>0, <2>1 DEF IInv, TypeOK, Place, Way, CancelFuture, Answered, loopVars, callVars, closeVars
  <2>2. CASE d # c
    BY <1>q, <2>0, <2>2 DEF IInv, TypeOK, Place, Way, CancelFuture, Answered, loopVars, callVars, closeVars
  <2> QED
    BY <2>1, <2>2
<1>4. TruthInv'
  BY <1>0, SameQueue, ThreadsAssumption DEF IInv, TypeOK, PlaceInv, Place, QueueInv, Way, TruthInv, CancelFuture, Answered, loopVars, callVars, closeVars
<1>5. ThreadInv'
  BY <1>0, SameQueue, ReadyType DEF IInv, TypeOK, ThreadInv, InLoop, AllEnded, Ended, CancelFuture, Answered, loopVars, callVars, closeVars
<1>6. StopInv'
  BY <1>0, SameQueue, CallbackTypes DEF IInv, TypeOK, ThreadInv, StopInv, AllEnded, Ended, InLoop, CancelFuture, Answered, loopVars, callVars, closeVars
<1> QED
  BY <1>1, <1>2, <1>3, <1>4, <1>5, <1>6 DEF IInv

LEMMA CreateLoopStep ==
  ASSUME IInv, CreateLoop
  PROVE  IInv'
<1>1. TypeOK'
  BY ReadyType, ThreadsAssumption DEF IInv, TypeOK, TaskStates, FutureStates, Answers, Closing, CreateLoop, loopVars, callVars, closeVars
<1>2. PlaceInv'
  BY SameQueue, ThreadsAssumption DEF IInv, TypeOK, PlaceInv, Place, CreateLoop, loopVars, callVars, closeVars
<1>3. QueueInv'
  BY SameQueue, ThreadsAssumption DEF IInv, TypeOK, PlaceInv, Place, QueueInv, Way, CreateLoop, loopVars, callVars, closeVars
<1>4. TruthInv'
  BY ThreadsAssumption DEF IInv, TypeOK, PlaceInv, Place, QueueInv, Way, TruthInv, CreateLoop, loopVars, callVars, closeVars
<1>5. ThreadInv'
  BY ReadyType DEF IInv, TypeOK, ThreadInv, InLoop, AllEnded, Ended, CreateLoop, loopVars, callVars, closeVars
<1>6. StopInv'
  BY SameQueue DEF IInv, TypeOK, ThreadInv, StopInv, AllEnded, Ended, InLoop, Closing, CreateLoop, loopVars, callVars, closeVars
<1> QED
  BY <1>1, <1>2, <1>3, <1>4, <1>5, <1>6 DEF IInv

LEMMA CheckStopStep ==
  ASSUME IInv, CheckStop
  PROVE  IInv'
<1>1. TypeOK'
  BY ReadyType, ThreadsAssumption DEF IInv, TypeOK, TaskStates, FutureStates, Answers, Closing, CheckStop, loopVars, callVars, closeVars
<1>2. PlaceInv'
  BY SameQueue, ThreadsAssumption DEF IInv, TypeOK, PlaceInv, Place, CheckStop, loopVars, callVars, closeVars
<1>3. QueueInv'
  BY SameQueue, ThreadsAssumption DEF IInv, TypeOK, PlaceInv, Place, QueueInv, Way, CheckStop, loopVars, callVars, closeVars
<1>4. TruthInv'
  BY ThreadsAssumption DEF IInv, TypeOK, PlaceInv, Place, QueueInv, Way, TruthInv, CheckStop, loopVars, callVars, closeVars
<1>5. ThreadInv'
  BY ReadyType DEF IInv, TypeOK, ThreadInv, InLoop, AllEnded, Ended, CheckStop, loopVars, callVars, closeVars
<1>6. StopInv'
  BY SameQueue DEF IInv, TypeOK, ThreadInv, StopInv, AllEnded, Ended, InLoop, Closing, CheckStop, loopVars, callVars, closeVars
<1> QED
  BY <1>1, <1>2, <1>3, <1>4, <1>5, <1>6 DEF IInv

LEMMA RunForeverStep ==
  ASSUME IInv, RunForever
  PROVE  IInv'
<1>1. TypeOK'
  BY ReadyType, ThreadsAssumption DEF IInv, TypeOK, TaskStates, FutureStates, Answers, Closing, RunForever, loopVars, callVars, closeVars
<1>2. PlaceInv'
  BY SameQueue, ThreadsAssumption DEF IInv, TypeOK, PlaceInv, Place, RunForever, loopVars, callVars, closeVars
<1>3. QueueInv'
  BY SameQueue, ThreadsAssumption DEF IInv, TypeOK, PlaceInv, Place, QueueInv, Way, RunForever, loopVars, callVars, closeVars
<1>4. TruthInv'
  BY ThreadsAssumption DEF IInv, TypeOK, PlaceInv, Place, QueueInv, Way, TruthInv, RunForever, loopVars, callVars, closeVars
<1>5. ThreadInv'
  BY ReadyType DEF IInv, TypeOK, ThreadInv, InLoop, AllEnded, Ended, RunForever, loopVars, callVars, closeVars
<1>6. StopInv'
  BY SameQueue DEF IInv, TypeOK, ThreadInv, StopInv, AllEnded, Ended, InLoop, Closing, RunForever, loopVars, callVars, closeVars
<1> QED
  BY <1>1, <1>2, <1>3, <1>4, <1>5, <1>6 DEF IInv

LEMMA IterateStep ==
  ASSUME IInv, Iterate
  PROVE  IInv'
<1>1. TypeOK'
  BY ReadyType, ThreadsAssumption DEF IInv, TypeOK, TaskStates, FutureStates, Answers, Closing, Iterate, loopVars, callVars, closeVars
<1>2. PlaceInv'
  BY SameQueue, ThreadsAssumption DEF IInv, TypeOK, PlaceInv, Place, Iterate, loopVars, callVars, closeVars
<1>3. QueueInv'
  BY SameQueue, ThreadsAssumption DEF IInv, TypeOK, PlaceInv, Place, QueueInv, Way, Iterate, loopVars, callVars, closeVars
<1>4. TruthInv'
  BY ThreadsAssumption DEF IInv, TypeOK, PlaceInv, Place, QueueInv, Way, TruthInv, Iterate, loopVars, callVars, closeVars
<1>5. ThreadInv'
  BY ReadyType DEF IInv, TypeOK, ThreadInv, InLoop, AllEnded, Ended, Iterate, loopVars, callVars, closeVars
<1>6. StopInv'
  BY SameQueue DEF IInv, TypeOK, ThreadInv, StopInv, AllEnded, Ended, InLoop, Closing, Iterate, loopVars, callVars, closeVars
<1> QED
  BY <1>1, <1>2, <1>3, <1>4, <1>5, <1>6 DEF IInv

LEMMA RunScheduleStep ==
  ASSUME IInv, NEW c \in Callers, RunSchedule(c)
  PROVE  IInv'
<1>0. /\ \A y : Queued(y)' => Queued(y)
      /\ \A y : Once(y) => Once(y)'
      /\ Queued(Schedule(c)) /\ (Once(Schedule(c)) => ~Queued(Schedule(c))')
      /\ ready' \in Seq(Callbacks) /\ Len(ready') = Len(ready) - 1
      /\ InLoop /\ creating = "none" /\ todo' \in Nat /\ todo' <= Len(ready')
  <2>1. /\ InLoop /\ creating = "none" /\ Head(ready) = Schedule(c) /\ ready # <<>>
        /\ todo' \in Nat /\ todo' <= Len(ready) - 1
    BY Takes DEF IInv, RunSchedule
  <2> QED
    BY <2>1, Taken DEF IInv, RunSchedule
<1>1. TypeOK'
  BY <1>0, ReadyType, ThreadsAssumption DEF IInv, TypeOK, TaskStates, FutureStates, Answers, RunSchedule, loopVars, callVars, closeVars
<1>2. PlaceInv'
  BY <1>0, CallbackTypes, ThreadsAssumption DEF IInv, TypeOK, PlaceInv, Place, RunSchedule, loopVars, callVars, closeVars
<1>3. QueueInv'
  BY <1>0, CallbackTypes, ThreadsAssumption DEF IInv, TypeOK, PlaceInv, Place, QueueInv, Way, RunSchedule, loopVars, callVars, closeVars
<1>4. TruthInv'
  BY <1>0, ThreadsAssumption DEF IInv, TypeOK, PlaceInv, Place, QueueInv, Way, TruthInv, RunSchedule, loopVars, callVars, closeVars
<1>5. ThreadInv'
  BY <1>0 DEF IInv, TypeOK, ThreadInv, StopInv, InLoop, AllEnded, Ended, RunSchedule
<1>6. StopInv'
  BY <1>0, CallbackTypes DEF IInv, TypeOK, ThreadInv, StopInv, AllEnded, Ended, InLoop, RunSchedule, loopVars, callVars, closeVars
<1> QED
  BY <1>1, <1>2, <1>3, <1>4, <1>5, <1>6 DEF IInv

LEMMA CreateTaskStep ==
  ASSUME IInv, CreateTask
  PROVE  IInv'
<1>1. TypeOK'
  BY ReadyType, ThreadsAssumption DEF IInv, TypeOK, TaskStates, FutureStates, Answers, Closing, CreateTask, loopVars, callVars, closeVars
<1>2. PlaceInv'
  BY SameQueue, ThreadsAssumption DEF IInv, TypeOK, PlaceInv, Place, CreateTask, loopVars, callVars, closeVars
<1>3. QueueInv'
  BY SameQueue, ThreadsAssumption DEF IInv, TypeOK, PlaceInv, Place, QueueInv, Way, CreateTask, loopVars, callVars, closeVars
<1>4. TruthInv'
  BY ThreadsAssumption DEF IInv, TypeOK, PlaceInv, Place, QueueInv, Way, TruthInv, CreateTask, loopVars, callVars, closeVars
<1>5. ThreadInv'
  BY ReadyType DEF IInv, TypeOK, ThreadInv, InLoop, AllEnded, Ended, CreateTask, loopVars, callVars, closeVars
<1>6. StopInv'
  BY SameQueue DEF IInv, TypeOK, ThreadInv, StopInv, AllEnded, Ended, InLoop, Closing, CreateTask, loopVars, callVars, closeVars
<1> QED
  BY <1>1, <1>2, <1>3, <1>4, <1>5, <1>6 DEF IInv

LEMMA RunCancelStep ==
  ASSUME IInv, NEW c \in Callers, RunCancel(c)
  PROVE  IInv'
<1>0. /\ \A y : Queued(y)' => Queued(y)
      /\ \A y : Once(y) => Once(y)'
      /\ Queued(CancelTask(c)) /\ (Once(CancelTask(c)) => ~Queued(CancelTask(c))')
      /\ ready' \in Seq(Callbacks) /\ Len(ready') = Len(ready) - 1
      /\ InLoop /\ creating = "none" /\ todo' \in Nat /\ todo' <= Len(ready')
  <2>1. /\ InLoop /\ creating = "none" /\ Head(ready) = CancelTask(c) /\ ready # <<>>
        /\ todo' \in Nat /\ todo' <= Len(ready) - 1
    BY Takes DEF IInv, RunCancel
  <2> QED
    BY <2>1, Taken DEF IInv, RunCancel
<1>1. TypeOK'
  BY <1>0, ReadyType, ThreadsAssumption DEF IInv, TypeOK, TaskStates, FutureStates, Answers, RunCancel, loopVars, callVars, closeVars
<1>2. PlaceInv'
  BY <1>0, CallbackTypes, ThreadsAssumption DEF IInv, TypeOK, PlaceInv, Place, RunCancel, loopVars, callVars, closeVars
<1>3. QueueInv'
  BY <1>0, CallbackTypes, ThreadsAssumption DEF IInv, TypeOK, PlaceInv, Place, QueueInv, Way, RunCancel, loopVars, callVars, closeVars
<1>4. TruthInv'
  BY <1>0, ThreadsAssumption DEF IInv, TypeOK, PlaceInv, Place, QueueInv, Way, TruthInv, RunCancel, loopVars, callVars, closeVars
<1>5. ThreadInv'
  BY <1>0, ReadyType DEF IInv, TypeOK, ThreadInv, InLoop, AllEnded, Ended, RunCancel, loopVars, callVars, closeVars
<1>6. StopInv'
  BY <1>0, CallbackTypes DEF IInv, TypeOK, ThreadInv, StopInv, AllEnded, Ended, InLoop, RunCancel, loopVars, callVars, closeVars
<1> QED
  BY <1>1, <1>2, <1>3, <1>4, <1>5, <1>6 DEF IInv

LEMMA RunStopStep ==
  ASSUME IInv, RunStop
  PROVE  IInv'
<1>0. /\ \A y : Queued(y)' => Queued(y)
      /\ \A y : Once(y) => Once(y)'
      /\ Queued(Stop) /\ (Once(Stop) => ~Queued(Stop)')
      /\ ready' \in Seq(Callbacks) /\ Len(ready') = Len(ready) - 1
      /\ InLoop /\ creating = "none" /\ todo' \in Nat /\ todo' <= Len(ready')
  <2>1. /\ InLoop /\ creating = "none" /\ Head(ready) = Stop /\ ready # <<>>
        /\ todo' \in Nat /\ todo' <= Len(ready) - 1
    BY Takes DEF IInv, RunStop
  <2> QED
    BY <2>1, Taken DEF IInv, RunStop
<1>1. TypeOK'
  BY <1>0, ReadyType, ThreadsAssumption DEF IInv, TypeOK, TaskStates, FutureStates, Answers, Closing, RunStop, loopVars, callVars, closeVars
<1>2. PlaceInv'
  BY <1>0, CallbackTypes, ThreadsAssumption DEF IInv, TypeOK, PlaceInv, Place, RunStop, loopVars, callVars, closeVars
<1>3. QueueInv'
  BY <1>0, CallbackTypes, ThreadsAssumption DEF IInv, TypeOK, PlaceInv, Place, QueueInv, Way, RunStop, loopVars, callVars, closeVars
<1>4. TruthInv'
  BY <1>0, ThreadsAssumption DEF IInv, TypeOK, PlaceInv, Place, QueueInv, Way, TruthInv, RunStop, loopVars, callVars, closeVars
<1>5. ThreadInv'
  BY <1>0, ReadyType DEF IInv, TypeOK, ThreadInv, InLoop, AllEnded, Ended, RunStop, loopVars, callVars, closeVars
<1>6. StopInv'
  BY <1>0, CallbackTypes DEF IInv, TypeOK, ThreadInv, StopInv, AllEnded, Ended, InLoop, Closing, RunStop, loopVars, callVars, closeVars
<1> QED
  BY <1>1, <1>2, <1>3, <1>4, <1>5, <1>6 DEF IInv

LEMMA TaskEndsStep ==
  ASSUME IInv, NEW c \in Callers, TaskEnds(c)
  PROVE  IInv'
<1>0. /\ \A y : Queued(y)' <=> Queued(y) \/ y = TaskDone(c)
      /\ \A y : Once(y) /\ y # TaskDone(c) => Once(y)'
      /\ ready' \in Seq(Callbacks) /\ Len(ready') = Len(ready) + 1
  BY Appended, CallbackTypes DEF IInv, TaskEnds
<1>q. ASSUME NEW d \in Callers
      PROVE  /\ Queued(Schedule(d))' <=> Queued(Schedule(d))
             /\ Once(Schedule(d)) => Once(Schedule(d))'
             /\ Queued(TaskDone(d))' <=> Queued(TaskDone(d)) \/ d = c
  <2>1. Schedule(d) # TaskDone(c) /\ (TaskDone(d) = TaskDone(c) <=> d = c)
    BY DEF Schedule, TaskDone
  <2> QED
    BY <1>0, <2>1
<1>1. TypeOK'
  BY <1>0, ReadyType, ThreadsAssumption DEF IInv, TypeOK, TaskStates, FutureStates, Answers, TaskEnds, loopVars, callVars, closeVars
<1>2. PlaceInv'
  <2> SUFFICES ASSUME NEW d \in Callers PROVE Place(d)'
    BY DEF PlaceInv
  <2>0. Place(d) /\ Way(d)
    BY DEF IInv, PlaceInv, QueueInv
  <2>1. CASE d = c
    BY <1>q, <2>0, <2>1 DEF IInv, TypeOK, Place, Way, TaskEnds, loopVars, callVars, closeVars
  <2>2. CASE d # c
    BY <1>q, <2>0, <2>2 DEF IInv, TypeOK, Place, Way, TaskEnds, loopVars, callVars, closeVars
  <2> QED
    BY <2>1, <2>2
<1>3. QueueInv'
  <2> SUFFICES ASSUME NEW d \in Callers PROVE Way(d)'
    BY DEF QueueInv
  <2>0. Place(d) /\ Way(d)
    BY DEF IInv, PlaceInv, QueueInv
  <2>1. CASE d = c
    BY <1>q, <2>0, <2>1 DEF IInv, TypeOK, Place, Way, TaskEnds, loopVars, callVars, closeVars
  <2>2. CASE d # c
    BY <1>q, <2>0, <2>2 DEF IInv, TypeOK, Place, Way, TaskEnds, loopVars, callVars, closeVars
  <2> QED
    BY <2>1, <2>2
<1>4. TruthInv'
  BY <1>0, ThreadsAssumption DEF IInv, TypeOK, PlaceInv, Place, QueueInv, Way, TruthInv, TaskEnds, loopVars, callVars, closeVars
<1>5. ThreadInv'
  BY <1>0, ReadyType DEF IInv, TypeOK, ThreadInv, InLoop, AllEnded, Ended, TaskEnds, loopVars, callVars, closeVars
<1>6. StopInv'
  BY <1>0, CallbackTypes DEF IInv, TypeOK, ThreadInv, StopInv, AllEnded, Ended, InLoop, TaskEnds, loopVars, callVars, closeVars
<1> QED
  BY <1>1, <1>2, <1>3, <1>4, <1>5, <1>6 DEF IInv

LEMMA RunTaskDoneStep ==
  ASSUME IInv, NEW c \in Callers, RunTaskDone(c)
  PROVE  IInv'
<1>0. /\ \A y : Queued(y)' => Queued(y) \/ (y = Stop /\ thread = "draining" /\ LastDone(c))
      /\ \A y : Once(y) /\ (y # Stop \/ thread # "draining") => Once(y)'
      /\ ready' \in Seq(Callbacks) /\ Queued(TaskDone(c))
      /\ InLoop /\ creating = "none" /\ todo' \in Nat /\ todo' <= Len(ready')
  <2>1. /\ InLoop /\ creating = "none" /\ ready # <<>> /\ Queued(TaskDone(c))
        /\ todo' \in Nat /\ todo' <= Len(ready) - 1
    BY Takes DEF IInv, RunTaskDone
  <2>2. CASE ready' = Tail(ready)
    BY <2>1, <2>2, Taken, ReadyType DEF IInv
  <2>3. CASE thread = "draining" /\ LastDone(c) /\ ready' = Append(Tail(ready), Stop)
    BY <2>1, <2>3, TakenStopping, ReadyType DEF IInv
  <2> QED
    BY <2>2, <2>3 DEF RunTaskDone
<1>1. TypeOK'
  BY <1>0, ReadyType, ThreadsAssumption DEF IInv, TypeOK, TaskStates, FutureStates, Answers, RunTaskDone, loopVars, callVars, closeVars
<1>2. PlaceInv'
  <2> SUFFICES ASSUME NEW d \in Callers PROVE Place(d)'
    BY DEF PlaceInv
  <2>0. Place(d) /\ Way(d)
    BY DEF IInv, PlaceInv, QueueInv
  <2>1. CASE d = c
    BY <1>0, CallbackTypes, <2>0, <2>1 DEF IInv, TypeOK, Place, Way, RunTaskDone, loopVars, callVars, closeVars
  <2>2. CASE d # c
    BY <1>0, CallbackTypes, <2>0, <2>2 DEF IInv, TypeOK, Place, Way, RunTaskDone, loopVars, callVars, closeVars
  <2> QED
    BY <2>1, <2>2
<1>3. QueueInv'
  <2> SUFFICES ASSUME NEW d \in Callers PROVE Way(d)'
    BY DEF QueueInv
  <2>0. Place(d) /\ Way(d)
    BY DEF IInv, PlaceInv, QueueInv
  <2>1. CASE d = c
    BY <1>0, CallbackTypes, <2>0, <2>1 DEF IInv, TypeOK, Place, Way, RunTaskDone, loopVars, callVars, closeVars
  <2>2. CASE d # c
    BY <1>0, CallbackTypes, <2>0, <2>2 DEF IInv, TypeOK, Place, Way, RunTaskDone, loopVars, callVars, closeVars
  <2> QED
    BY <2>1, <2>2
<1>4. TruthInv'
  BY <1>0, ThreadsAssumption DEF IInv, TypeOK, PlaceInv, Place, QueueInv, Way, TruthInv, RunTaskDone, loopVars, callVars, closeVars
<1>5. ThreadInv'
  BY <1>0, ReadyType DEF IInv, TypeOK, ThreadInv, InLoop, AllEnded, Ended, RunTaskDone, loopVars, callVars, closeVars
<1>6. StopInv'
  BY <1>0, CallbackTypes DEF IInv, TypeOK, ThreadInv, StopInv, AllEnded, Ended, InLoop, RunTaskDone, LastDone, loopVars, callVars, closeVars
<1> QED
  BY <1>1, <1>2, <1>3, <1>4, <1>5, <1>6 DEF IInv

LEMMA LeaveLoopStep ==
  ASSUME IInv, LeaveLoop
  PROVE  IInv'
<1>1. TypeOK'
  BY ReadyType, ThreadsAssumption DEF IInv, TypeOK, TaskStates, FutureStates, Answers, Closing, LeaveLoop, loopVars, callVars, closeVars
<1>2. PlaceInv'
  BY SameQueue, ThreadsAssumption DEF IInv, TypeOK, PlaceInv, Place, LeaveLoop, loopVars, callVars, closeVars
<1>3. QueueInv'
  BY SameQueue, ThreadsAssumption DEF IInv, TypeOK, PlaceInv, Place, QueueInv, Way, LeaveLoop, loopVars, callVars, closeVars
<1>4. TruthInv'
  BY ThreadsAssumption DEF IInv, TypeOK, PlaceInv, Place, QueueInv, Way, TruthInv, LeaveLoop, loopVars, callVars, closeVars
<1>5. ThreadInv'
  <2>1. thread = "draining" => AllEnded
    BY DEF IInv, StopInv, LeaveLoop
  <2>2. AllEnded' <=> AllEnded
    BY DEF LeaveLoop, AllEnded, Ended
  <2> QED
    BY <2>1, <2>2 DEF IInv, TypeOK, ThreadInv, InLoop, LeaveLoop
<1>6. StopInv'
  BY SameQueue DEF IInv, TypeOK, ThreadInv, StopInv, AllEnded, Ended, InLoop, Closing, LeaveLoop, loopVars, callVars, closeVars
<1> QED
  BY <1>1, <1>2, <1>3, <1>4, <1>5, <1>6 DEF IInv

LEMMA CancelAllStep ==
  ASSUME IInv, CancelAll
  PROVE  IInv'
<1>1. TypeOK'
  BY ReadyType, ThreadsAssumption DEF IInv, TypeOK, TaskStates, FutureStates, Answers, Closing, CancelAll, Ended, loopVars, callVars, closeVars
<1>2. PlaceInv'
  BY SameQueue, ThreadsAssumption DEF IInv, TypeOK, PlaceInv, Place, CancelAll, Ended, loopVars, callVars, closeVars
<1>3. QueueInv'
  BY SameQueue, ThreadsAssumption DEF IInv, TypeOK, PlaceInv, Place, QueueInv, Way, CancelAll, Ended, loopVars, callVars, closeVars
<1>4. TruthInv'
  BY ThreadsAssumption DEF IInv, TypeOK, PlaceInv, Place, QueueInv, Way, TruthInv, CancelAll, Ended, loopVars, callVars, closeVars
<1>5. ThreadInv'
  BY ReadyType DEF IInv, TypeOK, ThreadInv, InLoop, AllEnded, Ended, CancelAll, Ended, loopVars, callVars, closeVars
<1>6. StopInv'
  BY SameQueue DEF IInv, TypeOK, ThreadInv, StopInv, AllEnded, Ended, InLoop, Closing, CancelAll, Ended, loopVars, callVars, closeVars
<1> QED
  BY <1>1, <1>2, <1>3, <1>4, <1>5, <1>6 DEF IInv

LEMMA CloseLoopStep ==
  ASSUME IInv, CloseLoop
  PROVE  IInv'
<1>0. \A y : ~Queued(y)' /\ Once(y)'
  BY DEF CloseLoop, Queued, Once
<1>1. TypeOK'
  BY <1>0, ReadyType, ThreadsAssumption DEF IInv, TypeOK, TaskStates, FutureStates, Answers, Closing, CloseLoop, loopVars, callVars, closeVars
<1>2. PlaceInv'
  BY <1>0, ThreadsAssumption DEF IInv, TypeOK, PlaceInv, Place, CloseLoop, loopVars, callVars, closeVars
<1>3. QueueInv'
  BY <1>0, ThreadsAssumption DEF IInv, TypeOK, PlaceInv, Place, QueueInv, Way, CloseLoop, loopVars, callVars, closeVars
<1>4. TruthInv'
  BY <1>0, ThreadsAssumption DEF IInv, TypeOK, PlaceInv, Place, QueueInv, Way, TruthInv, CloseLoop, loopVars, callVars, closeVars
<1>5. ThreadInv'
  BY <1>0, ReadyType DEF IInv, TypeOK, ThreadInv, InLoop, AllEnded, Ended, CloseLoop, loopVars, callVars, closeVars
<1>6. StopInv'
  BY <1>0 DEF IInv, TypeOK, ThreadInv, StopInv, AllEnded, Ended, InLoop, Closing, CloseLoop, loopVars, callVars, closeVars
<1> QED
  BY <1>1, <1>2, <1>3, <1>4, <1>5, <1>6 DEF IInv

LEMMA ReadyStep ==
  ASSUME IInv, Ready
  PROVE  IInv'
<1>1. TypeOK'
  BY ReadyType, ThreadsAssumption DEF IInv, TypeOK, TaskStates, FutureStates, Answers, Closing, Ready, CloserAt, loopVars, callVars, closeVars
<1>2. PlaceInv'
  BY SameQueue, ThreadsAssumption DEF IInv, TypeOK, PlaceInv, Place, Ready, CloserAt, loopVars, callVars, closeVars
<1>3. QueueInv'
  BY SameQueue, ThreadsAssumption DEF IInv, TypeOK, PlaceInv, Place, QueueInv, Way, Ready, CloserAt, loopVars, callVars, closeVars
<1>4. TruthInv'
  BY ThreadsAssumption DEF IInv, TypeOK, PlaceInv, Place, QueueInv, Way, TruthInv, Ready, CloserAt, loopVars, callVars, closeVars
<1>5. ThreadInv'
  BY ReadyType DEF IInv, TypeOK, ThreadInv, InLoop, AllEnded, Ended, Ready, CloserAt, loopVars, callVars, closeVars
<1>6. StopInv'
  BY SameQueue DEF IInv, TypeOK, ThreadInv, StopInv, AllEnded, Ended, InLoop, Closing, Ready, CloserAt, loopVars, callVars, closeVars
<1> QED
  BY <1>1, <1>2, <1>3, <1>4, <1>5, <1>6 DEF IInv

LEMMA StartupTimeoutStep ==
  ASSUME IInv, StartupTimeout
  PROVE  IInv'
<1>1. TypeOK'
  BY ReadyType, ThreadsAssumption DEF IInv, TypeOK, TaskStates, FutureStates, Answers, Closing, StartupTimeout, CloserAt, loopVars, callVars, closeVars
<1>2. PlaceInv'
  BY SameQueue, ThreadsAssumption DEF IInv, TypeOK, PlaceInv, Place, StartupTimeout, CloserAt, loopVars, callVars, closeVars
<1>3. QueueInv'
  BY SameQueue, ThreadsAssumption DEF IInv, TypeOK, PlaceInv, Place, QueueInv, Way, StartupTimeout, CloserAt, loopVars, callVars, closeVars
<1>4. TruthInv'
  BY ThreadsAssumption DEF IInv, TypeOK, PlaceInv, Place, QueueInv, Way, TruthInv, StartupTimeout, CloserAt, loopVars, callVars, closeVars
<1>5. ThreadInv'
  BY ReadyType DEF IInv, TypeOK, ThreadInv, InLoop, AllEnded, Ended, StartupTimeout, CloserAt, loopVars, callVars, closeVars
<1>6. StopInv'
  BY SameQueue DEF IInv, TypeOK, ThreadInv, StopInv, AllEnded, Ended, InLoop, Closing, StartupTimeout, CloserAt, loopVars, callVars, closeVars
<1> QED
  BY <1>1, <1>2, <1>3, <1>4, <1>5, <1>6 DEF IInv

LEMMA BeginCloseStep ==
  ASSUME IInv, NEW k \in Closers, BeginClose(k)
  PROVE  IInv'
<1>1. TypeOK'
  BY ReadyType, ThreadsAssumption DEF IInv, TypeOK, TaskStates, FutureStates, Answers, Closing, BeginClose, CloserAt, loopVars, callVars, closeVars
<1>2. PlaceInv'
  BY SameQueue, ThreadsAssumption DEF IInv, TypeOK, PlaceInv, Place, BeginClose, CloserAt, loopVars, callVars, closeVars
<1>3. QueueInv'
  BY SameQueue, ThreadsAssumption DEF IInv, TypeOK, PlaceInv, Place, QueueInv, Way, BeginClose, CloserAt, loopVars, callVars, closeVars
<1>4. TruthInv'
  BY ThreadsAssumption DEF IInv, TypeOK, PlaceInv, Place, QueueInv, Way, TruthInv, BeginClose, CloserAt, loopVars, callVars, closeVars
<1>5. ThreadInv'
  BY ReadyType DEF IInv, TypeOK, ThreadInv, InLoop, AllEnded, Ended, BeginClose, CloserAt, loopVars, callVars, closeVars
<1>6. StopInv'
  BY SameQueue DEF IInv, TypeOK, ThreadInv, StopInv, AllEnded, Ended, InLoop, Closing, BeginClose, CloserAt, loopVars, callVars, closeVars
<1> QED
  BY <1>1, <1>2, <1>3, <1>4, <1>5, <1>6 DEF IInv

LEMMA RequestStopStep ==
  ASSUME IInv, NEW k \in Closing, RequestStop(k)
  PROVE  IInv'
<1>1. TypeOK'
  BY ReadyType, ThreadsAssumption DEF IInv, TypeOK, TaskStates, FutureStates, Answers, Closing, RequestStop, CloserAt, loopVars, callVars, closeVars
<1>2. PlaceInv'
  BY SameQueue, ThreadsAssumption DEF IInv, TypeOK, PlaceInv, Place, RequestStop, CloserAt, loopVars, callVars, closeVars
<1>3. QueueInv'
  BY SameQueue, ThreadsAssumption DEF IInv, TypeOK, PlaceInv, Place, QueueInv, Way, RequestStop, CloserAt, loopVars, callVars, closeVars
<1>4. TruthInv'
  BY ThreadsAssumption DEF IInv, TypeOK, PlaceInv, Place, QueueInv, Way, TruthInv, RequestStop, CloserAt, loopVars, callVars, closeVars
<1>5. ThreadInv'
  BY ReadyType DEF IInv, TypeOK, ThreadInv, InLoop, AllEnded, Ended, RequestStop, CloserAt, loopVars, callVars, closeVars
<1>6. StopInv'
  BY SameQueue DEF IInv, TypeOK, ThreadInv, StopInv, AllEnded, Ended, InLoop, Closing, RequestStop, CloserAt, loopVars, callVars, closeVars
<1> QED
  BY <1>1, <1>2, <1>3, <1>4, <1>5, <1>6 DEF IInv

LEMMA SetClosedStep ==
  ASSUME IInv, NEW k \in Closing, SetClosed(k)
  PROVE  IInv'
<1>1. TypeOK'
  BY ReadyType, ThreadsAssumption DEF IInv, TypeOK, TaskStates, FutureStates, Answers, Closing, SetClosed, CloserAt, loopVars, callVars, closeVars
<1>2. PlaceInv'
  BY SameQueue, ThreadsAssumption DEF IInv, TypeOK, PlaceInv, Place, SetClosed, CloserAt, loopVars, callVars, closeVars
<1>3. QueueInv'
  BY SameQueue, ThreadsAssumption DEF IInv, TypeOK, PlaceInv, Place, QueueInv, Way, SetClosed, CloserAt, loopVars, callVars, closeVars
<1>4. TruthInv'
  BY ThreadsAssumption DEF IInv, TypeOK, PlaceInv, Place, QueueInv, Way, TruthInv, SetClosed, CloserAt, loopVars, callVars, closeVars
<1>5. ThreadInv'
  BY ReadyType DEF IInv, TypeOK, ThreadInv, InLoop, AllEnded, Ended, SetClosed, CloserAt, loopVars, callVars, closeVars
<1>6. StopInv'
  BY SameQueue DEF IInv, TypeOK, ThreadInv, StopInv, AllEnded, Ended, InLoop, Closing, SetClosed, CloserAt, loopVars, callVars, closeVars
<1> QED
  BY <1>1, <1>2, <1>3, <1>4, <1>5, <1>6 DEF IInv

LEMMA StopLoopStep ==
  ASSUME IInv, NEW k \in Closing, StopLoop(k)
  PROVE  IInv'
<1>0. \/ UNCHANGED ready
      \/ /\ \A y : Queued(y)' <=> Queued(y) \/ y = Stop
         /\ \A y : ~Queued(y) \/ (Once(y) /\ y # Stop) => Once(y)'
         /\ ready' \in Seq(Callbacks) /\ Len(ready') = Len(ready) + 1
  BY Appended, CallbackTypes DEF IInv, StopLoop, Callbacks, Stop
<1>1. TypeOK'
  BY <1>0, SameQueue, ReadyType, ThreadsAssumption DEF IInv, TypeOK, TaskStates, FutureStates, Answers, Closing, StopLoop, CloserAt, loopVars, callVars, closeVars
<1>2. PlaceInv'
  BY <1>0, SameQueue, CallbackTypes, ThreadsAssumption DEF IInv, TypeOK, PlaceInv, Place, StopLoop, CloserAt, loopVars, callVars, closeVars
<1>3. QueueInv'
  BY <1>0, SameQueue, CallbackTypes, ThreadsAssumption DEF IInv, TypeOK, PlaceInv, Place, QueueInv, Way, StopLoop, CloserAt, loopVars, callVars, closeVars
<1>4. TruthInv'
  BY <1>0, SameQueue, ThreadsAssumption DEF IInv, TypeOK, PlaceInv, Place, QueueInv, Way, TruthInv, StopLoop, CloserAt, loopVars, callVars, closeVars
<1>5. ThreadInv'
  BY <1>0, SameQueue, ReadyType DEF IInv, TypeOK, ThreadInv, InLoop, AllEnded, Ended, StopLoop, CloserAt, loopVars, callVars, closeVars
<1>6. StopInv'
  BY <1>0, SameQueue, CallbackTypes DEF IInv, TypeOK, ThreadInv, StopInv, AllEnded, Ended, InLoop, Closing, StopLoop, CloserAt, loopVars, callVars, closeVars
<1> QED
  BY <1>1, <1>2, <1>3, <1>4, <1>5, <1>6 DEF IInv

LEMMA JoinStep ==
  ASSUME IInv, NEW k \in Closing, Join(k)
  PROVE  IInv'
<1>1. TypeOK'
  BY ReadyType, ThreadsAssumption DEF IInv, TypeOK, TaskStates, FutureStates, Answers, Closing, Join, CloserAt, loopVars, callVars, closeVars
<1>2. PlaceInv'
  BY SameQueue, ThreadsAssumption DEF IInv, TypeOK, PlaceInv, Place, Join, CloserAt, loopVars, callVars, closeVars
<1>3. QueueInv'
  BY SameQueue, ThreadsAssumption DEF IInv, TypeOK, PlaceInv, Place, QueueInv, Way, Join, CloserAt, loopVars, callVars, closeVars
<1>4. TruthInv'
  BY ThreadsAssumption DEF IInv, TypeOK, PlaceInv, Place, QueueInv, Way, TruthInv, Join, CloserAt, loopVars, callVars, closeVars
<1>5. ThreadInv'
  BY ReadyType DEF IInv, TypeOK, ThreadInv, InLoop, AllEnded, Ended, Join, CloserAt, loopVars, callVars, closeVars
<1>6. StopInv'
  BY SameQueue DEF IInv, TypeOK, ThreadInv, StopInv, AllEnded, Ended, InLoop, Closing, Join, CloserAt, loopVars, callVars, closeVars
<1> QED
  BY <1>1, <1>2, <1>3, <1>4, <1>5, <1>6 DEF IInv

-----------------------------------------------------------------------------
(* The invariant and the theorems.                                           *)

LEMMA InitIInv == Init => IInv
<1> SUFFICES ASSUME Init PROVE IInv
  OBVIOUS
<1>1. \A y : ~Queued(y) /\ Once(y)
  BY DEF Init, Queued, Once
<1>2. TypeOK
  <2>1. closer \in [Closing -> {"starting", "idle"}]
    BY DEF Init
  <2> QED
    BY <2>1, EmptySeq DEF Init, TypeOK, TaskStates, FutureStates, Answers
<1>3. PlaceInv /\ QueueInv /\ TruthInv
  BY <1>1, ThreadsAssumption DEF Init, PlaceInv, Place, QueueInv, Way, TruthInv
<1>4. ThreadInv
  BY DEF Init, ThreadInv, InLoop
<1>5. StopInv
  BY <1>1, ThreadsAssumption DEF Init, StopInv, Closing
<1> QED
  BY <1>2, <1>3, <1>4, <1>5 DEF IInv

LEMMA Stutters == IInv /\ UNCHANGED vars => IInv'
<1> SUFFICES ASSUME IInv, UNCHANGED vars PROVE IInv'
  OBVIOUS
<1>1. \A y : (Queued(y)' <=> Queued(y)) /\ (Once(y)' <=> Once(y))
  BY SameQueue DEF vars
<1>2. TypeOK'
  BY DEF vars, IInv, TypeOK
<1>3. PlaceInv' /\ QueueInv' /\ TruthInv'
  BY <1>1 DEF vars, IInv, PlaceInv, Place, QueueInv, Way, TruthInv
<1>4. ThreadInv' /\ StopInv'
  BY <1>1 DEF vars, IInv, ThreadInv, StopInv, InLoop, AllEnded, Ended
<1> QED
  BY <1>2, <1>3, <1>4 DEF IInv

LEMMA StepIInv == IInv /\ [Next]_vars => IInv'
<1> SUFFICES ASSUME IInv, [Next]_vars PROVE IInv'
  OBVIOUS
<1>1. CASE UNCHANGED vars
  BY <1>1, Stutters
<1>2. ASSUME NEW c \in Callers,
             EnsureNotClosed(c) \/ CallerStep(c) \/ TimeOut(c) \/ Interrupt(c) \/ TaskEnds(c)
      PROVE  IInv'
  BY <1>2, EnsureNotClosedStep, SubmitStep, EnqueueStep, ReturnStep, CancelFutureStep,
     TimeOutStep, InterruptStep, TaskEndsStep DEF CallerStep
<1>3. CASE LoopStep
  <2>1. CASE CreateLoop \/ CheckStop \/ RunForever \/ Iterate \/ CreateTask
    BY <2>1, CreateLoopStep, CheckStopStep, RunForeverStep, IterateStep, CreateTaskStep
  <2>2. CASE RunStop \/ LeaveLoop \/ CancelAll \/ CloseLoop
    BY <2>2, RunStopStep, LeaveLoopStep, CancelAllStep, CloseLoopStep
  <2>3. CASE \E c \in Callers : RunSchedule(c) \/ RunCancel(c) \/ RunTaskDone(c)
    BY <2>3, RunScheduleStep, RunCancelStep, RunTaskDoneStep
  <2> QED
    BY <1>3, <2>1, <2>2, <2>3 DEF LoopStep
<1>4. CASE Ready \/ StartupTimeout
  BY <1>4, ReadyStep, StartupTimeoutStep
<1>5. ASSUME NEW k \in Closers, BeginClose(k) PROVE IInv'
  BY <1>5, BeginCloseStep
<1>6. ASSUME NEW k \in Closing, CloserStep(k) PROVE IInv'
  BY <1>6, RequestStopStep, SetClosedStep, StopLoopStep, JoinStep DEF CloserStep
<1> QED
  BY <1>1, <1>2, <1>3, <1>4, <1>5, <1>6 DEF Next

\* What of a call is on its way, at each stage of loop, callers and closers.
THEOREM Inductive == Spec => []IInv
BY InitIInv, StepIInv, PTL DEF Spec

\* The variables keep their types, however callers, closers and loop interleave.
THEOREM TypeCorrect == Spec => []TypeOK
<1>1. IInv => TypeOK
  BY DEF IInv
<1> QED
  BY <1>1, Inductive, PTL

\* However many threads call and close: who is told that the bridge is closed
\* has not run and never will, who is given a value has run to the end.
THEOREM AnswersStayTrue == Spec => []AnswersAreTrue
<1>1. IInv => AnswersAreTrue
  BY DEF IInv, QueueInv, Way, TruthInv, AnswersAreTrue
<1> QED
  BY <1>1, Inductive, PTL

\* When the loop is closed, no task is left on it, and none is being made.
THEOREM TasksEnded == Spec => []NoTaskLeft
<1>1. IInv => NoTaskLeft
  BY ThreadsAssumption DEF IInv, ThreadInv, AllEnded, NoTaskLeft
<1> QED
  BY <1>1, Inductive, PTL
=============================================================================
