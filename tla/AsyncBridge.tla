----------------------------- MODULE AsyncBridge -----------------------------
(***************************************************************************)
(* qubex.core.async_bridge.AsyncBridge: threads that have an event loop of *)
(* their own hand awaitables to the bridge's loop thread and block for the *)
(* answer, while the wait may time out or be interrupted and another       *)
(* thread may close the bridge.  The constructor is a thread too: it waits *)
(* for the loop and gives up, closing the bridge, if the loop is late.     *)
(*                                                                         *)
(* Of asyncio the module has what the bridge depends on: the FIFO of ready *)
(* callbacks, of which one iteration runs those that were there when it    *)
(* began; stop, which takes effect at the end of an iteration; and close,  *)
(* which drops the callbacks that are left.                                *)
(*                                                                         *)
(* <Step>_<Mistake> is <Step> with a mistake the code could have made; it  *)
(* is part of no specification.                                            *)
(***************************************************************************)
EXTENDS Naturals, Sequences, FiniteSets

CONSTANTS
    Callers,    \* threads that call run or run_without_timeout
    Timed,      \* those that call run: their wait has a timeout
    Closers,    \* threads that call close()
    Builder     \* the thread in AsyncBridge.__init__

ASSUME TimedAssumption == Timed \subseteq Callers
ASSUME ThreadsAssumption == /\ Builder \notin Callers \cup Closers
                            /\ Callers \cap Closers = {}
                            /\ "none" \notin Callers

VARIABLES
    stopRequested,  \* _stop_requested
    closed,         \* _closed
    loop,           \* _loop: "none", "open", "closed"
    loopReady,      \* _loop_ready
    thread,         \* where _run_loop is
    ready,          \* the loop's callbacks, in order
    todo,           \* callbacks left in the current iteration
    stopping,       \* loop.stop() was called
    creating,       \* the call whose task is about to be created, or "none"
    task,           \* task[c]: the task of call c
    future,         \* future[c]: the bridge future of call c
    caller,         \* caller[c]: where the calling thread is
    answer,         \* answer[c]: how the call ended
    closer          \* closer[k]: where a closing thread is

vars == <<stopRequested, closed, loop, loopReady, thread, ready, todo,
          stopping, creating, task, future, caller, answer, closer>>

loopVars == <<loop, loopReady, thread, todo, stopping, creating, task>>
callVars == <<caller, answer>>
closeVars == <<stopRequested, closed, closer>>

Closing == Closers \cup {Builder}

Schedule(c) == <<"schedule", c>>
CancelTask(c) == <<"cancel", c>>
TaskDone(c) == <<"done", c>>
Stop == <<"stop", "loop">>

Callbacks == ({"schedule", "cancel", "done"} \X Callers) \cup {Stop}

TaskStates == {"none", "running", "cancelling", "done", "cancelled"}
FutureStates == {"none", "pending", "cancelled", "value", "closed", "taskCancelled"}
Answers == {"none", "value", "closed", "taskCancelled", "timedOut", "interrupted"}

Init ==
    /\ stopRequested = FALSE /\ closed = FALSE
    /\ loop = "none" /\ loopReady = FALSE
    /\ thread = "new"
    /\ ready = <<>> /\ todo = 0 /\ stopping = FALSE
    /\ creating = "none"
    /\ task = [c \in Callers |-> "none"]
    /\ future = [c \in Callers |-> "none"]
    /\ caller = [c \in Callers |-> "idle"]
    /\ answer = [c \in Callers |-> "none"]
    /\ closer = [k \in Closing |-> IF k = Builder THEN "starting" ELSE "idle"]

-----------------------------------------------------------------------------
(* The calling threads: run and run_without_timeout.                       *)

\* The constructor returned the bridge.
Built == closer[Builder] = "built"

Answered(c, a) ==
    /\ caller' = [caller EXCEPT ![c] = "returned"]
    /\ answer' = [answer EXCEPT ![c] = a]

CallerAt(c, l) ==
    /\ caller' = [caller EXCEPT ![c] = l]
    /\ UNCHANGED answer

\* _ensure_not_closed
EnsureNotClosed(c) ==
    /\ caller[c] = "idle" /\ Built
    /\ IF closed THEN Answered(c, "closed") ELSE CallerAt(c, "checked")
    /\ UNCHANGED <<ready, future, loopVars, closeVars>>

\* _submit: the loop exists and is not closed; the future is made.
Submit(c) ==
    /\ caller[c] = "checked"
    /\ IF loop # "open"
       THEN Answered(c, "closed") /\ UNCHANGED future
       ELSE CallerAt(c, "submitting") /\ future' = [future EXCEPT ![c] = "pending"]
    /\ UNCHANGED <<ready, loopVars, closeVars>>

\* call_soon_threadsafe(_schedule_task), which raises on a closed loop.
Enqueue(c) ==
    /\ caller[c] = "submitting"
    /\ IF loop = "closed"
       THEN Answered(c, "closed") /\ UNCHANGED ready
       ELSE CallerAt(c, "waiting") /\ ready' = Append(ready, Schedule(c))
    /\ UNCHANGED <<future, loopVars, closeVars>>

\* bridge_future.result() returns or raises what the future holds.
Return(c) ==
    /\ caller[c] = "waiting"
    /\ future[c] \in {"value", "closed", "taskCancelled"}
    /\ Answered(c, future[c])
    /\ UNCHANGED <<ready, future, loopVars, closeVars>>

TimeOut(c) ==
    /\ c \in Timed
    /\ caller[c] = "waiting" /\ future[c] = "pending"
    /\ CallerAt(c, "timedOut")
    /\ UNCHANGED <<ready, future, loopVars, closeVars>>

\* KeyboardInterrupt, or any other BaseException, out of the wait.
Interrupt(c) ==
    /\ caller[c] = "waiting"
    /\ CallerAt(c, "interrupted")
    /\ UNCHANGED <<ready, future, loopVars, closeVars>>

\* Only the future is cancelled, not its task.
CancelFuture_KeepsTask(c) ==
    /\ caller[c] \in {"timedOut", "interrupted"}
    /\ Answered(c, caller[c])
    /\ future' = [future EXCEPT ![c] = IF @ = "pending" THEN "cancelled" ELSE @]
    /\ UNCHANGED <<ready, loopVars, closeVars>>

\* bridge_future.cancel(), with _on_bridge_done in the calling thread.  On a
\* future that is done it does nothing.
CancelFuture(c) ==
    /\ caller[c] \in {"timedOut", "interrupted"}
    /\ Answered(c, caller[c])
    /\ IF future[c] = "pending"
       THEN /\ future' = [future EXCEPT ![c] = "cancelled"]
            /\ ready' = IF loop = "closed" THEN ready
                        ELSE Append(ready, CancelTask(c))
       ELSE UNCHANGED <<future, ready>>
    /\ UNCHANGED <<loopVars, closeVars>>

-----------------------------------------------------------------------------
(* The loop thread: _run_loop and the callbacks of _submit.                *)

CreateLoop ==
    /\ thread = "new"
    /\ thread' = "created"
    /\ loop' = "open"
    /\ UNCHANGED <<loopReady, ready, todo, stopping, creating, task, future,
                   callVars, closeVars>>

CheckStop_Ignored ==
    /\ thread = "created"
    /\ thread' = "starting"
    /\ UNCHANGED <<loop, loopReady, ready, todo, stopping, creating, task,
                   future, callVars, closeVars>>

\* A close that came before the loop existed is honoured here.
CheckStop ==
    /\ thread = "created"
    /\ thread' = IF stopRequested THEN "closing" ELSE "starting"
    /\ loopReady' = stopRequested
    /\ UNCHANGED <<loop, ready, todo, stopping, creating, task, future,
                   callVars, closeVars>>

RunForever ==
    /\ thread = "starting"
    /\ thread' = "running"
    /\ loopReady' = TRUE
    /\ UNCHANGED <<loop, ready, todo, stopping, creating, task, future,
                   callVars, closeVars>>

InLoop == thread \in {"running", "draining"}

\* The next iteration takes the callbacks that are ready.
Iterate ==
    /\ InLoop /\ creating = "none"
    /\ todo = 0 /\ ~stopping /\ ready # <<>>
    /\ todo' = Len(ready)
    /\ UNCHANGED <<loop, loopReady, thread, ready, stopping, creating, task,
                   future, callVars, closeVars>>

\* The head of the FIFO is `callback`, which is taken.
Taking(callback) ==
    /\ InLoop /\ creating = "none"
    /\ todo > 0
    /\ Head(ready) = callback
    /\ todo' = todo - 1

\* A rejected call is scheduled all the same: the return is missing.
RunSchedule_NoReturn(c) ==
    /\ Taking(Schedule(c))
    /\ ready' = Tail(ready)
    /\ future' = [future EXCEPT ![c] = IF @ = "pending" /\ closed
                                       THEN "closed" ELSE @]
    /\ creating' = IF future[c] = "cancelled" THEN creating ELSE c
    /\ UNCHANGED <<loop, loopReady, thread, stopping, task, callVars, closeVars>>

\* _schedule_task, up to create_task.
RunSchedule(c) ==
    /\ Taking(Schedule(c))
    /\ ready' = Tail(ready)
    /\ CASE future[c] = "cancelled" -> UNCHANGED <<future, creating>>
         [] future[c] # "cancelled" /\ closed ->
                /\ future' = [future EXCEPT ![c] = "closed"]
                /\ UNCHANGED creating
         [] OTHER -> creating' = c /\ UNCHANGED future
    /\ UNCHANGED <<loop, loopReady, thread, stopping, task, callVars, closeVars>>

\* The bridge may have been closed and the future cancelled since the check.
CreateTask ==
    /\ creating # "none"
    /\ task' = [task EXCEPT ![creating] = "running"]
    /\ creating' = "none"
    /\ UNCHANGED <<loop, loopReady, thread, ready, todo, stopping, future,
                   callVars, closeVars>>

\* _cancel_task
RunCancel(c) ==
    /\ Taking(CancelTask(c))
    /\ ready' = Tail(ready)
    /\ task' = [task EXCEPT ![c] = IF @ = "running" THEN "cancelling" ELSE @]
    /\ UNCHANGED <<loop, loopReady, thread, stopping, creating, future,
                   callVars, closeVars>>

RunStop ==
    /\ Taking(Stop)
    /\ ready' = Tail(ready)
    /\ stopping' = TRUE
    /\ UNCHANGED <<loop, loopReady, thread, creating, task, future, callVars,
                   closeVars>>

\* The awaitable ends, with a value or an error ("done") or by a CancelledError,
\* its own or the one it was given; the done callback is queued.
TaskEnds(c) ==
    /\ InLoop /\ creating = "none"
    /\ task[c] \in {"running", "cancelling"}
    /\ \E how \in {"done", "cancelled"} : task' = [task EXCEPT ![c] = how]
    /\ ready' = Append(ready, TaskDone(c))
    /\ UNCHANGED <<loop, loopReady, thread, todo, stopping, creating, future,
                   callVars, closeVars>>

Ended(c) == task[c] \in {"none", "done", "cancelled"}

\* All tasks have ended and no callback but this one is left of them.
LastDone(c) ==
    /\ \A d \in Callers : Ended(d)
    /\ \A n \in 2..Len(ready) : ready[n][1] # "done"

\* A cancelled task is taken for one without a result.
RunTaskDone_DropsCancelled(c) ==
    /\ Taking(TaskDone(c))
    /\ future' = [future EXCEPT ![c] =
                    IF @ # "pending" \/ task[c] = "cancelled" THEN @ ELSE "value"]
    /\ ready' = IF thread = "draining" /\ LastDone(c)
                THEN Append(Tail(ready), Stop) ELSE Tail(ready)
    /\ UNCHANGED <<loop, loopReady, thread, stopping, creating, task, callVars,
                   closeVars>>

\* A cancelled task is taken for one that returned None.
RunTaskDone_AnyOutcome(c) ==
    /\ Taking(TaskDone(c))
    /\ future' = [future EXCEPT ![c] = IF @ # "pending" THEN @ ELSE "value"]
    /\ ready' = IF thread = "draining" /\ LastDone(c)
                THEN Append(Tail(ready), Stop) ELSE Tail(ready)
    /\ UNCHANGED <<loop, loopReady, thread, stopping, creating, task, callVars,
                   closeVars>>

\* _on_task_done; a future that the caller cancels in the middle of it keeps
\* its cancellation.  The last one ends the gather of a draining loop.
RunTaskDone(c) ==
    /\ Taking(TaskDone(c))
    /\ future' = [future EXCEPT ![c] =
                    IF @ # "pending" THEN @
                    ELSE IF task[c] = "cancelled" THEN "taskCancelled" ELSE "value"]
    /\ ready' = IF thread = "draining" /\ LastDone(c)
                THEN Append(Tail(ready), Stop) ELSE Tail(ready)
    /\ UNCHANGED <<loop, loopReady, thread, stopping, creating, task, callVars,
                   closeVars>>

\* run_forever and run_until_complete return at the end of an iteration.
LeaveLoop ==
    /\ InLoop /\ creating = "none"
    /\ todo = 0 /\ stopping
    /\ stopping' = FALSE
    /\ thread' = IF thread = "running" THEN "stopped" ELSE "closing"
    /\ UNCHANGED <<loop, loopReady, ready, todo, creating, task, future,
                   callVars, closeVars>>

\* finally: cancel all tasks and run the loop until they are done.  Tasks
\* whose end was already queued are pending no more.
CancelAll ==
    /\ thread = "stopped"
    /\ task' = [c \in Callers |-> IF Ended(c) THEN task[c] ELSE "cancelling"]
    /\ thread' = IF \A c \in Callers : Ended(c) THEN "closing" ELSE "draining"
    /\ UNCHANGED <<loop, loopReady, ready, todo, stopping, creating, future,
                   callVars, closeVars>>

\* loop.close()
CloseLoop ==
    /\ thread = "closing"
    /\ thread' = "finished"
    /\ loop' = "closed"
    /\ ready' = <<>>
    /\ UNCHANGED <<loopReady, todo, stopping, creating, task, future, callVars,
                   closeVars>>

-----------------------------------------------------------------------------
(* The threads that close, and the constructor.                            *)

CloserAt(k, l) == closer' = [closer EXCEPT ![k] = l]

\* _start_loop_thread: the loop is ready, or not within startup_timeout.
Ready ==
    /\ closer[Builder] = "starting" /\ loopReady
    /\ CloserAt(Builder, "built")
    /\ UNCHANGED <<stopRequested, closed, ready, future, loopVars, callVars>>

StartupTimeout ==
    /\ closer[Builder] = "starting" /\ ~loopReady
    /\ CloserAt(Builder, "begin")
    /\ UNCHANGED <<stopRequested, closed, ready, future, loopVars, callVars>>

BeginClose(k) ==
    /\ closer[k] = "idle" /\ Built
    /\ CloserAt(k, "begin")
    /\ UNCHANGED <<stopRequested, closed, ready, future, loopVars, callVars>>

RequestStop(k) ==
    /\ closer[k] = "begin"
    /\ stopRequested' = TRUE
    /\ CloserAt(k, "locking")
    /\ UNCHANGED <<closed, ready, future, loopVars, callVars>>

\* Every thread that closes stops the loop.
SetClosed_EveryTime(k) ==
    /\ closer[k] = "locking"
    /\ closed' = TRUE
    /\ CloserAt(k, IF loop = "open" THEN "stop" ELSE "join")
    /\ UNCHANGED <<stopRequested, ready, future, loopVars, callVars>>

\* Under the lock: the first to come closes, the others return.  A loop that
\* does not exist yet will find the stop request.
SetClosed(k) ==
    /\ closer[k] = "locking"
    /\ closed' = TRUE
    /\ CloserAt(k, IF closed THEN "returned"
                   ELSE IF loop = "open" THEN "stop" ELSE "join")
    /\ UNCHANGED <<stopRequested, ready, future, loopVars, callVars>>

\* call_soon_threadsafe(loop.stop); it raises if the loop has been closed by
\* a thread that found the stop request.
StopLoop(k) ==
    /\ closer[k] = "stop"
    /\ ready' = IF loop = "closed" THEN ready ELSE Append(ready, Stop)
    /\ CloserAt(k, IF loop = "closed" THEN "returned" ELSE "join")
    /\ UNCHANGED <<stopRequested, closed, future, loopVars, callVars>>

\* thread.join(timeout=1.0) returns, with or without the thread's end.
Join(k) ==
    /\ closer[k] = "join"
    /\ CloserAt(k, "returned")
    /\ UNCHANGED <<stopRequested, closed, ready, future, loopVars, callVars>>

-----------------------------------------------------------------------------
CallerStep(c) == Submit(c) \/ Enqueue(c) \/ Return(c) \/ CancelFuture(c)

LoopStep ==
    \/ CreateLoop \/ CheckStop \/ RunForever \/ Iterate \/ CreateTask \/ RunStop
    \/ LeaveLoop \/ CancelAll \/ CloseLoop
    \/ \E c \in Callers : RunSchedule(c) \/ RunCancel(c) \/ RunTaskDone(c)

CloserStep(k) == RequestStop(k) \/ SetClosed(k) \/ StopLoop(k) \/ Join(k)

Next ==
    \/ \E c \in Callers : \/ EnsureNotClosed(c) \/ CallerStep(c)
                          \/ TimeOut(c) \/ Interrupt(c) \/ TaskEnds(c)
    \/ LoopStep
    \/ Ready \/ StartupTimeout
    \/ \E k \in Closers : BeginClose(k)
    \/ \E k \in Closing : CloserStep(k)

Spec == Init /\ [][Next]_vars

\* Every thread runs.  A task that was cancelled ends; nothing says that a task
\* ends of itself, that a wait times out or that anybody calls or closes.
Fairness ==
    /\ \A c \in Callers : /\ WF_vars(CallerStep(c))
                          /\ WF_vars(task[c] = "cancelling" /\ TaskEnds(c))
    /\ WF_vars(LoopStep)
    /\ WF_vars(Ready)
    /\ \A k \in Closing : WF_vars(CloserStep(k))

FairSpec == Spec /\ Fairness

-----------------------------------------------------------------------------
(* Properties.                                                             *)

TypeOK ==
    /\ stopRequested \in BOOLEAN /\ closed \in BOOLEAN
    /\ loop \in {"none", "open", "closed"} /\ loopReady \in BOOLEAN
    /\ thread \in {"new", "created", "starting", "running", "stopped",
                   "draining", "closing", "finished"}
    /\ ready \in Seq(Callbacks)
    /\ todo \in Nat /\ stopping \in BOOLEAN
    /\ creating \in Callers \cup {"none"}
    /\ task \in [Callers -> TaskStates]
    /\ future \in [Callers -> FutureStates]
    /\ caller \in [Callers -> {"idle", "checked", "submitting", "waiting",
                               "timedOut", "interrupted", "returned"}]
    /\ answer \in [Callers -> Answers]
    /\ closer \in [Closing -> {"starting", "built", "idle", "begin", "locking",
                               "stop", "join", "returned"}]

\* A closed loop leaves no task behind, whatever was scheduled while the
\* bridge was being closed.
NoTaskLeft ==
    loop = "closed" => \A c \in Callers : Ended(c) /\ creating # c

\* What a caller is told is what became of its task: a call that is told that
\* the bridge is closed has not run and never will, so that it may be repeated
\* on another bridge, and one that returns normally, or with the awaitable's
\* own error, has run to its end.
AnswersAreTrue ==
    \A c \in Callers :
        /\ answer[c] = "closed" => task[c] = "none" /\ creating # c
        /\ answer[c] = "value" => task[c] = "done"

\* A call whose wait timed out or was interrupted stops running on the loop,
\* or never starts, and does so for good, even if it was given up while its
\* task was being created.
AbandonedStops ==
    \A c \in Callers :
        (answer[c] \in {"timedOut", "interrupted"}) ~> [](Ended(c) /\ creating # c)

\* A call that is still running when the loop is taken down is answered: its
\* task is cancelled and the outcome reaches the caller before the loop closes.
DrainAnswers ==
    \A c \in Callers :
        (thread = "draining" /\ ~Ended(c)) ~> (caller[c] = "returned")

\* Closing a bridge, or giving up its start, ends the loop and its thread,
\* however the close races with the start of the loop and with other closes.
CloseEndsThread == closed ~> (thread = "finished")

\* A call on a closed bridge raises, one that passed the first check of the
\* bridge included: _schedule_task checks again, for this case.  A call with a
\* timeout would end by it.
ClosedBridgeRaises ==
    \A c \in Callers \ Timed :
        (closed /\ caller[c] \in {"checked", "submitting"}) ~> (caller[c] = "returned")
================================================================================
