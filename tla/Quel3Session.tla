----------------------------- MODULE Quel3Session -----------------------------
(***************************************************************************)
(* One batch of executions on a QuEL-3 controller and the quelware client  *)
(* and session it holds: Quel3ExecutionManager._execute_built_payloads,    *)
(* run_with_session_request_retry, Quel3SessionManager and                 *)
(* enter_quelware_session_with_resource_retry.                             *)
(*                                                                         *)
(* The batch is one coroutine.  Every await on quelware is a control state *)
(* of its own whose result is chosen by the environment: it succeeds,      *)
(* raises, or the task is cancelled there.  Code between two awaits is one *)
(* step, or a step per clause (except, finally) where that reads better:   *)
(* nothing else runs in between.  Sessions and client contexts are         *)
(* numbered in the order in which they are created; 0 is Python's None.    *)
(*                                                                         *)
(* <Step>_<Mistake> is <Step> with a mistake the code could have made.  It *)
(* is part of no specification; it shows that a property would notice.     *)
(***************************************************************************)
EXTENDS Naturals, FiniteSets

CONSTANTS
    NRuns,            \* executions of the plan
    Bindings,         \* resource-id tuples
    Binding,          \* Binding[i]: the ids of execution i
    NoBinding,        \* _resource_ids is None
    RequestAttempts,  \* QUEL3_SESSION_REQUEST_MAX_ATTEMPTS
    CreateAttempts,   \* QUELWARE_SESSION_CREATE_MAX_ATTEMPTS
    MaxCancels        \* bound: how often the task may be cancelled

ASSUME NRunsAssumption == NRuns \in Nat \ {0}
ASSUME BindingAssumption == Binding \in [1..NRuns -> Bindings]
ASSUME NoBindingAssumption == NoBinding \notin Bindings
ASSUME AttemptsAssumption == /\ RequestAttempts \in Nat \ {0}
                             /\ CreateAttempts \in Nat \ {0}
                             /\ MaxCancels \in Nat

VARIABLES
    pc,         \* where the coroutine is
    run,        \* index of the execution in progress
    attempt,    \* request attempt of that execution
    create,     \* session-creation attempt of that request attempt
    exc,        \* the exception being handled: its class, or "none"
    closer,     \* who called close(): open(), the retry loop or the batch
    closeExc,   \* what the session's exit raised inside close()
    mgr,        \* the fields of Quel3SessionManager
    leaving,    \* the session or client whose __aexit__ is being awaited
    client,     \* client contexts: how many were created, which are entered
    session,    \* sessions: created, live on the server, given an exit, put
                \* to use, cut off by a cancellation while being entered
    completed,  \* executions whose result the assembler accepted
    seen,       \* what the batch met: a missing resource; a missing resource
                \* "masked", a cancellation "swallowed" by a later error
    cancels     \* cancellations delivered

vars == <<pc, run, attempt, create, exc, closer, closeExc, mgr, leaving,
          client, session, completed, seen, cancels>>

Runs == 1..NRuns
None == 0

\* is_resource_not_found_error, is_resource_allocation_error, anything else.
Errors == {"notFound", "allocation", "other"}
Exceptions == Errors \cup {"none", "cancelled"}

Requests == {"enterClient", "exitOld", "enterSession", "abortEnter",
             "operate", "exitSession", "exitClient"}
Awaits == Requests \cup {"createSleep", "retrySleep"}
Pcs == Awaits \cup {"begin", "attempt", "failed", "close", "closed",
                    "unwind", "done"}

Managers == [clientCm : Nat, client : Nat, session : Nat,
             bound : Bindings \cup {NoBinding}]
Clients == [count : Nat, entered : SUBSET Nat, exited : SUBSET Nat]
Sessions == [count : Nat, live : SUBSET Nat, exited : SUBSET Nat,
             used : SUBSET Nat, cut : SUBSET Nat]

NoMgr == [clientCm |-> None, client |-> None, session |-> None,
          bound |-> NoBinding]

-----------------------------------------------------------------------------
Init ==
    /\ pc = "begin"
    /\ run = 1 /\ attempt = 1 /\ create = 1
    /\ exc = "none" /\ closer = "batch" /\ closeExc = "none"
    /\ mgr = NoMgr
    /\ leaving = None
    /\ client = [count |-> 0, entered |-> {}, exited |-> {}]
    /\ session = [count |-> 0, live |-> {}, exited |-> {}, used |-> {},
                  cut |-> {}]
    /\ completed = 0
    /\ seen = {}
    /\ cancels = 0

\* The coroutine moves to l; the parts named by the caller change as well.
Goto(l) == pc' = l

Raise(e) ==
    /\ exc' = e
    /\ seen' = seen \cup (IF e = "notFound" THEN {"missing"} ELSE {})

-----------------------------------------------------------------------------
(* run_with_session_request_retry, one request attempt.                    *)

\* _detach_session_context: the manager forgets its session.
Detached == [mgr EXCEPT !.session = None, !.bound = NoBinding]

BeginBatch ==
    /\ pc = "begin"
    /\ Goto("attempt")
    /\ UNCHANGED <<run, attempt, create, exc, closer, closeExc, mgr, leaving,
                   client, session, completed, seen, cancels>>

\* if not manager.is_open: manager.open(client_factory=...)
OpenClient ==
    /\ pc = "attempt" /\ mgr.client = None
    /\ Goto("enterClient")
    /\ client' = [client EXCEPT !.count = @ + 1]
    /\ mgr' = [mgr EXCEPT !.clientCm = client.count + 1]
    /\ UNCHANGED <<run, attempt, create, exc, closer, closeExc, leaving,
                   session, completed, seen, cancels>>

ClientEntered ==
    /\ pc = "enterClient"
    /\ Goto("enterSession")
    /\ create' = 1
    /\ client' = [client EXCEPT !.entered = @ \cup {mgr.clientCm}]
    /\ mgr' = [Detached EXCEPT !.client = mgr.clientCm]
    /\ UNCHANGED <<run, attempt, exc, closer, closeExc, leaving,
                   session, completed, seen, cancels>>

ClientEnterFails ==
    /\ pc = "enterClient"
    /\ Goto("failed")
    /\ mgr' = [mgr EXCEPT !.clientCm = None]
    /\ Raise("other")
    /\ UNCHANGED <<run, attempt, create, closer, closeExc, leaving,
                   client, session, completed, cancels>>

\* A bound session is used again, whatever it is bound to.
Reopen_Reuses ==
    /\ pc = "attempt" /\ mgr.client # None
    /\ IF mgr.session = None
       THEN Goto("enterSession") /\ create' = 1
       ELSE Goto("operate") /\ UNCHANGED create
    /\ UNCHANGED <<run, attempt, exc, closer, closeExc, mgr, leaving, client,
                   session, completed, seen, cancels>>

\* reopen_session on an open client: the previous session is exited first.
Reopen ==
    /\ pc = "attempt" /\ mgr.client # None
    /\ mgr' = Detached
    /\ leaving' = mgr.session
    /\ IF mgr.session = None
       THEN Goto("enterSession") /\ create' = 1 /\ UNCHANGED session
       ELSE /\ Goto("exitOld")
            /\ session' = [session EXCEPT !.exited = @ \cup {mgr.session}]
            /\ UNCHANGED create
    /\ UNCHANGED <<run, attempt, exc, closer, closeExc, client,
                   completed, seen, cancels>>

\* The exit of `leaving` returned: the server dropped the session.
OldSessionExited ==
    /\ pc = "exitOld"
    /\ Goto("enterSession")
    /\ create' = 1
    /\ leaving' = None
    /\ session' = [session EXCEPT !.live = @ \ {leaving}]
    /\ UNCHANGED <<run, attempt, exc, closer, closeExc, mgr, client,
                   completed, seen, cancels>>

\* An exit that raises may or may not have reached the server.
OldSessionExitFails(e) ==
    /\ pc = "exitOld"
    /\ Goto("failed")
    /\ leaving' = None
    /\ \E gone \in SUBSET {leaving} :
          session' = [session EXCEPT !.live = @ \ gone]
    /\ Raise(e)
    /\ UNCHANGED <<run, attempt, create, closer, closeExc, mgr, client,
                   completed, cancels>>

-----------------------------------------------------------------------------
(* enter_quelware_session_with_resource_retry.                             *)

NewSession == session.count + 1

SessionEntered ==
    /\ pc = "enterSession"
    /\ Goto("operate")
    /\ session' = [session EXCEPT !.count = NewSession,
                                  !.live = @ \cup {NewSession},
                                  !.used = @ \cup {NewSession}]
    /\ mgr' = [mgr EXCEPT !.session = NewSession, !.bound = Binding[run]]
    /\ UNCHANGED <<run, attempt, create, exc, closer, closeExc, leaving,
                   client, completed, seen, cancels>>

\* __aenter__ raised: the server may hold the session all the same, so the
\* context is exited (_close_after_failed_enter).
SessionEnterFails(e) ==
    /\ pc = "enterSession"
    /\ Goto("abortEnter")
    /\ leaving' = NewSession
    /\ \E up \in SUBSET {NewSession} :
          session' = [session EXCEPT !.count = NewSession,
                                     !.live = @ \cup up,
                                     !.exited = @ \cup {NewSession}]
    /\ Raise(e)
    /\ UNCHANGED <<run, attempt, create, closer, closeExc, mgr, client,
                   completed, cancels>>

\* Both outcomes of that exit are the same to the code (suppress(Exception)):
\* sleep and create again, or raise into open(), which calls close().
FailedEnterExited ==
    /\ pc = "abortEnter"
    /\ leaving' = None
    /\ \E gone \in SUBSET {leaving} :
          session' = [session EXCEPT !.live = @ \ gone]
    /\ IF exc = "allocation" /\ create < CreateAttempts
       THEN Goto("createSleep") /\ UNCHANGED closer
       ELSE Goto("close") /\ closer' = "open"
    /\ UNCHANGED <<run, attempt, create, exc, closeExc, mgr, client,
                   completed, seen, cancels>>

CreateSleepEnds ==
    /\ pc = "createSleep"
    /\ Goto("enterSession")
    /\ create' = create + 1
    /\ exc' = "none"
    /\ UNCHANGED <<run, attempt, closer, closeExc, mgr, leaving, client,
                   session, completed, seen, cancels>>

-----------------------------------------------------------------------------
(* The operation, and the loop of _execute_built_payloads around it.       *)

OperationReturns ==
    /\ pc = "operate"
    /\ completed' = completed + 1
    /\ IF run < NRuns
       THEN /\ Goto("attempt")
            /\ run' = run + 1 /\ attempt' = 1
       ELSE Goto("unwind") /\ UNCHANGED <<run, attempt>>
    /\ UNCHANGED <<create, exc, closer, closeExc, mgr, leaving, client,
                   session, seen, cancels>>

\* assembler.add raised, or assembler.finish, which follows the last execution
\* and is taken together with the add of its result: outside the retry loop.
ResultRejected ==
    /\ pc = "operate"
    /\ Goto("unwind")
    /\ Raise("other")
    /\ UNCHANGED <<run, attempt, create, closer, closeExc, mgr, leaving,
                   client, session, completed, cancels>>

OperationFails(e) ==
    /\ pc = "operate"
    /\ Goto("failed")
    /\ Raise(e)
    /\ UNCHANGED <<run, attempt, create, closer, closeExc, mgr, leaving,
                   client, session, completed, cancels>>

\* except Exception: await manager.close_safely()
RequestFailed ==
    /\ pc = "failed"
    /\ Goto("close") /\ closer' = "retry"
    /\ UNCHANGED <<run, attempt, create, exc, closeExc, mgr, leaving, client,
                   session, completed, seen, cancels>>

RetrySleepEnds ==
    /\ pc = "retrySleep"
    /\ Goto("attempt")
    /\ attempt' = attempt + 1
    /\ exc' = "none"
    /\ UNCHANGED <<run, create, closer, closeExc, mgr, leaving, client,
                   session, completed, seen, cancels>>

\* finally: await self._session_manager.close_safely()
Unwind ==
    /\ pc = "unwind"
    /\ Goto("close") /\ closer' = "batch"
    /\ UNCHANGED <<run, attempt, create, exc, closeExc, mgr, leaving, client,
                   session, completed, seen, cancels>>

-----------------------------------------------------------------------------
(* Quel3SessionManager.close: the session first, then the client, whether  *)
(* or not the session's exit raised.                                       *)

\* After the session is gone: forget the client, then await its exit.
ReleaseClient(m) ==
    /\ mgr' = NoMgr
    /\ leaving' = m.clientCm
    /\ IF m.clientCm = None
       THEN Goto("closed") /\ UNCHANGED client
       ELSE /\ Goto("exitClient")
            /\ client' = [client EXCEPT !.exited = @ \cup {m.clientCm}]

Close_SkipsSession ==
    /\ pc = "close"
    /\ closeExc' = "none"
    /\ ReleaseClient(mgr)
    /\ UNCHANGED <<run, attempt, create, exc, closer, session, completed,
                   seen, cancels>>

Close ==
    /\ pc = "close"
    /\ closeExc' = "none"
    /\ IF mgr.session = None
       THEN ReleaseClient(mgr) /\ UNCHANGED session
       ELSE /\ Goto("exitSession")
            /\ mgr' = Detached
            /\ leaving' = mgr.session
            /\ session' = [session EXCEPT !.exited = @ \cup {mgr.session}]
            /\ UNCHANGED client
    /\ UNCHANGED <<run, attempt, create, exc, closer, completed, seen, cancels>>

SessionExited ==
    /\ pc = "exitSession"
    /\ session' = [session EXCEPT !.live = @ \ {leaving}]
    /\ ReleaseClient(mgr)
    /\ UNCHANGED <<run, attempt, create, exc, closer, closeExc, completed,
                   seen, cancels>>

\* Without `finally`: the client is not released.
SessionExitFails_NoFinally ==
    /\ pc = "exitSession"
    /\ closeExc' = "other"
    /\ Goto("closed")
    /\ leaving' = None
    /\ UNCHANGED <<run, attempt, create, exc, closer, mgr, client, session,
                   completed, seen, cancels>>

\* The client is forgotten, but only an exit that succeeds goes on to its exit.
SessionExitFails_DropsClient ==
    /\ pc = "exitSession"
    /\ closeExc' = "other"
    /\ Goto("closed")
    /\ mgr' = NoMgr
    /\ leaving' = None
    /\ UNCHANGED <<run, attempt, create, exc, closer, client, session,
                   completed, seen, cancels>>

SessionExitFails ==
    /\ pc = "exitSession"
    /\ closeExc' = "other"
    /\ \E gone \in SUBSET {leaving} :
          session' = [session EXCEPT !.live = @ \ gone]
    /\ ReleaseClient(mgr)
    /\ UNCHANGED <<run, attempt, create, exc, closer, completed, seen, cancels>>

ClientExited ==
    /\ pc = "exitClient"
    /\ Goto("closed")
    /\ leaving' = None
    /\ client' = [client EXCEPT !.entered = @ \ {leaving}]
    /\ UNCHANGED <<run, attempt, create, exc, closer, closeExc, mgr,
                   session, completed, seen, cancels>>

\* What the client's exit raises replaces what the session's exit raised.
ClientExitFails ==
    /\ pc = "exitClient"
    /\ Goto("closed")
    /\ leaving' = None
    /\ closeExc' = "other"
    /\ seen' = seen \cup (IF closeExc = "cancelled" THEN {"swallowed"} ELSE {})
    /\ UNCHANGED <<run, attempt, create, exc, closer, mgr, client, session,
                   completed, cancels>>

-----------------------------------------------------------------------------
(* close() returned, or raised closeExc.                                   *)

\* open(): `await self.close(); raise`.  An error of close() is raised in
\* place of the creation error, which is then no longer on the cause chain.
ClosedForOpen ==
    /\ pc = "closed" /\ closer = "open"
    /\ IF closeExc = "none"
       THEN Goto("failed") /\ UNCHANGED <<exc, seen>>
       ELSE /\ exc' = closeExc
            /\ Goto(IF closeExc = "cancelled" THEN "unwind" ELSE "failed")
            /\ seen' = seen \cup (IF exc = "notFound" THEN {"masked"} ELSE {})
    /\ UNCHANGED <<run, attempt, create, closer, closeExc, mgr, leaving, client,
                   session, completed, cancels>>

\* The except clause after close_safely: raise `raised` if `stop`, go on at
\* `again` if not.  A cancellation of the close propagates in any case.
AfterSafeClose(raised, stop, again) ==
    /\ pc = "closed" /\ closer = "retry"
    /\ exc' = IF closeExc = "cancelled" THEN "cancelled" ELSE raised
    /\ Goto(IF closeExc = "cancelled" \/ stop THEN "unwind" ELSE again)
    /\ UNCHANGED <<run, attempt, create, closer, closeExc, mgr, leaving, client,
                   session, completed, seen, cancels>>

ClosedForRetry_LosesError ==
    AfterSafeClose(IF attempt >= RequestAttempts THEN "none" ELSE exc,
                   exc = "notFound" \/ attempt >= RequestAttempts,
                   "retrySleep")
ClosedForRetry_RetriesMissing ==
    AfterSafeClose(exc, attempt >= RequestAttempts, "retrySleep")
ClosedForRetry_OneTooMany ==
    AfterSafeClose(exc, exc = "notFound" \/ attempt > RequestAttempts,
                   "retrySleep")
ClosedForRetry_ClosesAgain ==
    AfterSafeClose(exc, exc = "notFound" \/ attempt >= RequestAttempts, "close")

\* close_safely swallows errors but not a cancellation; a missing resource and
\* the last attempt are raised, anything else is retried after a pause.
ClosedForRetry ==
    AfterSafeClose(exc, exc = "notFound" \/ attempt >= RequestAttempts,
                   "retrySleep")

ClosedForBatch ==
    /\ pc = "closed" /\ closer = "batch"
    /\ exc' = IF closeExc = "cancelled" THEN "cancelled" ELSE exc
    /\ Goto("done")
    /\ UNCHANGED <<run, attempt, create, closer, closeExc, mgr, leaving, client,
                   session, completed, seen, cancels>>

-----------------------------------------------------------------------------
(* task.cancel(): CancelledError is raised at the await.  It is not an     *)
(* Exception: only `finally` clauses see it.  The request under way may or *)
(* may not have taken effect on the server.                                *)

CancelIn(where, andThen) ==
    /\ pc \in where
    /\ cancels < MaxCancels
    /\ cancels' = cancels + 1
    /\ andThen

\* As if the retry loop caught BaseException.
CancelledAt_Caught ==
    /\ Goto("failed")
    /\ exc' = "cancelled"
    /\ leaving' = None
    /\ UNCHANGED <<run, attempt, create, closer, closeExc, mgr, client,
                   completed>>

CancelledAt ==
    /\ Goto("unwind")
    /\ exc' = "cancelled"
    /\ leaving' = None
    /\ UNCHANGED <<run, attempt, create, closer, closeExc, mgr, client,
                   completed>>

\* open() keeps the context it was entering, close() exits it later.
CancelWaiting ==
    /\ CancelIn({"enterClient", "createSleep", "operate", "retrySleep"},
                CancelledAt)
    /\ UNCHANGED <<session, seen>>

\* The session being entered is only in a local variable: nobody exits it.
CancelSessionEnter ==
    /\ CancelIn({"enterSession"}, CancelledAt)
    /\ \E up \in SUBSET {NewSession} :
          session' = [session EXCEPT !.count = NewSession,
                                     !.live = @ \cup up,
                                     !.cut = @ \cup {NewSession}]
    /\ UNCHANGED seen

CancelSessionExit ==
    /\ CancelIn({"exitOld", "abortEnter"}, CancelledAt)
    /\ \E gone \in SUBSET {leaving} :
          session' = [session EXCEPT !.live = @ \ gone]
    /\ UNCHANGED seen

\* Inside close() the client is still released before it propagates.
CancelCloseSession ==
    /\ CancelIn({"exitSession"}, ReleaseClient(mgr))
    /\ closeExc' = "cancelled"
    /\ \E gone \in SUBSET {leaving} :
          session' = [session EXCEPT !.live = @ \ gone]
    /\ UNCHANGED <<run, attempt, create, exc, closer, completed, seen>>

CancelCloseClient ==
    /\ CancelIn({"exitClient"}, Goto("closed"))
    /\ closeExc' = "cancelled"
    /\ leaving' = None
    /\ UNCHANGED <<run, attempt, create, exc, closer, mgr, client, session,
                   completed, seen>>

-----------------------------------------------------------------------------
\* The code's own steps: what it does between two awaits, and the end of a sleep.
Own ==
    \/ BeginBatch \/ OpenClient \/ Reopen \/ CreateSleepEnds
    \/ RequestFailed \/ RetrySleepEnds \/ Unwind \/ Close
    \/ ClosedForOpen \/ ClosedForRetry \/ ClosedForBatch

\* The answer of quelware to a request, with the code that follows it.
Answer ==
    \/ ClientEntered \/ ClientEnterFails \/ OldSessionExited
    \/ SessionEntered \/ FailedEnterExited
    \/ \E e \in Errors : \/ OldSessionExitFails(e)
                         \/ SessionEnterFails(e)
                         \/ OperationFails(e)
    \/ OperationReturns \/ ResultRejected
    \/ SessionExited \/ SessionExitFails
    \/ ClientExited \/ ClientExitFails

Cancel ==
    \/ CancelWaiting \/ CancelSessionEnter \/ CancelSessionExit
    \/ CancelCloseSession \/ CancelCloseClient

\* The caller has its answer.
Done == pc = "done" /\ UNCHANGED vars

Next == Own \/ Answer \/ Cancel \/ Done

Spec == Init /\ [][Next]_vars

\* The event loop runs a ready coroutine and sleeps end.  Nothing makes quelware
\* answer: the transport has no deadline unless one is configured, a trigger is
\* awaited without one, and the batch runs without a timeout.
FairSpec == Spec /\ WF_vars(Own)

-----------------------------------------------------------------------------
(* Properties.                                                             *)

TypeOK ==
    /\ pc \in Pcs
    /\ run \in Runs /\ attempt \in Nat \ {0} /\ create \in Nat \ {0}
    /\ exc \in Exceptions
    /\ closer \in {"open", "retry", "batch"}
    /\ closeExc \in Exceptions
    /\ mgr \in Managers
    /\ leaving \in Nat
    /\ client \in Clients
    /\ session \in Sessions
    /\ completed \in 0..NRuns
    /\ seen \subseteq {"missing", "masked", "swallowed"}
    /\ cancels \in 0..MaxCancels

\* No session is lost: one that lives on the server is the manager's, or was
\* told to exit, or was being entered when the task was cancelled (the only
\* case in which the code drops a session it may have created).
NoLostSession ==
    session.live \subseteq session.exited \cup session.cut
                           \cup ({mgr.session} \ {None})

\* No client context is lost: one that is entered is the manager's or its
\* exit has been requested.
NoLostClient ==
    client.entered \subseteq client.exited \cup ({mgr.client} \ {None})

\* When the caller is answered, with a result or an error, the manager is
\* empty, so that the next batch starts from a new client: nothing in the
\* failure paths leaves half of the client/session pair behind.
ReleasedWhenDone == pc = "done" => mgr = NoMgr

\* An operation runs on a live session that the manager holds under an open
\* client and that is bound to the resources of the execution in progress:
\* never a session of the execution before, nor one already told to exit.
OwnSession ==
    pc = "operate" =>
        /\ mgr.session \in session.live \ session.exited
        /\ mgr.bound = Binding[run]
        /\ mgr.client # None /\ mgr.client \notin client.exited

\* A batch that returns results has completed every execution of its plan, and
\* one that did not complete them all raises.
ResultsAreComplete ==
    pc = "done" => (exc = "none" <=> completed = NRuns) \/ exc = "cancelled"

\* A missing resource is what the caller hears about (so that it refreshes its
\* ids), unless the task was cancelled or the error was masked by the failure
\* of the close() that open() runs before it re-raises.
MissingReported ==
    (pc = "done" /\ "missing" \in seen /\ "masked" \notin seen)
        => exc \in {"notFound", "cancelled"}

\* Retries are bounded: the two levels together create no more sessions for an
\* execution than their attempts multiply to.
BoundedSessions ==
    session.count <= run * RequestAttempts * CreateAttempts

\* Every session and client is released: none is lost by the failure paths.
NothingLost == NoLostSession /\ NoLostClient

\* Each operation gets a session no operation has used before.
FreshSession ==
    [][pc # "operate" /\ pc' = "operate"
         => mgr'.session \notin session.used]_vars

\* The client is told to exit only when no session it carries is still to be
\* told, so a session never outlives its transport unasked.
SessionExitsFirst ==
    [][client'.exited # client.exited
         => session'.live \subseteq session'.exited \cup session'.cut]_vars

\* No session or client is told to exit twice.
ExitedOnce ==
    [][/\ \A s \in session.exited : pc' \in {"exitOld", "exitSession", "abortEnter"}
                                    /\ pc' # pc => leaving' # s
       /\ \A c \in client.exited : pc' = "exitClient" /\ pc # "exitClient"
                                    => leaving' # c]_vars

\* Contexts are exited in order and once, whichever cleanup runs inside another.
OrderlyExits == SessionExitsFirst /\ ExitedOnce

\* A cancelled batch enters no session and completes no execution any more,
\* unless the failure of a client's exit swallowed the cancellation.
CancelStops ==
    [][(cancels > 0 /\ "swallowed" \notin seen)
         => /\ session'.used = session.used
            /\ completed' = completed]_vars

\* run_with_session_request_retry says without exception that missing resources
\* propagate immediately.
MissingPropagatesImmediately ==
    [][("missing" \in seen) => session'.count = session.count]_vars

\* The caller is answered, unless quelware leaves one request without an answer
\* for ever.  The code itself keeps nobody waiting: retries, cleanups within
\* cleanups and cancellations come to an end or to a request.
Answered == <>(pc = "done") \/ \E request \in Requests : <>[](pc = request)

\* What the caller got, in the words of the lease contract.
LeaseAnswer ==
    CASE pc # "done"                        -> "none"
      [] pc = "done" /\ exc = "none"        -> "results"
      [] pc = "done" /\ exc = "notFound"    -> "notFound"
      [] pc = "done" /\ exc = "cancelled"   -> "cancelled"
      [] pc = "done" /\ exc \in {"allocation", "other"} -> "error"

Lease == INSTANCE SessionLease WITH
            lease <- mgr.bound,
            NoLease <- NoBinding,
            answer <- LeaseAnswer

\* The batch implements the lease contract, the lease being what the manager's
\* session is bound to: no execution completes on another one's resources, no
\* session is taken before the last one is given up, and the caller is not
\* answered while one is held.
ImplementsLease == Lease!Spec
================================================================================
