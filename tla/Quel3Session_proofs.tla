------------------------- MODULE Quel3Session_proofs -------------------------
(***************************************************************************)
(* Proofs about Quel3Session, for every plan, every number of attempts and *)
(* every number of cancellations.                                          *)
(***************************************************************************)
EXTENDS Quel3Session, Integers, TLAPS

-----------------------------------------------------------------------------
(* The inductive invariant, in named parts.                                *)

\* The result of the last execution is the last thing that happens before the
\* batch is unwound.
RunInv ==
    \/ completed = run - 1
    \/ /\ completed = NRuns
       /\ \/ pc \in {"unwind", "done"}
          \/ /\ pc \in {"close", "exitSession", "exitClient", "closed"}
             /\ closer = "batch"

\* No error is being handled where the code makes progress, one is wherever it
\* is in an except clause, and it is still there when the batch is unwound
\* before its end.
ExcInv ==
    /\ pc \in {"begin", "attempt", "enterClient", "exitOld", "enterSession",
              "operate"} => exc = "none"
    /\ pc \in {"failed", "abortEnter"} => exc # "none"
    /\ pc \in {"close", "exitSession", "exitClient", "closed"} /\ closer # "batch"
          => exc # "none"
    /\ \/ pc \in {"unwind", "done"}
       \/ /\ pc \in {"close", "exitSession", "exitClient", "closed"}
          /\ closer = "batch"
       => exc # "none" \/ completed = NRuns
    /\ completed = NRuns => exc \in {"none", "cancelled"}

\* Sessions are numbered as they are created, and so are clients.
CountInv ==
    /\ \A s \in session.live \cup session.exited \cup session.used \cup session.cut :
          s <= session.count
    /\ mgr.session <= session.count
    /\ \A c \in client.entered \cup client.exited : c <= client.count
    /\ mgr.clientCm <= client.count

\* The session the manager holds lives and was not told to exit.
HeldSessionInv ==
    mgr.session # None => mgr.session \in session.live \ session.exited

\* The manager holds a session only inside a client, and the binding of it
\* exactly when it holds one.
HeldClientInv ==
    /\ mgr.session # None => mgr.client # None
    /\ mgr.session = None <=> mgr.bound = NoBinding
    /\ mgr.client # None => mgr.client = mgr.clientCm
    /\ mgr.clientCm # None => mgr.clientCm \notin client.exited

\* What is awaited tells what the manager holds.
PcInv ==
    /\ pc \in {"exitOld", "enterSession", "abortEnter", "createSleep",
               "exitSession", "exitClient"} => mgr.session = None
    /\ pc \in {"exitOld", "enterSession", "abortEnter", "createSleep", "operate"}
          => mgr.client # None
    /\ pc \in {"exitOld", "abortEnter", "exitSession"} => leaving \in session.exited
    /\ pc = "enterClient" => mgr.client = None /\ mgr.clientCm # None
    /\ pc = "operate" => mgr.session # None /\ mgr.bound = Binding[run]
    /\ pc \in {"exitClient", "closed", "done"} => mgr = NoMgr

\* A missing resource met by the batch is on its way to the caller, and so is a
\* cancellation: neither is retried.
ReportInv ==
    /\ exc = "cancelled" => \/ pc \in {"unwind", "done"}
                            \/ /\ pc \in {"close", "exitSession", "exitClient",
                                          "closed"}
                               /\ closer = "batch"
    /\ "missing" \in seen /\ "masked" \notin seen
          => /\ exc \in {"notFound", "cancelled"}
             /\ pc \in {"abortEnter", "failed", "close", "exitSession",
                        "exitClient", "closed", "unwind", "done"}

\* A cancellation that was not swallowed is on its way out: the batch unwinds,
\* or the close() it came in is about to raise it.
StopInv ==
    cancels > 0 /\ "swallowed" \notin seen
        => \/ pc \in {"unwind", "done"}
           \/ /\ pc \in {"close", "exitSession", "exitClient", "closed"}
              /\ closer = "batch"
           \/ pc \in {"exitClient", "closed"} /\ closeExc = "cancelled"

\* What the executions and the request attempts before this one may have
\* created, and what this one may have created where it is now.
SpentBefore == (run - 1) * (RequestAttempts * CreateAttempts)
                 + (attempt - 1) * CreateAttempts
SpentNow ==
    CASE pc \in {"begin", "attempt", "enterClient", "exitOld"} -> 0
      [] pc = "enterSession"                                   -> create - 1
      [] pc \in {"abortEnter", "createSleep"}                  -> create
      [] OTHER                                                 -> CreateAttempts

BudgetInv ==
    /\ attempt <= RequestAttempts /\ create <= CreateAttempts
    /\ pc = "retrySleep" => attempt < RequestAttempts
    /\ pc = "createSleep" => create < CreateAttempts
    /\ session.count <= SpentBefore + SpentNow

IInv == /\ TypeOK
        /\ RunInv
        /\ ExcInv
        /\ CountInv
        /\ HeldSessionInv
        /\ HeldClientInv
        /\ PcInv
        /\ NoLostSession
        /\ NoLostClient
        /\ ReportInv
        /\ StopInv
        /\ BudgetInv

\* What the type invariant says of the values the actions are built from.
LEMMA TypeFacts ==
    ASSUME TypeOK
    PROVE  /\ NewSession \in Nat
           /\ client.count + 1 \in Nat
           /\ Binding[run] \in Bindings
           /\ Detached \in Managers
           /\ NoMgr \in Managers
           /\ mgr.clientCm \in Nat /\ mgr.session \in Nat
           /\ None \in Nat
  <1>1. NewSession \in Nat /\ client.count + 1 \in Nat
    BY DEF TypeOK, NewSession, Sessions, Clients
  <1>2. Binding[run] \in Bindings
    BY BindingAssumption DEF TypeOK, Runs
  <1>3. Detached \in Managers
    BY DEF TypeOK, Detached, Managers, None
  <1>4. NoMgr \in Managers
    BY DEF NoMgr, Managers, None
  <1>5. mgr.clientCm \in Nat /\ mgr.session \in Nat
    BY DEF TypeOK, Managers
  <1> QED
    BY <1>1, <1>2, <1>3, <1>4, <1>5 DEF None

\* close() leaves well-typed values when it turns to the client.
LEMMA ReleaseType ==
    ASSUME TypeOK, NEW m \in Managers, ReleaseClient(m)
    PROVE  /\ mgr' \in Managers
           /\ leaving' \in Nat
           /\ client' \in Clients
           /\ pc' \in {"closed", "exitClient"}
  <1>1. m.clientCm \in Nat
    BY DEF Managers
  <1>2. client' \in Clients
    BY <1>1 DEF ReleaseClient, TypeOK, Clients
  <1> QED
    BY <1>1, <1>2, TypeFacts DEF ReleaseClient, Goto

\* Every step keeps the types; the number of completed executions needs
\* RunInv.
LEMMA TypeStep == TypeOK /\ RunInv /\ [Next]_vars => TypeOK'
<1> SUFFICES ASSUME TypeOK, RunInv, [Next]_vars PROVE TypeOK'
  OBVIOUS
<1> USE TypeFacts DEF Pcs, Awaits, Requests, Exceptions, Errors, Goto
<1>1. CASE BeginBatch
  BY <1>1 DEF TypeOK, BeginBatch
<1>2. CASE OpenClient
  <2>1. mgr' \in Managers
    BY <1>2 DEF TypeOK, OpenClient, Managers
  <2>2. client' \in Clients
    BY <1>2 DEF TypeOK, OpenClient, Clients
  <2> QED
    BY <1>2, <2>1, <2>2 DEF TypeOK, OpenClient
<1>3. CASE ClientEntered
  <2>1. mgr' \in Managers
    BY <1>3 DEF TypeOK, ClientEntered, Managers
  <2>2. client' \in Clients
    BY <1>3 DEF TypeOK, ClientEntered, Clients
  <2> QED
    BY <1>3, <2>1, <2>2 DEF TypeOK, ClientEntered
<1>4. CASE ClientEnterFails
  <2>1. mgr' \in Managers
    BY <1>4 DEF TypeOK, ClientEnterFails, Managers, None
  <2> QED
    BY <1>4, <2>1 DEF TypeOK, ClientEnterFails, Raise
<1>5. CASE Reopen
  <2>1. session' \in Sessions
    BY <1>5 DEF TypeOK, Reopen, Sessions
  <2> QED
    BY <1>5, <2>1 DEF TypeOK, Reopen
<1>6. CASE OldSessionExited
  <2>1. session' \in Sessions
    BY <1>6 DEF TypeOK, OldSessionExited, Sessions
  <2> QED
    BY <1>6, <2>1 DEF TypeOK, OldSessionExited
<1>7. CASE SessionEntered
  <2>1. mgr' \in Managers
    BY <1>7 DEF TypeOK, SessionEntered, Managers
  <2>2. session' \in Sessions
    BY <1>7 DEF TypeOK, SessionEntered, Sessions
  <2> QED
    BY <1>7, <2>1, <2>2 DEF TypeOK, SessionEntered
<1>8. CASE FailedEnterExited
  <2>1. session' \in Sessions
    BY <1>8 DEF TypeOK, FailedEnterExited, Sessions
  <2> QED
    BY <1>8, <2>1 DEF TypeOK, FailedEnterExited
<1>9. CASE CreateSleepEnds
  BY <1>9 DEF TypeOK, CreateSleepEnds
<1>10. ASSUME NEW e \in Errors, OldSessionExitFails(e) PROVE TypeOK'
  <2>1. session' \in Sessions
    BY <1>10 DEF TypeOK, OldSessionExitFails, Sessions
  <2> QED
    BY <1>10, <2>1 DEF TypeOK, OldSessionExitFails, Raise
<1>11. ASSUME NEW e \in Errors, SessionEnterFails(e) PROVE TypeOK'
  <2>1. PICK up \in SUBSET {NewSession} :
            session' = [session EXCEPT !.count = NewSession,
                                       !.live = @ \cup up,
                                       !.exited = @ \cup {NewSession}]
    BY <1>11 DEF SessionEnterFails
  <2>2. session' \in Sessions
    BY <2>1 DEF TypeOK, Sessions
  <2> QED
    BY <1>11, <2>2, AttemptsAssumption DEF TypeOK, SessionEnterFails, Raise
<1>12. ASSUME NEW e \in Errors, OperationFails(e) PROVE TypeOK'
  BY <1>12 DEF TypeOK, OperationFails, Raise
<1>13. CASE OperationReturns
  <2>1. completed' \in 0..NRuns /\ run' \in Runs
    BY <1>13, NRunsAssumption DEF TypeOK, RunInv, OperationReturns, Runs
  <2> QED
    BY <1>13, <2>1 DEF TypeOK, OperationReturns
<1>14. CASE ResultRejected
  BY <1>14 DEF TypeOK, ResultRejected, Raise
<1>15. CASE RequestFailed
  BY <1>15 DEF TypeOK, RequestFailed
<1>16. CASE RetrySleepEnds
  BY <1>16 DEF TypeOK, RetrySleepEnds
<1>17. CASE Unwind
  BY <1>17 DEF TypeOK, Unwind
<1>18. CASE Close
  <2>1. /\ mgr' \in Managers /\ client' \in Clients
         /\ leaving' \in Nat /\ pc' \in Pcs
    BY <1>18, ReleaseType DEF TypeOK, Close
  <2>2. session' \in Sessions
    BY <1>18 DEF TypeOK, Close, Sessions
  <2> QED
    BY <1>18, <2>1, <2>2 DEF TypeOK, Close
<1>19. CASE SessionExited
  <2>1. /\ mgr' \in Managers /\ client' \in Clients
         /\ leaving' \in Nat /\ pc' \in Pcs
    BY <1>19, ReleaseType DEF TypeOK, SessionExited
  <2>2. session' \in Sessions
    BY <1>19 DEF TypeOK, SessionExited, Sessions
  <2> QED
    BY <1>19, <2>1, <2>2 DEF TypeOK, SessionExited
<1>20. CASE SessionExitFails
  <2>1. /\ mgr' \in Managers /\ client' \in Clients
         /\ leaving' \in Nat /\ pc' \in Pcs
    BY <1>20, ReleaseType DEF TypeOK, SessionExitFails
  <2>2. session' \in Sessions
    BY <1>20 DEF TypeOK, SessionExitFails, Sessions
  <2> QED
    BY <1>20, <2>1, <2>2 DEF TypeOK, SessionExitFails
<1>21. CASE ClientExited
  <2>1. client' \in Clients
    BY <1>21 DEF TypeOK, ClientExited, Clients
  <2> QED
    BY <1>21, <2>1 DEF TypeOK, ClientExited
<1>22. CASE ClientExitFails
  BY <1>22 DEF TypeOK, ClientExitFails
<1>23. CASE ClosedForOpen
  BY <1>23 DEF TypeOK, ClosedForOpen
<1>24. CASE ClosedForRetry
  BY <1>24 DEF TypeOK, ClosedForRetry, AfterSafeClose
<1>25. CASE ClosedForBatch
  BY <1>25 DEF TypeOK, ClosedForBatch
<1>26. CASE CancelWaiting
  BY <1>26, AttemptsAssumption DEF TypeOK, CancelWaiting, CancelIn, CancelledAt
<1>27. CASE CancelSessionEnter
  <2>1. PICK up \in SUBSET {NewSession} :
            session' = [session EXCEPT !.count = NewSession,
                                       !.live = @ \cup up,
                                       !.cut = @ \cup {NewSession}]
    BY <1>27 DEF CancelSessionEnter
  <2>2. session' \in Sessions
    BY <2>1 DEF TypeOK, Sessions
  <2> QED
    BY <1>27, <2>2, AttemptsAssumption
       DEF TypeOK, CancelSessionEnter, CancelIn, CancelledAt
<1>28. CASE CancelSessionExit
  <2>1. session' \in Sessions
    BY <1>28 DEF TypeOK, CancelSessionExit, Sessions
  <2> QED
    BY <1>28, <2>1, AttemptsAssumption
       DEF TypeOK, CancelSessionExit, CancelIn, CancelledAt
<1>29. CASE CancelCloseSession
  <2>1. /\ mgr' \in Managers /\ client' \in Clients
         /\ leaving' \in Nat /\ pc' \in Pcs
    BY <1>29, ReleaseType DEF TypeOK, CancelCloseSession, CancelIn
  <2>2. session' \in Sessions
    BY <1>29 DEF TypeOK, CancelCloseSession, Sessions
  <2> QED
    BY <1>29, <2>1, <2>2, AttemptsAssumption
       DEF TypeOK, CancelCloseSession, CancelIn
<1>30. CASE CancelCloseClient
  BY <1>30, AttemptsAssumption DEF TypeOK, CancelCloseClient, CancelIn
<1>31. CASE Done \/ UNCHANGED vars
  BY <1>31 DEF Done, vars, TypeOK
<1> QED
  BY <1>1, <1>2, <1>3, <1>4, <1>5, <1>6, <1>7, <1>8, <1>9, <1>10, <1>11,
     <1>12, <1>13, <1>14, <1>15, <1>16, <1>17, <1>18, <1>19, <1>20, <1>21,
     <1>22, <1>23, <1>24, <1>25, <1>26, <1>27, <1>28, <1>29, <1>30, <1>31
     DEF Next, Own, Answer, Cancel

\* Every step keeps what is known of the position in the plan and of the
\* error that is being handled.
LEMMA ControlStep ==
    TypeOK /\ RunInv /\ ExcInv /\ [Next]_vars
        => (RunInv /\ ExcInv)'
<1> SUFFICES ASSUME TypeOK, RunInv, ExcInv, [Next]_vars
             PROVE  (RunInv /\ ExcInv)'
  OBVIOUS
<1> USE NRunsAssumption
   DEF TypeOK, RunInv, ExcInv, Runs, Exceptions, Errors, Goto
<1>1. CASE BeginBatch
  BY <1>1 DEF BeginBatch
<1>2. CASE OpenClient
  BY <1>2 DEF OpenClient
<1>3. CASE ClientEntered
  BY <1>3 DEF ClientEntered, Detached
<1>4. CASE ClientEnterFails
  BY <1>4 DEF ClientEnterFails, Raise
<1>5. CASE Reopen
  BY <1>5 DEF Reopen, Detached
<1>6. CASE OldSessionExited
  BY <1>6 DEF OldSessionExited
<1>7. CASE SessionEntered
  BY <1>7 DEF SessionEntered, NewSession
<1>8. CASE FailedEnterExited
  BY <1>8 DEF FailedEnterExited
<1>9. CASE CreateSleepEnds
  BY <1>9 DEF CreateSleepEnds
<1>10. ASSUME NEW e \in Errors, OldSessionExitFails(e) PROVE (RunInv /\ ExcInv)'
  BY <1>10 DEF OldSessionExitFails, Raise
<1>11. ASSUME NEW e \in Errors, SessionEnterFails(e) PROVE (RunInv /\ ExcInv)'
  BY <1>11 DEF SessionEnterFails, Raise, NewSession
<1>12. ASSUME NEW e \in Errors, OperationFails(e) PROVE (RunInv /\ ExcInv)'
  BY <1>12 DEF OperationFails, Raise
<1>13. CASE OperationReturns
  BY <1>13 DEF OperationReturns
<1>14. CASE ResultRejected
  BY <1>14 DEF ResultRejected, Raise
<1>15. CASE RequestFailed
  BY <1>15 DEF RequestFailed
<1>16. CASE RetrySleepEnds
  BY <1>16 DEF RetrySleepEnds
<1>17. CASE Unwind
  BY <1>17 DEF Unwind
<1>18. CASE Close
  BY <1>18 DEF Close, ReleaseClient, Detached
<1>19. CASE SessionExited
  BY <1>19 DEF SessionExited, ReleaseClient
<1>20. CASE SessionExitFails
  BY <1>20 DEF SessionExitFails, ReleaseClient
<1>21. CASE ClientExited
  BY <1>21 DEF ClientExited
<1>22. CASE ClientExitFails
  BY <1>22 DEF ClientExitFails
<1>23. CASE ClosedForOpen
  BY <1>23 DEF ClosedForOpen
<1>24. CASE ClosedForRetry
  BY <1>24 DEF ClosedForRetry, AfterSafeClose
<1>25. CASE ClosedForBatch
  BY <1>25 DEF ClosedForBatch
<1>26. CASE CancelWaiting
  BY <1>26 DEF CancelWaiting, CancelIn, CancelledAt
<1>27. CASE CancelSessionEnter
  BY <1>27 DEF CancelSessionEnter, CancelIn, CancelledAt, NewSession
<1>28. CASE CancelSessionExit
  BY <1>28 DEF CancelSessionExit, CancelIn, CancelledAt
<1>29. CASE CancelCloseSession
  BY <1>29 DEF CancelCloseSession, CancelIn, ReleaseClient
<1>30. CASE CancelCloseClient
  BY <1>30 DEF CancelCloseClient, CancelIn
<1>31. CASE Done \/ UNCHANGED vars
  BY <1>31 DEF Done, vars
<1> QED
  BY <1>1, <1>2, <1>3, <1>4, <1>5, <1>6, <1>7, <1>8, <1>9, <1>10, <1>11,
     <1>12, <1>13, <1>14, <1>15, <1>16, <1>17, <1>18, <1>19, <1>20, <1>21,
     <1>22, <1>23, <1>24, <1>25, <1>26, <1>27, <1>28, <1>29, <1>30, <1>31
     DEF Next, Own, Answer, Cancel

\* close() forgets a client only by telling it to exit.
LEMMA ReleaseKeepsClients ==
    ASSUME TypeOK, HeldClientInv, NoLostClient, ReleaseClient(mgr)
    PROVE  NoLostClient'
  <1>1. mgr'.client = None
    BY DEF ReleaseClient, NoMgr
  <1>2. CASE mgr.clientCm = None
    BY <1>1, <1>2 DEF ReleaseClient, NoLostClient, HeldClientInv
  <1>3. CASE mgr.clientCm # None
    <2>1. /\ client'.entered = client.entered
          /\ client'.exited = client.exited \cup {mgr.clientCm}
      BY <1>3 DEF ReleaseClient, TypeOK, Clients
    <2> QED
      BY <1>1, <2>1 DEF NoLostClient, HeldClientInv
  <1> QED
    BY <1>2, <1>3

\* Every step keeps the pairing of client, session and binding in the
\* manager.
LEMMA HeldStep ==
    TypeOK /\ CountInv /\ HeldClientInv /\ PcInv /\ [Next]_vars
        => (HeldClientInv /\ PcInv)'
<1> SUFFICES ASSUME TypeOK, CountInv, HeldClientInv, PcInv, [Next]_vars
             PROVE  (HeldClientInv /\ PcInv)'
  OBVIOUS
<1> USE TypeFacts, NoBindingAssumption
   DEF HeldClientInv, PcInv, NoMgr, Goto, None
<1>1. CASE BeginBatch
  BY <1>1 DEF BeginBatch
<1>2. CASE OpenClient
  <2>1. client.count + 1 \notin client.exited /\ client.count + 1 # None
    BY DEF TypeOK, CountInv, Clients
  <2>2. /\ mgr'.clientCm = client.count + 1 /\ mgr'.client = None
        /\ mgr'.session = None /\ mgr'.bound = mgr.bound
        /\ client'.exited = client.exited
    BY <1>2 DEF OpenClient, TypeOK, Managers, Clients
  <2> QED
    BY <1>2, <2>1, <2>2 DEF OpenClient
<1>3. CASE ClientEntered
  BY <1>3 DEF ClientEntered, Detached
<1>4. CASE ClientEnterFails
  BY <1>4 DEF ClientEnterFails, Raise
<1>5. CASE Reopen
  <2>1. /\ mgr'.clientCm = mgr.clientCm /\ mgr'.client = mgr.client
        /\ mgr'.session = None /\ mgr'.bound = NoBinding
    BY <1>5 DEF Reopen, Detached, TypeOK, Managers
  <2>2. mgr.session # None => leaving' \in session'.exited
    BY <1>5 DEF Reopen, TypeOK, Sessions
  <2> QED
    BY <1>5, <2>1, <2>2 DEF Reopen
<1>6. CASE OldSessionExited
  BY <1>6 DEF OldSessionExited
<1>7. CASE SessionEntered
  <2>1. NewSession # None
    BY DEF NewSession, TypeOK, Sessions
  <2>2. /\ mgr'.clientCm = mgr.clientCm /\ mgr'.client = mgr.client
        /\ mgr'.session = NewSession /\ mgr'.bound = Binding[run]
    BY <1>7 DEF SessionEntered, TypeOK, Managers
  <2>3. Binding[run] # NoBinding
    OBVIOUS
  <2> QED
    BY <1>7, <2>1, <2>2, <2>3 DEF SessionEntered
<1>8. CASE FailedEnterExited
  BY <1>8 DEF FailedEnterExited
<1>9. CASE CreateSleepEnds
  BY <1>9 DEF CreateSleepEnds
<1>10. ASSUME NEW e \in Errors, OldSessionExitFails(e)
       PROVE  (HeldClientInv /\ PcInv)'
  BY <1>10 DEF OldSessionExitFails, Raise
<1>11. ASSUME NEW e \in Errors, SessionEnterFails(e)
       PROVE  (HeldClientInv /\ PcInv)'
  BY <1>11 DEF SessionEnterFails, Raise, NewSession
<1>12. ASSUME NEW e \in Errors, OperationFails(e)
       PROVE  (HeldClientInv /\ PcInv)'
  BY <1>12 DEF OperationFails, Raise
<1>13. CASE OperationReturns
  BY <1>13 DEF OperationReturns
<1>14. CASE ResultRejected
  BY <1>14 DEF ResultRejected, Raise
<1>15. CASE RequestFailed
  BY <1>15 DEF RequestFailed
<1>16. CASE RetrySleepEnds
  BY <1>16 DEF RetrySleepEnds
<1>17. CASE Unwind
  BY <1>17 DEF Unwind
<1>18. CASE Close
  <2>1. CASE mgr.session = None
    BY <1>18, <2>1 DEF Close, ReleaseClient
  <2>2. CASE mgr.session # None
    <3>1. /\ mgr'.clientCm = mgr.clientCm /\ mgr'.client = mgr.client
          /\ mgr'.session = None /\ mgr'.bound = NoBinding
      BY <1>18, <2>2 DEF Close, Detached, TypeOK, Managers
    <3>2. leaving' \in session'.exited
      BY <1>18, <2>2 DEF Close, TypeOK, Sessions
    <3> QED
      BY <1>18, <2>2, <3>1, <3>2 DEF Close
  <2> QED
    BY <2>1, <2>2
<1>19. CASE SessionExited
  BY <1>19 DEF SessionExited, ReleaseClient
<1>20. CASE SessionExitFails
  BY <1>20 DEF SessionExitFails, ReleaseClient
<1>21. CASE ClientExited
  BY <1>21 DEF ClientExited
<1>22. CASE ClientExitFails
  BY <1>22 DEF ClientExitFails
<1>23. CASE ClosedForOpen
  BY <1>23 DEF ClosedForOpen
<1>24. CASE ClosedForRetry
  BY <1>24 DEF ClosedForRetry, AfterSafeClose
<1>25. CASE ClosedForBatch
  BY <1>25 DEF ClosedForBatch
<1>26. CASE CancelWaiting
  BY <1>26 DEF CancelWaiting, CancelIn, CancelledAt
<1>27. CASE CancelSessionEnter
  BY <1>27 DEF CancelSessionEnter, CancelIn, CancelledAt, NewSession
<1>28. CASE CancelSessionExit
  BY <1>28 DEF CancelSessionExit, CancelIn, CancelledAt
<1>29. CASE CancelCloseSession
  BY <1>29 DEF CancelCloseSession, CancelIn, ReleaseClient
<1>30. CASE CancelCloseClient
  BY <1>30 DEF CancelCloseClient, CancelIn
<1>31. CASE Done \/ UNCHANGED vars
  BY <1>31 DEF Done, vars
<1> QED
  BY <1>1, <1>2, <1>3, <1>4, <1>5, <1>6, <1>7, <1>8, <1>9, <1>10, <1>11,
     <1>12, <1>13, <1>14, <1>15, <1>16, <1>17, <1>18, <1>19, <1>20, <1>21,
     <1>22, <1>23, <1>24, <1>25, <1>26, <1>27, <1>28, <1>29, <1>30, <1>31
     DEF Next, Own, Answer, Cancel

\* Every step numbers sessions and clients upwards.
LEMMA CountStep == TypeOK /\ CountInv /\ [Next]_vars => CountInv'
<1> SUFFICES ASSUME TypeOK, CountInv, [Next]_vars PROVE CountInv'
  OBVIOUS
<1> USE TypeFacts DEF CountInv, NoMgr, None, TypeOK, Managers, Sessions, Clients
<1>1. CASE BeginBatch
  BY <1>1 DEF BeginBatch
<1>2. CASE OpenClient
  BY <1>2 DEF OpenClient
<1>3. CASE ClientEntered
  BY <1>3 DEF ClientEntered, Detached
<1>4. CASE ClientEnterFails
  BY <1>4 DEF ClientEnterFails, Raise
<1>5. CASE Reopen
  BY <1>5 DEF Reopen, Detached
<1>6. CASE OldSessionExited
  BY <1>6 DEF OldSessionExited
<1>7. CASE SessionEntered
  BY <1>7 DEF SessionEntered, NewSession
<1>8. CASE FailedEnterExited
  BY <1>8 DEF FailedEnterExited
<1>9. CASE CreateSleepEnds
  BY <1>9 DEF CreateSleepEnds
<1>10. ASSUME NEW e \in Errors, OldSessionExitFails(e) PROVE CountInv'
  BY <1>10 DEF OldSessionExitFails, Raise
<1>11. ASSUME NEW e \in Errors, SessionEnterFails(e) PROVE CountInv'
  BY <1>11 DEF SessionEnterFails, Raise, NewSession
<1>12. ASSUME NEW e \in Errors, OperationFails(e) PROVE CountInv'
  BY <1>12 DEF OperationFails, Raise
<1>13. CASE OperationReturns
  BY <1>13 DEF OperationReturns
<1>14. CASE ResultRejected
  BY <1>14 DEF ResultRejected, Raise
<1>15. CASE RequestFailed
  BY <1>15 DEF RequestFailed
<1>16. CASE RetrySleepEnds
  BY <1>16 DEF RetrySleepEnds
<1>17. CASE Unwind
  BY <1>17 DEF Unwind
<1>18. CASE Close
  <2>1. CASE mgr.session = None
    BY <1>18, <2>1 DEF Close, ReleaseClient
  <2>2. CASE mgr.session # None
    <3>1. mgr'.session = None /\ mgr'.clientCm = mgr.clientCm
      BY <1>18, <2>2 DEF Close, Detached
    <3>2. /\ session'.exited = session.exited \cup {mgr.session}
          /\ session'.live = session.live /\ session'.used = session.used
          /\ session'.cut = session.cut /\ session'.count = session.count
      BY <1>18, <2>2 DEF Close
    <3> QED
      BY <1>18, <2>2, <3>1, <3>2 DEF Close
  <2> QED
    BY <2>1, <2>2
<1>19. CASE SessionExited
  BY <1>19 DEF SessionExited, ReleaseClient
<1>20. CASE SessionExitFails
  BY <1>20 DEF SessionExitFails, ReleaseClient
<1>21. CASE ClientExited
  BY <1>21 DEF ClientExited
<1>22. CASE ClientExitFails
  BY <1>22 DEF ClientExitFails
<1>23. CASE ClosedForOpen
  BY <1>23 DEF ClosedForOpen
<1>24. CASE ClosedForRetry
  BY <1>24 DEF ClosedForRetry, AfterSafeClose
<1>25. CASE ClosedForBatch
  BY <1>25 DEF ClosedForBatch
<1>26. CASE CancelWaiting
  BY <1>26 DEF CancelWaiting, CancelIn, CancelledAt
<1>27. CASE CancelSessionEnter
  BY <1>27 DEF CancelSessionEnter, CancelIn, CancelledAt, NewSession
<1>28. CASE CancelSessionExit
  BY <1>28 DEF CancelSessionExit, CancelIn, CancelledAt
<1>29. CASE CancelCloseSession
  BY <1>29 DEF CancelCloseSession, CancelIn, ReleaseClient
<1>30. CASE CancelCloseClient
  BY <1>30 DEF CancelCloseClient, CancelIn
<1>31. CASE Done \/ UNCHANGED vars
  BY <1>31 DEF Done, vars
<1> QED
  BY <1>1, <1>2, <1>3, <1>4, <1>5, <1>6, <1>7, <1>8, <1>9, <1>10, <1>11,
     <1>12, <1>13, <1>14, <1>15, <1>16, <1>17, <1>18, <1>19, <1>20, <1>21,
     <1>22, <1>23, <1>24, <1>25, <1>26, <1>27, <1>28, <1>29, <1>30, <1>31
     DEF Next, Own, Answer, Cancel

\* No step loses a live session or tells the held one to exit without
\* detaching it.
LEMMA SessionStep ==
    TypeOK /\ CountInv /\ HeldSessionInv /\ HeldClientInv /\ PcInv /\ NoLostSession
        /\ [Next]_vars
        => (HeldSessionInv /\ NoLostSession)'
<1> SUFFICES ASSUME TypeOK, CountInv, HeldSessionInv, HeldClientInv, PcInv,
                    NoLostSession, [Next]_vars
             PROVE  (HeldSessionInv /\ NoLostSession)'
  OBVIOUS
<1> USE TypeFacts
   DEF HeldSessionInv, CountInv, PcInv, NoLostSession, NoMgr, None, Sessions
<1>1. CASE BeginBatch
  BY <1>1 DEF BeginBatch
<1>2. CASE OpenClient
  BY <1>2 DEF OpenClient
<1>3. CASE ClientEntered
  <2>1. mgr.session = None /\ mgr'.session = None
    BY <1>3 DEF ClientEntered, Detached, TypeOK, Managers, HeldClientInv
  <2> QED
    BY <1>3, <2>1 DEF ClientEntered
<1>4. CASE ClientEnterFails
  BY <1>4 DEF ClientEnterFails, Raise
<1>5. CASE Reopen
  <2>1. mgr'.session = None
    BY <1>5 DEF Reopen, Detached, TypeOK, Managers
  <2>2. CASE mgr.session = None
    BY <1>5, <2>1, <2>2 DEF Reopen
  <2>3. CASE mgr.session # None
    BY <1>5, <2>1, <2>3 DEF Reopen, TypeOK
  <2> QED
    BY <2>2, <2>3
<1>6. CASE OldSessionExited
  BY <1>6 DEF OldSessionExited
<1>7. CASE SessionEntered
  <2>1. mgr.session = None /\ mgr'.session = NewSession
    BY <1>7 DEF SessionEntered, TypeOK, Managers
  <2>2. NewSession \notin session.exited /\ NewSession # None
    BY DEF NewSession, TypeOK
  <2>3. /\ session'.live = session.live \cup {NewSession}
        /\ session'.exited = session.exited /\ session'.cut = session.cut
    BY <1>7 DEF SessionEntered, TypeOK
  <2> QED
    BY <2>1, <2>2, <2>3
<1>8. CASE FailedEnterExited
  BY <1>8 DEF FailedEnterExited
<1>9. CASE CreateSleepEnds
  BY <1>9 DEF CreateSleepEnds
<1>10. ASSUME NEW e \in Errors, OldSessionExitFails(e)
       PROVE  (HeldSessionInv /\ NoLostSession)'
  BY <1>10 DEF OldSessionExitFails, Raise
<1>11. ASSUME NEW e \in Errors, SessionEnterFails(e)
       PROVE  (HeldSessionInv /\ NoLostSession)'
  BY <1>11 DEF SessionEnterFails, Raise, NewSession
<1>12. ASSUME NEW e \in Errors, OperationFails(e)
       PROVE  (HeldSessionInv /\ NoLostSession)'
  BY <1>12 DEF OperationFails, Raise
<1>13. CASE OperationReturns
  BY <1>13 DEF OperationReturns
<1>14. CASE ResultRejected
  BY <1>14 DEF ResultRejected, Raise
<1>15. CASE RequestFailed
  BY <1>15 DEF RequestFailed
<1>16. CASE RetrySleepEnds
  BY <1>16 DEF RetrySleepEnds
<1>17. CASE Unwind
  BY <1>17 DEF Unwind
<1>18. CASE Close
  <2>1. CASE mgr.session = None
    BY <1>18, <2>1 DEF Close, ReleaseClient
  <2>2. CASE mgr.session # None
    <3>1. mgr'.session = None
      BY <1>18, <2>2 DEF Close, Detached, TypeOK, Managers
    <3> QED
      BY <1>18, <2>2, <3>1 DEF Close, TypeOK
  <2> QED
    BY <2>1, <2>2
<1>19. CASE SessionExited
  BY <1>19 DEF SessionExited, ReleaseClient
<1>20. CASE SessionExitFails
  BY <1>20 DEF SessionExitFails, ReleaseClient
<1>21. CASE ClientExited
  BY <1>21 DEF ClientExited
<1>22. CASE ClientExitFails
  BY <1>22 DEF ClientExitFails
<1>23. CASE ClosedForOpen
  BY <1>23 DEF ClosedForOpen
<1>24. CASE ClosedForRetry
  BY <1>24 DEF ClosedForRetry, AfterSafeClose
<1>25. CASE ClosedForBatch
  BY <1>25 DEF ClosedForBatch
<1>26. CASE CancelWaiting
  BY <1>26 DEF CancelWaiting, CancelIn, CancelledAt
<1>27. CASE CancelSessionEnter
  BY <1>27 DEF CancelSessionEnter, CancelIn, CancelledAt, NewSession
<1>28. CASE CancelSessionExit
  BY <1>28 DEF CancelSessionExit, CancelIn, CancelledAt
<1>29. CASE CancelCloseSession
  BY <1>29 DEF CancelCloseSession, CancelIn, ReleaseClient
<1>30. CASE CancelCloseClient
  BY <1>30 DEF CancelCloseClient, CancelIn
<1>31. CASE Done \/ UNCHANGED vars
  BY <1>31 DEF Done, vars
<1> QED
  BY <1>1, <1>2, <1>3, <1>4, <1>5, <1>6, <1>7, <1>8, <1>9, <1>10, <1>11,
     <1>12, <1>13, <1>14, <1>15, <1>16, <1>17, <1>18, <1>19, <1>20, <1>21,
     <1>22, <1>23, <1>24, <1>25, <1>26, <1>27, <1>28, <1>29, <1>30, <1>31
     DEF Next, Own, Answer, Cancel

\* No step loses an entered client.
LEMMA ClientStep ==
    TypeOK /\ CountInv /\ HeldClientInv /\ PcInv /\ NoLostClient /\ [Next]_vars
        => NoLostClient'
<1> SUFFICES ASSUME TypeOK, CountInv, HeldClientInv, PcInv, NoLostClient,
                    [Next]_vars
             PROVE  NoLostClient'
  OBVIOUS
<1> USE TypeFacts DEF HeldClientInv, PcInv, NoLostClient, NoMgr, None, Clients
<1>1. CASE BeginBatch
  BY <1>1 DEF BeginBatch
<1>2. CASE OpenClient
  BY <1>2 DEF OpenClient
<1>3. CASE ClientEntered
  BY <1>3 DEF ClientEntered, Detached
<1>4. CASE ClientEnterFails
  BY <1>4 DEF ClientEnterFails, Raise
<1>5. CASE Reopen
  BY <1>5 DEF Reopen, Detached
<1>6. CASE OldSessionExited
  BY <1>6 DEF OldSessionExited
<1>7. CASE SessionEntered
  BY <1>7 DEF SessionEntered, NewSession
<1>8. CASE FailedEnterExited
  BY <1>8 DEF FailedEnterExited
<1>9. CASE CreateSleepEnds
  BY <1>9 DEF CreateSleepEnds
<1>10. ASSUME NEW e \in Errors, OldSessionExitFails(e) PROVE NoLostClient'
  BY <1>10 DEF OldSessionExitFails, Raise
<1>11. ASSUME NEW e \in Errors, SessionEnterFails(e) PROVE NoLostClient'
  BY <1>11 DEF SessionEnterFails, Raise, NewSession
<1>12. ASSUME NEW e \in Errors, OperationFails(e) PROVE NoLostClient'
  BY <1>12 DEF OperationFails, Raise
<1>13. CASE OperationReturns
  BY <1>13 DEF OperationReturns
<1>14. CASE ResultRejected
  BY <1>14 DEF ResultRejected, Raise
<1>15. CASE RequestFailed
  BY <1>15 DEF RequestFailed
<1>16. CASE RetrySleepEnds
  BY <1>16 DEF RetrySleepEnds
<1>17. CASE Unwind
  BY <1>17 DEF Unwind
<1>18. CASE Close
  <2>1. CASE mgr.session = None
    BY <1>18, <2>1, ReleaseKeepsClients DEF Close
  <2>2. CASE mgr.session # None
    <3>1. mgr'.client = mgr.client
      BY <1>18, <2>2 DEF Close, Detached, TypeOK, Managers
    <3> QED
      BY <1>18, <2>2, <3>1 DEF Close
  <2> QED
    BY <2>1, <2>2
<1>19. CASE SessionExited
  BY <1>19, ReleaseKeepsClients DEF SessionExited
<1>20. CASE SessionExitFails
  BY <1>20, ReleaseKeepsClients DEF SessionExitFails
<1>21. CASE ClientExited
  BY <1>21 DEF ClientExited
<1>22. CASE ClientExitFails
  BY <1>22 DEF ClientExitFails
<1>23. CASE ClosedForOpen
  BY <1>23 DEF ClosedForOpen
<1>24. CASE ClosedForRetry
  BY <1>24 DEF ClosedForRetry, AfterSafeClose
<1>25. CASE ClosedForBatch
  BY <1>25 DEF ClosedForBatch
<1>26. CASE CancelWaiting
  BY <1>26 DEF CancelWaiting, CancelIn, CancelledAt
<1>27. CASE CancelSessionEnter
  BY <1>27 DEF CancelSessionEnter, CancelIn, CancelledAt, NewSession
<1>28. CASE CancelSessionExit
  BY <1>28 DEF CancelSessionExit, CancelIn, CancelledAt
<1>29. CASE CancelCloseSession
  BY <1>29, ReleaseKeepsClients DEF CancelCloseSession, CancelIn
<1>30. CASE CancelCloseClient
  BY <1>30 DEF CancelCloseClient, CancelIn
<1>31. CASE Done \/ UNCHANGED vars
  BY <1>31 DEF Done, vars
<1> QED
  BY <1>1, <1>2, <1>3, <1>4, <1>5, <1>6, <1>7, <1>8, <1>9, <1>10, <1>11,
     <1>12, <1>13, <1>14, <1>15, <1>16, <1>17, <1>18, <1>19, <1>20, <1>21,
     <1>22, <1>23, <1>24, <1>25, <1>26, <1>27, <1>28, <1>29, <1>30, <1>31
     DEF Next, Own, Answer, Cancel

\* Every step takes a missing resource and a cancellation nearer to the caller.
LEMMA ReportStep ==
    TypeOK /\ ExcInv /\ ReportInv /\ StopInv /\ [Next]_vars
        => (ReportInv /\ StopInv)'
<1> SUFFICES ASSUME TypeOK, ExcInv, ReportInv, StopInv, [Next]_vars
             PROVE  (ReportInv /\ StopInv)'
  OBVIOUS
<1> USE DEF TypeOK, ExcInv, ReportInv, StopInv, Exceptions, Errors, Goto
<1>1. CASE BeginBatch
  BY <1>1 DEF BeginBatch
<1>2. CASE OpenClient
  BY <1>2 DEF OpenClient
<1>3. CASE ClientEntered
  BY <1>3 DEF ClientEntered
<1>4. CASE ClientEnterFails
  BY <1>4 DEF ClientEnterFails, Raise
<1>5. CASE Reopen
  BY <1>5 DEF Reopen
<1>6. CASE OldSessionExited
  BY <1>6 DEF OldSessionExited
<1>7. CASE SessionEntered
  BY <1>7 DEF SessionEntered
<1>8. CASE FailedEnterExited
  BY <1>8 DEF FailedEnterExited
<1>9. CASE CreateSleepEnds
  BY <1>9 DEF CreateSleepEnds
<1>10. ASSUME NEW e \in Errors, OldSessionExitFails(e) PROVE (ReportInv /\ StopInv)'
  BY <1>10 DEF OldSessionExitFails, Raise
<1>11. ASSUME NEW e \in Errors, SessionEnterFails(e) PROVE (ReportInv /\ StopInv)'
  BY <1>11 DEF SessionEnterFails, Raise
<1>12. ASSUME NEW e \in Errors, OperationFails(e) PROVE (ReportInv /\ StopInv)'
  BY <1>12 DEF OperationFails, Raise
<1>13. CASE OperationReturns
  BY <1>13 DEF OperationReturns
<1>14. CASE ResultRejected
  BY <1>14 DEF ResultRejected, Raise
<1>15. CASE RequestFailed
  BY <1>15 DEF RequestFailed
<1>16. CASE RetrySleepEnds
  BY <1>16 DEF RetrySleepEnds
<1>17. CASE Unwind
  BY <1>17 DEF Unwind
<1>18. CASE Close
  BY <1>18 DEF Close, ReleaseClient
<1>19. CASE SessionExited
  BY <1>19 DEF SessionExited, ReleaseClient
<1>20. CASE SessionExitFails
  BY <1>20 DEF SessionExitFails, ReleaseClient
<1>21. CASE ClientExited
  BY <1>21 DEF ClientExited
<1>22. CASE ClientExitFails
  BY <1>22 DEF ClientExitFails
<1>23. CASE ClosedForOpen
  BY <1>23 DEF ClosedForOpen
<1>24. CASE ClosedForRetry
  BY <1>24 DEF ClosedForRetry, AfterSafeClose
<1>25. CASE ClosedForBatch
  BY <1>25 DEF ClosedForBatch
<1>26. CASE CancelWaiting
  BY <1>26 DEF CancelWaiting, CancelIn, CancelledAt
<1>27. CASE CancelSessionEnter
  BY <1>27 DEF CancelSessionEnter, CancelIn, CancelledAt
<1>28. CASE CancelSessionExit
  BY <1>28 DEF CancelSessionExit, CancelIn, CancelledAt
<1>29. CASE CancelCloseSession
  BY <1>29 DEF CancelCloseSession, CancelIn, ReleaseClient
<1>30. CASE CancelCloseClient
  BY <1>30 DEF CancelCloseClient, CancelIn
<1>31. CASE Done \/ UNCHANGED vars
  BY <1>31 DEF Done, vars
<1> QED
  BY <1>1, <1>2, <1>3, <1>4, <1>5, <1>6, <1>7, <1>8, <1>9, <1>10, <1>11,
     <1>12, <1>13, <1>14, <1>15, <1>16, <1>17, <1>18, <1>19, <1>20, <1>21,
     <1>22, <1>23, <1>24, <1>25, <1>26, <1>27, <1>28, <1>29, <1>30, <1>31
     DEF Next, Own, Answer, Cancel

\* The budget of one more request attempt, and of one more execution.
LEMMA Budgets ==
    ASSUME TypeOK, attempt <= RequestAttempts
    PROVE  /\ SpentBefore \in Nat
           /\ attempt * CreateAttempts
                = (attempt - 1) * CreateAttempts + CreateAttempts
           /\ SpentBefore + CreateAttempts
                <= run * (RequestAttempts * CreateAttempts)
           /\ run * (RequestAttempts * CreateAttempts)
                = (run * RequestAttempts) * CreateAttempts
<1> DEFINE K == RequestAttempts * CreateAttempts
<1>1. RequestAttempts \in Nat /\ CreateAttempts \in Nat /\ K \in Nat
      /\ run - 1 \in Nat /\ attempt - 1 \in Nat /\ RequestAttempts - attempt \in Nat
  BY AttemptsAssumption, NRunsAssumption DEF TypeOK, Runs
<1>2. (attempt - 1) * CreateAttempts \in Nat /\ (run - 1) * K \in Nat
      /\ (RequestAttempts - attempt) * CreateAttempts \in Nat
  <2> HIDE DEF K
  <2> QED
    BY <1>1
<1>3. attempt * CreateAttempts = (attempt - 1) * CreateAttempts + CreateAttempts
  BY <1>1 DEF TypeOK
<1>4. K = attempt * CreateAttempts + (RequestAttempts - attempt) * CreateAttempts
  BY <1>1 DEF TypeOK
<1>5. run * K = (run - 1) * K + K
  <2> HIDE DEF K
  <2> QED
    BY <1>1 DEF TypeOK, Runs
<1>6. run * K = (run * RequestAttempts) * CreateAttempts
  BY <1>1 DEF TypeOK, Runs
<1>7. SpentBefore = (run - 1) * K + (attempt - 1) * CreateAttempts
  BY DEF SpentBefore
<1> HIDE DEF K
<1>8. SpentBefore \in Nat
  BY <1>2, <1>7
<1>9. SpentBefore + CreateAttempts <= run * K
  <2>1. attempt * CreateAttempts \in Nat
    BY <1>1 DEF TypeOK
  <2> QED
    BY <1>1, <1>2, <1>3, <1>4, <1>5, <1>7, <2>1
<1> QED
  BY <1>3, <1>6, <1>8, <1>9 DEF K

\* Every step stays within the budget.
LEMMA BudgetStep == TypeOK /\ TypeOK' /\ BudgetInv /\ [Next]_vars => BudgetInv'
<1> SUFFICES ASSUME TypeOK, TypeOK', BudgetInv, [Next]_vars PROVE BudgetInv'
  OBVIOUS
<1>a. /\ SpentBefore \in Nat
      /\ attempt * CreateAttempts = (attempt - 1) * CreateAttempts + CreateAttempts
      /\ SpentBefore + CreateAttempts <= run * (RequestAttempts * CreateAttempts)
  BY Budgets DEF BudgetInv
<1>b. /\ CreateAttempts \in Nat /\ RequestAttempts \in Nat
      /\ session.count \in Nat /\ session'.count \in Nat
      /\ create \in Nat \ {0} /\ create' \in Nat \ {0}
      /\ CreateAttempts >= 1 /\ RequestAttempts >= 1
      /\ attempt \in Nat /\ attempt' \in Nat
      /\ run \in Nat
  BY AttemptsAssumption DEF TypeOK, Sessions, Runs
<1>c. run' = run /\ attempt' = attempt => SpentBefore' = SpentBefore
  BY DEF SpentBefore
<1> USE <1>a, <1>b, <1>c DEF BudgetInv, SpentNow, Goto
<1>1. CASE BeginBatch
  BY <1>1 DEF BeginBatch
<1>2. CASE OpenClient
  BY <1>2 DEF OpenClient
<1>3. CASE ClientEntered
  BY <1>3 DEF ClientEntered
<1>4. CASE ClientEnterFails
  BY <1>4 DEF ClientEnterFails, Raise
<1>5. CASE Reopen
  BY <1>5 DEF Reopen, TypeOK, Sessions
<1>6. CASE OldSessionExited
  BY <1>6 DEF OldSessionExited, TypeOK, Sessions
<1>7. CASE SessionEntered
  BY <1>7 DEF SessionEntered, NewSession, TypeOK, Sessions
<1>8. CASE FailedEnterExited
  BY <1>8 DEF FailedEnterExited, TypeOK, Sessions
<1>9. CASE CreateSleepEnds
  BY <1>9 DEF CreateSleepEnds
<1>10. ASSUME NEW e \in Errors, OldSessionExitFails(e) PROVE BudgetInv'
  BY <1>10 DEF OldSessionExitFails, Raise, TypeOK, Sessions
<1>11. ASSUME NEW e \in Errors, SessionEnterFails(e) PROVE BudgetInv'
  BY <1>11 DEF SessionEnterFails, Raise, NewSession, TypeOK, Sessions
<1>12. ASSUME NEW e \in Errors, OperationFails(e) PROVE BudgetInv'
  BY <1>12 DEF OperationFails, Raise
<1>13. CASE OperationReturns
  <2>1. CASE run < NRuns
    <3>1. run' = run + 1 /\ attempt' = 1
      BY <1>13, <2>1 DEF OperationReturns
    <3>2. SpentBefore' = run * (RequestAttempts * CreateAttempts)
      BY <3>1 DEF SpentBefore
    <3> QED
      BY <1>13, <2>1, <3>1, <3>2 DEF OperationReturns
  <2>2. CASE ~(run < NRuns)
    BY <1>13, <2>2 DEF OperationReturns
  <2> QED
    BY <2>1, <2>2
<1>14. CASE ResultRejected
  BY <1>14 DEF ResultRejected, Raise
<1>15. CASE RequestFailed
  BY <1>15 DEF RequestFailed
<1>16. CASE RetrySleepEnds
  <2>1. SpentBefore' = (run - 1) * (RequestAttempts * CreateAttempts)
                         + attempt * CreateAttempts
    BY <1>16 DEF RetrySleepEnds, SpentBefore
  <2>2. SpentBefore' = SpentBefore + CreateAttempts
    <3> DEFINE A == (run - 1) * (RequestAttempts * CreateAttempts)
               B == (attempt - 1) * CreateAttempts
    <3>1. A \in Int /\ B \in Int
      BY <1>b
    <3>2. SpentBefore = A + B /\ SpentBefore' = A + (B + CreateAttempts)
      BY <2>1, <1>a DEF SpentBefore
    <3> HIDE DEF A, B
    <3> QED
      BY <3>1, <3>2, <1>b
  <2> QED
    BY <1>16, <2>2 DEF RetrySleepEnds
<1>17. CASE Unwind
  BY <1>17 DEF Unwind
<1>18. CASE Close
  BY <1>18 DEF Close, ReleaseClient, TypeOK, Sessions
<1>19. CASE SessionExited
  BY <1>19 DEF SessionExited, ReleaseClient, TypeOK, Sessions
<1>20. CASE SessionExitFails
  BY <1>20 DEF SessionExitFails, ReleaseClient, TypeOK, Sessions
<1>21. CASE ClientExited
  BY <1>21 DEF ClientExited
<1>22. CASE ClientExitFails
  BY <1>22 DEF ClientExitFails
<1>23. CASE ClosedForOpen
  BY <1>23 DEF ClosedForOpen
<1>24. CASE ClosedForRetry
  BY <1>24 DEF ClosedForRetry, AfterSafeClose
<1>25. CASE ClosedForBatch
  BY <1>25 DEF ClosedForBatch
<1>26. CASE CancelWaiting
  BY <1>26 DEF CancelWaiting, CancelIn, CancelledAt
<1>27. CASE CancelSessionEnter
  BY <1>27 DEF CancelSessionEnter, CancelIn, CancelledAt, NewSession, TypeOK, Sessions
<1>28. CASE CancelSessionExit
  BY <1>28 DEF CancelSessionExit, CancelIn, CancelledAt, TypeOK, Sessions
<1>29. CASE CancelCloseSession
  BY <1>29 DEF CancelCloseSession, CancelIn, ReleaseClient, TypeOK, Sessions
<1>30. CASE CancelCloseClient
  BY <1>30 DEF CancelCloseClient, CancelIn
<1>31. CASE Done \/ UNCHANGED vars
  BY <1>31 DEF Done, vars
<1> QED
  BY <1>1, <1>2, <1>3, <1>4, <1>5, <1>6, <1>7, <1>8, <1>9, <1>10, <1>11,
     <1>12, <1>13, <1>14, <1>15, <1>16, <1>17, <1>18, <1>19, <1>20, <1>21,
     <1>22, <1>23, <1>24, <1>25, <1>26, <1>27, <1>28, <1>29, <1>30, <1>31
     DEF Next, Own, Answer, Cancel

-----------------------------------------------------------------------------
(* The theorems.                                                           *)

\* The inductive invariant holds when a batch begins.
LEMMA InitInv == Init => IInv
<1> SUFFICES ASSUME Init PROVE IInv
  OBVIOUS
<1> USE NRunsAssumption, AttemptsAssumption DEF Init, None
<1>1. TypeOK
  BY DEF TypeOK, Pcs, Runs, Exceptions, NoMgr, Managers, Clients, Sessions
<1>2. RunInv /\ ExcInv
  BY DEF RunInv, ExcInv
<1>3. CountInv /\ HeldSessionInv /\ HeldClientInv /\ PcInv
  BY DEF CountInv, HeldSessionInv, HeldClientInv, PcInv, NoMgr
<1>4. NoLostSession /\ NoLostClient
  BY DEF NoLostSession, NoLostClient, NoMgr
<1>5. ReportInv /\ StopInv
  BY DEF ReportInv, StopInv
<1>6. BudgetInv
  BY DEF BudgetInv, SpentBefore, SpentNow
<1> QED
  BY <1>1, <1>2, <1>3, <1>4, <1>5, <1>6 DEF IInv

\* Every step keeps the inductive invariant.
LEMMA NextInv == IInv /\ [Next]_vars => IInv'
  BY TypeStep, ControlStep, CountStep, HeldStep, SessionStep, ClientStep,
     ReportStep, BudgetStep
     DEF IInv

\* The inductive invariant holds throughout.
THEOREM Inductive == Spec => []IInv
  BY InitInv, NextInv, PTL DEF Spec

\* The variables keep their types: in particular no more executions complete
\* than the plan has, and the code never runs past its last.
THEOREM TypeCorrect == Spec => []TypeOK
<1>1. IInv => TypeOK
  BY DEF IInv
<1> QED
  BY Inductive, <1>1, PTL

\* Whatever requests fail and wherever the task is cancelled, no session that
\* lives on the server is forgotten without having been told to exit, but one
\* that was cut off while it was entered.
THEOREM SessionsKept == Spec => []NoLostSession
<1>1. IInv => NoLostSession
  BY DEF IInv
<1> QED
  BY Inductive, <1>1, PTL

\* Nor is a client context.
THEOREM ClientsKept == Spec => []NoLostClient
<1>1. IInv => NoLostClient
  BY DEF IInv
<1> QED
  BY Inductive, <1>1, PTL

\* Nothing is lost, for any plan, number of attempts and cancellations.
THEOREM NothingIsLost == Spec => []NothingLost
<1>1. IInv => NothingLost
  BY DEF IInv, NothingLost
<1> QED
  BY Inductive, <1>1, PTL

\* The manager is empty when the caller is answered.
THEOREM ReleasedAtEnd == Spec => []ReleasedWhenDone
<1>1. IInv => ReleasedWhenDone
  BY DEF IInv, PcInv, ReleasedWhenDone
<1> QED
  BY Inductive, <1>1, PTL

\* Every operation runs on a live session bound to the resources of its own
\* execution, under an open client.
THEOREM OperatesOnOwnSession == Spec => []OwnSession
<1>1. IInv => OwnSession
  <2> SUFFICES ASSUME IInv, pc = "operate"
               PROVE  /\ mgr.session \in session.live \ session.exited
                      /\ mgr.bound = Binding[run]
                      /\ mgr.client # None /\ mgr.client \notin client.exited
    BY DEF OwnSession
  <2> QED
    BY DEF IInv, PcInv, HeldSessionInv, HeldClientInv
<1> QED
  BY Inductive, <1>1, PTL

\* A batch returns results exactly when every execution of the plan has
\* completed, unless it is cancelled.
THEOREM CompleteResults == Spec => []ResultsAreComplete
<1>1. IInv => ResultsAreComplete
  BY DEF IInv, ExcInv, ResultsAreComplete
<1> QED
  BY Inductive, <1>1, PTL

\* Only the entering of a session starts an operation.
LEMMA EnterStep == IInv /\ [Next]_vars /\ pc # "operate" /\ pc' = "operate"
                     => mgr'.session \notin session.used
<1> SUFFICES ASSUME IInv, [Next]_vars, pc # "operate", pc' = "operate"
             PROVE  mgr'.session \notin session.used
  OBVIOUS
<1>1. SessionEntered
  BY
     DEF Next, Own, Answer, Cancel, Done, vars, Goto, ReleaseClient, CancelIn,
         CancelledAt, AfterSafeClose,
     BeginBatch, OpenClient, ClientEntered, ClientEnterFails, Reopen, OldSessionExited,
     FailedEnterExited, CreateSleepEnds, OldSessionExitFails, SessionEnterFails, OperationFails,
     OperationReturns, ResultRejected, RequestFailed, RetrySleepEnds, Unwind,
     Close, SessionExited, SessionExitFails, ClientExited, ClientExitFails,
     ClosedForOpen, ClosedForRetry, ClosedForBatch,
     CancelWaiting, CancelSessionEnter, CancelSessionExit, CancelCloseSession, CancelCloseClient
<1>2. mgr'.session = session.count + 1
  BY <1>1 DEF SessionEntered, NewSession, IInv, TypeOK, Managers
<1> QED
  BY <1>2 DEF IInv, TypeOK, Sessions, CountInv

\* No session serves two operations.
THEOREM SessionsFresh == Spec => FreshSession
<1>1. IInv /\ [Next]_vars
        => [pc # "operate" /\ pc' = "operate" => mgr'.session \notin session.used]_vars
  BY EnterStep
<1> QED
  BY Inductive, <1>1, PTL DEF Spec, FreshSession

\* A missing resource is what the caller hears about, unless the task was
\* cancelled or the failure of a close() took the place of the error.
THEOREM MissingIsReported == Spec => []MissingReported
<1>1. IInv => MissingReported
  BY DEF IInv, ReportInv, MissingReported
<1> QED
  BY Inductive, <1>1, PTL

\* The two levels of retry together create no more sessions for an execution
\* than their attempts multiply to, for any number of attempts.
THEOREM SessionsBounded == Spec => []BoundedSessions
<1>1. IInv => BoundedSessions
  <2> SUFFICES ASSUME IInv PROVE BoundedSessions
    OBVIOUS
  <2>1. session.count <= SpentBefore + SpentNow
    BY DEF IInv, BudgetInv
  <2>2. SpentNow <= CreateAttempts /\ SpentNow \in Int
    BY AttemptsAssumption DEF IInv, BudgetInv, SpentNow, TypeOK
  <2>3. /\ SpentBefore \in Nat
        /\ SpentBefore + CreateAttempts <= run * (RequestAttempts * CreateAttempts)
        /\ run * (RequestAttempts * CreateAttempts)
             = (run * RequestAttempts) * CreateAttempts
    BY Budgets DEF IInv, BudgetInv
  <2>4. /\ session.count \in Nat /\ CreateAttempts \in Nat
        /\ (run * RequestAttempts) * CreateAttempts \in Nat
    BY AttemptsAssumption DEF IInv, TypeOK, Sessions, Runs
  <2>5. session.count <= (run * RequestAttempts) * CreateAttempts
    BY <2>1, <2>2, <2>3, <2>4
  <2> QED
    BY <2>5 DEF BoundedSessions
<1> QED
  BY Inductive, <1>1, PTL

\* A cancelled batch enters no session and completes no execution any more,
\* unless a client's exit swallowed the cancellation.
THEOREM CancellationStops == Spec => CancelStops
<1>1. IInv /\ [Next]_vars
        => [(cancels > 0 /\ "swallowed" \notin seen)
              => /\ session'.used = session.used
                 /\ completed' = completed]_vars
  <2> SUFFICES ASSUME IInv, [Next]_vars, cancels > 0, "swallowed" \notin seen
               PROVE  session'.used = session.used /\ completed' = completed
    OBVIOUS
  <2>1. pc \notin {"operate", "enterSession", "begin", "attempt", "enterClient",
                  "exitOld", "abortEnter", "createSleep", "failed", "retrySleep"}
    BY DEF IInv, StopInv
  <2>2. session \in Sessions
    BY DEF IInv, TypeOK
  <2> QED
    BY <2>1, <2>2
       DEF Next, Own, Answer, Cancel, Done, vars, Sessions, CancelIn, AfterSafeClose,
       BeginBatch, OpenClient, ClientEntered, ClientEnterFails, Reopen, OldSessionExited,
       SessionEntered, FailedEnterExited, CreateSleepEnds, OldSessionExitFails,
       SessionEnterFails, OperationFails, OperationReturns, ResultRejected,
       RequestFailed, RetrySleepEnds, Unwind, Close, SessionExited,
       SessionExitFails, ClientExited, ClientExitFails, ClosedForOpen,
       ClosedForRetry, ClosedForBatch, CancelWaiting, CancelSessionEnter,
       CancelSessionExit, CancelCloseSession, CancelCloseClient
<1> QED
  BY Inductive, <1>1, PTL DEF Spec, CancelStops

\* A client is told to exit only in ReleaseClient, when the manager is emptied.
LEMMA ClientExitStep == IInv /\ [Next]_vars /\ client'.exited # client.exited
                          => mgr'.session = None
<1> SUFFICES ASSUME IInv, [Next]_vars, client'.exited # client.exited
             PROVE  mgr'.session = None
  OBVIOUS
<1>1. client \in Clients
  BY DEF IInv, TypeOK
<1>2. \/ Close \/ SessionExited \/ SessionExitFails \/ CancelCloseSession
  BY <1>1
     DEF Next, Own, Answer, Cancel, Done, vars, CancelIn, CancelledAt, AfterSafeClose, Clients,
     BeginBatch, OpenClient, ClientEntered, ClientEnterFails, Reopen, OldSessionExited,
     SessionEntered, FailedEnterExited, CreateSleepEnds, OldSessionExitFails,
     SessionEnterFails, OperationFails, OperationReturns, ResultRejected, RequestFailed,
     RetrySleepEnds, Unwind, ClientExited, ClientExitFails,
     ClosedForOpen, ClosedForRetry, ClosedForBatch,
     CancelWaiting, CancelSessionEnter, CancelSessionExit, CancelCloseClient
<1>3. mgr' = NoMgr
  BY <1>1, <1>2 DEF Close, SessionExited, SessionExitFails, CancelCloseSession,
                    CancelIn, ReleaseClient
<1> QED
  BY <1>3 DEF NoMgr

\* What is told to exit now was not told before: the manager's own session and
\* client, or a session that is being created.
LEMMA ExitOnceStep ==
    IInv /\ [Next]_vars
       => /\ pc' \in {"exitOld", "exitSession", "abortEnter"} /\ pc' # pc
               => leaving' \notin session.exited
          /\ pc' = "exitClient" /\ pc # "exitClient" => leaving' \notin client.exited
<1> SUFFICES ASSUME IInv, [Next]_vars
             PROVE  /\ pc' \in {"exitOld", "exitSession", "abortEnter"} /\ pc' # pc
                         => leaving' \notin session.exited
                    /\ pc' = "exitClient" /\ pc # "exitClient"
                         => leaving' \notin client.exited
  OBVIOUS
<1>1. ASSUME pc' \in {"exitOld", "exitSession", "abortEnter"}, pc' # pc
      PROVE  \/ Reopen \/ Close
             \/ \E e \in Errors : SessionEnterFails(e)
  BY <1>1
     DEF Next, Own, Answer, Cancel, Done, vars, Goto, ReleaseClient, CancelIn, CancelledAt,
     AfterSafeClose,
     BeginBatch, OpenClient, ClientEntered, ClientEnterFails, OldSessionExited,
     SessionEntered, FailedEnterExited, CreateSleepEnds, OldSessionExitFails,
     OperationFails, OperationReturns, ResultRejected, RequestFailed,
     RetrySleepEnds, Unwind, SessionExited, SessionExitFails, ClientExited,
     ClientExitFails, ClosedForOpen, ClosedForRetry, ClosedForBatch,
     CancelWaiting, CancelSessionEnter, CancelSessionExit, CancelCloseSession,
     CancelCloseClient
<1>2. ASSUME pc' = "exitClient", pc # "exitClient"
      PROVE  Close \/ SessionExited \/ SessionExitFails \/ CancelCloseSession
  BY <1>2
     DEF Next, Own, Answer, Cancel, Done, vars, Goto, CancelIn, CancelledAt,
     AfterSafeClose,
     BeginBatch, OpenClient, ClientEntered, ClientEnterFails, Reopen, OldSessionExited,
     SessionEntered, FailedEnterExited, CreateSleepEnds, OldSessionExitFails,
     SessionEnterFails, OperationFails, OperationReturns, ResultRejected,
     RequestFailed, RetrySleepEnds, Unwind, ClientExited,
     ClientExitFails, ClosedForOpen, ClosedForRetry, ClosedForBatch,
     CancelWaiting, CancelSessionEnter, CancelSessionExit, CancelCloseClient
<1>3. /\ mgr.session # None => mgr.session \notin session.exited
      /\ mgr.clientCm # None => mgr.clientCm \notin client.exited
      /\ NewSession \notin session.exited
  <2>1. /\ mgr.session # None => mgr.session \notin session.exited
        /\ mgr.clientCm # None => mgr.clientCm \notin client.exited
    BY DEF IInv, HeldSessionInv, HeldClientInv
  <2>2. NewSession \notin session.exited
    BY DEF IInv, CountInv, TypeOK, Sessions, NewSession
  <2> QED
    BY <2>1, <2>2
<1>4. ASSUME pc' \in {"exitOld", "exitSession", "abortEnter"}, pc' # pc
      PROVE  leaving' \notin session.exited
  BY <1>1, <1>3, <1>4
     DEF Reopen, Close, SessionEnterFails, ReleaseClient, Goto
<1>5. ASSUME pc' = "exitClient", pc # "exitClient"
      PROVE  leaving' \notin client.exited
  BY <1>2, <1>3, <1>5
     DEF Close, SessionExited, SessionExitFails, CancelCloseSession, CancelIn,
         ReleaseClient, Goto
<1> QED
  BY <1>4, <1>5

\* Contexts are exited in order and once, whichever cleanup runs inside another.
THEOREM ExitsInOrder == Spec => OrderlyExits
<1>1. IInv /\ IInv' /\ [Next]_vars
        => [client'.exited # client.exited
              => session'.live \subseteq session'.exited \cup session'.cut]_vars
  BY ClientExitStep DEF IInv, NoLostSession
<1>2. IInv /\ [Next]_vars
        => [/\ \A s \in session.exited :
                  pc' \in {"exitOld", "exitSession", "abortEnter"} /\ pc' # pc
                    => leaving' # s
            /\ \A c \in client.exited :
                  pc' = "exitClient" /\ pc # "exitClient" => leaving' # c]_vars
  BY ExitOnceStep
<1> QED
  BY Inductive, <1>1, <1>2, PTL DEF Spec, OrderlyExits, SessionExitsFirst, ExitedOnce

-----------------------------------------------------------------------------
(* The lease contract.                                                     *)

\* Every step is a step of the lease contract or leaves its variables alone.
LEMMA LeaseStep == IInv /\ [Next]_vars => [Lease!Next]_Lease!vars
<1> SUFFICES ASSUME IInv, [Next]_vars PROVE [Lease!Next]_Lease!vars
  OBVIOUS
<1> DEFINE Kept == completed' = completed /\ mgr'.bound = mgr.bound
<1> DEFINE Unanswered == LeaseAnswer = "none" /\ LeaseAnswer' = "none"
<1>0. ASSUME Kept, pc # "done", pc' # "done" PROVE [Lease!Next]_Lease!vars
  BY <1>0 DEF Lease!vars, LeaseAnswer
<1>1. CASE SessionEntered
  <2>1. /\ pc # "done" /\ pc' # "done"
        /\ completed < NRuns /\ run = completed + 1
        /\ mgr.bound = NoBinding
    BY <1>1, NRunsAssumption
       DEF SessionEntered, Goto, IInv, TypeOK, Runs, RunInv, PcInv,
           HeldClientInv
  <2>2. mgr'.bound = Binding[run] /\ completed' = completed
    BY <1>1 DEF SessionEntered, IInv, TypeOK, Managers
  <2>3. Lease!Acquire
    BY <2>1, <2>2 DEF Lease!Acquire, LeaseAnswer
  <2> QED
    BY <2>3 DEF Lease!Next
<1>2. CASE OperationReturns
  <2>1. /\ pc # "done" /\ pc' # "done"
        /\ completed < NRuns /\ run = completed + 1
        /\ mgr.bound = Binding[run]
    BY <1>2, NRunsAssumption
       DEF OperationReturns, Goto, IInv, TypeOK, Runs, RunInv, PcInv
  <2>2. mgr' = mgr /\ completed' = completed + 1
    BY <1>2 DEF OperationReturns
  <2>3. Lease!Complete
    BY <2>1, <2>2 DEF Lease!Complete, LeaseAnswer
  <2> QED
    BY <2>3 DEF Lease!Next
<1>3. CASE Reopen
  <2>1. /\ pc # "done" /\ pc' # "done"
        /\ completed' = completed /\ mgr'.bound = NoBinding
    BY <1>3 DEF Reopen, Goto, Detached, IInv, TypeOK, Managers
  <2>2. CASE mgr.bound = NoBinding
    BY <2>1, <2>2, <1>0
  <2>3. CASE mgr.bound # NoBinding
    BY <2>1, <2>3 DEF Lease!Next, Lease!Release, LeaseAnswer
  <2> QED
    BY <2>2, <2>3
<1>4. CASE Close
  <2>1. pc # "done" /\ pc' # "done" /\ completed' = completed
    BY <1>4 DEF Close, Goto, ReleaseClient
  <2>2. mgr'.bound = NoBinding
    <3>1. CASE mgr.session = None
      BY <1>4, <3>1 DEF Close, ReleaseClient, NoMgr
    <3>2. CASE mgr.session # None
      BY <1>4, <3>2 DEF Close, Detached, IInv, TypeOK, Managers
    <3> QED
      BY <3>1, <3>2
  <2>3. CASE mgr.bound = NoBinding
    BY <2>1, <2>2, <2>3, <1>0
  <2>4. CASE mgr.bound # NoBinding
    BY <2>1, <2>2, <2>4 DEF Lease!Next, Lease!Release, LeaseAnswer
  <2> QED
    BY <2>3, <2>4
<1>5. CASE ClosedForBatch
  <2>1. mgr.bound = NoBinding /\ mgr' = mgr /\ completed' = completed
    BY <1>5 DEF ClosedForBatch, IInv, PcInv, NoMgr
  <2>2. pc # "done" /\ pc' = "done"
    BY <1>5 DEF ClosedForBatch, Goto
  <2>3. exc' \in Exceptions /\ (exc' = "none" => completed = NRuns)
    BY <1>5 DEF ClosedForBatch, IInv, TypeOK, ExcInv, Exceptions, Errors
  <2>4. LeaseAnswer = "none"
    BY <2>2 DEF LeaseAnswer
  <2>5. LeaseAnswer' \in Lease!Answers \ {"none"}
    BY <2>2, <2>3 DEF LeaseAnswer, Lease!Answers, Exceptions, Errors
  <2>6. LeaseAnswer' = "results" => completed = NRuns
    BY <2>2, <2>3 DEF LeaseAnswer, Exceptions, Errors
  <2>7. Lease!Answer(LeaseAnswer')
    BY <2>1, <2>4, <2>6 DEF Lease!Answer
  <2> QED
    BY <2>5, <2>7 DEF Lease!Next
<1>6. CASE ClientEntered
  <2>1. mgr.bound = NoBinding /\ mgr'.bound = NoBinding
    BY <1>6
       DEF ClientEntered, Detached, IInv, TypeOK, Managers, PcInv,
           HeldClientInv
  <2> QED
    BY <1>6, <2>1, <1>0 DEF ClientEntered, Goto
<1>7. CASE OpenClient
  <2>1. mgr'.bound = mgr.bound
    BY <1>7 DEF OpenClient, IInv, TypeOK, Managers
  <2> QED
    BY <1>7, <2>1, <1>0 DEF OpenClient, Goto
<1>8. ASSUME SessionExited \/ SessionExitFails \/ CancelCloseSession
      PROVE  [Lease!Next]_Lease!vars
  <2>1. mgr.bound = NoBinding /\ mgr'.bound = NoBinding
    BY <1>8 DEF SessionExited, SessionExitFails, CancelCloseSession, CancelIn,
                ReleaseClient, NoMgr, IInv, PcInv, HeldClientInv
  <2>2. completed' = completed /\ pc # "done" /\ pc' # "done"
    BY <1>8 DEF SessionExited, SessionExitFails, CancelCloseSession, CancelIn,
                ReleaseClient, Goto
  <2> QED
    BY <2>1, <2>2, <1>0
<1>9. ASSUME NEW e \in Errors,
             OldSessionExitFails(e) \/ SessionEnterFails(e) \/ OperationFails(e)
      PROVE  [Lease!Next]_Lease!vars
  BY <1>9, <1>0 DEF OldSessionExitFails, SessionEnterFails, OperationFails, Goto
<1>10. CASE ClientEnterFails
  <2>1. mgr'.bound = mgr.bound
    BY <1>10 DEF ClientEnterFails, IInv, TypeOK, Managers
  <2> QED
    BY <1>10, <2>1, <1>0 DEF ClientEnterFails, Goto
<1>11. CASE BeginBatch
  BY <1>11, <1>0 DEF BeginBatch, Goto
<1>12. CASE OldSessionExited
  BY <1>12, <1>0 DEF OldSessionExited, Goto
<1>13. CASE FailedEnterExited
  BY <1>13, <1>0 DEF FailedEnterExited, Goto
<1>14. CASE CreateSleepEnds
  BY <1>14, <1>0 DEF CreateSleepEnds, Goto
<1>15. CASE RequestFailed
  BY <1>15, <1>0 DEF RequestFailed, Goto
<1>16. CASE RetrySleepEnds
  BY <1>16, <1>0 DEF RetrySleepEnds, Goto
<1>17. CASE Unwind
  BY <1>17, <1>0 DEF Unwind, Goto
<1>18. CASE ClientExited
  BY <1>18, <1>0 DEF ClientExited, Goto
<1>19. CASE ClientExitFails
  BY <1>19, <1>0 DEF ClientExitFails, Goto
<1>20. CASE ClosedForOpen
  BY <1>20, <1>0 DEF ClosedForOpen, Goto
<1>21. CASE ClosedForRetry
  BY <1>21, <1>0 DEF ClosedForRetry, Goto, AfterSafeClose
<1>22. CASE ResultRejected
  BY <1>22, <1>0 DEF ResultRejected, Goto
<1>23. CASE CancelWaiting
  BY <1>23, <1>0 DEF CancelWaiting, Goto, CancelIn, CancelledAt
<1>24. CASE CancelSessionEnter
  BY <1>24, <1>0 DEF CancelSessionEnter, Goto, CancelIn, CancelledAt
<1>25. CASE CancelSessionExit
  BY <1>25, <1>0 DEF CancelSessionExit, Goto, CancelIn, CancelledAt
<1>26. CASE CancelCloseClient
  BY <1>26, <1>0 DEF CancelCloseClient, Goto, CancelIn
<1>27. CASE Done \/ UNCHANGED vars
  BY <1>27 DEF Done, vars, Lease!vars, LeaseAnswer
<1> QED
  BY <1>1, <1>2, <1>3, <1>4, <1>5, <1>6, <1>7, <1>8, <1>9, <1>10, <1>11,
     <1>12, <1>13, <1>14, <1>15, <1>16, <1>17, <1>18, <1>19, <1>20, <1>21,
     <1>22, <1>23, <1>24, <1>25, <1>26, <1>27
     DEF Next, Own, Answer, Cancel

\* The client, session, retry and cleanup code implements the lease contract
\* of SessionLease, for every plan and every number of attempts.
THEOREM LeaseImplemented == Spec => ImplementsLease
<1>1. Init => Lease!Init
  BY DEF Init, Lease!Init, LeaseAnswer, NoMgr
<1>2. IInv /\ [Next]_vars => [Lease!Next]_Lease!vars
  BY LeaseStep
<1> QED
  BY Inductive, <1>1, <1>2, PTL DEF Spec, ImplementsLease, Lease!Spec
================================================================================
