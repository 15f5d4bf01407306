------------------------------ MODULE Quel3Batch ------------------------------
(***************************************************************************)
(* Quel3ExecutionManager.execute_batch_async: one batch planned on a       *)
(* snapshot of the instrument cache, run on the hardware of                *)
(* Quel3Instruments, and replayed once on refreshed instruments when a     *)
(* resource is missing.  What one execution may end in is what             *)
(* SessionLease allows; how it gets there is Quel3Session.                 *)
(***************************************************************************)
EXTENDS Quel3Instruments, Sequences

CONSTANTS
    Plan,                \* Plan[r]: the aliases execution r plays on
    ConfigureWhileBusy   \* calls on the controller may overlap the batch

\* A batch without executions is answered before it reaches the hardware.
ASSUME PlanAssumption == Plan \in Seq(SUBSET Aliases) \ {<<>>}
ASSUME OverlapAssumption == ConfigureWhileBusy \in BOOLEAN

VARIABLE batch

allVars == <<vars, batch>>

\* payload.fixed_timelines of all the jobs
BatchAliases == UNION {Plan[r] : r \in 1..Len(Plan)}

BatchInit ==
    /\ Init
    /\ batch = [stage |-> "waiting",
                attempt |-> 1,
                first |-> {},       \* expected_ports: alias and port of each
                ids |-> {},         \* the snapshot the plan was built on
                completed |-> 0,
                used |-> {},        \* the instruments behind the results so far
                refreshed |-> {},   \* what refresh_instrument_cache returned
                answer |-> "none"]

Answer(a) == [batch EXCEPT !.stage = "done", !.answer = a]

\* Aliases that are not cached are left out of the plan.
Plannable_SkipsAliases == \E alias \in BatchAliases : \E i \in cache : i.alias = alias

\* InstrumentCache.get raises on an alias that is not cached.
Plannable == \A alias \in BatchAliases : \E i \in cache : i.alias = alias

\* Analyze, plan and build on the cache, then take its snapshot.
Planned == [batch EXCEPT !.stage = "running",
                         !.ids = OfAliases(cache, BatchAliases),
                         !.completed = 0,
                         !.used = {}]

Submit ==
    /\ batch.stage = "waiting"
    /\ ConfigureWhileBusy \/ call.stage = "none"
    /\ Plannable
    /\ batch' = [Planned EXCEPT !.first = {SpecOf(i) : i \in Planned.ids}]
    /\ UNCHANGED vars

\* The instruments of the next execution.
RunIds == OfAliases(batch.ids, Plan[batch.completed + 1])

RunSucceeds ==
    /\ batch.stage = "running"
    /\ RunIds \subseteq hw
    /\ batch' = [batch EXCEPT
                   !.completed = @ + 1,
                   !.used = @ \cup RunIds,
                   !.stage = IF batch.completed + 1 = Len(Plan) THEN "done" ELSE @,
                   !.answer = IF batch.completed + 1 = Len(Plan) THEN "results" ELSE @]
    /\ UNCHANGED vars

\* quelware does not know one of the ids: the first time, recover.
RunMisses ==
    /\ batch.stage = "running"
    /\ ~(RunIds \subseteq hw)
    /\ batch' = IF batch.attempt = 1 THEN [batch EXCEPT !.stage = "recover"]
                                     ELSE Answer("notFound")
    /\ UNCHANGED vars

\* Any other error, after the retries of the session layer.
RunFails ==
    /\ batch.stage = "running"
    /\ batch' = Answer("error")
    /\ UNCHANGED vars

\* The units of the ports that the batch expects its aliases on.
ExpectedUnits == {UnitOf[s.port] : s \in batch.first}

BeginRecovery_AllUnits ==
    /\ batch.stage = "recover"
    /\ call.stage = "none"
    /\ call' = [Begin("refresh", "list") EXCEPT !.units = Units]
    /\ batch' = [batch EXCEPT !.stage = "refreshing"]
    /\ UNCHANGED <<hw, mode, cache, gen, foreign, calls, others>>

\* refresh_instrument_cache(unit_labels) in a worker thread.
BeginRecovery ==
    /\ batch.stage = "recover"
    /\ call.stage = "none"
    /\ call' = [Begin("refresh", "list") EXCEPT !.units = ExpectedUnits]
    /\ batch' = [batch EXCEPT !.stage = "refreshing"]
    /\ UNCHANGED <<hw, mode, cache, gen, foreign, calls, others>>

\* The steps of that refresh, which may raise.
RecoveryRequest ==
    /\ batch.stage = "refreshing"
    /\ List \/ RequestFails \/ ReadBack \/ Publish
    /\ batch' = CASE call'.ended = "ok" -> [batch EXCEPT !.stage = "refreshed",
                                                         !.refreshed = call.listed]
                  [] call'.ended = "error" -> Answer("error")
                  [] OTHER -> batch

Recovered_NoPortCheck ==
    /\ batch.stage = "refreshed"
    /\ batch' = IF Plannable THEN [Planned EXCEPT !.attempt = 2]
                             ELSE Answer("error")
    /\ UNCHANGED vars

\* The executions are repeated as they were built.
Recovered_OldPlan ==
    /\ batch.stage = "refreshed"
    /\ batch' = IF batch.first \subseteq {SpecOf(i) : i \in batch.refreshed}
                THEN [batch EXCEPT !.stage = "running", !.attempt = 2,
                                   !.completed = 0, !.used = {}]
                ELSE Answer("error")
    /\ UNCHANGED vars

\* refreshed[alias].port_id must be the expected port for every alias.
Recovered ==
    /\ batch.stage = "refreshed"
    /\ batch' = IF /\ batch.first \subseteq {SpecOf(i) : i \in batch.refreshed}
                   /\ Plannable
                THEN [Planned EXCEPT !.attempt = 2]
                ELSE Answer("error")
    /\ UNCHANGED vars

Batch == \/ Submit \/ RunSucceeds \/ RunMisses \/ RunFails
         \/ BeginRecovery \/ RecoveryRequest \/ Recovered

UserCalls == /\ \/ batch.stage \in {"waiting", "done"}
                \/ ConfigureWhileBusy /\ batch.stage # "refreshing"
             /\ Calls
             /\ UNCHANGED batch

UserRequests == /\ batch.stage # "refreshing"
                /\ Requests
                /\ UNCHANGED batch

BatchDone == batch.stage = "done" /\ Done /\ UNCHANGED batch
\* The aliases of the batch were never cached all together.
NeverSubmitted == batch.stage = "waiting" /\ Done /\ UNCHANGED batch

BatchNext == \/ Batch \/ UserCalls \/ UserRequests
             \/ OtherUsers /\ UNCHANGED batch
             \/ BatchDone \/ NeverSubmitted

BatchSpec == BatchInit /\ [][BatchNext]_allVars

-----------------------------------------------------------------------------
(* Properties.                                                             *)

\* The results of a batch come from one snapshot of the cache: none of the
\* executions that were complete before a recovery is kept, and no alias is
\* played on two instruments.
ResultsFromOneSnapshot ==
    batch.answer = "results" =>
        /\ batch.used = batch.ids
        /\ {i.alias : i \in batch.used} = BatchAliases

\* The replay drives each alias on the port of the first plan, whatever other
\* users did to the hardware in between.
ReplayKeepsPorts ==
    batch.attempt = 2 => {SpecOf(i) : i \in batch.ids} = batch.first

\* A replay that misses a resource again is due to an instrument that was
\* removed after it had been read back: the refresh hands out no stale id.
SecondMissIsNew ==
    batch.answer = "notFound" => ~(batch.refreshed \subseteq hw)

\* A batch changes the cache only in the units of the ports it runs on.
RecoveryKeepsOtherUnits ==
    [][batch.stage = "refreshing" =>
         cache' \ OnUnits(cache', ExpectedUnits)
           = cache \ OnUnits(cache, ExpectedUnits)]_allVars
================================================================================
