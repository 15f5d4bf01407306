----------------------------- MODULE Quel3Monitor -----------------------------
(***************************************************************************)
(* Quel3MonitorTool.run_schedule: one run that clears a unit, drives the   *)
(* targets of a schedule one after another with a temporary instrument on  *)
(* the unit's monitor port, and puts mode and instruments back in its      *)
(* finally clause.  Its calls on the controller are those of               *)
(* Quel3Instruments, whose requests may fail, next to other users.         *)
(***************************************************************************)
EXTENDS Quel3Instruments

CONSTANTS
    MonitorPort,      \* MonitorPort[u]: the port `u:mon`
    MonitorAliases,   \* "_qubex_monitor" and its numbered fellows
    MaxBefore         \* bound: calls on the controller before the run

ASSUME MonitorAssumption ==
    /\ MonitorPort \in [Units -> Ports] /\ \A u \in Units : UnitOf[MonitorPort[u]] = u
    /\ MonitorAliases \subseteq Aliases
ASSUME MaxBeforeAssumption == MaxBefore \in Nat

\* The run: its next step, or the one whose call is `made`.
VARIABLE monitor

monitorVars == <<vars, monitor>>

Body == {"clear", "loopback", "target", "monitor", "execute", "refresh", "replay"}

MonitorInit ==
    /\ Init
    /\ monitor = [stage |-> "waiting", made |-> FALSE, todo |-> {},
                  original |-> {}, unit |-> {}, mode |-> "open", alias |-> {},
                  found |-> {},     \* ghost: the unit's instruments at the start
                  foundMode |-> "open", before |-> 0,   \* ghost: its mode, others
                  gen |-> 0,        \* ghost: gen when the body was over
                  restored |-> FALSE]

Waiting(stage) == monitor.stage = stage /\ ~monitor.made /\ call.stage = "none"
To(stage) == [monitor EXCEPT !.stage = stage, !.made = FALSE]
Making == monitor' = [monitor EXCEPT !.made = TRUE]

\* Of original_specs: the target that is due, and its monitor.
Target == CHOOSE s \in monitor.todo : TRUE
TargetUnit == CHOOSE u \in Units : monitor.unit = {u}
MonitorSpec == [alias |-> CHOOSE m \in MonitorAliases : monitor.alias = {m},
                port |-> MonitorPort[TargetUnit]]

\* What the cache has of the unit is taken for its configuration.
Start_CachedOriginal(targets, alias) ==
    /\ Waiting("waiting")
    /\ targets \subseteq hw /\ targets # {}
    /\ \A i \in targets : \A j \in hw : i.alias = j.alias => i = j
    /\ \A i \in targets : i.port # MonitorPort[UnitOf[i.port]]
    /\ alias \notin {i.alias : i \in hw \cup cache}
    /\ \E u \in Units :
          /\ OnUnits(targets, {u}) = targets
          /\ Indexable(OnUnits(hw, {u}))
          /\ monitor' = [To("clear") EXCEPT
                           !.todo = {SpecOf(i) : i \in targets},
                           !.original = {SpecOf(i) : i \in OnUnits(cache, {u})},
                           !.unit = {u}, !.mode = mode[u], !.alias = {alias},
                           !.found = {SpecOf(i) : i \in OnUnits(hw, {u})},
                           !.foundMode = mode[u], !.before = others]
    /\ UNCHANGED vars

\* The targets are unique among the live instruments, on one unit and no
\* monitors; the unit's instruments can be indexed; the monitor's alias is new.
Start(targets, alias) ==
    /\ Waiting("waiting")
    /\ targets \subseteq hw /\ targets # {}
    /\ \A i \in targets : \A j \in hw : i.alias = j.alias => i = j
    /\ \A i \in targets : i.port # MonitorPort[UnitOf[i.port]]
    /\ alias \notin {i.alias : i \in hw \cup cache}
    /\ \E u \in Units :
          /\ OnUnits(targets, {u}) = targets
          /\ Indexable(OnUnits(hw, {u}))
          /\ monitor' = [To("clear") EXCEPT
                           !.todo = {SpecOf(i) : i \in targets},
                           !.original = {SpecOf(i) : i \in OnUnits(hw, {u})},
                           !.unit = {u}, !.mode = mode[u], !.alias = {alias},
                           !.found = {SpecOf(i) : i \in OnUnits(hw, {u})},
                           !.foundMode = mode[u], !.before = others]
    /\ UNCHANGED vars

\* Each call is one of the controller's.
ClearUnit ==
    /\ Waiting("clear") \/ Waiting("restoreClear")
    /\ Clear(TargetUnit)
    /\ Making

SetMode ==
    /\ \/ Waiting("loopback") /\ ConfigureMonitorMode(TargetUnit, "loopback", FALSE)
       \/ Waiting("restoreMode") /\ ConfigureMonitorMode(TargetUnit, monitor.mode, FALSE)
    /\ Making

DeployTarget ==
    /\ \/ Waiting("target") /\ DeployOne(Target, FALSE)
       \/ Waiting("monitor") /\ DeployOne(MonitorSpec, FALSE)
    /\ Making

\* original_configuration
RestoreInstruments ==
    /\ Waiting("restoreInstruments")
    /\ Deploy(monitor.original)
    /\ Making

\* What follows a step of the body or of the finally clause that raised.
Raised == IF monitor.stage \in Body
          THEN [To("restoreClear") EXCEPT !.gen = gen] ELSE To("ended")

\* ValueError before any request: the unit has cached instruments, or an alias
\* is cached on another port.
Refused ==
    /\ \/ /\ Waiting("loopback") \/ Waiting("restoreMode")
          /\ OnUnits(cache, monitor.unit) # {}
       \/ /\ Waiting("target")
          /\ \E i \in cache : i.alias = Target.alias /\ i.port # Target.port
       \/ /\ Waiting("monitor")
          /\ \E i \in cache : i.alias = MonitorSpec.alias /\ i.port # MonitorSpec.port
    /\ monitor' = Raised
    /\ UNCHANGED vars

Captured == IF monitor.todo = {Target}
            THEN [To("restoreClear") EXCEPT !.todo = {}, !.gen = gen]
            ELSE [To("target") EXCEPT !.todo = @ \ {Target}]

\* The instruments that _execute_target plays on.
Played == OfAliases(cache, {Target.alias, MonitorSpec.alias})

\* execute_sync, before or after its recovery: a result needs both instruments.
Execute ==
    /\ Waiting("execute") \/ Waiting("replay")
    /\ \/ monitor' = Captured /\ Cardinality(Played) = 2 /\ Played \subseteq hw
       \/ monitor' = Raised
    /\ UNCHANGED vars

\* quelware does not know one of them: the unit is read again.
Recover ==
    /\ Waiting("execute")
    /\ Cardinality(Played) = 2 /\ ~(Played \subseteq hw)
    /\ Refresh(monitor.unit)
    /\ monitor' = [To("refresh") EXCEPT !.made = TRUE]

After == CASE monitor.stage = "clear" -> To("loopback")
           [] monitor.stage = "loopback" -> To("target")
           [] monitor.stage = "target" -> To("monitor")
           [] monitor.stage = "monitor" -> To("execute")
           [] monitor.stage = "refresh" -> To("replay")
           [] monitor.stage = "restoreClear" -> To("restoreMode")
           [] monitor.stage = "restoreMode" -> To("restoreInstruments")
           [] monitor.stage = "restoreInstruments" -> [To("ended") EXCEPT !.restored = TRUE]

\* A call of the run has returned or raised.
Return ==
    /\ monitor.made /\ call.stage = "none"
    /\ monitor' = IF call.ended = "ok" THEN After ELSE Raised
    /\ UNCHANGED vars

Monitor ==
    \/ \E targets \in SUBSET hw, alias \in MonitorAliases : Start(targets, alias)
    \/ ClearUnit \/ SetMode \/ DeployTarget \/ RestoreInstruments
    \/ Refused \/ Execute \/ Recover \/ Return

CallsBefore == monitor.stage = "waiting" /\ calls < MaxBefore /\ Calls /\ UNCHANGED monitor

MonitorDone == monitor.stage \in {"waiting", "ended"} /\ call.stage = "none"
               /\ UNCHANGED monitorVars

MonitorNext ==
    \/ Monitor \/ CallsBefore
    \/ Requests /\ UNCHANGED monitor
    \/ OtherUsers /\ UNCHANGED monitor
    \/ MonitorDone

RunSpec == MonitorInit /\ [][MonitorNext]_monitorVars

-----------------------------------------------------------------------------
(* Properties.                                                             *)

\* A run whose finally clause went through, however far its body got, leaves
\* the unit in its mode and with exactly its instruments, all of them deployed
\* anew and cached: neither a temporary one nor one that the body deployed
\* in the role of a transmitter is left, unless another user acted meanwhile.
MonitorRestores ==
    (monitor.restored /\ others = monitor.before) =>
        LET now == OnUnits(hw, monitor.unit)
        IN /\ \A u \in monitor.unit : mode[u] = monitor.foundMode
           /\ {SpecOf(i) : i \in now} = monitor.found
           /\ \A i \in now : i.gen > monitor.gen
           /\ OnUnits(cache, monitor.unit) = now
================================================================================
