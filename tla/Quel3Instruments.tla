--------------------------- MODULE Quel3Instruments ---------------------------
(***************************************************************************)
(* The QuEL-3 instruments on the hardware and the controller's cache of    *)
(* them: Quel3ConfigurationManager and the connect and disconnect of       *)
(* Quel3BackendController, next to other users of the same hardware.       *)
(*                                                                         *)
(* A call on the controller is a sequence of steps: what it does before    *)
(* the first request, the write requests of one attempt (under a session   *)
(* that locks the ports, so that they are one step), the listing of the    *)
(* instruments, the readback of the listed ones and the publication of     *)
(* what was read.  Calls are made one after another; other users act       *)
(* between any two steps.                                                  *)
(*                                                                         *)
(* <Step>_<Mistake> is <Step> with a mistake the code could have made; it  *)
(* is part of no specification.                                            *)
(***************************************************************************)
EXTENDS InstrumentCaches

CONSTANTS
    Placements,       \* bound: what other users deploy, and where
    Configurations,   \* sets of [alias, port] that are deployed as a whole
    DeployAttempts,   \* QUELWARE_SESSION_REQUEST_MAX_ATTEMPTS
    MaxCalls,         \* bound: calls made on the controller
    MaxForeign        \* bound: changes made by other users

Specs == [alias : Aliases, port : Ports]

ASSUME PlacementsAssumption == Placements \subseteq Specs
ASSUME ConfigurationsAssumption == Configurations \subseteq (SUBSET Specs) \ {{}}
ASSUME DeployAttemptsAssumption == DeployAttempts \in Nat \ {0}
ASSUME BoundsAssumption == MaxCalls \in Nat /\ MaxForeign \in Nat

VARIABLES
    hw,       \* the instruments on the hardware
    mode,     \* mode[u]: the monitor mode of unit u
    cache,    \* InstrumentCache._instruments
    call,     \* the call in progress
    gen,      \* ghost: generations of instruments so far
    foreign,  \* ghost: instruments that other users removed
    calls,    \* ghost: calls made
    others    \* ghost: changes other users made

vars == <<hw, mode, cache, call, gen, foreign, calls, others>>

Modes == {"open", "loopback"}

\* The call: its scope, the step it waits for, its write attempt, the
\* instruments it listed and the cache at its start; `ended` says how the
\* last call ended.
Stages == {"none", "probe", "write", "discard", "mode", "list", "readback", "publish"}
Kinds == {"none", "connect", "deploy", "replace", "refresh", "clear", "mode"}

Idle(ended) == [kind |-> "none", specs |-> {}, append |-> FALSE, units |-> {},
                clear |-> FALSE, to |-> "open",
                stage |-> "none", try |-> 1, listed |-> {},
                before |-> {}, ended |-> ended]

Begin(kind, stage) ==
    [Idle("no") EXCEPT !.kind = kind, !.stage = stage, !.before = cache]

CallRecords == [kind : Kinds, specs : SUBSET Specs, append : BOOLEAN,
                units : SUBSET Units, clear : BOOLEAN, to : Modes,
                stage : Stages, try : 1..DeployAttempts,
                listed : SUBSET Instruments, before : SUBSET Instruments,
                ended : {"no", "ok", "error"}]

SpecPorts(specs) == {s.port : s \in specs}
SpecAliases(specs) == {s.alias : s \in specs}
SpecOf(i) == [alias |-> i.alias, port |-> i.port]

Init ==
    /\ hw \in SUBSET {[alias |-> s.alias, port |-> s.port, gen |-> 0] : s \in Placements}
    /\ mode = [u \in Units |-> "open"]
    /\ cache = {}
    /\ call = Idle("ok")
    /\ gen = 0
    /\ foreign = {}
    /\ calls = 0
    /\ others = 0

Starting == /\ call.stage = "none"
            /\ calls < MaxCalls
            /\ calls' = calls + 1

\* The call ends with an exception / normally; nothing else changes in it.
Fails == call' = Idle("error")
Ends == call' = Idle("ok")

-----------------------------------------------------------------------------
(* Calls, up to their first request.                                       *)

\* connect: the cache is cleared before the units are probed.
Connect(units) ==
    /\ Starting
    /\ cache' = {}
    /\ call' = [Begin("connect", "probe") EXCEPT !.units = units]
    /\ UNCHANGED <<hw, mode, gen, foreign, others>>

Disconnect ==
    /\ Starting
    /\ cache' = {}
    /\ Ends
    /\ UNCHANGED <<hw, mode, gen, foreign, others>>

BeginDeploy_KeepsCache(specs, append) ==
    /\ Starting
    /\ call' = [Begin("deploy", "write") EXCEPT !.specs = specs,
                                                !.append = append]
    /\ UNCHANGED <<hw, mode, cache, gen, foreign, others>>

\* _deploy_and_refresh: the ports are invalidated before anything is written.
BeginDeploy(specs, append) ==
    /\ Starting
    /\ cache' \in ReplacePorts(cache, SpecPorts(specs), {})
    /\ call' = [Begin("deploy", "write") EXCEPT !.specs = specs,
                                                  !.append = append]
    /\ UNCHANGED <<hw, mode, gen, foreign, others>>

Deploy(specs) == BeginDeploy(specs, FALSE)

\* deploy_instrument: an alias cached on another port is refused.
DeployOne(spec, append) ==
    /\ \A i \in cache : i.alias = spec.alias => i.port = spec.port
    /\ BeginDeploy({spec}, append)

\* The whole port is invalidated.
Replace_WholePort(spec) ==
    /\ spec \in {SpecOf(i) : i \in cache}
    /\ Starting
    /\ cache' \in ReplacePorts(cache, {spec.port}, {})
    /\ call' = [Begin("replace", "write") EXCEPT !.specs = {spec},
                                                 !.append = TRUE]
    /\ UNCHANGED <<hw, mode, gen, foreign, others>>

\* replace_instruments: only the alias is invalidated.
Replace(spec) ==
    /\ spec \in {SpecOf(i) : i \in cache}
    /\ Starting
    /\ cache' \in ReplaceAliases(cache, {spec.alias}, {})
    /\ call' = [Begin("replace", "write") EXCEPT !.specs = {spec},
                                                   !.append = TRUE]
    /\ UNCHANGED <<hw, mode, gen, foreign, others>>

\* refresh_instrument_cache reads first; None is every unit.
Refresh(units) ==
    /\ Starting
    /\ call' = [Begin("refresh", "list") EXCEPT !.units = units]
    /\ UNCHANGED <<hw, mode, cache, gen, foreign, others>>

\* clear_instruments, up to the session on the unit's ports.
Clear(u) ==
    /\ Starting
    /\ call' = [Begin("clear", "probe") EXCEPT !.units = {u}]
    /\ UNCHANGED <<hw, mode, cache, gen, foreign, others>>

ConfigureMonitorMode_Unguarded(u, to, clear) ==
    /\ Starting
    /\ call' = [Begin("mode", "probe") EXCEPT !.units = {u}, !.to = to,
                                              !.clear = clear]
    /\ UNCHANGED <<hw, mode, cache, gen, foreign, others>>

\* configure_monitor_mode: refused while instruments of the unit are cached,
\* unless they are to be cleared; a mode that is already set ends the call.
ConfigureMonitorMode(u, to, clear) ==
    /\ clear \/ OnUnits(cache, {u}) = {}
    /\ Starting
    /\ call' = [Begin("mode", "probe") EXCEPT !.units = {u}, !.to = to,
                                                !.clear = clear]
    /\ UNCHANGED <<hw, mode, cache, gen, foreign, others>>

-----------------------------------------------------------------------------
(* Requests.  A request that fails may have been carried out in part.      *)

\* Any request but a write may fail: the call ends.  A failed connect ends in
\* disconnect, which clears the cache.
RequestFails ==
    /\ call.stage \in {"probe", "discard", "mode", "list", "readback"}
    /\ cache' = IF call.kind = "connect" THEN {} ELSE cache
    /\ Fails
    /\ UNCHANGED <<hw, mode, gen, foreign, calls, others>>

\* The units exist; None and a list of units go on to read, [] does not.
Connected ==
    /\ call.kind = "connect" /\ call.stage = "probe"
    /\ IF call.units = {} THEN Ends ELSE call' = [call EXCEPT !.stage = "list"]
    /\ UNCHANGED <<hw, mode, cache, gen, foreign, calls, others>>

\* The unit's ports were discovered: its cache is invalidated, then all its
\* instruments are discarded.  For a monitor mode the session comes first,
\* and a call that does not clear goes straight to the mode.
Discovered ==
    /\ call.kind \in {"clear", "mode"} /\ call.stage = "probe"
    /\ IF call.kind = "mode" /\ ~call.clear
       THEN /\ UNCHANGED cache
            /\ IF \A u \in call.units : mode[u] = call.to
               THEN Ends
               ELSE call' = [call EXCEPT !.stage = "mode"]
       ELSE /\ cache' \in ReplaceUnits(cache, call.units, {})
            /\ call' = [call EXCEPT !.stage = "discard"]
    /\ UNCHANGED <<hw, mode, gen, foreign, calls, others>>

\* discard_instruments on every port; the requests that are answered are
\* carried out, of the others some may be.
Discard(ports) ==
    /\ call.stage = "discard"
    /\ ports \subseteq {p \in Ports : UnitOf[p] \in call.units}
    /\ hw' = hw \ OnPorts(hw, ports)
    /\ \/ /\ {p \in Ports : UnitOf[p] \in call.units} \subseteq ports
          /\ IF call.kind = "clear" THEN Ends
             ELSE call' = [call EXCEPT !.stage = "mode"]
       \/ Fails
    /\ UNCHANGED <<mode, cache, gen, foreign, calls, others>>

\* configure_unit: the server refuses it while instruments are deployed.  The
\* answer may be lost or tell another mode: the call raises, the mode is set.
ModeSet ==
    /\ call.stage = "mode"
    /\ OnUnits(hw, call.units) = {}
    /\ mode' = [u \in Units |-> IF u \in call.units THEN call.to ELSE mode[u]]
    /\ Ends \/ Fails
    /\ UNCHANGED <<hw, cache, gen, foreign, calls, others>>

\* The instruments that writing specs on `ports` leaves on the hardware: the
\* deployed ones of a new generation, beside the port's others if appended.
Written(specs, ports, append) ==
    LET new == {s \in specs : s.port \in ports}
        kept == {i \in hw : \/ i.port \notin ports
                            \/ append /\ SpecOf(i) \notin new}
    IN kept \cup {[alias |-> s.alias, port |-> s.port, gen |-> gen + 1] : s \in new}

\* One attempt of _deploy_port_batches; `ports` are those it got to write.  A
\* replacement of whole ports is tried again with all of them, an append is not.
Write(ports) ==
    /\ call.stage = "write"
    /\ ports \subseteq SpecPorts(call.specs)
    /\ hw' = Written(call.specs, ports, call.append)
    /\ gen' = gen + 1
    /\ \/ /\ ports = SpecPorts(call.specs)
          /\ call' = IF call.kind = "replace"
                     THEN [call EXCEPT
                             !.stage = "readback",
                             !.listed = {i \in hw' : SpecOf(i) \in call.specs}]
                     ELSE [call EXCEPT !.stage = "list"]
       \/ IF call.append \/ call.try >= DeployAttempts THEN Fails
          ELSE call' = [call EXCEPT !.try = @ + 1]
    /\ UNCHANGED <<mode, cache, foreign, calls, others>>

\* list_resource_infos, restricted to the units that the call asks for or that
\* its ports belong to.
InScope(infos) == IF call.kind = "deploy"
                  THEN OnUnits(infos, {UnitOf[p] : p \in SpecPorts(call.specs)})
                  ELSE OnUnits(infos, call.units)

List ==
    /\ call.stage = "list"
    /\ call' = [call EXCEPT !.stage = "readback", !.listed = InScope(hw)]
    /\ UNCHANGED <<hw, mode, cache, gen, foreign, calls, others>>

\* Without the comparison of the readback with the request.
Published_AnyReadback ==
    CASE call.kind = "connect" -> OnePerAlias(call.listed)
      [] call.kind = "refresh" -> ReplaceUnits(cache, call.units, call.listed)
      [] call.kind = "deploy"  ->
            ReplacePorts(cache, SpecPorts(call.specs), call.listed)
      [] call.kind = "replace" ->
            ReplaceAliases(cache, SpecAliases(call.specs), call.listed)

\* What the call may publish: nothing when it refuses what it read back.
Published ==
    CASE call.kind = "connect" -> OnePerAlias(call.listed)
      [] call.kind = "refresh" ->
            IF call.units = Units THEN ReplaceWhole(call.listed)
            ELSE ReplaceUnits(cache, call.units, call.listed)
      [] call.kind = "deploy"  ->
            IF call.specs \subseteq {SpecOf(i) : i \in call.listed}
            THEN ReplacePorts(cache, SpecPorts(call.specs), call.listed)
            ELSE {}
      [] call.kind = "replace" ->
            ReplaceAliases(cache, SpecAliases(call.specs), call.listed)

\* get_instrument_info of each listed id: it raises if one is gone.  What lies
\* outside the ports of a deployment is read all the same, and dropped then.
ReadBack ==
    /\ call.stage = "readback"
    /\ call.listed \subseteq hw
    /\ call' = [call EXCEPT !.stage = "publish",
                            !.listed = IF call.kind = "deploy"
                                       THEN OnPorts(@, SpecPorts(call.specs)) ELSE @]
    /\ UNCHANGED <<hw, mode, cache, gen, foreign, calls, others>>

\* The result is validated and published, or the call ends in an error.
Publish ==
    /\ call.stage = "publish"
    /\ \/ cache' \in Published /\ Ends
       \/ Published = {} /\ Fails /\ UNCHANGED cache
    /\ UNCHANGED <<hw, mode, gen, foreign, calls, others>>

-----------------------------------------------------------------------------
\* Another user replaces or discards the instruments of one port, unless our
\* session has it locked: the one that discards and then sets the mode.
Foreign(p, specs) ==
    /\ others < MaxForeign
    /\ others' = others + 1
    /\ call.stage = "mode" /\ call.clear => UnitOf[p] \notin call.units
    /\ hw' = Written(specs, {p}, FALSE)
    /\ gen' = gen + 1
    /\ foreign' = foreign \cup (hw \ hw')
    /\ UNCHANGED <<mode, cache, call, calls>>

Calls ==
    \/ \E us \in {{}, Units} \cup {{u} : u \in Units} : Connect(us)
    \/ Disconnect
    \/ \E c \in Configurations : Deploy(c)
    \/ \E s \in Specs, append \in BOOLEAN : DeployOne(s, append)
    \/ \E s \in Specs : Replace(s)
    \/ \E us \in {Units} \cup {{u} : u \in Units} : Refresh(us)
    \/ \E u \in Units : \/ Clear(u)
                        \/ \E to \in Modes, clear \in BOOLEAN :
                              ConfigureMonitorMode(u, to, clear)

Requests ==
    \/ RequestFails \/ Connected \/ Discovered \/ ModeSet \/ List \/ ReadBack \/ Publish
    \/ \E ports \in SUBSET Ports : Discard(ports) \/ Write(ports)

OtherUsers ==
    \E p \in Ports : \E specs \in SUBSET {s \in Placements : s.port = p} :
        Foreign(p, specs)

\* Every call may have been made.
Done == /\ calls = MaxCalls /\ call.stage = "none"
        /\ UNCHANGED vars

Next == Calls \/ Requests \/ OtherUsers \/ Done

Spec == Init /\ [][Next]_vars

-----------------------------------------------------------------------------
(* Properties.                                                             *)

TypeOK ==
    /\ hw \subseteq Instruments
    /\ mode \in [Units -> Modes]
    /\ cache \subseteq Instruments
    /\ call \in CallRecords
    /\ gen \in Nat
    /\ foreign \subseteq Instruments
    /\ calls \in 0..MaxCalls
    /\ others \in 0..MaxForeign

\* A cached instrument is on the hardware, unless another user removed it: no
\* call of ours, whichever of its requests fail, leaves behind a cached
\* instrument that the call itself replaced or discarded.
CacheTruth == cache \subseteq hw \cup foreign

\* What a call may change in the cache, as its documentation delimits it.
InCallScope(i) ==
    CASE call.kind = "deploy"  -> i.port \in SpecPorts(call.specs)
      [] call.kind = "replace" -> i.alias \in SpecAliases(call.specs)
      [] call.kind = "connect" -> TRUE
      [] OTHER                 -> UnitOf[i.port] \in call.units

Busy == call.stage # "none"
EndsWith(how) == Busy /\ call'.stage = "none" /\ call'.ended = how

\* A call leaves the cache entries outside its scope as they were, however it
\* ends: other ports, other aliases of the port, other units.
OutOfScopeKept ==
    [][Busy => {i \in cache' : ~InCallScope(i)}
               = {i \in call.before : ~InCallScope(i)}]_vars

\* The cache tells how a call went.  A call that wrote to the hardware and failed
\* leaves nothing in its scope cached, and so does a failed connect; a failed
\* refresh keeps what was there.  A deployment that succeeds has every requested
\* instrument cached, as it was put on the hardware since the call began and not
\* as it was before; only another user may have removed it again.
CacheTellsOutcome ==
    [][/\ EndsWith("error") =>
            CASE call.kind \in {"deploy", "replace", "connect"} ->
                    \A i \in cache' : ~InCallScope(i)
              [] call.kind = "refresh" -> cache' = call.before
              [] call.stage = "discard" -> \A i \in cache' : ~InCallScope(i)
              [] OTHER -> cache' \subseteq call.before
       /\ (EndsWith("ok") /\ call.kind \in {"deploy", "replace"}) =>
            \A s \in call.specs :
                \E i \in cache' :
                    SpecOf(i) = s /\ i \in (hw \cup foreign) \ call.before]_vars

\* The monitor mode of a unit changes only when none of its instruments is
\* cached, and none is deployed: no cached instrument was made for another mode.
ModeChangesOnEmptyUnit ==
    [][\A u \in Units : mode'[u] # mode[u]
         => OnUnits(cache, {u}) = {} /\ OnUnits(hw, {u}) = {}]_vars
================================================================================
