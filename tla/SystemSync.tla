------------------------------ MODULE SystemSync ------------------------------
(***************************************************************************)
(* SystemManager and the QuEL-1 synchronizer: the experiment system (the   *)
(* model), the backend settings (raw dumps of the boxes), the controller's *)
(* box cache and configuration database, and the hardware, with the        *)
(* temporary overrides of frequencies and of backend settings.             *)
(*                                                                         *)
(* One session uses the manager, so its operations follow one another; the *)
(* hardware has other users.  A value stands for what is configured at a   *)
(* port (LO, CNCO, FNCO of its channel).  The path of a target is its      *)
(* ports: the generator port and, for a readout target, the capture port.  *)
(* Which targets exist changes: loading another configuration drops and    *)
(* adds labels, a registration adds one.                                   *)
(***************************************************************************)
EXTENDS Integers, Sequences

CONSTANTS
    Boxes,
    Ports,
    BoxOf,         \* BoxOf[p]: the box of port p
    Targets,       \* labels that targets may have
    PathOf,        \* PathOf[t]: the ports of t, the generator port first
    Vals,          \* what can be configured at a port
    Freqs,         \* frequencies of targets
    Configs,       \* bound: what configuration files say of ports and targets
    Custom,        \* bound: custom targets, their frequency and what is set for their channel
    NoVal,         \* not among the settings, not in the cache, not a target
    MaxCalls,      \* bound: operations of the session
    MaxForeign,    \* bound: changes made by other users
    MaxOverrides   \* bound: overrides nested in one another

ASSUME BoxOfAssumption == BoxOf \in [Ports -> Boxes]
ASSUME PathOfAssumption == PathOf \in [Targets -> Ports \X Ports]
ASSUME NoValAssumption == NoVal \notin Vals \union Freqs
ASSUME ConfigsAssumption == Configs \subseteq [es : [Ports -> Vals], freq : [Targets -> Freqs \union {NoVal}]]
ASSUME CustomAssumption == Custom \subseteq Targets \X Freqs \X Vals
ASSUME BoundsAssumption == MaxCalls \in Nat /\ MaxForeign \in Nat /\ MaxOverrides \in Nat

Known == [Ports -> Vals \union {NoVal}]
Nothing == [p \in Ports |-> NoVal]

\* Frequencies of the targets that exist.
Tunings == [Targets -> Freqs \union {NoVal}]
NoTarget == [t \in Targets |-> NoVal]
Labels(f) == {t \in Targets : f[t] # NoVal}

VARIABLES
    es,         \* ExperimentSystem: parameters of the ports
    freq,       \* ExperimentSystem: its targets with their frequencies
    db,         \* system configuration database: targets with their frequencies
    settings,   \* SystemManager._backend_settings
    cache,      \* _box_config_cache of the connected boxes
    conn,       \* boxes are connected
    cached,     \* SystemManager._cached_state
    hw,         \* the hardware
    overrides,  \* the temporary overrides that are active, innermost last
    sync,       \* the pull or push in progress
    unhurt,     \* ghost: no write of the push failed, nobody else wrote since
    clean,      \* ghost: the last synchronization covered the whole model
    stale,      \* ghost: an override left its traces in the cache, or in a snapshot of it
    learned,    \* ghost: settings changed under an active override
    torn,       \* ghost: labels whose frequency was last changed on one side only
    before,     \* ghost: what the innermost overrides found, as far as it can be put back
    last,       \* ghost: how the last operation ended, as far as a property asks
    calls, foreign

ghosts == <<unhurt, clean, stale, learned, torn, before, last>>
bounds == <<calls, foreign>>
vars == <<es, freq, db, settings, cache, conn, cached, hw, overrides, sync,
          ghosts, bounds>>

PortsOf(boxes) == {p \in Ports : BoxOf[p] \in boxes}
PathPorts(t) == {PathOf[t][1], PathOf[t][2]}

\* f with the ports of `on` taken from g
Merged(f, on, g) == [p \in Ports |-> IF p \in on THEN g[p] ELSE f[p]]
With(f, on, v) == [p \in Ports |-> IF p \in on THEN v ELSE f[p]]

\* f with the frequencies of some labels taken from g
Tuned(f, labels, g) == [t \in Targets |-> IF t \in labels THEN g[t] ELSE f[t]]

\* The parts of a SystemState; its equality compares hashes of the parts.
\* Target frequencies are not among what the hash of the model covers.
State(e, d, s) == [es |-> e, db |-> d, settings |-> s]
NoState == State(Nothing, NoTarget, Nothing)
States == {NoState} \union [es : [Ports -> Vals], db : Tunings, settings : Known]

Overrides ==
    [kind : {"settings"}, target : Targets, original : Vals, snapshot : Known]
      \union [kind : {"frequencies"}, labels : SUBSET Targets, freqs : Tunings,
              bound : BOOLEAN]

Now == [es |-> es, hw |-> hw, cache |-> cache, freq |-> freq, db |-> db]
Moments == [es : [Ports -> Vals], hw : [Ports -> Vals], cache : Known,
            freq : Tunings, db : Tunings]

NoSync == [kind |-> "none", stage |-> "none", boxes |-> {}, read |-> {},
           dump |-> Nothing, before |-> [settings |-> Nothing, cache |-> Nothing]]

Syncs == [kind : {"none", "pull", "push"},
          stage : {"none", "written", "fetched", "stored", "mirrored"},
          boxes : SUBSET Boxes, read : SUBSET Boxes, dump : Known,
          before : [settings : Known, cache : Known]]

Init ==
    /\ \E config \in Configs : es = config.es /\ freq = config.freq
    /\ db = freq
    /\ settings = Nothing
    /\ cache = Nothing
    /\ conn = FALSE
    /\ cached = State(es, db, settings)
    /\ hw \in [Ports -> Vals]
    /\ overrides = <<>>
    /\ sync = NoSync
    /\ unhurt = FALSE
    /\ clean = FALSE
    /\ stale = FALSE
    /\ learned = FALSE
    /\ torn = {}
    /\ before = <<>>
    /\ last = "other"
    /\ calls = 0
    /\ foreign = 0

Calls(outcome) == /\ sync = NoSync
                  /\ calls < MaxCalls
                  /\ calls' = calls + 1
                  /\ last' = outcome
                  /\ UNCHANGED foreign

\* Not counted: leaving an override, one for each entering, and connecting.
Free(outcome) == sync = NoSync /\ last' = outcome /\ UNCHANGED bounds

Active == overrides # <<>>

(***************************************************************************)
(* Connecting and loading.                                                 *)
(***************************************************************************)

\* A box pool starts with an empty cache.
Connect ==
    /\ ~conn
    /\ Free("other")
    /\ conn' = TRUE
    /\ cache' = Nothing
    /\ stale' = (stale /\ Active)
    /\ UNCHANGED <<es, freq, db, settings, cached, hw, overrides, sync,
                   unhurt, clean, learned, torn>>

Disconnect ==
    /\ conn
    /\ Calls("other")
    /\ conn' = FALSE
    /\ cache' = Nothing
    /\ stale' = (stale /\ Active)
    /\ UNCHANGED <<es, freq, db, settings, cached, hw, overrides, sync,
                   unhurt, clean, learned, torn>>

\* load with the controller kept: the model comes from the files, its targets
\* are defined in the database, which keeps the others, the cache is cleared
\* and the settings are kept.
Load(model, freqs) ==
    /\ Calls("other")
    /\ es' = model
    /\ freq' = freqs
    /\ db' = Tuned(db, Labels(freqs), freqs)
    /\ cache' = Nothing
    /\ cached' = State(model, db', settings)
    /\ clean' = FALSE
    /\ stale' = (stale /\ Active)
    /\ torn' = {}
    /\ UNCHANGED <<settings, conn, hw, overrides, sync, unhurt,
                   learned>>

\* The model is replaced but not carried to the controller: mock mode, or
\* several boxes without a clock master.
LoadWithoutController(model, freqs) ==
    /\ Calls("other")
    /\ es' = model
    /\ freq' = freqs
    /\ torn' = Targets
    /\ UNCHANGED <<db, settings, cache, conn, cached, hw, overrides, sync,
                   unhurt, clean, stale, learned>>

\* load with another controller, which knows nothing of the boxes.  An override
\* of frequencies stays bound to the controller that it changed.
NewController(model, freqs) ==
    /\ es' = model
    /\ freq' = freqs
    /\ settings' = Nothing
    /\ cache' = Nothing
    /\ conn' = FALSE
    /\ clean' = FALSE
    /\ stale' = (stale /\ Active)
    /\ learned' = Active
    /\ overrides' = [i \in DOMAIN overrides |->
                        IF overrides[i].kind = "frequencies"
                        THEN [overrides[i] EXCEPT !.bound = FALSE] ELSE overrides[i]]
    /\ UNCHANGED <<hw, sync, unhurt>>

LoadController(model, freqs) ==
    /\ Calls("other")
    /\ NewController(model, freqs)
    /\ db' = freqs
    /\ cached' = State(model, freqs, Nothing)
    /\ torn' = {}

\* In mock mode, or without a clock master, the model is not carried to it.
LoadControllerOnly(model, freqs) ==
    /\ Calls("other")
    /\ NewController(model, freqs)
    /\ db' = NoTarget
    /\ torn' = Targets
    /\ UNCHANGED cached

(***************************************************************************)
(* A synchronization in progress.  Both pull and push end the same way:    *)
(* dump boxes, store the merged settings, rebuild the controller's cache.  *)
(* A dump that fails or is unusable is left out of `read`.                 *)
(***************************************************************************)

Overlay(known, dump) ==
    [p \in Ports |-> IF dump[p] = NoVal THEN known[p] ELSE dump[p]]

\* Whether the model is still what was last synchronized as a whole.
Unchanged(model) == clean /\ model = cached.es

Fetched(kind, read) ==
    [NoSync EXCEPT !.kind = kind, !.stage = "fetched", !.read = read,
                   !.dump = [p \in Ports |-> IF p \in PortsOf(read) THEN hw[p] ELSE NoVal],
                   !.before = [settings |-> settings, cache |-> cache]]

SyncStep(from) == sync.stage = from /\ UNCHANGED <<freq, conn, hw, overrides, torn, bounds>>

StoreSettings ==
    /\ SyncStep("fetched")
    /\ settings' = Overlay(settings, sync.dump)
    /\ sync' = [sync EXCEPT !.stage = "stored"]
    /\ last' = "other"
    /\ UNCHANGED <<es, db, cache, cached, unhurt, clean, stale, learned>>

UpdateCache_FetchedOnly ==
    /\ SyncStep("stored")
    /\ conn
    /\ cache' = Overlay(cache, sync.dump)
    /\ sync' = [sync EXCEPT !.stage = "mirrored"]
    /\ last' = "other"
    /\ UNCHANGED <<es, db, settings, cached, unhurt, clean, stale, learned>>

UpdateCache ==
    /\ SyncStep("stored")
    /\ conn
    /\ cache' = Overlay(cache, settings)
    /\ sync' = [sync EXCEPT !.stage = "mirrored"]
    /\ last' = "other"
    /\ UNCHANGED <<es, db, settings, cached, unhurt, clean, stale, learned>>

Synchronized(outcome) ==
    /\ cached' = State(es', db, settings)
    /\ stale' = (stale /\ sync.read # Boxes)
    /\ learned' = (learned \/ Active)
    /\ sync' = NoSync
    /\ last' = outcome
    /\ UNCHANGED <<db, settings, cache, unhurt>>

\* Ports of a dump that do not fit the model are skipped.
PullApplied(skipped) ==
    /\ SyncStep("mirrored")
    /\ sync.kind = "pull"
    /\ es' = Overlay(es, [p \in Ports |-> IF p \in skipped THEN NoVal ELSE sync.dump[p]])
    /\ clean' = (skipped = {} /\ (sync.read = Boxes \/ Unchanged(es)))
    /\ Synchronized("pulled")

PushFinished ==
    /\ SyncStep("mirrored")
    /\ sync.kind = "push"
    /\ es' = es
    /\ clean' = (unhurt /\ (sync.read = Boxes \/ clean))
    /\ Synchronized("pushed")

SyncRaises_KeepsCache ==
    /\ \/ SyncStep("stored") /\ ~conn
       \/ SyncStep("mirrored") /\ sync.kind = "pull"
    /\ settings' = sync.before.settings
    /\ sync' = NoSync
    /\ last' = "other"
    /\ UNCHANGED <<es, db, cache, cached, unhurt, clean, stale, learned>>

\* The cache of boxes that are not connected cannot be written; a pull may
\* also find a dump that it cannot apply.  Settings and cache are put back.
SyncRaises ==
    /\ \/ SyncStep("stored") /\ ~conn
       \/ SyncStep("mirrored") /\ sync.kind = "pull"
    /\ settings' = sync.before.settings
    /\ cache' = IF conn THEN sync.before.cache ELSE cache
    /\ sync' = NoSync
    /\ last' = "other"
    /\ UNCHANGED <<es, db, cached, unhurt, clean, stale, learned>>

Pull(read) ==
    /\ Calls("other")
    /\ sync' = Fetched("pull", read)
    /\ UNCHANGED <<es, freq, db, settings, cache, conn, cached, hw, overrides,
                   unhurt, clean, stale, learned, torn>>

\* push asks first; when the user declines, the cache is rebuilt, which raises
\* when the boxes are not connected.
DeclineRaises ==
    /\ ~conn
    /\ Calls("other")
    /\ UNCHANGED <<settings, cache, conn, cached, hw, overrides, sync, unhurt,
                   clean, stale, learned>>

Declined(model) ==
    /\ conn
    /\ Calls("declined")
    /\ cache' = Overlay(cache, settings)
    /\ cached' = State(model, db', settings)
    /\ clean' = Unchanged(model)
    /\ UNCHANGED <<settings, conn, hw, overrides, sync, unhurt, stale, learned>>

Writes_ChangedOnly(model, boxes, failed, kept) ==
    /\ Calls("other")
    /\ hw' = Merged(hw, {p \in PortsOf(boxes) \ kept : settings[p] # model[p]}, model)
    /\ sync' = [NoSync EXCEPT !.kind = "push", !.stage = "written", !.boxes = boxes]
    /\ unhurt' = (failed = {})
    /\ clean' = Unchanged(model)
    /\ UNCHANGED <<settings, cache, conn, cached, overrides, stale, learned>>

\* A failed write of a port is logged, whether it had an effect or not.
Writes(model, boxes, failed, kept) ==
    /\ Calls("other")
    /\ hw' = Merged(hw, PortsOf(boxes) \ kept, model)
    /\ sync' = [NoSync EXCEPT !.kind = "push", !.stage = "written", !.boxes = boxes]
    /\ unhurt' = (failed = {})
    /\ clean' = Unchanged(model)
    /\ UNCHANGED <<settings, cache, conn, cached, overrides, stale, learned>>

PushDeclined == UNCHANGED <<es, freq, db, torn>> /\ (Declined(es) \/ DeclineRaises)

PushWrites(boxes, failed, kept) ==
    Writes(es, boxes, failed, kept) /\ UNCHANGED <<es, freq, db, torn>>

PushReads_Assumed(read) ==
    /\ SyncStep("written")
    /\ read \subseteq sync.boxes
    /\ sync' = [Fetched("push", read) EXCEPT
                  !.dump = [p \in Ports |-> IF p \in PortsOf(read) THEN es[p] ELSE NoVal]]
    /\ last' = "other"
    /\ UNCHANGED <<es, db, settings, cache, cached, unhurt, clean, stale, learned>>

PushReads(read) ==
    /\ SyncStep("written")
    /\ read \subseteq sync.boxes
    /\ sync' = Fetched("push", read)
    /\ last' = "other"
    /\ UNCHANGED <<es, db, settings, cache, cached, unhurt, clean, stale, learned>>

\* A custom target: the database and the model know it before its channel is
\* changed and the user is asked whether its box may be written.
Defines(t, f) ==
    /\ freq' = [freq EXCEPT ![t] = f]
    /\ db' = [db EXCEPT ![t] = f]
    /\ torn' = torn \ {t}

Registers(t, f, v) == Defines(t, f) /\ es' = [es EXCEPT ![PathOf[t][1]] = v]

\* Without a change of the channel, or when its frequency cannot be set.
RegisterOnly(t, f) ==
    /\ Defines(t, f)
    /\ Calls("other")
    /\ UNCHANGED <<es, settings, cache, conn, cached, hw, overrides, sync, unhurt,
                   clean, stale, learned>>

RegisterDeclined(t, f, v) == Registers(t, f, v) /\ (Declined(es') \/ DeclineRaises)

RegisterWrites(t, f, v, failed, kept) ==
    Registers(t, f, v) /\ Writes(es', {BoxOf[PathOf[t][1]]}, failed, kept)

(***************************************************************************)
(* Temporary overrides.  What happens before the `try` is not undone.      *)
(***************************************************************************)

CanOverride == sync = NoSync /\ calls < MaxCalls /\ Len(overrides) < MaxOverrides

\* Entered on `agrees`, an override can be undone: what it found is kept as long
\* as nothing else changes it.
Enter(override, agrees) ==
    /\ overrides' = Append(overrides, override)
    /\ before' = IF agrees THEN Append(before, Now) ELSE <<>>

Innermost == overrides[Len(overrides)]

Leave(kept) ==
    /\ overrides' = SubSeq(overrides, 1, Len(overrides) - 1)
    /\ before' = SubSeq(before, 1, kept)
    /\ learned' = (learned /\ Len(overrides) > 1)

\* Model and hardware have one value at the path of t.
PathAgrees(t) == \A p \in PathPorts(t) : es[p] = es[PathOf[t][1]] /\ hw[p] = es[p]

\* modified_backend_settings: every port of the path is written and its
\* cache entry changed in place, then the model follows.  A box that is not
\* cached raises, so the box pool has to know the whole path.
EnterSettings(t, v) ==
    /\ CanOverride
    /\ conn
    /\ t \in Labels(freq)
    /\ \A p \in PathPorts(t) : cache[p] # NoVal
    /\ Calls("other")
    /\ hw' = With(hw, PathPorts(t), v)
    /\ cache' = With(cache, PathPorts(t), v)
    /\ es' = With(es, PathPorts(t), v)
    /\ Enter([kind |-> "settings", target |-> t, original |-> es[PathOf[t][1]],
              snapshot |-> cache], PathAgrees(t))
    /\ UNCHANGED <<freq, db, settings, conn, cached, sync, unhurt,
                   clean, stale, learned, torn>>

\* A write, the cache entry or the initialization of the units raises after
\* some ports were written and, of these, some cached.
EnterSettingsFails(t, v, written, mirrored) ==
    /\ CanOverride
    /\ Calls("other")
    /\ t \in Labels(freq)
    /\ mirrored \subseteq written /\ written \subseteq PathPorts(t)
    /\ conn \/ mirrored = {}
    /\ \A p \in mirrored : cache[p] # NoVal
    /\ PathOf[t][2] \in written => PathOf[t][1] \in mirrored
    /\ hw' = With(hw, written, v)
    /\ cache' = With(cache, mirrored, v)
    /\ stale' = (stale \/ mirrored # {})
    /\ UNCHANGED <<es, freq, db, settings, conn, cached, overrides, sync,
                   unhurt, clean, learned, torn>>

LeavesSettings == Active /\ Innermost.kind = "settings"

LeaveSettings_GeneratorOnly ==
    /\ LeavesSettings
    /\ conn
    /\ Innermost.target \in Labels(freq)
    /\ Free("left")
    /\ es' = With(es, PathPorts(Innermost.target), Innermost.original)
    /\ hw' = With(hw, {PathOf[Innermost.target][1]}, Innermost.original)
    /\ cache' = Innermost.snapshot
    /\ stale' = (stale \/ learned)
    /\ Leave(Len(before) - 1)
    /\ UNCHANGED <<freq, db, settings, conn, cached, sync, unhurt, clean, torn>>

\* The `finally` clause: model, hardware, and the whole cache as it was.
LeaveSettings ==
    /\ LeavesSettings
    /\ conn
    /\ Innermost.target \in Labels(freq)
    /\ Free("left")
    /\ es' = With(es, PathPorts(Innermost.target), Innermost.original)
    /\ hw' = With(hw, PathPorts(Innermost.target), Innermost.original)
    /\ cache' = Innermost.snapshot
    /\ stale' = (stale \/ learned)
    /\ Leave(Len(before) - 1)
    /\ UNCHANGED <<freq, db, settings, conn, cached, sync, unhurt, clean, torn>>

\* A write of the `finally` clause raises, or the cache is not there any more.
\* It raises at its first step when a load has dropped the target.
LeaveSettingsFails(written) ==
    /\ LeavesSettings
    /\ LET t == Innermost.target IN
         /\ written \subseteq PathPorts(t)
         /\ PathOf[t][2] \in written => PathOf[t][1] \in written
         /\ t \in Labels(freq) \/ written = {}
         /\ es' = IF t \in Labels(freq) THEN With(es, PathPorts(t), Innermost.original) ELSE es
    /\ Free("other")
    /\ hw' = With(hw, written, Innermost.original)
    /\ stale' = (stale \/ conn)
    /\ Leave(0)
    /\ UNCHANGED <<freq, db, settings, cache, conn, cached, sync, unhurt,
                   clean, torn>>

\* Changing frequencies breaks off at a label that the model does not have
\* (and then the controller is not asked), or at one that the controller
\* refuses when all of the model is changed already.
Refused(labels, known, accepted) ==
    /\ known \subseteq labels \intersect Labels(freq)
    /\ accepted \subseteq known \intersect Labels(db)
    /\ accepted # labels
    /\ labels \subseteq Labels(freq) => known = labels
    /\ accepted # {} => known = labels

\* modified_frequencies of some labels, the model first.
EnterFrequencies(labels, f) ==
    /\ CanOverride
    /\ labels \subseteq Labels(freq) \intersect Labels(db)
    /\ Calls("other")
    /\ freq' = Tuned(freq, labels, f)
    /\ db' = Tuned(db, labels, f)
    /\ torn' = torn \ labels
    /\ Enter([kind |-> "frequencies", labels |-> labels, freqs |-> freq, bound |-> TRUE],
             \A t \in labels : db[t] = freq[t])
    /\ UNCHANGED <<es, settings, cache, conn, cached, hw, sync, unhurt, clean,
                   stale, learned>>

\* What happens before the `try` is not undone.
EnterFrequenciesFails(labels, f, known, accepted) ==
    /\ CanOverride
    /\ Calls("other")
    /\ Refused(labels, known, accepted)
    /\ freq' = Tuned(freq, known, f)
    /\ db' = Tuned(db, accepted, f)
    /\ torn' = (torn \union known) \ accepted
    /\ UNCHANGED <<es, settings, cache, conn, cached, hw, overrides, sync,
                   unhurt, clean, stale, learned>>

LeavesFrequencies ==
    /\ Active
    /\ Innermost.kind = "frequencies"
    /\ UNCHANGED <<es, settings, cache, conn, cached, hw, sync, unhurt, clean, stale>>

LeaveFrequencies_ModelOnly ==
    /\ LeavesFrequencies
    /\ Innermost.labels \subseteq Labels(freq)
    /\ Free("left")
    /\ freq' = Tuned(freq, Innermost.labels, Innermost.freqs)
    /\ torn' = IF Innermost.bound
               THEN torn \ Innermost.labels ELSE torn \union Innermost.labels
    /\ Leave(Len(before) - 1)
    /\ UNCHANGED db

\* An override that is not bound any more restores the old controller.
LeaveFrequencies ==
    /\ LeavesFrequencies
    /\ Innermost.labels \subseteq Labels(freq)
    /\ Free("left")
    /\ freq' = Tuned(freq, Innermost.labels, Innermost.freqs)
    /\ IF Innermost.bound
       THEN /\ db' = Tuned(db, Innermost.labels, Innermost.freqs)
            /\ torn' = torn \ Innermost.labels
       ELSE /\ db' = db
            /\ torn' = torn \union Innermost.labels
    /\ Leave(Len(before) - 1)

\* A load inside the override has dropped one of its labels: the `finally`
\* clause breaks off with the labels before it restored in the model only.
LeaveFrequenciesFails(known, accepted) ==
    /\ LeavesFrequencies
    /\ Free("other")
    /\ Refused(Innermost.labels, known, accepted)
    /\ Innermost.bound \/ accepted = {}
    /\ freq' = Tuned(freq, known, Innermost.freqs)
    /\ db' = Tuned(db, accepted, Innermost.freqs)
    /\ torn' = (torn \union known) \ accepted
    /\ Leave(0)

(***************************************************************************)
(* Other users of the hardware.                                            *)
(***************************************************************************)

Foreign(p, v) ==
    /\ foreign < MaxForeign
    /\ hw[p] # v
    /\ foreign' = foreign + 1
    /\ hw' = [hw EXCEPT ![p] = v]
    /\ unhurt' = (unhurt /\ sync.stage # "written")
    /\ last' = "other"
    /\ UNCHANGED <<es, freq, db, settings, cache, conn, cached, overrides, sync,
                   clean, stale, learned, torn, calls>>

Subsets == SUBSET Boxes \ {{}}

\* Writes that fail, and of these the ones without an effect.
Failures(ports) == {f \in (SUBSET ports) \X (SUBSET ports) : f[2] \subseteq f[1]}

Synchronizing ==
    \/ \E read \in SUBSET Boxes : Pull(read) \/ PushReads(read)
    \/ StoreSettings \/ UpdateCache \/ PushFinished \/ SyncRaises
    \/ \E skipped \in SUBSET Ports : PullApplied(skipped)
    \/ PushDeclined
    \/ \E boxes \in Subsets : \E f \in Failures(PortsOf(boxes)) : PushWrites(boxes, f[1], f[2])

Registering ==
    \E custom \in Custom :
       LET t == custom[1]  f == custom[2]  v == custom[3] IN
         \/ RegisterOnly(t, f) \/ RegisterDeclined(t, f, v)
         \/ \E w \in Failures(PortsOf({BoxOf[PathOf[t][1]]})) :
               RegisterWrites(t, f, v, w[1], w[2])

LabelSets == SUBSET Targets \ {{}}

Refusing ==
    /\ CanOverride
    /\ \/ \E t \in Targets, v \in Vals : \E written, mirrored \in SUBSET PathPorts(t) :
             EnterSettingsFails(t, v, written, mirrored)
       \/ \E labels \in LabelSets, f \in [Targets -> Freqs] :
             \E known, accepted \in SUBSET labels : EnterFrequenciesFails(labels, f, known, accepted)

Overriding ==
    \/ \E t \in Targets, v \in Vals : EnterSettings(t, v)
    \/ \E labels \in LabelSets, f \in [Targets -> Freqs] : EnterFrequencies(labels, f)
    \/ LeaveSettings \/ LeaveFrequencies
    \/ \E written \in SUBSET Ports : LeaveSettingsFails(written)
    \/ \E known, accepted \in SUBSET Targets : LeaveFrequenciesFails(known, accepted)

Lifecycle ==
    \/ Connect \/ Disconnect
    \/ \E config \in Configs :
          \/ Load(config.es, config.freq) \/ LoadWithoutController(config.es, config.freq)
          \/ LoadController(config.es, config.freq)
          \/ LoadControllerOnly(config.es, config.freq)

\* What else changes the model, the hardware or a frequency while overrides are
\* active is not undone by leaving them.
Undisturbed ==
    before' = IF UNCHANGED <<es, hw, freq, db, overrides>> THEN before ELSE <<>>

Next ==
    \/ /\ \/ Lifecycle \/ Synchronizing \/ Registering \/ Refusing
          \/ \E p \in Ports, v \in Vals : Foreign(p, v)
       /\ Undisturbed
    \/ Overriding

Spec == Init /\ [][Next]_vars

(***************************************************************************)
(* Properties.                                                             *)
(***************************************************************************)

Outcomes == {"pulled", "pushed", "declined", "left", "other"}

\* The variables keep their types.
TypeOK ==
    /\ es \in [Ports -> Vals] /\ hw \in [Ports -> Vals]
    /\ freq \in Tunings /\ db \in Tunings
    /\ settings \in Known /\ cache \in Known
    /\ cached \in States
    /\ overrides \in Seq(Overrides) /\ Len(overrides) <= MaxOverrides
    /\ sync \in Syncs
    /\ conn \in BOOLEAN /\ unhurt \in BOOLEAN /\ clean \in BOOLEAN
    /\ stale \in BOOLEAN /\ learned \in BOOLEAN
    /\ torn \in SUBSET Targets
    /\ before \in Seq(Moments)
    /\ last \in Outcomes
    /\ calls \in 0..MaxCalls /\ foreign \in 0..MaxForeign

\* What is_synced answers for these boxes when each of them can be dumped.
IsSynced(boxes) ==
    /\ State(es, db, settings) = cached
    /\ \A p \in PortsOf(boxes) : settings[p] = hw[p]

\* is_synced compares hashes and dumps, never the model with the hardware.
\* When the last synchronization that changed anything covered every box and
\* no write of it failed, "synchronized" means all the same that the model is
\* what the hardware has, whatever overrides were entered and left since.
SyncedMeansAgreement ==
    clean /\ sync = NoSync /\ IsSynced(Boxes) => es = hw

\* The controller's cache of a box is what the settings say of it (the
\* measurement path reads the cache), unless an override broke off or settings
\* were read while one was active, which puts the older snapshot back.
CacheFollowsSettings ==
    conn /\ sync = NoSync /\ ~stale
      /\ (\A i \in DOMAIN overrides : overrides[i].kind = "frequencies")
      => \A p \in Ports : cache[p] \in {NoVal, settings[p]}

\* The model and the controller's database agree on the frequency of every
\* target of the model, through nested overrides, registrations and the loads
\* inside overrides that drop and add targets, except for the labels that an
\* operation which raised, or which never reached the controller, changed on one
\* side only, until a load or an override changes both again.
FrequenciesAgree == \A t \in Labels(freq) \ torn : freq[t] = db[t]

\* When a pull, a push or a declined push returns, the cache has every box
\* that the settings have, those of earlier calls included: a load before it
\* had cleared them all.
SyncRebuildsCache ==
    [][(last' \in {"pulled", "pushed", "declined"}
          => \A p \in Ports : settings'[p] # NoVal => cache'[p] = settings'[p])]_vars

\* An override that was entered where model, hardware and controller agreed puts
\* back all that it found, the model, the frequencies on both sides, the hardware
\* of every port, and the cache if it replaced it: whatever overrides of either
\* kind, also of the same ports and labels, were entered and left inside it, and
\* whatever was pulled, pushed, loaded or connected there that found and left
\* model, hardware and frequencies as they were.
OverrideUndone ==
    [][last' = "left" /\ before # <<>>
         => LET found == before[Len(before)] IN
              /\ es' = found.es /\ hw' = found.hw
              /\ freq' = found.freq /\ db' = found.db
              /\ cache' = IF Innermost.kind = "settings" THEN found.cache ELSE cache]_vars

\* The settings as they were before the synchronization in progress.
Seen == IF sync.stage \in {"stored", "mirrored"} THEN sync.before.settings ELSE settings

\* The settings are a mirror of the hardware: what a synchronization read is
\* published as a whole or not at all, also when its second half raises.
Mirror == INSTANCE HardwareMirror WITH
    dump <- sync.dump,
    seen <- Seen
ImplementsMirror == Mirror!Spec

\* The docstring of cached_state: "Return hash summary captured at last
\* successful sync." (system_manager.py:326)  Not kept: a declined push updates it.
CachedAtSuccessfulSync ==
    [][(cached' # cached => last' # "declined")]_vars
===============================================================================
