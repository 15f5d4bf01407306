# A formal model of qubex

qubex controls superconducting-qubit experiments: it describes a system of
control boxes, deploys instruments on them, turns pulse schedules into batches
of executions and collects the results.  This directory holds TLA+ models of
the parts of it where order, failure and concurrency decide whether the result
is right, the TLC runs that check them and the theorems that TLAPS proves.

Paths below are relative to `src/src/qubex/`.

## The system

| Part | State it keeps | Operations | What makes it correct |
|---|---|---|---|
| `core/async_bridge.py` | loop, thread, closed flag, stop request, shared registry | run, run_without_timeout, close, start-up, shared bridges | a caller gets its own outcome and gets one; an abandoned call stops; close ends thread and tasks |
| `backend/quel3/managers/session_manager.py`, `session_workarounds.py` | client context, session, bound ids | open, reopen_session, close, close_safely, request retry, creation retry | nothing leaks or is exited twice; an operation runs on its own session; retries end; missing resources are reported |
| `backend/quel3/instrument_cache.py` | alias to instrument | get, snapshot, clear, replace_all / _ports / _aliases / _units | an alias leads to one instrument; a scope is a scope |
| `backend/quel3/managers/configuration_manager.py`, `connection_manager.py`, connect and disconnect of `quel3_backend_controller.py` | the cache, through it the hardware | deploy, append, replace, refresh, clear, monitor mode, connect | the cache is never wrong about what the controller itself did |
| `backend/quel3/managers/execution_manager.py` | none between batches | execute_batch_async, its one recovery | results of one snapshot, on the planned ports, of every execution |
| `backend/quel3/execution/*` | none | plan, split shots, build payloads, assemble results | each shot of each job once, in order |
| `backend/quel3/tools/monitor_tool.py` | none | run_schedule | mode and instruments are restored |
| `system/system_manager.py`, `system/quel1/quel1_system_synchronizer.py` | backend settings, cached state, box cache | load, pull, push, is_synced, modified_* | settings, cache and hardware agree; temporary changes are undone |
| `backend/quel1/managers/*`, `quel1_backend_controller.py` | boxes, resource maps, remembered continuous waves | connect, disconnect, start, stop and stop all waves | a connection is whole or absent; what emits can be stopped |
| `external_devices/dc_voltage/*` | the connection to the device; setpoints and switches are the device's | reset, apply, idle, shutdown, contexts | no output leaves its range, jumps, or stays up when a context ends |
| `core/parallel_executor.py` | none | run_parallel, run_parallel_map | whoever goes on goes on alone, with every item's own outcome |
| `measurement`, `experiment`, `contrib`, `analysis`, `simulator`, `clifford`, `visualization`, `packages/*` | results, calibration notes | numerical procedures | numerical |

How they interact: the experiment and measurement layers await the backend on
an `AsyncBridge`, a thread with an event loop that several threads submit to.
The QuEL-3 controller gives its managers one `InstrumentCache` and one
`Quel3SessionManager`.  Configuration calls change the hardware through
sessions of their own and then the cache; a batch is planned on a snapshot of
the cache, executes each physical run under the shared session manager, and,
when quelware no longer knows an instrument, refreshes the cache in a worker
thread and starts over once.  Other users of the same quelware server deploy
and discard instruments at any time.  The monitor tool makes configuration calls
around an execution and undoes them.  For QuEL-1 the system manager holds the
model of the experiment, has a synchronizer write it to the boxes and read them
back, and keeps the controller's cache of the boxes in step; temporary
overrides change model, database and hardware and put them back.  Boxes are
linked up, written and read in parallel by `run_parallel`.

The hard behaviours are therefore: awaits at which a request fails, takes
effect without an answer or is cancelled; cleanups that fail while an error is
handled; nested retries; a cache of a hardware that others change; copies of one
setting on four places, updated one after another; sequences of connects, waves
and failures in which one of several steps fails; and threads that race with
the start and the end of an event loop.  `PROJECT.json` lists
them one by one under `hazards`, with the properties that address them.

## Modules

| Module | Models |
|---|---|
| `SessionLease` | the abstract contract of a batch: a lease per execution, given up before the next one and before the answer |
| `Quel3Session` | one batch as a coroutine over client and session; implements `SessionLease` |
| `InstrumentCaches` | values of the instrument cache and its replacements, as operators |
| `Quel3Instruments` | hardware, cache, monitor mode and every configuration call, with other users |
| `Quel3Batch` | a batch and its recovery, composed with `Quel3Instruments` |
| `Quel3Monitor` | the monitor tool's run, composed with `Quel3Instruments` |
| `Quel3Groups` | a group of jobs: placement on the timeline, limits, places of its captures |
| `Quel3Planning` | grouping, splitting, placing, running and reassembling the jobs of a batch |
| `AsyncBridge` | callers, closers, constructor and loop thread of one bridge |
| `HardwareMirror` | the abstract contract of backend settings: a read of the hardware, published as a whole |
| `SystemSync` | system manager, QuEL-1 synchronizer, controller cache and hardware; implements `HardwareMirror` |
| `Quel1Connection` | QuEL-1 connect and disconnect with the continuous waves |
| `DCVoltage` | the DC voltage controller, its contexts and two kinds of device |
| `ParallelExecutor` | a parallel call, the threads of its pool and interrupts |
| `*_proofs` | theorems about the module they are named after; `Quel3Instruments_proofs` also about the two that make its calls, `Quel3Batch` and `Quel3Monitor`, `Quel3Planning_proofs` also about `Quel3Groups` |
| `MC*` | the instances TLC checks |

A definition named `<Step>_<Mistake>` is `<Step>` with a mistake the code could
have made.  No specification uses it; it is there to show that a property
notices.

### Quel3Session

`pc` is where the coroutine stands.  Each await on quelware is a control state
(`enterClient`, `exitOld`, `enterSession`, `abortEnter`, `operate`,
`exitSession`, `exitClient` and two sleeps); each has an action for success, one
for the exception, with the three classes the code tells apart (missing
resource, allocation conflict, other), and one for a cancellation.  A request
that raises or is cut off may or may not have taken effect on the server.
`mgr` holds the fields of `Quel3SessionManager`; `attempt` and `create` are the
two retry counters; `exc` is the exception being handled and `closer` who
awaits `close()`, so that what happens when a cleanup fails in an `except` or
`finally` clause follows Python's rules: the later exception wins,
`CancelledError` passes `except Exception`, `close_safely` swallows only
errors.  `Own` is what the code does by itself (steps between awaits, sleeps that
end), `Answer` what quelware does with a request, `Cancel` what cuts it off.
`ResultRejected` stands for both an `add` and a `finish` of the assembler that
raise: they end the batch the same way.  Sessions and clients are numbered as they are created, so that leaks,
reuse and double exits can be told.

The time to live of a session on the server is left out (the worst case for a
leak), and so is the extension of it; hints, tokens and logs are wording.  The
model assumes one batch at a time on a session manager.

### InstrumentCaches and Quel3Instruments

An instrument is an alias, a port and a generation; the generation stands for
the resource id, which hardware does not give out twice.  A replacement returns
the set of caches it may publish, which is empty where `_index` or
`_replace_scope` raise and leave the old cache in place.

A call is a sequence of stages: what it does to the cache first, probing, the
attempts to write (`_deploy_port_batches`: all ports of an attempt under one
session that locks them, some of which may be written when the attempt fails),
discarding, setting the mode, listing, reading back, publishing.  Each request
may fail, with part of its effect.  `Foreign` lets another user replace the
instruments of a port between any two of these steps, unless the call holds the
unit locked; what they deploy and on which port is bounded by `Placements`.  A
request to set the mode may take effect and still raise, as the deployments may.
Calls are made one after another, as the synchronous controller
does.  The ghost variables `gen`, `foreign`, `calls` and `others` count and
remember; no guard of the code depends on them.

Frequencies, roles and profiles of an instrument are left out: nothing compares
them.  That the server refuses a monitor mode while instruments are deployed is
an assumption about quelware, taken from the guard the code puts before it.

### Quel3Batch

Extends `Quel3Instruments` with one batch: plan on the cache and take its
snapshot, run the executions, on a missing instrument refresh the units of the
expected ports, compare the ports of what was read, plan again on the cache and
replay everything; a second miss, or any other error, is the answer.  An
execution is one step here: what it may end in is what `SessionLease` allows.
The constant `ConfigureWhileBusy` says whether other threads may make
configuration calls during the batch.  With `TRUE`, TLC finds the replay on
another port than the one checked: the check reads what the refresh returned,
the plan reads the shared cache.  The run uses `FALSE`.

The batch that holds no jobs is answered before the hardware is asked, so
`Plan` is not empty.

### Quel3Monitor

`run_schedule` makes its calls on the controller one after another: `monitor`
says which is next, `call` of `Quel3Instruments` is the one in progress, and its
requests fail as they do there.  `stage` walks through the body (clear, set the
mode, deploy target and monitor, execute with the one recovery, replay the
port) for each target and, from wherever the body left, through the `finally`
clause.  What the tool puts back is what it read of the unit's hardware before the
run.  The preparation of frequencies and waveforms, which only reads, is the guard of
`Start`.

### Quel3Groups and Quel3Planning

A job is the numbers that planning reads: shots, duration, grid, interval,
waveform samples and lengths of capture windows per alias.  `Quel3Groups` has no
state: it says of a sequence of jobs where each starts, what the execution asks
of the hardware and how many of its shots an execution can take, and where a
capture window stands among those of its alias.  In `Quel3Planning`, `jobs` and
`options` are picked from finite sets; `Pack`, `StartGroup` and `Split` build the plan as
the planner does, `Run` runs an execution and hands its captures to the
accumulators, `Finish` concatenates or averages.  A capture is known by job,
alias and index, a chunk by the shots it holds, so that a lost, doubled or
misplaced capture shows.  Times are integers; the tolerances of floating point
comparisons and the validation of payloads are left out.

### AsyncBridge

Callers have a running loop of their own (one without uses `asyncio.run` and
never reaches the bridge's thread).  The states of `caller` are the points
between the closed check, the loop check, the enqueueing and the wait; those of
`thread` the points of `_run_loop`; those of `closer` the points of `close()`
and of the constructor that gives up.  The event loop has what the bridge
relies on: a FIFO of callbacks, an iteration that runs those present when it
began, a stop that takes effect at its end, and `close()`, which drops the
rest.  Left out is the `except BaseException` of `_run_loop`
(`core/async_bridge.py:360`), a guard against errors that no callback of the
bridge raises.  `_schedule_task` is two steps because the bridge may be closed and the
future cancelled between its checks and the creation of the task.

### SystemSync

The value of a port stands for LO, CNCO and FNCO of its channel.  There are four
copies of it: model (`es`), backend settings, controller cache and hardware.
Target frequencies have two, in the model (`freq`) and in the controller's
database (`db`); which targets exist is part of them, since a load may drop and
add labels and a registration adds one.  `cached` is the summary that `is_synced`
compares with.  A pull or push is a sequence of steps (write each box, read, store
the settings, update the cache, apply to the model), each of which may fail, and
the rollback is part of the step that raises.  A write may fail after having taken
effect, and is then only logged, as in the synchronizer.  A declined push raises
when the boxes are not connected.  A load may keep the controller or bring another
one, and in mock mode, or without a clock master, does either without carrying the
model to it.

`overrides` is the stack of active `modified_frequencies` and
`modified_backend_settings` contexts; entering and leaving one may fail in the
middle.  Loads may happen inside of them, because nothing in the code forbids it.
When a load inside has dropped a label of an override of frequencies, its
`finally` clause raises at that label (`LeaveFrequenciesFails`): the labels before
it are restored in the model, the controller is not asked.  A path is the
generator port and capture port of a target, which may be on two boxes; it is a
constant, so a load does not move a target to other ports.  `Configs` and `Custom`
bound what configuration files and custom targets say.

The ghost variables say when a property cannot be expected; each is set by the
action that makes it so, and `PROJECT.json` tells why under the hazard it belongs
to.  `torn` has the labels whose frequency was last changed on one side only.
`before` has what the innermost overrides found, as far as nothing but overrides
has changed model, hardware or frequencies since, which is what leaving them in
turn can put back.

### Quel1Connection

`pool`, `system` and `maps` are the fields of the runtime context, set one after
another by a connect.  Each connect makes new box objects, told apart by a
number, since what the code calls a connection is a set of objects.  A connect
stops the waves, closes what is held, and builds pool, system and resource maps;
it may fail or be interrupted at each of these steps.  `tasks` are the waves
that the manager remembers, `emitting` the waves there are.  `leaked` and `hurt`
collect what a failed request or an interrupt leaves behind.  Link-up, clock
synchronization and skew are single requests to the driver and are left out.

### DCVoltage

One action per write to the device, with the reads next to it: inspect, switch
off, ramp step, set and verify, switch on.  A check and the write that it is for
are two actions, in particular the check of the stored setpoint and the switch in
`ONS61797Device.on`, so that another user may act between them.  `driver` tells
the device with switched outputs and software ramps from the one with native
ramps.  `op` is the operation, with the channels still to do, `ctx` the innermost
context (`apply_voltages` or `dc_voltage_control`) and `outer` those around it: in
the body of a context any call may be made and any context entered, and the bound
control of an outer one used.  Each request may fail; a setpoint may also be
dropped unnoticed, since the ramp does not read back.  A readback agrees with a
setpoint when it is equal; the tolerance of the comparison
(`readback_tolerance_v`) is left out.  The ghost `touched` says that another user
changed the channel in progress, or a request to it failed, since it was inspected
or checked, `hurt` the same of the channels that a context idles.

### ParallelExecutor

The threads of the pool take the items in order; the caller submits, looks at
the futures in the order of items or of completion, collects, calls the handler
and leaves the `with` statement, which waits.  A KeyboardInterrupt may strike
at each of these points, also in the wait of `future.result()`, which is inside
a `try ... except BaseException`.  Keys are unique, as those of all callers are.

## Runs

| Run | Bounds | States | Shows |
|---|---|---|---|
| `quel3_session` | 2 executions on different ids, 2 attempts of each kind, 1 cancellation | 3.7 M | safety, the refinement of `SessionLease`, and that the caller is answered |
| `quel3_session_missing` | the same | violation | the documented immediate propagation does not always happen |
| `quel3_batch` | 3 aliases, two on a port of one unit, one on another unit that no execution uses; 2 calls, 2 write attempts, 2 foreign changes | 5.5 M | the cache against the hardware, and the recovery |
| `quel3_monitor` | 2 targets on a unit, its monitor port and another unit, 1 earlier call, 1 foreign change | 3.0 M | the restoration |
| `quel3_planning` | up to 3 jobs of 11 kinds, 6 sets of limits | 0.2 M | packing, splitting, reassembly |
| `async_bridge` | 2 callers, 2 closers and the constructor | 1.2 M | truth of the answers |
| `async_bridge_live` | 2 callers, 1 closer and the constructor | 0.2 M | liveness |
| `async_bridge_closed` | the same | violation | a call can be dropped |
| `system_sync` | 2 boxes, a port on each, 2 labels, one of which loads drop and add, 2 configurations, 1 custom target, 2 values and 2 frequencies, 3 operations besides connects, 2 nested overrides, 1 foreign change | 1.6 M | agreement of the copies, undoing of overrides, and the refinement of `HardwareMirror` |
| `quel1_connection` | 2 boxes, 3 outputs, 6 calls | 4.0 M | connections are whole, waves can be stopped |
| `dc_voltage` | 2 channels, 5 allowed voltages, foreign ones inside and outside the range, ramp step 2, 2 attempts, 3 operations or contexts, also nested, 2 foreign changes | 4.0 M | outputs while they move, after a shutdown and when a context ends |
| `parallel_executor` | 4 items, 2 threads, 2 interrupts | 37 k | what a parallel call leaves and returns |

Why the bounds suffice: two executions are enough for one to inherit
something from the other; two attempts for a retry to succeed, to fail for good
and to nest; one cancellation reaches every await, and a second one could only
meet cleanups that the first one started (these are covered by failures of
the same awaits).  Two calls are enough for every pair (one fails, the other
finds what it left), two aliases on a port and two units for the scopes of
aliases and of units to differ from the next larger one.  The batch plays on the
two aliases of one unit; the third alias, on a unit of its own, is what a recovery
that refreshes too much would drop or replace.  A batch needs two changes by others: one to
make it miss an instrument and one to disturb the recovery.  A monitor run with
two targets repeats its loop once, and an earlier call gives it every kind of
cache to start from.  Three jobs are enough for one to join, to be refused and
to come after a split one, and each limit is the one that binds in one of the
sets.  A bridge call with a timeout and one without, with two closers, is enough
for every pair of racing steps.  Three operations of the system manager, besides connects and
leaving overrides, reach a synchronization or a load inside nested overrides; of
the two configurations one has a target less and other values; two boxes are
needed for one to fail and the other to succeed.  Six QuEL-1 calls hold two
connects that fail or are interrupted, with waves before and after.  A ramp of
two steps has a first and a last, shorter one, and two channels let one fail.  Two
foreign changes disturb a channel once before and once after it is checked; three
calls nest an operation in a context in a context.
More items than threads leave one waiting in the pool.

No run uses symmetry.

Deadlock is checked except where the system may rest: the bridge when everybody
has returned or a dropped call waits, and `SystemSync`, `DCVoltage` and
`ParallelExecutor` when the bounded calls are used up.

Each property is stated in words above its definition.  What they are about:

* `NothingLost`, `ReleasedWhenDone`, `OrderlyExits`: every path through nested
  retries, failing cleanups and cancellation gives everything back, in order
  and once.
* `OwnSession`, `ImplementsLease`: no operation runs on a session of another
  execution or attempt.
* `MissingReported`, `BoundedSessions`, `CancelStops`, `ResultsAreComplete`,
  `Answered`: retries end, do not hide what the recovery has to know, and do not
  survive a cancellation; the caller waits for ever only if quelware never ends a
  request.
* `CacheTruth`, `CacheTellsOutcome`, `OutOfScopeKept`:
  whichever requests of whichever calls fail, a cached instrument is never one
  the controller itself destroyed, a failure leaves what it may have changed
  uncached and a success caches what it has just put there.
* `ResultsFromOneSnapshot`, `ReplayKeepsPorts`, `SecondMissIsNew`,
  `RecoveryKeepsOtherUnits`: a recovered batch does not mix generations, ports
  or stale ids, and disturbs nobody else.
* `MonitorRestores`, `ModeChangesOnEmptyUnit`: a run whose `finally` clause went
  through leaves unit and cache as it found them.  A run in whose `finally`
  clause a request fails is exempt: the clear comes first, and when it fails the
  rest of the clause is skipped.
* `ExecutionsFit`, `SplitsOnlyOversized`, `ResultsRestored`: each shot of each
  job is run once within the limits, and comes back in order.
* `AnswersAreTrue`, `NoTaskLeft`, `AbandonedStops`, `DrainAnswers`,
  `CloseEndsThread`: what a caller is told agrees with what ran, and the end of
  the loop ends everything.
* `SyncedMeansAgreement`, `CacheFollowsSettings`, `FrequenciesAgree`,
  `SyncRebuildsCache`, `ImplementsMirror`: what the copies of a setting know of
  each other, through failures in the middle.  `FrequenciesAgree` exempts the
  labels that an operation which raised, or which an older controller got, changed
  on one side only (`torn`).
* `OverrideUndone`: an override entered where model, hardware and controller agreed
  puts back all that it found, whatever was entered and left inside it and whatever
  else left these as they were.
* `WavesReachable`, `ConnectionWhole`: no sequence of connects leaves waves that
  nobody can stop or boxes that nobody holds.  Exempt is what a failed request
  or an interrupted connect left behind.
* `OutputStaysSafe`, `NoJump`, `ShutdownEndsOff`, `IdleOnExit`: outputs stay in
  range, move by ramp steps, are off at their reset voltage when a shutdown is done
  with them, and idle after a context that nobody disturbed.  `OutputStaysSafe`
  exempts the setpoint that another user changes between its check and the switch:
  the driver makes two requests of it, and nothing locks the instrument.
* `CallComplete`: a parallel call that ends has no worker left and hides no
  outcome.

`PROJECT.json` names for each property a mutant of the code that violates it.

### Fairness

`Quel3Session`: weak fairness of the code's own steps (`Own`): the event loop runs
ready coroutines and sleeps end.  Nothing is assumed of quelware's answers: the
code sets no deadline for them (`default_timeout_seconds` is None in
`quelware_transport_config.py:19`, the trigger wait is None in
`execution_manager.py:73`, and batches run under `run_without_timeout` at line
94), so that a request may never end.  `Answered` therefore says that the caller is
answered or the batch waits for one request for ever.
`AsyncBridge`: every thread that can go on does, and a task that was cancelled
ends.  Nothing makes a task end of itself, a wait time out, a caller call or
anybody close.  The other modules state safety only: their steps are requests
to devices, of which nothing promises an end.

### Findings

* `async_bridge_closed`: a call is enqueued after `run_forever` has returned
  and before `loop.close()`.  `call_soon_threadsafe` accepts the callback, it is
  dropped, and `run_without_timeout` waits for ever instead of raising that the
  bridge is closed (`core/async_bridge.py:321`).
* `quel3_session_missing`: `open()` awaits `close()` before it re-raises; when
  the client's exit fails too, the missing-resource error is no longer on the
  cause chain, so the request is retried with the stale ids and the batch is
  not recovered (`session_manager.py:149`, against the docstring at
  `session_workarounds.py:96`).

Four more statements of the documentation are written down in the modules and not
kept by the code.  They are listed in no run; as a PROPERTY (the last one as an
INVARIANT) of the module's run each has a counterexample:

* `CachedAtSuccessfulSync` (`SystemSync`): a push that the user declines updates
  the cached state, which is documented as that of the last successful
  synchronization; the software half of `is_synced` then accepts what was never
  pushed (`system/system_manager.py:602`, against line 326).
* `EachIdleOnExit` (`DCVoltage`): `_idle_channels` stops at the first channel
  whose request fails; the channels after it keep the applied voltage although no
  request to them failed (`external_devices/dc_voltage/controller.py:396`,
  against "return each channel to idle on exit" at line 429).
* `EachWaveStopped` (`Quel1Connection`): `stop_all_continuous_waves` stops at the
  first wave whose cancellation raises; a disconnect logs it and closes the boxes
  of the others (`backend/quel1/managers/continuous_wave_manager.py:456`).
* `FallbackOnlyOnError` (`ParallelExecutor`): a KeyboardInterrupt during
  `future.result()` is caught by `except BaseException` and handed to `on_error`
  as if the item had failed; the call goes on, with the fallback in place of a
  result (`core/parallel_executor.py:108`).

## Proofs

All theorems hold for every value of the constants that satisfies the named
assumptions of the modules: at least one execution, attempt, item and thread,
ports with a unit or a box, a plan that is not empty, a ramp step that is
positive, reset and idle voltages within the range, configurations, custom targets
and placements by others that are well-typed, markers such as `NoVal` that are no
values, bounds that are natural numbers.  Type
correctness is proved as well (for `Quel3Batch`, `Quel3Monitor` and `Quel3Planning` as a part of their invariants), so
no run lists a type invariant.

`Quel3Session_proofs` proves all properties of `quel3_session`, that no session
serves two operations, and that a batch implements `SessionLease`.  None of these is inductive: they depend on where the
coroutine stands.  `IInv` adds what is true at each place: which fields of the
manager are set at which await (`HeldSessionInv`, `HeldClientInv`), that whoever
awaits `close()` handles an exception it can handle (`ExcInv`), that numbers of
sessions and clients lie below their counts (`CountInv`), that the execution in
progress is the one after the completed ones (`RunInv`), that a missing resource
and a cancellation only move towards the caller (`ReportInv`, `StopInv`), and how
many sessions may have been created before and in the attempt in progress
(`BudgetInv`).  The step proof has one case per action and, under it, one step
per conjunct that the action disturbs; the action properties and the step
simulation of the refinement follow from `IInv`.

`Quel3Instruments_proofs` proves the properties of the cache in `quel3_batch`, for
the calls alone (the run checks them next to a batch as well).  For `CacheTruth` the strengthening says that an alias leads to one instrument (the
cache is a dictionary), that what the next request of a call destroys has left the
cache before it (`UncachedFirst`), and that what was read back stays true until it
is published unless another user removes it (`ReadTruth`).  The three action
properties follow from `OutcomeInv`: during a call the cache differs from what it
was only in the scope of the call (`KeptInv`), and has nothing there while the
call writes (`ScopeCleared`); what was read back lies in the scope (`ListedInv`)
and is newer than all that was cached when the call began (`NewerInv`).

The same module proves the four properties of the batch.  The instruments'
invariant is kept by every step of the batch, since the recovery is one of their
calls.  In `BatchInv`, `ProgressInv` says which instruments the completed
executions used, `GenInv` that generations only grow, so that what is gone does
not come back, and `ReplayInv` that the replay runs on what the refresh
returned.  Only the last needs that no other thread configures during the batch:
`PortsKept` and `MissesAreNew` assume `~ConfigureWhileBusy`, `OneSnapshot` and
`OtherUnitsKept` do not.

And it proves `MonitorRestores` for the monitor tool (`RunRestores`).  Its
invariant `MonitorInv` keeps that of the instruments beneath the run
(`RunKeepsCacheTrue`), although the tool deploys sets that are no configuration
of a caller's.  `StartedInv` says that what the run still
remembers (the mode, the instruments, what others deployed) is what it found when
it started, and `RestoreInv` what the
`finally` clause has done at each of its places: the unit is empty once it was
cleared (`Clearing`), in its old mode once that was set (`SettingMode`), and the
instruments that were deployed again are the first of those found and newer than
the run (`Deploying`).  It holds from wherever the body stopped, since the clause
begins by clearing.

`Quel3Planning_proofs` proves the three properties of `quel3_planning`, for any
batch, any limits and any placement of receivers.  Sums and products over sets
are folds whose value comes from a CHOOSE, so its first part shows that they are
what adding up gives, in any order: induction is stated with sets (`Counting`,
`AddingElements`), which the prover can instantiate, in the place of predicates.
The second part is about a group: the common grid is a multiple of each
(`GridFacts`), starts are on it and keep the interval (`StartsFacts`), the least
of the quotients keeps every sum within its limit (`LimitFits`) and no larger
number of shots does (`LimitIsTight`), and the windows of merged jobs do not
overlap, so that a capture is found again where the builder put it
(`WindowFound`).  The third is the inductive invariant `PlanningInv`: groups are
adjacent jobs that share an execution (`GroupsInv`), a group that is planned in
part is the first one left and a single job (`PlanInv`), and the chunks of a
capture follow one another up to the shots received (`AssemblyInv`).  That a plan
covers every shot of every job in order (`CoverInv`) and that each job has
received what was run so far (`FilledInv`) give `PlannedBatchesRun`: once the
jobs fit alone, neither `range()` in `_split_shots` nor `add` nor `finish` of the
assembler can raise.  TLC checks the same as the absence of deadlocks, for three
jobs.

`AsyncBridge_proofs` proves `AnswersAreTrue` and `NoTaskLeft`, for any number of
callers and closers.  An answer is true because a call's callback is in the
queue at most once and, as long as it is there, neither task nor outcome exists
(`QueueInv`, `PlaceInv`).  No task is left because the loop is stopped from
outside only once, before it drains, so that what stops it while it drains is
the end of the last task (`StopInv`).

`SystemSync_proofs` proves all properties of `system_sync`, for overrides nested
to any depth and any configurations.  They hold between synchronizations;
`StageInv` says what each stage of one in progress has done, `CacheInv` and
`AgreementInv` state the properties for the values from before it, and `CacheInv`
says the same of the snapshot that the outermost override will put back.
`FrequenciesAgree` is inductive: an action that changes one side of a label marks
it in `torn`.  For `OverrideUndone` an override is compared with what it will
find when it is left, which is what the next one found when it was entered:
`FoundInv` says of each of the innermost overrides that leaving it there restores
what it found itself, so that leaving them in turn restores all.

`Quel1Connection_proofs` proves `WavesReachable` and `ConnectionWhole`.  `HeldInv`
says what pool, system and maps are at each stage of a call, with the exception
that an interrupt loses a connection as a whole, and `WaveInv` that the waves of
a connection are stopped before it is given up.

`DCVoltage_proofs` proves all four properties of `dc_voltage`, for contexts nested
to any depth.  `RampInv` says that an output that is on is where the ramp thinks
it is, `GoalInv` that every voltage on the way is in range, `CheckInv` that a
checked setpoint still is unless another user changed it, `ShutdownInv` where a
shutdown stands with the channel in progress, `CtxInv` that the contexts around
the innermost are in their bodies, and `LeaveInv` that a context that is being left
has each output idle or still to do.

`ParallelExecutor_proofs` proves `CallComplete`: what is collected is what the
worker ended with (`ResultInv`), everything is collected before a call without
an error ends (`CallerInv`), and nothing is taken back from the pool
(`PoolInv`).

Every safety property that a run checks is proved.  Only model-checked is
liveness (`Answered` and the three of `async_bridge_live`), since the proofs have
no rules for fairness.

## Plan

Done: all modules above.  What would add most next, in this order: several
batches on one session manager, if the code comes to promise anything about them
(today each detaches the other's session); the QuEL-3 synchronizer over
`Quel3Instruments`; clock synchronization of QuEL-1 boxes.

## Not modelled

* The registry of shared bridges: a dictionary under a lock.  That a holder
  finds its bridge closed is the closed check of `AsyncBridge`.
* `modify_target_frequencies` of the QuEL-3 controller: frequencies of
  instruments are left out of the hardware's models.
* The QuEL-3 synchronizer deploys through the calls of `Quel3Instruments` and
  keeps no snapshot; resource reader, models and transport of QuEL-3 keep no
  state that outlives a call.
* `modified_capture_delay` of the system manager: a context on copies of its own
  (control parameters, channels, controller delays), which no other operation
  of `SystemSync` reads.
* Link-up, clock synchronization, skew and execution of QuEL-1: requests to the
  driver library, with no state of qubex between them.
* The numerical layers (experiments, calibration, measurement schedules,
  analysis, simulation, pulses, Clifford groups, visualization, bundled
  packages) keep no state that interleaves and are a matter of arithmetic over
  arrays.  They are most of the repository's lines.
* Serial and network protocols of external devices, configuration files,
  compatibility shims and tools are input and output.

`PROJECT.json` lists every part with its reason.
