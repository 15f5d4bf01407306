--------------------------- MODULE Quel1Connection ---------------------------
(***************************************************************************)
(* QuEL-1: Quel1ConnectionManager.connect and disconnect, the runtime      *)
(* context they fill, and the outputs of Quel1ContinuousWaveManager, which *)
(* emit until they are stopped, as Quel1BackendController calls them.      *)
(*                                                                         *)
(* Calls follow one another in one thread; any request to a box may fail,  *)
(* and a connect may be interrupted (KeyboardInterrupt is no Exception).   *)
(* Every connect makes new objects for its boxes: `made` numbers them.     *)
(***************************************************************************)
EXTENDS Naturals, FiniteSets

CONSTANTS
    Boxes,
    Outputs,     \* the keys of _tasks: an output port of a box
    BoxOf,       \* BoxOf[o]: the box of output o
    MaxCalls     \* bound: calls on the controller

ASSUME BoxOfAssumption == BoxOf \in [Outputs -> Boxes]
ASSUME MaxCallsAssumption == MaxCalls \in Nat

VARIABLES
    pool,       \* boxpool._boxes: the object of each box, 0 for none
    system,     \* _quel1system is set: is_connected
    maps,       \* both resource maps are set
    tasks,      \* _tasks: the object whose wave is remembered, 0 for none
    call,       \* [kind, boxes, stage, todo]
    open,       \* the objects that are linked up: <<box, number>>
    emitting,   \* the waves on the hardware: <<output, number>>
    made,       \* ghost: generations of objects
    hurt,       \* ghost: waves left alone after a request that failed
    leaked,     \* ghost: objects that a failed request or an interrupt left
    calls       \* ghost: calls made

vars == <<pool, system, maps, tasks, call, open, emitting, made, hurt, leaked, calls>>
context == <<pool, system, maps>>
waves == <<tasks, emitting, hurt>>
objects == <<open, made, leaked>>

NoPool == [b \in Boxes |-> 0]
NoCall == [kind |-> "none", boxes |-> {}, stage |-> "none", todo |-> {}]
Connected == {b \in Boxes : pool[b] # 0}
Held == {<<b, pool[b]>> : b \in Connected}
Remembered == {o \in Outputs : tasks[o] # 0}
Wave(o) == <<o, tasks[o]>>      \* of the remembered task
Active(o) == Wave(o) \in emitting

Init ==
    /\ pool = NoPool /\ system = FALSE /\ maps = FALSE
    /\ tasks = [o \in Outputs |-> 0]
    /\ call = NoCall
    /\ open = {} /\ emitting = {}
    /\ made = 0 /\ hurt = {} /\ leaked = {} /\ calls = 0

Calling == call.kind = "none" /\ calls < MaxCalls /\ calls' = calls + 1
Step(kind, stage) == call.kind = kind /\ call.stage = stage
To(stage) == call' = [call EXCEPT !.stage = stage]
Over == call' = NoCall

-----------------------------------------------------------------------------
(* connect and disconnect.                                                 *)

Connect_NoStop(boxes) ==
    /\ Calling
    /\ call' = IF system /\ boxes \subseteq Connected THEN NoCall
               ELSE [kind |-> "connect", boxes |-> boxes, todo |-> {},
                     stage |-> IF system THEN "close" ELSE "create"]
    /\ UNCHANGED <<context, waves, objects>>

\* Boxes that are all in the pool need no reconnect; otherwise what is
\* connected gives way, and its waves are stopped first.
Connect(boxes) ==
    /\ Calling
    /\ call' = IF system /\ boxes \subseteq Connected THEN NoCall
               ELSE [kind |-> "connect", boxes |-> boxes,
                     todo |-> IF system THEN Remembered ELSE {},
                     stage |-> IF system THEN "stop" ELSE "create"]
    /\ UNCHANGED <<context, waves, objects>>

Disconnect ==
    /\ Calling
    /\ call' = [kind |-> "disconnect", boxes |-> {}, stage |-> "stop", todo |-> Remembered]
    /\ UNCHANGED <<context, waves, objects>>

\* stop_continuous_wave: an active task is cancelled; it is forgotten anyway.
Stopped(o) ==
    /\ tasks' = [tasks EXCEPT ![o] = 0]
    /\ emitting' = emitting \ {Wave(o)}
    /\ hurt' = hurt \ {Wave(o)}

\* The cancellation failed: the wave may emit on, and nobody knows it.
StopFailed(o) ==
    /\ Active(o)
    /\ tasks' = [tasks EXCEPT ![o] = 0]
    /\ emitting' \in {emitting, emitting \ {Wave(o)}}

\* stop_all_continuous_waves
StopNext(o) ==
    /\ call.stage = "stop" /\ o \in call.todo
    /\ Stopped(o)
    /\ call' = [call EXCEPT !.todo = @ \ {o}]
    /\ UNCHANGED <<context, objects, calls>>

\* It stops at the first that fails: a connect raises, a disconnect goes on
\* and closes the boxes beneath the others.
StopNextFails(o) ==
    /\ call.stage = "stop" /\ o \in call.todo
    /\ StopFailed(o)
    /\ \/ call.kind \in {"connect", "stopAll"} /\ Over /\ hurt' = hurt \cup {Wave(o)}
       \/ /\ call.kind = "disconnect" /\ To("close")
          /\ hurt' = hurt \cup {Wave(i) : i \in call.todo}
    /\ UNCHANGED <<context, objects, calls>>

StoppedAll ==
    /\ call.stage = "stop" /\ call.todo = {}
    /\ IF call.kind = "stopAll" THEN Over ELSE To("close")
    /\ UNCHANGED <<context, waves, objects, calls>>

\* The first resource that does not close keeps the others from being closed.
Close_Aborts ==
    /\ call.stage = "close"
    /\ pool' = NoPool /\ system' = FALSE /\ maps' = FALSE
    /\ \E failed \in SUBSET Held :
          /\ open' = IF failed = {} THEN open \ Held ELSE open
          /\ leaked' = leaked \cup failed
    /\ IF call.kind = "connect" THEN To("create") ELSE Over
    /\ UNCHANGED <<waves, made, calls>>

\* Quel1ConnectionManager.disconnect closes what is held of a system, one after
\* another; a resource that does not close is logged.  Without a system it
\* returns at once, even if an interrupted connect left a pool.
Close ==
    /\ call.stage = "close"
    /\ \/ /\ system
          /\ \E failed \in SUBSET Held :
                open' = open \ (Held \ failed) /\ leaked' = leaked \cup failed
          /\ pool' = NoPool /\ system' = FALSE /\ maps' = FALSE
       \/ ~system /\ UNCHANGED <<context, open, leaked>>
    /\ IF call.kind = "connect" THEN To("create") ELSE Over
    /\ UNCHANGED <<waves, made, calls>>

New == [b \in Boxes |-> IF b \in call.boxes THEN made + 1 ELSE 0]
Linked(boxes) == {<<b, made + 1>> : b \in boxes}

\* create_boxpool: a box that does not link up leaves those before it open.
Create ==
    /\ Step("connect", "create")
    /\ made' = made + 1
    /\ \/ /\ pool' = New /\ system' = FALSE /\ maps' = FALSE
          /\ open' = open \cup Linked(call.boxes)
          /\ To("system")
          /\ UNCHANGED leaked
       \/ /\ \E some \in SUBSET call.boxes :
                open' = open \cup Linked(some) /\ leaked' = leaked \cup Linked(some)
          /\ Over
          /\ UNCHANGED context
    /\ UNCHANGED <<waves, calls>>

MakeSystem ==
    /\ Step("connect", "system")
    /\ system' = TRUE
    /\ To("maps")
    /\ UNCHANGED <<pool, maps, waves, objects, calls>>

MakeMaps ==
    /\ Step("connect", "maps")
    /\ maps' = TRUE
    /\ Over
    /\ UNCHANGED <<pool, system, waves, objects, calls>>

\* An Exception while system and maps are made clears the context, without
\* closing the boxes.
ConnectFails ==
    /\ Step("connect", "system") \/ Step("connect", "maps")
    /\ pool' = NoPool /\ system' = FALSE /\ maps' = FALSE
    /\ leaked' = leaked \cup Held
    /\ Over
    /\ UNCHANGED <<waves, open, made, calls>>

\* No handler sees an interrupt: the context stays as it is.
ConnectInterrupted ==
    /\ Step("connect", "system") \/ Step("connect", "maps")
    /\ leaked' = leaked \cup Held
    /\ Over
    /\ UNCHANGED <<context, waves, open, made, calls>>

-----------------------------------------------------------------------------
(* Continuous waves.                                                       *)

\* start_continuous_waves: refused while the output is active or its box is
\* not in the pool; then the port is configured and started.
Start(o) ==
    /\ Calling
    /\ ~(o \in Remembered /\ Active(o))
    /\ BoxOf[o] \in Connected
    /\ LET wave == <<o, pool[BoxOf[o]]>>
       IN \/ /\ tasks' = [tasks EXCEPT ![o] = pool[BoxOf[o]]]
             /\ emitting' = emitting \cup {wave}
             /\ hurt' = hurt \ {wave}
          \* a request before start_wavegen fails, or that one, and may have
          \* started the wave
          \/ UNCHANGED waves
          \/ /\ emitting' = emitting \cup {wave}
             /\ hurt' = hurt \cup {wave}
             /\ UNCHANGED tasks
    /\ UNCHANGED <<context, call, objects>>

Stop(o) ==
    /\ Calling
    /\ o \in Remembered
    /\ \/ Stopped(o)
       \/ StopFailed(o) /\ hurt' = hurt \cup {Wave(o)}
    /\ UNCHANGED <<context, call, objects>>

StopAll ==
    /\ Calling
    /\ call' = [kind |-> "stopAll", boxes |-> {}, stage |-> "stop", todo |-> Remembered]
    /\ UNCHANGED <<context, waves, objects>>

\* The repeats of a wave are over.
WaveEnds(w) ==
    /\ w \in emitting
    /\ emitting' = emitting \ {w}
    /\ UNCHANGED <<context, tasks, hurt, call, objects, calls>>

-----------------------------------------------------------------------------
Done == calls = MaxCalls /\ call.kind = "none" /\ UNCHANGED vars

Next ==
    \/ \E boxes \in (SUBSET Boxes) \ {{}} : Connect(boxes)
    \/ Disconnect \/ StopAll \/ StoppedAll \/ Close
    \/ Create \/ MakeSystem \/ MakeMaps \/ ConnectFails \/ ConnectInterrupted
    \/ \E o \in Outputs : StopNext(o) \/ StopNextFails(o) \/ Start(o) \/ Stop(o)
    \/ \E w \in emitting : WaveEnds(w)
    \/ Done

Spec == Init /\ [][Next]_vars

-----------------------------------------------------------------------------
(* Properties.                                                             *)

TypeOK ==
    /\ pool \in [Boxes -> Nat] /\ tasks \in [Outputs -> Nat]
    /\ system \in BOOLEAN /\ maps \in BOOLEAN
    /\ call \in [kind : {"none", "connect", "disconnect", "stopAll"},
                 stage : {"none", "stop", "close", "create", "system", "maps"},
                 boxes : SUBSET Boxes, todo : SUBSET Outputs]
    /\ open \subseteq Boxes \X Nat /\ leaked \subseteq Boxes \X Nat
    /\ emitting \subseteq Outputs \X Nat /\ hurt \subseteq Outputs \X Nat
    /\ made \in Nat /\ calls \in Nat

\* What emits can be stopped: a wave on the hardware is remembered, on a box
\* object that is still in the pool, however often the user connected, to
\* whichever boxes.  Exempt are the waves left by a request that failed and
\* those on the boxes of an interrupted connect.
WavesReachable ==
    \A w \in emitting :
        (w \notin hurt /\ <<BoxOf[w[1]], w[2]>> \notin leaked) =>
            /\ tasks[w[1]] = w[2]
            /\ <<BoxOf[w[1]], w[2]>> \in Held \cap open

\* A controller between two calls holds the whole of one connection or none of
\* it, and no box stays linked up that it does not hold.  Exempt are the boxes
\* of requests that failed and of connects that were interrupted.
ConnectionWhole ==
    call.kind = "none" =>
        /\ open \ leaked \subseteq Held /\ Held \subseteq open
        /\ Held \cap leaked = {} => system = (Held # {}) /\ maps = system

\* Every remembered wave is stopped unless its own cancellation failed.  Not kept:
\* the loop over the waves ends at the first that raises.
EachWaveStopped ==
    [][(call.kind = "stopAll" /\ call'.kind = "none") => Remembered' = {}]_vars
==============================================================================
