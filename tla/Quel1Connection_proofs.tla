------------------------ MODULE Quel1Connection_proofs ------------------------
(***************************************************************************)
(* Proofs about Quel1Connection.  Waves and objects agree between calls;   *)
(* the inductive invariant says how far they do at each stage of one.      *)
(***************************************************************************)
EXTENDS Quel1Connection, TLAPS

ObjectOf(w) == <<BoxOf[w[1]], w[2]>>

\* A wave that no failure excuses.
Sound(w) == w \in emitting /\ w \notin hurt /\ ObjectOf(w) \notin leaked

\* Objects are numbered as they are made; zero stands for none.
NumberInv ==
    /\ \A b \in Boxes : pool[b] <= made
    /\ \A x \in leaked : x[2] <= made
    /\ \A w \in emitting : w[2] # 0

\* Which calls have which stages.
CallInv ==
    /\ call.kind = "none" <=> call.stage = "none"
    /\ call.kind = "stopAll" => call.stage = "stop"
    /\ call.kind = "connect" => call.boxes # {}
    /\ call.stage \in {"create", "system", "maps"} => call.kind = "connect"
    /\ call.kind = "connect" /\ call.stage \in {"stop", "close"} => system
    /\ call.stage = "stop" => call.todo \subseteq Remembered

\* A connection is lost to an interrupt as a whole; what it has at each stage.
HeldInv ==
    /\ Held \subseteq open /\ open \ leaked \subseteq Held
    /\ Held \subseteq leaked \/ Held \cap leaked = {}
    /\ maps => system
    /\ call.stage \in {"none", "stop", "close"} /\ Held \cap leaked = {}
         => system = (Held # {}) /\ maps = system
    /\ call.stage = "create" => Held \subseteq leaked /\ ~system
    /\ call.stage \in {"system", "maps"} => Held # {} /\ Held \cap leaked = {}
    /\ call.stage = "system" => ~system
    /\ call.stage = "maps" => system /\ ~maps

\* The waves of a connection are stopped before it is given up.
WaveInv ==
    /\ \A w \in emitting : Sound(w) => tasks[w[1]] = w[2] /\ ObjectOf(w) \in Held
    /\ call.stage = "stop" /\ call.kind # "stopAll"
         => \A w \in emitting : Sound(w) => w[1] \in call.todo
    /\ call.stage \in {"close", "create", "system", "maps"}
         => \A w \in emitting : ~Sound(w)

IInv == TypeOK /\ NumberInv /\ CallInv /\ HeldInv /\ WaveInv
-----------------------------------------------------------------------------
(* Objects and waves that a step leaves alone.                               *)

LEMMA SameHeld ==
  ASSUME UNCHANGED pool
  PROVE  Held' = Held /\ Connected' = Connected
BY DEF Held, Connected

LEMMA HeldType ==
  ASSUME TypeOK, NumberInv
  PROVE  Held \subseteq Boxes \X Nat /\ \A x \in Held : x[2] <= made
BY DEF TypeOK, NumberInv, Held, Connected

LEMMA NothingHeld ==
  ASSUME pool = NoPool
  PROVE  Held = {}
BY DEF Held, Connected, NoPool

LEMMA SameRemembered ==
  ASSUME UNCHANGED tasks
  PROVE  Remembered' = Remembered
BY DEF Remembered

-----------------------------------------------------------------------------
(* Every action preserves the invariant.                                     *)

LEMMA ConnectStep ==
  ASSUME IInv, NEW boxes \in (SUBSET Boxes) \ {{}}, Connect(boxes)
  PROVE  IInv'
<1>1. TypeOK'
  BY DEF IInv, TypeOK, Connect, Calling, context, waves, objects, NoCall, Remembered
<1>2. NumberInv'
  BY DEF IInv, NumberInv, Connect, context, waves, objects
<1>3. CallInv'
  BY DEF CallInv, Remembered, Connect, context, waves, NoCall
<1>4. HeldInv'
  BY DEF IInv, TypeOK, CallInv, HeldInv, Held, Connected, Connect, Calling, context, objects, NoCall
<1>5. WaveInv'
  BY DEF IInv, TypeOK, HeldInv, WaveInv, Held, Connected, Sound, ObjectOf, Remembered, Connect, context, waves, objects, NoCall
<1> QED
  BY <1>1, <1>2, <1>3, <1>4, <1>5 DEF IInv

LEMMA DisconnectStep ==
  ASSUME IInv, Disconnect
  PROVE  IInv'
<1>1. TypeOK'
  BY DEF IInv, TypeOK, Disconnect, Calling, context, waves, objects, Remembered
<1>2. NumberInv'
  BY DEF IInv, NumberInv, Disconnect, context, waves, objects
<1>3. CallInv'
  BY DEF CallInv, Remembered, Disconnect, waves
<1>4. HeldInv'
  BY DEF IInv, CallInv, HeldInv, Held, Connected, Disconnect, Calling, context, objects
<1>5. WaveInv'
  BY DEF IInv, TypeOK, WaveInv, Held, Connected, Sound, ObjectOf, Remembered, Disconnect, context, waves, objects
<1> QED
  BY <1>1, <1>2, <1>3, <1>4, <1>5 DEF IInv

LEMMA StopAllStep ==
  ASSUME IInv, StopAll
  PROVE  IInv'
<1>1. TypeOK'
  BY DEF IInv, TypeOK, StopAll, Calling, context, waves, objects, Remembered
<1>2. NumberInv'
  BY DEF IInv, NumberInv, StopAll, context, waves, objects
<1>3. CallInv'
  BY DEF CallInv, Remembered, StopAll, waves
<1>4. HeldInv'
  BY DEF IInv, CallInv, HeldInv, Held, Connected, StopAll, Calling, context, objects
<1>5. WaveInv'
  BY DEF IInv, WaveInv, Held, Connected, Sound, StopAll, context, waves, objects
<1> QED
  BY <1>1, <1>2, <1>3, <1>4, <1>5 DEF IInv

LEMMA StoppedAllStep ==
  ASSUME IInv, StoppedAll
  PROVE  IInv'
<1>1. TypeOK'
  BY DEF IInv, TypeOK, StoppedAll, Over, To, context, waves, objects, NoCall
<1>2. NumberInv'
  BY DEF IInv, NumberInv, StoppedAll, context, waves, objects
<1>3. CallInv'
  BY DEF IInv, TypeOK, CallInv, StoppedAll, Over, To, context, NoCall
<1>4. HeldInv'
  BY DEF IInv, TypeOK, HeldInv, Held, Connected, StoppedAll, Over, To, context, objects, NoCall
<1>5. WaveInv'
  BY DEF IInv, WaveInv, Held, Connected, Sound, StoppedAll, Over, context, waves, objects, NoCall
<1> QED
  BY <1>1, <1>2, <1>3, <1>4, <1>5 DEF IInv

LEMMA CloseStep ==
  ASSUME IInv, Close
  PROVE  IInv'
<1>1. TypeOK'
  <2>1. Held \subseteq Boxes \X Nat
    BY HeldType DEF IInv
  <2>2. open' \subseteq Boxes \X Nat /\ leaked' \subseteq Boxes \X Nat
    BY <2>1 DEF IInv, TypeOK, Close
  <2>3. pool' \in [Boxes -> Nat] /\ system' \in BOOLEAN /\ maps' \in BOOLEAN
    <3>1. NoPool \in [Boxes -> Nat]
      BY DEF NoPool
    <3> QED
      BY <3>1 DEF IInv, TypeOK, Close, context
  <2> QED
    BY <2>2, <2>3 DEF IInv, TypeOK, Close, Over, To, NoCall, waves
<1>2. NumberInv'
  BY HeldType DEF IInv, TypeOK, NumberInv, Close, context, waves, NoPool
<1>3. CallInv'
  BY DEF IInv, TypeOK, CallInv, Close, Over, To, NoCall
<1>4. HeldInv'
  <2>1. CASE system
    <3>1. pool' = NoPool /\ Held' = {}
      BY <2>1, NothingHeld DEF Close, Held, Connected, NoPool
    <3>2. open' \ leaked' \subseteq {}
      BY <2>1 DEF IInv, HeldInv, Close
    <3>3. system' = FALSE /\ maps' = FALSE /\ call'.stage \in {"create", "none"}
      BY <2>1 DEF IInv, TypeOK, Close, Over, To, NoCall
    <3> QED
      BY <3>1, <3>2, <3>3 DEF HeldInv
  <2>2. CASE ~system
    BY <2>2, SameHeld DEF IInv, TypeOK, HeldInv, Close, Over, To, context, NoCall
  <2> QED
    BY <2>1, <2>2
<1>5. WaveInv'
  BY DEF IInv, WaveInv, Sound, Close, waves
<1> QED
  BY <1>1, <1>2, <1>3, <1>4, <1>5 DEF IInv

LEMMA CreateStep ==
  ASSUME IInv, Create
  PROVE  IInv'
<1>1. TypeOK'
  <2>1. \A boxes \in SUBSET call.boxes : Linked(boxes) \subseteq Boxes \X Nat
    BY DEF IInv, TypeOK, Linked
  <2>2. made' \in Nat /\ New \in [Boxes -> Nat]
    BY DEF IInv, TypeOK, New, Create
  <2>3. open' \subseteq Boxes \X Nat /\ leaked' \subseteq Boxes \X Nat
    BY <2>1 DEF IInv, TypeOK, Create
  <2>4. pool' \in [Boxes -> Nat] /\ system' \in BOOLEAN /\ maps' \in BOOLEAN
    BY <2>2 DEF IInv, TypeOK, Create, context
  <2> QED
    BY <2>2, <2>3, <2>4 DEF IInv, TypeOK, Create, Over, To, NoCall, waves
<1>2. NumberInv'
  BY DEF IInv, TypeOK, NumberInv, Create, New, Linked, context, waves
<1>3. CallInv'
  BY DEF IInv, TypeOK, CallInv, Create, Over, To, Step, NoCall
<1>4. HeldInv'
  <2>1. Held \subseteq leaked /\ open \subseteq leaked /\ system = FALSE /\ maps = FALSE
    BY DEF IInv, TypeOK, HeldInv, Create, Step
  <2>2. CASE pool' = New /\ system' = FALSE /\ maps' = FALSE /\ To("system") /\ leaked' = leaked
             /\ open' = open \cup Linked(call.boxes)
    <3>1. Held' = Linked(call.boxes)
      BY <2>2 DEF IInv, TypeOK, Held, Connected, New, Linked
    <3>2. Held' \cap leaked' = {}
      <4>1. \A x \in Linked(call.boxes) : x[2] = made + 1
        BY DEF Linked
      <4>2. \A x \in leaked : x[2] \in Nat /\ x[2] <= made
        BY DEF IInv, TypeOK, NumberInv
      <4> QED
        BY <2>2, <3>1, <4>1, <4>2 DEF IInv, TypeOK
    <3>3. Held' # {}
      BY <3>1 DEF IInv, CallInv, Create, Step, Linked
    <3>4. call'.stage = "system"
      BY <2>2 DEF IInv, TypeOK, To
    <3> QED
      BY <2>1, <2>2, <3>1, <3>2, <3>3, <3>4 DEF HeldInv
  <2>3. CASE Over /\ UNCHANGED context
    <3>1. PICK some \in SUBSET call.boxes :
             open' = open \cup Linked(some) /\ leaked' = leaked \cup Linked(some)
      BY <2>3 DEF IInv, Create, To, Over, NoCall
    <3>2. Held' = Held /\ call'.stage = "none"
      BY <2>3, SameHeld DEF context, Over, NoCall
    <3> QED
      BY <2>1, <2>3, <3>1, <3>2 DEF HeldInv, IInv, context
  <2> QED
    BY <2>2, <2>3 DEF Create
<1>5. WaveInv'
  BY DEF IInv, WaveInv, Sound, Create, Step, waves
<1> QED
  BY <1>1, <1>2, <1>3, <1>4, <1>5 DEF IInv

LEMMA MakeSystemStep ==
  ASSUME IInv, MakeSystem
  PROVE  IInv'
<1>1. TypeOK'
  BY DEF IInv, TypeOK, MakeSystem, To, waves, objects
<1>2. NumberInv'
  BY DEF IInv, NumberInv, MakeSystem, waves, objects
<1>3. CallInv'
  BY DEF IInv, CallInv, MakeSystem, Step, To
<1>4. HeldInv'
  BY DEF IInv, HeldInv, Held, Connected, MakeSystem, Step, To, objects
<1>5. WaveInv'
  BY DEF IInv, WaveInv, Sound, MakeSystem, Step, waves, objects
<1> QED
  BY <1>1, <1>2, <1>3, <1>4, <1>5 DEF IInv

LEMMA MakeMapsStep ==
  ASSUME IInv, MakeMaps
  PROVE  IInv'
<1>1. TypeOK'
  BY DEF IInv, TypeOK, MakeMaps, Over, waves, objects, NoCall
<1>2. NumberInv'
  BY DEF IInv, NumberInv, MakeMaps, waves, objects
<1>3. CallInv'
  BY DEF CallInv, MakeMaps, Over, NoCall
<1>4. HeldInv'
  BY SameHeld DEF IInv, TypeOK, HeldInv, MakeMaps, Step, Over, NoCall, objects
<1>5. WaveInv'
  BY DEF IInv, WaveInv, Sound, MakeMaps, Step, waves, objects
<1> QED
  BY <1>1, <1>2, <1>3, <1>4, <1>5 DEF IInv

LEMMA ConnectFailsStep ==
  ASSUME IInv, ConnectFails
  PROVE  IInv'
<1>1. TypeOK'
  <2>1. Held \subseteq Boxes \X Nat
    BY HeldType DEF IInv
  <2>2. open' \subseteq Boxes \X Nat /\ leaked' \subseteq Boxes \X Nat
    BY <2>1 DEF IInv, TypeOK, ConnectFails, Step
  <2>3. pool' \in [Boxes -> Nat] /\ system' \in BOOLEAN /\ maps' \in BOOLEAN
    BY DEF IInv, TypeOK, ConnectFails, NoPool, context
  <2> QED
    BY <2>2, <2>3 DEF IInv, TypeOK, ConnectFails, Over, NoCall, waves
<1>2. NumberInv'
  BY HeldType DEF IInv, TypeOK, NumberInv, ConnectFails, NoPool, waves
<1>3. CallInv'
  BY DEF CallInv, ConnectFails, Over, NoCall
<1>4. HeldInv'
  <2>1. pool' = NoPool /\ Held' = {}
    BY NothingHeld DEF ConnectFails, Held, Connected, NoPool
  <2>2. open' \ leaked' \subseteq {}
    BY DEF IInv, HeldInv, ConnectFails
  <2> QED
    BY <2>1, <2>2 DEF HeldInv, ConnectFails, Over, NoCall
<1>5. WaveInv'
  BY DEF IInv, WaveInv, Sound, ConnectFails, waves
<1> QED
  BY <1>1, <1>2, <1>3, <1>4, <1>5 DEF IInv

LEMMA ConnectInterruptedStep ==
  ASSUME IInv, ConnectInterrupted
  PROVE  IInv'
<1>1. TypeOK'
  BY HeldType DEF IInv, TypeOK, ConnectInterrupted, Over, context, waves, NoCall
<1>2. NumberInv'
  BY HeldType DEF IInv, TypeOK, NumberInv, ConnectInterrupted, context, waves
<1>3. CallInv'
  BY DEF CallInv, ConnectInterrupted, Over, NoCall
<1>4. HeldInv'
  BY DEF IInv, HeldInv, Held, Connected, ConnectInterrupted, Step, Over, context, NoCall
<1>5. WaveInv'
  BY DEF IInv, WaveInv, Sound, ConnectInterrupted, waves
<1> QED
  BY <1>1, <1>2, <1>3, <1>4, <1>5 DEF IInv

LEMMA StopNextStep ==
  ASSUME IInv, NEW o \in Outputs, StopNext(o)
  PROVE  IInv'
<1>1. TypeOK'
  BY DEF IInv, TypeOK, StopNext, Stopped, context, objects
<1>2. NumberInv'
  BY DEF IInv, NumberInv, StopNext, Stopped, context, objects
<1>3. CallInv'
  BY DEF IInv, CallInv, Remembered, StopNext, Stopped, context
<1>4. HeldInv'
  BY DEF IInv, HeldInv, Held, Connected, StopNext, context, objects
<1>5. WaveInv'
  BY DEF IInv, TypeOK, WaveInv, Held, Connected, Sound, StopNext, Stopped, Wave, context, objects
<1> QED
  BY <1>1, <1>2, <1>3, <1>4, <1>5 DEF IInv

LEMMA StopNextFailsStep ==
  ASSUME IInv, NEW o \in Outputs, StopNextFails(o)
  PROVE  IInv'
<1>1. TypeOK'
  BY DEF IInv, TypeOK, StopNextFails, StopFailed, Over, To, Wave, context, objects, NoCall
<1>2. NumberInv'
  BY DEF IInv, NumberInv, StopNextFails, StopFailed, context, objects
<1>3. CallInv'
  BY DEF IInv, TypeOK, CallInv, StopNextFails, Over, To, NoCall
<1>4. HeldInv'
  BY DEF IInv, TypeOK, HeldInv, Held, Connected, StopNextFails, Over, To, context, objects, NoCall
<1>5. WaveInv'
  BY DEF IInv, TypeOK, WaveInv, Held, Connected, Sound, StopNextFails, StopFailed, Over, Wave, context, objects, NoCall
<1> QED
  BY <1>1, <1>2, <1>3, <1>4, <1>5 DEF IInv

LEMMA StartStep ==
  ASSUME IInv, NEW o \in Outputs, Start(o)
  PROVE  IInv'
<1>1. TypeOK'
  BY BoxOfAssumption, SameHeld DEF IInv, TypeOK, Start, Calling, context, waves, objects
<1>2. NumberInv'
  BY DEF IInv, NumberInv, Start, context, waves, objects, Connected
<1>3. CallInv'
  BY DEF IInv, CallInv, Start, Calling
<1>4. HeldInv'
  BY DEF IInv, HeldInv, Held, Connected, Start, context, objects
<1>5. WaveInv'
  BY DEF IInv, TypeOK, CallInv, WaveInv, Held, Connected, Sound, ObjectOf, Start, Calling, context, waves, objects
<1> QED
  BY <1>1, <1>2, <1>3, <1>4, <1>5 DEF IInv

LEMMA StopStep ==
  ASSUME IInv, NEW o \in Outputs, Stop(o)
  PROVE  IInv'
<1>1. TypeOK'
  BY DEF IInv, TypeOK, Stop, Calling, Stopped, StopFailed, Wave, context, objects
<1>2. NumberInv'
  BY DEF IInv, NumberInv, Stop, Stopped, StopFailed, context, objects
<1>3. CallInv'
  BY DEF IInv, CallInv, Stop, Calling
<1>4. HeldInv'
  BY DEF IInv, HeldInv, Held, Connected, Stop, context, objects
<1>5. WaveInv'
  BY DEF IInv, TypeOK, WaveInv, Held, Connected, Sound, Stop, Stopped, StopFailed, Wave, context, objects
<1> QED
  BY <1>1, <1>2, <1>3, <1>4, <1>5 DEF IInv

LEMMA WaveEndsStep ==
  ASSUME IInv, NEW w \in emitting, WaveEnds(w)
  PROVE  IInv'
<1>1. TypeOK'
  BY DEF IInv, TypeOK, WaveEnds, context, objects
<1>2. NumberInv'
  BY DEF IInv, NumberInv, WaveEnds, context, objects
<1>3. CallInv'
  BY DEF IInv, CallInv, Remembered, WaveEnds, context
<1>4. HeldInv'
  BY DEF IInv, HeldInv, Held, Connected, WaveEnds, context, objects
<1>5. WaveInv'
  BY DEF IInv, WaveInv, Held, Connected, Sound, WaveEnds, context, objects
<1> QED
  BY <1>1, <1>2, <1>3, <1>4, <1>5 DEF IInv

-----------------------------------------------------------------------------
(* The invariant and the theorems.                                           *)

LEMMA InitIInv == Init => IInv
<1> SUFFICES ASSUME Init PROVE IInv
  OBVIOUS
<1>1. Held = {}
  BY NothingHeld DEF Init
<1>2. TypeOK
  BY DEF Init, TypeOK, NoPool, NoCall
<1>3. NumberInv /\ CallInv /\ WaveInv
  BY DEF Init, NumberInv, CallInv, WaveInv, NoPool, NoCall
<1>4. HeldInv
  BY <1>1 DEF Init, HeldInv, NoCall
<1> QED
  BY <1>2, <1>3, <1>4 DEF IInv

LEMMA StepIInv == IInv /\ [Next]_vars => IInv'
<1> SUFFICES ASSUME IInv, [Next]_vars PROVE IInv'
  OBVIOUS
<1>1. CASE UNCHANGED vars
  <2>1. Held' = Held /\ Remembered' = Remembered /\ \A w : Sound(w)' <=> Sound(w)
    BY <1>1 DEF vars, Held, Connected, Remembered, Sound
  <2>2. TypeOK' /\ NumberInv'
    BY <1>1 DEF vars, IInv, TypeOK, NumberInv
  <2>3. CallInv' /\ HeldInv' /\ WaveInv'
    BY <1>1, <2>1 DEF vars, IInv, CallInv, HeldInv, WaveInv
  <2> QED
    BY <2>2, <2>3 DEF IInv
<1>2. CASE \E boxes \in (SUBSET Boxes) \ {{}} : Connect(boxes)
  BY <1>2, ConnectStep
<1>3. CASE Disconnect \/ StopAll \/ StoppedAll \/ Close
  BY <1>3, DisconnectStep, StopAllStep, StoppedAllStep, CloseStep
<1>4. CASE Create \/ MakeSystem \/ MakeMaps \/ ConnectFails \/ ConnectInterrupted
  BY <1>4, CreateStep, MakeSystemStep, MakeMapsStep, ConnectFailsStep, ConnectInterruptedStep
<1>5. CASE \E o \in Outputs : StopNext(o) \/ StopNextFails(o) \/ Start(o) \/ Stop(o)
  BY <1>5, StopNextStep, StopNextFailsStep, StartStep, StopStep
<1>6. CASE \E w \in emitting : WaveEnds(w)
  BY <1>6, WaveEndsStep
<1> QED
  BY <1>1, <1>2, <1>3, <1>4, <1>5, <1>6 DEF Next, Done

\* What holds of waves, objects and context at each stage of a call.
THEOREM InductiveInvariant == Spec => []IInv
BY InitIInv, StepIInv, PTL DEF Spec

\* The variables keep their types, whichever requests fail.
THEOREM TypeCorrect == Spec => []TypeOK
<1>1. IInv => TypeOK
  BY DEF IInv
<1> QED
  BY <1>1, InductiveInvariant, PTL

\* Whatever number of connects, to whichever boxes, a wave that emits is
\* remembered and its box held: it can be stopped.
THEOREM WavesStayReachable == Spec => []WavesReachable
<1>1. IInv => WavesReachable
  BY DEF IInv, WaveInv, HeldInv, Sound, ObjectOf, WavesReachable
<1> QED
  BY <1>1, InductiveInvariant, PTL

\* Between calls the controller has a connection with all its parts or none.
THEOREM ConnectionStaysWhole == Spec => []ConnectionWhole
<1>1. IInv => ConnectionWhole
  BY DEF IInv, CallInv, HeldInv, ConnectionWhole
<1> QED
  BY <1>1, InductiveInvariant, PTL
=============================================================================
