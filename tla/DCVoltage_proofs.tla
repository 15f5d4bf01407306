---------------------------- MODULE DCVoltage_proofs ----------------------------
(***************************************************************************)
(* Proofs about the DC voltage controller, for any number of channels, any *)
(* range, ramp step and number of attempts: outputs stay in the range,     *)
(* move by ramp steps, are off after a shutdown and idle when a context    *)
(* ends, however contexts are nested.                                      *)
(***************************************************************************)
EXTENDS DCVoltage, TLAPS

Working == {"ramp", "set", "on", "switch", "off", "done"}

\* Every voltage on the way is in the range.
GoalInv ==
    /\ \A i \in 1..Len(op.todo) : op.goal[op.todo[i]] \in Safe
    /\ pc \in Working => op.todo # <<>>
    /\ pc = "close" => op.todo = <<>>

\* A setpoint that was checked is in the range.
CheckInv == pc = "switch" /\ ~touched => volt[Ch] \in Safe

\* Where a shutdown of a channel with a switch is: a ramp starts in the range,
\* and the channel is done when it is off at its reset voltage.
ShutdownInv ==
    op.kind = "off" =>
        /\ op.goal = Reset
        /\ pc = "ramp" => op.cur \in Safe
        /\ pc \notin {"on", "switch"} /\ op.then # "on"
        /\ Switched /\ ~touched =>
              /\ pc \in {"ramp", "set"} /\ op.then = "done" => ~out[Ch]
              /\ pc \in {"off", "done"} => volt[Ch] = Reset[Ch]
              /\ pc = "done" => ~out[Ch]

\* An output that is on is where the ramp thinks it is.
RampInv ==
    Switched /\ ~lost /\ ~touched /\ pc \in {"ramp", "set"} /\ out[Ch] =>
        /\ pc = "ramp" => volt[Ch] = op.cur
        /\ pc = "set" => Distance(volt[Ch], Goal) <= Step

\* The contexts around the innermost are in their bodies, down to NoCtx.
CtxInv ==
    /\ ctx.kind = "none" <=> ctx.stage = "none"
    /\ ctx.kind = "none" => ctx = NoCtx
    /\ ctx = NoCtx \/ outer # <<>>
    /\ \A i \in 1..Len(outer) :
          outer[i] = NoCtx \/ (outer[i].stage = "body" /\ outer[i].kind # "none" /\ i < Len(outer))

\* The caller has the floor between operations, outside and in bodies.
CallerInv ==
    /\ pc = "caller" => op = NoOp /\ ctx.stage \in {"none", "body"}
    /\ pc = "open" /\ ctx.kind = "control" /\ ctx.stage = "enter" => op = NoOp

\* What holds while a context idles and nothing has disturbed it.
Idling ==
    /\ pc # "close" => /\ op.kind = "idle" /\ op.goal = Idle
                       /\ op.then = "done" /\ pc \notin {"on", "switch", "off"}
    /\ pc = "done" => volt[Ch] = Goal
    /\ \A i \in 1..Len(ctx.chans) :
          \/ \E j \in 1..Len(op.todo) : op.todo[j] = ctx.chans[i]
          \/ out[ctx.chans[i]] => volt[ctx.chans[i]] = Idle[ctx.chans[i]]

\* A context that is left has each output idle or still to do.
LeaveInv == ctx.stage = "leave" /\ hurt = {} => Idling

IInv ==
    /\ TypeOK /\ GoalInv /\ CtxInv /\ CallerInv
    /\ CheckInv /\ ShutdownInv /\ RampInv /\ LeaveInv

\* What is assumed of the constants.
LEMMA Constants ==
  /\ MinV \in Int /\ MaxV \in Int /\ Step \in Nat \ {0} /\ MaxSets \in Nat \ {0}
  /\ Safe \subseteq Int /\ Strange \subseteq Int /\ Asked \subseteq Int /\ Volts \subseteq Int
  /\ Reset \in [Channels -> Safe] /\ Idle \in [Channels -> Safe]
  /\ Reset \in [Channels -> Int] /\ Idle \in [Channels -> Int]
  /\ Selections \subseteq Seq(Channels)
  /\ Requests \subseteq Seq(Channels) \X [Channels -> Int]
  /\ \A v \in Asked : [c \in Channels |-> v] \in [Channels -> Int]
  /\ MaxCalls \in Nat /\ MaxForeign \in Nat
<1>1. Safe \subseteq Int
  BY RangeAssumption DEF Safe
<1>2. Reset \in [Channels -> Int] /\ Idle \in [Channels -> Int]
  BY <1>1, ProfileAssumption
<1>3. \A v \in Asked : [c \in Channels |-> v] \in [Channels -> Int]
  BY CallerAssumption
<1> QED
  BY <1>1, <1>2, <1>3, RangeAssumption, ProfileAssumption, CallerAssumption, BoundAssumption DEF Volts

(***************************************************************************)
(* Types.                                                                  *)
(***************************************************************************)

\* The channel in progress is one of the channels.
LEMMA ChTypes ==
  ASSUME TypeOK, op.todo # <<>>
  PROVE  /\ Ch \in Channels /\ Ch = op.todo[1] /\ 1 \in 1..Len(op.todo)
         /\ Tail(op.todo) \in Seq(Channels)
         /\ Len(Tail(op.todo)) = Len(op.todo) - 1
         /\ \A i \in 1..Len(Tail(op.todo)) : i + 1 \in 1..Len(op.todo)
                                              /\ Tail(op.todo)[i] = op.todo[i + 1]
         /\ Goal \in Int
<1>1. op.todo \in Seq(Channels) /\ op.goal \in [Channels -> Int]
  BY DEF TypeOK, Operations
<1>2. Len(op.todo) > 0
  BY Constants, <1>1
<1> QED
  BY Constants, <1>1, <1>2 DEF Ch, Goal

LEMMA NoOpTypes ==
  /\ NoOp \in Operations
  /\ NoOp.todo = <<>>
  /\ NoCtx \in Contexts
BY Constants DEF NoOp, NoCtx, Safe, Contexts, Operations

LEMMA BeginTypes ==
  ASSUME NEW kind \in {"apply", "idle", "reset", "off"}, NEW own \in BOOLEAN,
         NEW seq \in Seq(Channels), NEW goal \in [Channels -> Int], Begin(kind, own, seq, goal)
  PROVE  op' \in Operations
BY Constants DEF Begin, Operations

\* The state after Begin has safe goals if the caller's voltages were validated.
LEMMA BeginGoals ==
  ASSUME NEW kind, NEW own, NEW seq \in Seq(Channels), NEW goal, Begin(kind, own, seq, goal),
         Validated(goal, seq)
  PROVE  \A i \in 1..Len(op'.todo) : op'.goal[op'.todo[i]] \in Safe
BY Constants DEF Begin, Validated, Members

LEMMA ValidatedProfiles ==
  ASSUME NEW seq \in Seq(Channels)
  PROVE  /\ Validated(Idle, seq) /\ Validated(Reset, seq)
         /\ Idle \in [Channels -> Int] /\ Reset \in [Channels -> Int]
BY Constants DEF Validated, Members, Safe

\* The parts of the type invariant.
DeviceTypes ==
    /\ driver \in {"ons61797", "qblox"}
    /\ volt \in [Channels -> Volts] /\ out \in [Channels -> BOOLEAN]
RunTypes ==
    /\ pc \in {"caller", "open", "next", "ramp", "set", "on", "switch", "off", "done", "close"}
    /\ raised \in BOOLEAN /\ lost \in BOOLEAN /\ touched \in BOOLEAN /\ hurt \subseteq Channels
CtxTypes == ctx \in Contexts /\ outer \in Seq(Contexts)
OpTypes ==
    op \in Operations
Bounds == calls \in 0..MaxCalls /\ foreign \in 0..MaxForeign

LEMMA Parts == TypeOK <=> DeviceTypes /\ RunTypes /\ CtxTypes /\ OpTypes /\ Bounds
BY DEF TypeOK, DeviceTypes, RunTypes, CtxTypes, OpTypes, Bounds

\* What the caller's steps have in common.
LEMMA CallingTypes ==
  ASSUME TypeOK, Calling, UNCHANGED <<device, lost, touched, foreign>>
  PROVE  DeviceTypes' /\ Bounds' /\ lost' \in BOOLEAN /\ touched' \in BOOLEAN
BY BoundAssumption DEF TypeOK, Calling, DeviceTypes, Bounds, device

LEMMA InitTypes == Init => TypeOK
<1> SUFFICES ASSUME Init PROVE TypeOK
  OBVIOUS
<1>1. DeviceTypes
  BY DEF Init, DeviceTypes, Volts
<1>2. RunTypes
  BY DEF Init, RunTypes
<1>3. CtxTypes /\ OpTypes
  BY NoOpTypes DEF Init, CtxTypes, OpTypes
<1>4. Bounds
  BY BoundAssumption DEF Init, Bounds
<1> QED
  BY <1>1, <1>2, <1>3, <1>4, Parts

\* Entering a context puts it inside the ones there are.
LEMMA EnterTypes ==
  ASSUME TypeOK, NEW kind \in {"applied", "control"}, NEW seq \in Seq(Channels), Enter(kind, seq)
  PROVE  CtxTypes'
<1>1. ctx' \in Contexts
  BY DEF Enter, Contexts
<1>2. outer' \in Seq(Contexts)
  BY DEF Enter, TypeOK
<1> QED
  BY <1>1, <1>2 DEF CtxTypes

\* The channels of a context in the stack.
LEMMA StackTypes ==
  ASSUME TypeOK, NEW control \in Members(<<ctx>> \o outer)
  PROVE  control \in Contexts /\ control.chans \in Seq(Channels)
<1>1. <<ctx>> \o outer \in Seq(Contexts)
  BY DEF TypeOK
<1>2. control \in Contexts
  BY <1>1 DEF Members
<1> QED
  BY <1>2 DEF Contexts

LEMMA OwnChans ==
  ASSUME TypeOK
  PROVE  ctx.chans \in Seq(Channels) /\ [ctx EXCEPT !.stage = "leave"] \in Contexts
         /\ [ctx EXCEPT !.stage = "body"] \in Contexts
BY DEF TypeOK, Contexts

\* What the steps of the caller do to the contexts.
LEMMA CallShape ==
  ASSUME Call
  PROVE  /\ pc = "caller" /\ pc' \in {"open", "next"} /\ UNCHANGED <<device, lost, touched, foreign>>
         /\ \/ UNCHANGED contexts /\ UNCHANGED hurt
            \/ /\ \E kind \in {"applied", "control"} : \E seq : Enter(kind, seq)
               /\ pc' = "open" /\ (ctx'.kind = "control" => op' = NoOp)
            \/ Leave
<1>1. ASSUME NEW kind, NEW seq, NEW goal, Bulk(kind, seq, goal)
      PROVE  /\ pc = "caller" /\ pc' = "open" /\ UNCHANGED <<device, lost, touched, foreign>>
             /\ UNCHANGED contexts /\ UNCHANGED hurt
  BY <1>1 DEF Bulk, Calling, ghosts
<1>2. ASSUME NEW seq, NEW goal, EnterApplied(seq, goal)
      PROVE  /\ pc = "caller" /\ pc' = "open" /\ UNCHANGED <<device, lost, touched, foreign>>
             /\ Enter("applied", seq) /\ ctx'.kind = "applied"
  BY <1>2 DEF EnterApplied, Enter, Calling
<1>3. ASSUME NEW c, EnterControl(c)
      PROVE  /\ pc = "caller" /\ pc' = "open" /\ UNCHANGED <<device, lost, touched, foreign>>
             /\ Enter("control", <<c>>) /\ op' = NoOp
  BY <1>3 DEF EnterControl, Calling
<1>4. ASSUME NEW kind, NEW goal, Control(kind, goal)
      PROVE  /\ pc = "caller" /\ pc' = "next" /\ UNCHANGED <<device, lost, touched, foreign>>
             /\ UNCHANGED contexts /\ UNCHANGED hurt
  BY <1>4 DEF Control, Calling, ghosts
<1>5. Leave => /\ pc = "caller" /\ pc' \in {"open", "next"}
               /\ UNCHANGED <<device, lost, touched, foreign>>
  BY DEF Leave
<1> QED
  BY <1>1, <1>2, <1>3, <1>4, <1>5 DEF Call

\* The steps of the caller keep the types.
LEMMA CallTypes ==
  ASSUME TypeOK, Call
  PROVE  TypeOK'
<1>1. ASSUME NEW seq \in Seq(Channels), NEW kind \in {"apply", "reset", "idle", "off"},
             NEW goal \in [Channels -> Int], Bulk(kind, seq, goal)
      PROVE  TypeOK'
  <2>1. OpTypes' /\ CtxTypes'
    BY <1>1, BeginTypes DEF OpTypes, CtxTypes, Bulk, TypeOK, contexts
  <2>2. DeviceTypes' /\ Bounds' /\ RunTypes'
    BY <1>1, CallingTypes DEF Bulk, TypeOK, RunTypes, ghosts
  <2> QED
    BY <2>1, <2>2 DEF TypeOK, DeviceTypes, RunTypes, CtxTypes, OpTypes, Bounds
<1>2. ASSUME NEW seq \in Seq(Channels), NEW goal \in [Channels -> Int], EnterApplied(seq, goal)
      PROVE  TypeOK'
  <2>1. OpTypes' /\ CtxTypes'
    BY <1>2, BeginTypes, EnterTypes DEF OpTypes, EnterApplied
  <2>2. DeviceTypes' /\ Bounds' /\ RunTypes'
    BY <1>2, CallingTypes DEF EnterApplied, TypeOK, RunTypes
  <2> QED
    BY <2>1, <2>2 DEF TypeOK, DeviceTypes, RunTypes, CtxTypes, OpTypes, Bounds
<1>3. ASSUME NEW c \in Channels, EnterControl(c) PROVE TypeOK'
  <2>1. <<c>> \in Seq(Channels)
    OBVIOUS
  <2>2. OpTypes' /\ CtxTypes'
    BY <1>3, <2>1, NoOpTypes, EnterTypes DEF OpTypes, EnterControl
  <2>3. DeviceTypes' /\ Bounds' /\ RunTypes'
    BY <1>3, CallingTypes DEF EnterControl, TypeOK, RunTypes
  <2> QED
    BY <2>2, <2>3 DEF TypeOK, DeviceTypes, RunTypes, CtxTypes, OpTypes, Bounds
<1>4. ASSUME NEW kind \in {"apply", "idle"}, NEW goal \in [Channels -> Int], Control(kind, goal)
      PROVE  TypeOK'
  <2>1. PICK control \in Members(<<ctx>> \o outer) : Begin(kind, FALSE, control.chans, goal)
    BY <1>4 DEF Control
  <2>2. OpTypes' /\ CtxTypes'
    BY <1>4, <2>1, StackTypes, BeginTypes DEF OpTypes, CtxTypes, Control, TypeOK, contexts
  <2>3. DeviceTypes' /\ Bounds' /\ RunTypes'
    BY <1>4, CallingTypes DEF Control, TypeOK, RunTypes, ghosts
  <2> QED
    BY <2>2, <2>3 DEF TypeOK, DeviceTypes, RunTypes, CtxTypes, OpTypes, Bounds
<1>5. ASSUME Leave PROVE TypeOK'
  <2>1. Begin("idle", ctx.kind = "applied", ctx.chans, Idle) /\ Idle \in [Channels -> Int]
    BY Constants, <1>5 DEF Leave
  <2>2. OpTypes' /\ CtxTypes'
    BY <1>5, <2>1, OwnChans, BeginTypes DEF OpTypes, CtxTypes, Leave, TypeOK
  <2> QED
    BY <1>5, <2>2 DEF Leave, TypeOK, device, OpTypes, CtxTypes
<1>6. ASSUME NEW request \in Requests
      PROVE  request[1] \in Seq(Channels) /\ request[2] \in [Channels -> Int]
  BY Constants
<1> QED
  BY <1>1, <1>2, <1>3, <1>4, <1>5, <1>6, Constants DEF Call

\* The requests to the device keep the types.
LEMMA RequestTypes ==
  ASSUME TypeOK, GoalInv, CtxInv, Request
  PROVE  TypeOK'
<1>1. CASE Open
  BY <1>1, OwnChans DEF Open, TypeOK, device, ghosts
<1>2. CASE OpenFails
  <2>1. hurt' \subseteq Channels
    BY <1>2, OwnChans DEF OpenFails, Hurts, TypeOK, Members
  <2> QED
    BY Constants, <1>2, <2>1, NoOpTypes DEF OpenFails, TypeOK, device, contexts
<1>3. CASE Finish
  BY Constants, <1>3, NoOpTypes DEF Finish, Over, TypeOK, device, contexts, ghosts
<1>4. CASE InspectOff
  <2>1. Tail(op.todo) \in Seq(Channels) /\ 0 \in 0..MaxSets
    BY <1>4, ChTypes, RangeAssumption DEF InspectOff
  <2>2. op' \in Operations
    BY <1>4, <2>1 DEF InspectOff, Pass, TypeOK, Operations
  <2>3. pc' \in {"next", "set"}
    BY <1>4 DEF InspectOff, Runs
  <2> QED
    BY <1>4, <2>2, <2>3 DEF InspectOff, Runs, Seen, TypeOK, contexts
<1>5. CASE InspectRefused
  BY Constants, <1>5, NoOpTypes DEF InspectRefused, Raise, Over, TypeOK, device, contexts, ghosts
<1>6. CASE InspectOn
  <2>1. volt[Ch] \in Int
    BY Constants, <1>6, ChTypes DEF InspectOn, TypeOK, Volts, Safe
  <2>2. op' \in Operations
    <3>1. 0 \in 0..MaxSets
      BY RangeAssumption
    <3> QED
      BY <1>6, <2>1, <3>1 DEF InspectOn, TypeOK, Operations
  <2>3. pc' \in {"ramp", "done", "on", "off"}
    BY Constants, <1>6, <2>2 DEF InspectOn, Runs, Operations
  <2> QED
    BY Constants, <1>6, <2>2, <2>3 DEF InspectOn, Runs, Seen, TypeOK, contexts
<1>7. CASE SwitchOffFirst
  <2>1. Ch \in Channels /\ 0 \in 0..MaxSets
    BY <1>7, ChTypes, RangeAssumption DEF SwitchOffFirst
  <2>2. op' \in Operations
    BY <1>7, <2>1 DEF SwitchOffFirst, TypeOK, Operations
  <2>3. out' \in [Channels -> BOOLEAN]
    BY <1>7, <2>1 DEF SwitchOffFirst, TypeOK
  <2> QED
    BY <1>7, <2>2, <2>3 DEF SwitchOffFirst, Runs, Seen, TypeOK, contexts
<1>8. CASE RampStep
  <2>1. op.todo # <<>> /\ Toward(op.cur, Goal) \in Safe /\ Toward(op.cur, Goal) \in Int
    BY Constants, <1>8 DEF RampStep, Runs, GoalInv, Working, Safe
  <2>2. op' \in Operations /\ op'.cur \in Safe
    BY Constants, <1>8, <2>1 DEF RampStep, TypeOK, Operations
  <2>3. volt' \in [Channels -> Volts] /\ lost' \in BOOLEAN
    BY Constants, <1>8, <2>1, <2>2, ChTypes DEF RampStep, TypeOK, Volts
  <2> QED
    BY Constants, <1>8, <2>2, <2>3 DEF RampStep, Runs, TypeOK, contexts
<1>9. CASE RampEnds
  BY Constants, <1>9 DEF RampEnds, Runs, Unseen, TypeOK, contexts
<1>10. CASE RampNative
  <2>1. op.todo # <<>> /\ Safe \subseteq Int
    BY Constants, <1>10 DEF RampNative, GoalInv, Working, Safe
  <2>2. PICK v \in Safe : /\ volt' = [volt EXCEPT ![Ch] = v]
                          /\ op' = [op EXCEPT !.cur = v, !.tries = @ + 1]
                          /\ Runs("ramp", IF v = Goal THEN op.then ELSE "ramp")
    BY Constants, <1>10 DEF RampNative
  <2>3. op' \in Operations
    <3>1. op.tries + 1 \in 0..MaxSets
      BY <1>10, RangeAssumption DEF RampNative, TypeOK, Operations
    <3> QED
      BY <2>1, <2>2, <3>1 DEF TypeOK, Operations
  <2>4. volt' \in [Channels -> Volts]
    BY Constants, <2>1, <2>2, ChTypes DEF TypeOK, Volts
  <2> QED
    BY Constants, <1>10, <2>2, <2>3, <2>4 DEF RampNative, Runs, Unseen, TypeOK, Operations, contexts
<1>11. CASE SetVerified
  <2>1. op.todo # <<>>
    BY Constants, <1>11 DEF SetVerified, GoalInv, Working
  <2>2. Goal \in Safe
    BY Constants, <2>1, ChTypes DEF GoalInv, Goal
  <2>3. op' \in Operations
    <3>1. op.tries + 1 \in 0..MaxSets
      BY <1>11, RangeAssumption DEF SetVerified, TypeOK, Operations
    <3> QED
      BY <1>11, <3>1 DEF SetVerified, TypeOK, Operations
  <2>4. volt' \in [Channels -> Volts]
    BY Constants, <1>11, <2>1, <2>2, ChTypes DEF SetVerified, TypeOK, Volts
  <2> QED
    BY Constants, <1>11, <2>3, <2>4 DEF SetVerified, Runs, Unseen, TypeOK, Operations, contexts
<1>12. CASE NextChannel \/ SwitchOn \/ SwitchOff
  <2>1. Pass /\ pc' = "next" /\ op.todo # <<>>
    BY <1>12 DEF NextChannel, SwitchOn, SwitchOff, Runs, GoalInv, Working
  <2>2. op' \in Operations
    BY <2>1, ChTypes DEF Pass, TypeOK, Operations
  <2>3. out' \in [Channels -> BOOLEAN]
    BY <1>12 DEF NextChannel, SwitchOn, SwitchOff, TypeOK
  <2> QED
    BY <1>12, <2>1, <2>2, <2>3
       DEF NextChannel, SwitchOn, SwitchOff, Runs, Unseen, TypeOK, contexts
<1>13. CASE CheckSetpoint
  BY <1>13 DEF CheckSetpoint, Runs, Seen, TypeOK, contexts
<1>14. CASE Refused \/ RequestFails
  <2>1. hurt' \subseteq Channels
    BY <1>14, ChTypes DEF Refused, RequestFails, Hurts, TypeOK, GoalInv, Working
  <2>2. op' \in Operations /\ pc' \in {"close", "caller"} /\ raised' = TRUE
    BY <1>14, NoOpTypes DEF Refused, RequestFails, Raise, Over
  <2> QED
    BY <1>14, <2>1, <2>2 DEF Refused, RequestFails, TypeOK, device, contexts
<1>15. CASE Close
  <2>1. ctx.chans \in Seq(Channels) /\ Idle \in [Channels -> Int]
    BY Constants, OwnChans
  <2>2. op' \in Operations
    BY <1>15, <2>1, BeginTypes, NoOpTypes DEF Close
  <2>3. ctx.stage \notin {"none", "body"} => Head(outer) \in Contexts /\ Tail(outer) \in Seq(Contexts)
    BY DEF CtxInv, NoCtx, TypeOK
  <2>4. ctx' \in Contexts /\ outer' \in Seq(Contexts)
    BY <1>15, <2>3, OwnChans DEF Close, EndContext, contexts, TypeOK
  <2> QED
    BY <1>15, <2>2, <2>4 DEF Close, TypeOK, device
<1> QED
  BY <1>1, <1>2, <1>3, <1>4, <1>5, <1>6, <1>7, <1>8, <1>9, <1>10, <1>11, <1>12,
     <1>13, <1>14, <1>15 DEF Request

LEMMA ForeignTypes ==
  ASSUME TypeOK, NEW c \in Channels, NEW v \in Strange, NEW on \in BOOLEAN, Foreign(c, v, on)
  PROVE  TypeOK'
<1>1. hurt' \subseteq Channels /\ touched' \in BOOLEAN
  BY Constants DEF Foreign, Hurts, TypeOK
<1>2. volt' \in [Channels -> Volts] /\ out' \in [Channels -> BOOLEAN]
  BY Constants DEF Foreign, TypeOK, Volts
<1> QED
  BY Constants, <1>1, <1>2 DEF Foreign, TypeOK, contexts

LEMMA TypeStep ==
  ASSUME TypeOK, GoalInv, CtxInv, [Next]_vars
  PROVE  TypeOK'
BY CallTypes, RequestTypes, ForeignTypes
   DEF Next, vars, TypeOK

(***************************************************************************)
(* The goals stay in the range.                                            *)
(***************************************************************************)

\* An operation that goes on to its next channel keeps its goals.
LEMMA PassGoals ==
  ASSUME TypeOK, GoalInv, op.todo # <<>>, Pass
  PROVE  \A i \in 1..Len(op'.todo) : op'.goal[op'.todo[i]] \in Safe
<1>1. op'.todo = Tail(op.todo) /\ op'.goal = op.goal
  BY DEF Pass, TypeOK, Operations
<1> QED
  BY <1>1, ChTypes DEF GoalInv

LEMMA GoalStep ==
  ASSUME TypeOK, GoalInv, [Next]_vars
  PROVE  GoalInv'
<1>1. ASSUME NEW seq \in Seq(Channels), NEW kind, NEW goal, Bulk(kind, seq, goal)
      PROVE  GoalInv'
  BY <1>1, BeginGoals, Constants DEF Bulk, GoalInv, Working
<1>2. ASSUME NEW seq \in Seq(Channels), NEW goal, EnterApplied(seq, goal) PROVE GoalInv'
  BY <1>2, BeginGoals, Constants DEF EnterApplied, GoalInv, Working
<1>3. ASSUME NEW c \in Channels, EnterControl(c) PROVE GoalInv'
  BY <1>3, NoOpTypes DEF EnterControl, GoalInv, Working
<1>4. ASSUME NEW kind, NEW goal, Control(kind, goal) PROVE GoalInv'
  <2>1. PICK control \in Members(<<ctx>> \o outer) :
           Begin(kind, FALSE, control.chans, goal) /\ Validated(goal, control.chans)
    BY <1>4 DEF Control
  <2> QED
    BY <1>4, <2>1, StackTypes, BeginGoals DEF Control, GoalInv, Working
<1>5. CASE Leave
  BY <1>5, OwnChans, BeginGoals, ValidatedProfiles DEF Leave, GoalInv, Working
<1>6. CASE Open
  BY <1>6 DEF Open, GoalInv, Working
<1>7. CASE OpenFails \/ Finish \/ InspectRefused \/ Refused \/ RequestFails
  <2>1. op' = NoOp /\ pc' \in {"caller", "close"}
    BY <1>7 DEF OpenFails, Finish, InspectRefused, Refused, RequestFails, Raise, Over
  <2> QED
    BY <2>1, NoOpTypes DEF GoalInv, Working
<1>8. CASE InspectOff
  <2>1. CASE op.kind = "idle"
    <3>1. Pass /\ pc' = "next" /\ op.todo # <<>>
      BY <1>8, <2>1 DEF InspectOff, Runs
    <3> QED
      BY <3>1, PassGoals DEF GoalInv, Working
  <2>2. CASE op.kind # "idle"
    <3>1. op'.todo = op.todo /\ op'.goal = op.goal /\ op.todo # <<>> /\ pc' = "set"
      BY <1>8, <2>2 DEF InspectOff, Runs, TypeOK, Operations
    <3> QED
      BY <3>1 DEF GoalInv, Working
  <2> QED
    BY <2>1, <2>2
<1>9. CASE InspectOn \/ CheckSetpoint
  <2>1. op'.todo = op.todo /\ op'.goal = op.goal /\ op.todo # <<>>
    BY <1>9 DEF InspectOn, CheckSetpoint, Runs, TypeOK, Operations, GoalInv, Working
  <2>2. pc' # "close"
    BY <1>9 DEF InspectOn, CheckSetpoint, Runs, TypeOK, Operations
  <2> QED
    BY <2>1, <2>2 DEF GoalInv
<1>10. CASE SwitchOffFirst
  BY <1>10 DEF SwitchOffFirst, Runs, TypeOK, Operations, GoalInv, Working
<1>11. CASE RampStep \/ RampEnds
  <2>1. op'.todo = op.todo /\ op'.goal = op.goal /\ pc = "ramp" /\ pc' \in {"ramp", "set"}
    BY <1>11 DEF RampStep, RampEnds, Runs, TypeOK, Operations
  <2> QED
    BY <2>1 DEF GoalInv, Working
<1>12. CASE RampNative
  <2>1. op'.todo = op.todo /\ op'.goal = op.goal /\ pc = "ramp"
        /\ pc' \in {"ramp", "done", "on", "off"}
    BY <1>12 DEF RampNative, Runs, TypeOK, Operations
  <2> QED
    BY <2>1 DEF GoalInv, Working
<1>13. CASE SetVerified
  <2>1. op'.todo = op.todo /\ op'.goal = op.goal /\ pc = "set"
        /\ pc' \in {"set", "done", "on", "off"}
    BY <1>13 DEF SetVerified, Runs, TypeOK, Operations
  <2> QED
    BY <2>1 DEF GoalInv, Working
<1>14. CASE NextChannel \/ SwitchOn \/ SwitchOff
  <2>1. Pass /\ pc' = "next" /\ op.todo # <<>>
    BY <1>14 DEF NextChannel, SwitchOn, SwitchOff, Runs, GoalInv, Working
  <2> QED
    BY <2>1, PassGoals DEF GoalInv, Working
<1>15. CASE Close
  <2>1. ctx.chans \in Seq(Channels)
    BY OwnChans
  <2>2. CASE op' = NoOp /\ pc' = "caller"
    BY <2>2, NoOpTypes DEF GoalInv, Working
  <2>3. CASE Begin("idle", TRUE, ctx.chans, Idle) /\ pc' = "open"
    BY <2>1, <2>3, BeginGoals, ValidatedProfiles DEF GoalInv, Working
  <2> QED
    BY <1>15, <2>2, <2>3 DEF Close
<1>16. ASSUME NEW c \in Channels, NEW v \in Strange, NEW on \in BOOLEAN, Foreign(c, v, on)
      PROVE  GoalInv'
  BY <1>16 DEF Foreign, GoalInv, Working
<1>17. CASE UNCHANGED vars
  BY <1>17 DEF vars, GoalInv, Working
<1>18. ASSUME NEW request \in Requests PROVE request[1] \in Seq(Channels)
  BY Constants
<1> QED
  BY <1>1, <1>2, <1>3, <1>4, <1>5, <1>6, <1>7, <1>8, <1>9, <1>10, <1>11, <1>12,
     <1>13, <1>14, <1>15, <1>16, <1>17, <1>18, Constants DEF Next, Call, Request

(***************************************************************************)
(* Where a ramp is.                                                        *)
(***************************************************************************)

LEMMA RampStepInv ==
  ASSUME TypeOK, GoalInv, RampInv, [Next]_vars
  PROVE  RampInv'
<1>1. CASE Call
  <2>1. pc' \notin {"ramp", "set"}
    BY <1>1 DEF Call, Bulk, EnterApplied, EnterControl, Control, Leave
  <2> QED
    BY <2>1 DEF RampInv
<1>2. CASE Open \/ OpenFails \/ Finish \/ InspectRefused \/ Refused \/ RequestFails \/ Close
           \/ NextChannel \/ CheckSetpoint \/ SwitchOn \/ SwitchOff
  <2>1. pc' \notin {"ramp", "set"}
    BY <1>2 DEF Open, OpenFails, Finish, InspectRefused, Refused, RequestFails, Raise, Over,
                Close, NextChannel, CheckSetpoint, SwitchOn, SwitchOff, Runs
  <2> QED
    BY <2>1 DEF RampInv
<1>3. CASE InspectOff
  <2>1. CASE op.kind = "idle"
    BY <1>3, <2>1 DEF InspectOff, Runs, RampInv
  <2>2. CASE op.kind # "idle"
    <3>1. op'.todo = op.todo /\ ~out'[Head(op.todo)]
      BY <1>3, <2>2 DEF InspectOff, TypeOK, Operations, Ch
    <3> QED
      BY <3>1 DEF RampInv, Ch
  <2> QED
    BY <2>1, <2>2
<1>4. CASE InspectOn
  <2>1. op'.todo = op.todo /\ op'.cur = volt'[Ch] /\ pc' # "set"
    BY <1>4 DEF InspectOn, Runs, TypeOK, Operations, Ch
  <2> QED
    BY <2>1 DEF RampInv, Ch
<1>5. CASE SwitchOffFirst
  <2>1. op'.todo = op.todo /\ ~out'[Ch]
    BY <1>5, ChTypes DEF SwitchOffFirst, TypeOK, Operations
  <2> QED
    BY <2>1 DEF RampInv, Ch
<1>6. CASE RampStep
  <2>1. /\ op'.todo = op.todo /\ op.todo # <<>> /\ pc' = "ramp"
        /\ op'.cur = Toward(op.cur, Goal)
    BY <1>6 DEF RampStep, Runs, TypeOK, Operations, GoalInv, Working
  <2>2. ~lost' => volt'[Ch] = op'.cur /\ ~lost
    BY <1>6, <2>1, ChTypes DEF RampStep, TypeOK, Operations
  <2> QED
    BY <2>1, <2>2 DEF RampInv, Ch
<1>7. CASE RampEnds
  <2>1. pc = "ramp" /\ pc' = "set" /\ op.todo # <<>> /\ Distance(Goal, op.cur) <= Step
        /\ UNCHANGED <<volt, out, op, lost, touched, driver>>
    BY <1>7 DEF RampEnds, Runs, Unseen, GoalInv, Working
  <2>2. volt[Ch] = op.cur => Distance(volt[Ch], Goal) <= Step
    <3>1. op.cur \in Int /\ Goal \in Int /\ Step \in Int
      BY <2>1, ChTypes, RangeAssumption DEF TypeOK, Operations
    <3> QED
      BY <2>1, <3>1 DEF Distance
  <2> QED
    BY <2>1, <2>2 DEF RampInv, Ch, Goal, Switched
<1>8. CASE RampNative
  BY <1>8 DEF RampNative, Runs, RampInv, Switched
<1>9. CASE SetVerified
  <2>1. op'.todo = op.todo /\ op'.goal = op.goal /\ pc = "set" /\ op.todo # <<>>
    BY <1>9 DEF SetVerified, TypeOK, Operations, GoalInv, Working
  <2>2. CASE pc' = "set" /\ UNCHANGED volt
    BY <1>9, <2>1, <2>2 DEF SetVerified, Runs, Unseen, RampInv, Ch, Goal, Switched
  <2>3. CASE pc' = op.then
    BY <2>3 DEF RampInv, TypeOK, Operations
  <2> QED
    BY <1>9, <2>2, <2>3 DEF SetVerified, Runs
<1>10. ASSUME NEW c \in Channels, NEW v \in Strange, NEW on \in BOOLEAN, Foreign(c, v, on)
      PROVE  RampInv'
  <2>1. SUFFICES ASSUME ~touched', pc \in {"ramp", "set"}
                 PROVE  volt'[Ch] = volt[Ch] /\ out'[Ch] = out[Ch] /\ ~touched
    BY <1>10 DEF Foreign, RampInv, Ch, Goal, Switched
  <2>2. op.todo # <<>> /\ c # Ch /\ ~touched
    BY <1>10, <2>1 DEF Foreign, GoalInv, Working
  <2> QED
    BY <1>10, <2>2, ChTypes DEF Foreign, TypeOK
<1>11. CASE UNCHANGED vars
  BY <1>11 DEF vars, RampInv, Ch, Goal, Switched
<1> QED
  BY <1>1, <1>2, <1>3, <1>4, <1>5, <1>6, <1>7, <1>8, <1>9, <1>10, <1>11 DEF Next, Request

(***************************************************************************)
(* Leaving a context.                                                      *)
(***************************************************************************)

\* Ending a context leads back to one that is in its body, or to none.
LEMMA EndContextInv ==
  ASSUME TypeOK, CtxInv, ctx.stage \notin {"none", "body"}, EndContext
  PROVE  CtxInv' /\ ctx'.stage \in {"none", "body"}
<1>1. outer # <<>> /\ outer \in Seq(Contexts) /\ Len(outer) \in Nat
  BY DEF CtxInv, NoCtx, TypeOK
<1>2. /\ ctx' = outer[1] /\ 1 \in 1..Len(outer) /\ Len(outer') = Len(outer) - 1
      /\ \A i \in 1..Len(outer') : i + 1 \in 1..Len(outer) /\ outer'[i] = outer[i + 1]
  BY <1>1 DEF EndContext
<1>3. ctx' = NoCtx \/ (ctx'.stage = "body" /\ ctx'.kind # "none" /\ Len(outer') > 0)
  BY <1>1, <1>2 DEF CtxInv
<1>4. outer' = <<>> => Len(outer') = 0
  OBVIOUS
<1>5. \A i \in 1..Len(outer') :
         outer'[i] = NoCtx \/ (outer'[i].stage = "body" /\ outer'[i].kind # "none" /\ i < Len(outer'))
  BY <1>1, <1>2 DEF CtxInv
<1> QED
  BY <1>3, <1>4, <1>5 DEF CtxInv, NoCtx

\* Entering one puts the innermost, which is in its body, around it.
LEMMA EnterInv ==
  ASSUME TypeOK, CtxInv, ctx.stage \in {"none", "body"}, NEW kind \in {"applied", "control"},
         NEW seq, Enter(kind, seq)
  PROVE  CtxInv'
<1>1. outer \in Seq(Contexts) /\ Len(outer) \in Nat /\ (outer # <<>> => Len(outer) > 0)
  BY DEF TypeOK
<1>2. /\ Len(outer') = Len(outer) + 1 /\ outer'[1] = ctx
      /\ \A i \in 1..Len(outer') : i # 1 => i - 1 \in 1..Len(outer) /\ outer'[i] = outer[i - 1]
  BY <1>1 DEF Enter
<1>3. ASSUME NEW i \in 1..Len(outer')
      PROVE  \/ outer'[i] = NoCtx
             \/ outer'[i].stage = "body" /\ outer'[i].kind # "none" /\ i < Len(outer')
  <2>1. CASE i = 1
    BY <1>1, <1>2, <2>1 DEF CtxInv, NoCtx
  <2>2. CASE i # 1
    BY <1>1, <1>2, <2>2 DEF CtxInv
  <2> QED
    BY <2>1, <2>2
<1>4. ctx'.kind = kind /\ ctx'.stage = "enter" /\ outer' # <<>>
  BY <1>1, <1>2 DEF Enter
<1> QED
  BY <1>3, <1>4 DEF CtxInv, NoCtx

LEMMA CtxStep ==
  ASSUME TypeOK, CtxInv, CallerInv, [Next]_vars
  PROVE  CtxInv'
<1>1. CASE Call
  <2>1. CASE UNCHANGED contexts
    BY <2>1 DEF CtxInv, contexts
  <2>2. CASE Leave
    BY <2>2 DEF Leave, CtxInv, TypeOK, Contexts, NoCtx
  <2>3. ASSUME NEW seq, NEW goal, EnterApplied(seq, goal) PROVE CtxInv'
    BY <2>3, EnterInv DEF EnterApplied, Calling, CallerInv
  <2>4. ASSUME NEW c, EnterControl(c) PROVE CtxInv'
    BY <2>4, EnterInv DEF EnterControl, Calling, CallerInv
  <2> QED
    BY <1>1, <2>1, <2>2, <2>3, <2>4 DEF Call, Bulk, Control
<1>2. CASE Open
  BY <1>2 DEF Open, CtxInv, TypeOK, Contexts, NoCtx
<1>3. CASE Close
  <2>1. CASE UNCHANGED contexts
    BY <2>1 DEF CtxInv, contexts
  <2>2. CASE ctx.stage \notin {"none", "body"} /\ EndContext
    BY <2>2, EndContextInv
  <2>3. CASE /\ ctx.kind = "applied" /\ UNCHANGED outer
             /\ \E stage \in {"body", "leave"} : ctx' = [ctx EXCEPT !.stage = stage]
    BY <2>3 DEF CtxInv, TypeOK, Contexts, NoCtx
  <2> QED
    BY <1>3, <2>1, <2>2, <2>3 DEF Close
<1>4. CASE UNCHANGED contexts
  BY <1>4 DEF CtxInv, contexts
<1> QED
  BY <1>1, <1>2, <1>3, <1>4
     DEF Next, Request, OpenFails, Finish, InspectOff, InspectRefused, InspectOn,
         SwitchOffFirst, RampStep, RampEnds, RampNative, SetVerified, NextChannel, CheckSetpoint,
         SwitchOn, SwitchOff, Refused, RequestFails, Runs, Foreign, vars, contexts

\* The caller goes on only when nothing is in progress.
LEMMA CallerStep ==
  ASSUME TypeOK, CtxInv, CallerInv, GoalInv, [Next]_vars
  PROVE  CallerInv'
<1>1. CASE Call
  <2>1. pc' # "caller" /\ (pc' = "open" /\ ctx'.kind = "control" /\ ctx'.stage = "enter" => op' = NoOp)
    <3>1. CASE UNCHANGED contexts
      BY <1>1, <3>1, CallShape DEF CallerInv, contexts
    <3>2. CASE Leave
      BY <3>2 DEF Leave, TypeOK, Contexts
    <3> QED
      BY <1>1, <3>1, <3>2, CallShape
  <2> QED
    BY <2>1 DEF CallerInv
<1>2. CASE Open
  BY <1>2 DEF Open, CallerInv, TypeOK, Contexts
<1>3. CASE OpenFails \/ Finish \/ InspectRefused \/ Refused \/ RequestFails
  <2>1. /\ op' = NoOp /\ pc' \in {"close", "caller"} /\ UNCHANGED ctx
        /\ pc' = "caller" => ctx.stage = "body"
    BY <1>3 DEF OpenFails, Finish, InspectRefused, Refused, RequestFails, Raise, Over, contexts
  <2> QED
    BY <2>1 DEF CallerInv
<1>4. CASE Close
  <2>1. CASE pc' = "open"
    BY <1>4, <2>1 DEF Close, CallerInv, TypeOK, Contexts
  <2>2. CASE pc' # "open" /\ EndContext /\ ctx.stage \notin {"none", "body"}
    BY <1>4, <2>2, EndContextInv DEF Close, CallerInv
  <2>3. CASE pc' # "open" /\ ~(EndContext /\ ctx.stage \notin {"none", "body"})
    BY <1>4, <2>3 DEF Close, CallerInv, TypeOK, Contexts, contexts
  <2> QED
    BY <2>1, <2>2, <2>3
<1>5. CASE pc' \notin {"caller", "open"}
  BY <1>5 DEF CallerInv
<1>6. ASSUME NEW c \in Channels, NEW v \in Strange, NEW on \in BOOLEAN, Foreign(c, v, on)
      PROVE  CallerInv'
  BY <1>6 DEF Foreign, CallerInv, contexts
<1>7. CASE UNCHANGED vars
  BY <1>7 DEF vars, CallerInv
<1> QED
  <2>1. CASE InspectOff \/ InspectOn \/ SwitchOffFirst \/ RampStep \/ RampEnds \/ RampNative
             \/ SetVerified \/ NextChannel \/ CheckSetpoint \/ SwitchOn \/ SwitchOff
    <3>1. pc' \notin {"caller", "open"}
      BY <2>1 DEF InspectOff, InspectOn, SwitchOffFirst, RampStep, RampEnds, RampNative,
                  SetVerified, NextChannel, CheckSetpoint, SwitchOn, SwitchOff, Runs, TypeOK, Operations
    <3> QED
      BY <1>5, <3>1
  <2> QED
    BY <1>1, <1>2, <1>3, <1>4, <1>6, <1>7, <2>1 DEF Next, Request

\* A context begins to idle: all its channels are to do.
LEMMA BeginIdling ==
  ASSUME TypeOK, NEW own, Begin("idle", own, ctx.chans, Idle), ctx' = [ctx EXCEPT !.stage = "leave"],
         pc' \in {"next", "open"}
  PROVE  Idling'
<1>1. op'.todo = ctx.chans /\ op'.kind = "idle" /\ op'.goal = Idle /\ op'.then = "done"
  BY DEF Begin
<1>2. ctx'.chans = ctx.chans
  BY DEF TypeOK, Contexts
<1> QED
  BY <1>1, <1>2 DEF Idling

\* Going on to the next channel when this one is off or idle.
LEMMA PassIdling ==
  ASSUME TypeOK, Idling, op.todo # <<>>, Pass, pc # "close", pc' = "next",
         UNCHANGED <<volt, out, ctx>>, out[Ch] => volt[Ch] = Idle[Ch]
  PROVE  Idling'
<1>1. /\ op'.todo = Tail(op.todo) /\ op'.kind = op.kind /\ op'.goal = op.goal
      /\ op'.then = op.then
  BY DEF Pass, TypeOK, Operations
<1>2. ASSUME NEW i \in 1..Len(ctx.chans)
      PROVE  \/ \E j \in 1..Len(op'.todo) : op'.todo[j] = ctx.chans[i]
             \/ out[ctx.chans[i]] => volt[ctx.chans[i]] = Idle[ctx.chans[i]]
  <2>1. CASE \E j \in 1..Len(op.todo) : op.todo[j] = ctx.chans[i]
    <3>1. PICK j \in 1..Len(op.todo) : op.todo[j] = ctx.chans[i]
      BY <2>1
    <3>2. CASE j = 1
      BY <3>1, <3>2, ChTypes
    <3>3. CASE j # 1
      <4>1. j - 1 \in 1..Len(Tail(op.todo)) /\ Tail(op.todo)[j - 1] = op.todo[j]
        BY <3>3, ChTypes DEF TypeOK, Operations
      <4> QED
        BY <3>1, <4>1, <1>1
    <3> QED
      BY <3>2, <3>3
  <2> QED
    BY <2>1 DEF Idling
<1> QED
  BY <1>1, <1>2 DEF Idling

\* A step that changes at most the channel in progress, which stays to do.
LEMMA SameIdling ==
  ASSUME TypeOK, Idling, op.todo # <<>>, UNCHANGED <<out, ctx>>,
         op'.todo = op.todo, op'.kind = op.kind, op'.goal = op.goal, op'.then = "done",
         pc # "close", pc' \notin {"close", "on", "switch", "off"},
         \A c \in Channels : c # Ch => volt'[c] = volt[c],
         pc' = "done" => volt'[Ch] = Goal
  PROVE  Idling'
<1>1. ASSUME NEW i \in 1..Len(ctx.chans)
      PROVE  \/ \E j \in 1..Len(op'.todo) : op'.todo[j] = ctx.chans[i]
             \/ out'[ctx.chans[i]] => volt'[ctx.chans[i]] = Idle[ctx.chans[i]]
  <2>1. CASE ctx.chans[i] = Ch
    BY <2>1, ChTypes
  <2>2. CASE ctx.chans[i] # Ch
    BY <2>2, OwnChans DEF Idling, TypeOK
  <2> QED
    BY <2>1, <2>2
<1>2. pc' = "done" => volt'[Head(op'.todo)] = op'.goal[Head(op'.todo)]
  BY DEF Ch, Goal
<1> QED
  BY <1>1, <1>2 DEF Idling, Ch, Goal

LEMMA LeaveStep ==
  ASSUME TypeOK, GoalInv, CallerInv, CtxInv, LeaveInv, [Next]_vars
  PROVE  LeaveInv'
<1>1. ctx.stage = "leave" => pc # "caller" /\ (hurt = {} => Idling)
  BY DEF CallerInv, LeaveInv
<1>2. SUFFICES ASSUME ctx'.stage = "leave" PROVE hurt' = {} => Idling'
  BY DEF LeaveInv
<1>3. CASE Leave
  BY <1>3, BeginIdling DEF Leave
<1>4. CASE Close
  <2>1. ~(ctx.stage \notin {"none", "body"} /\ EndContext)
    BY <1>2, EndContextInv
  <2>2. /\ ctx' = [ctx EXCEPT !.stage = "leave"] /\ Begin("idle", TRUE, ctx.chans, Idle)
        /\ pc' = "open"
    BY <1>2, <1>4, <2>1 DEF Close, TypeOK, Contexts, contexts
  <2> QED
    BY <2>2, BeginIdling
<1>5. CASE Call /\ ~Leave
  <2>1. pc = "caller" /\ ctx.stage # "leave"
    BY <1>1, <1>5 DEF Call, Bulk, EnterApplied, EnterControl, Control, Calling
  <2>2. ctx' = ctx \/ ctx'.stage = "enter"
    BY <1>5, CallShape DEF Enter, contexts
  <2> QED
    BY <1>2, <2>1, <2>2
<1>6. CASE Open
  <2>1. ctx' = ctx /\ pc' = "next" /\ UNCHANGED <<volt, out, op, hurt>> /\ pc = "open"
    BY <1>2, <1>6 DEF Open, TypeOK, Contexts, device, ghosts
  <2>2. Idling => Idling'
    BY <2>1 DEF Idling
  <2> QED
    BY <1>1, <1>2, <2>1, <2>2
<1>7. CASE Finish
  <2>1. /\ ctx' = ctx /\ UNCHANGED <<volt, out, hurt>> /\ pc = "next" /\ op.todo = <<>>
        /\ pc' = "close" /\ op' = NoOp
    BY <1>2, <1>7 DEF Finish, Over, device, contexts, ghosts
  <2>2. Idling => Idling'
    BY <2>1, NoOpTypes DEF Idling
  <2> QED
    BY <1>1, <1>2, <2>1, <2>2
<1>8. CASE OpenFails
  <2>1. /\ ctx' = ctx /\ pc' = "close" /\ hurt' = hurt \cup Members(ctx.chans)
    BY <1>2, <1>8 DEF OpenFails, Hurts, contexts
  <2>2. ASSUME hurt' = {}, NEW i \in 1..Len(ctx.chans) PROVE FALSE
    <3>1. ctx.chans[i] \in Members(ctx.chans)
      BY DEF Members
    <3> QED
      BY <2>1, <2>2, <3>1
  <2> QED
    BY <2>1, <2>2 DEF Idling
<1>9. CASE Refused \/ RequestFails
  BY <1>2, <1>9 DEF Refused, RequestFails, Hurts, contexts
<1>10. CASE InspectRefused
  <2>1. /\ ctx' = ctx /\ pc = "next" /\ op.kind # "idle" /\ hurt' = hurt /\ pc' = "close"
    BY <1>2, <1>10 DEF InspectRefused, Raise, Over, contexts, ghosts
  <2>2. ~Idling
    BY <2>1 DEF Idling
  <2> QED
    BY <1>1, <1>2, <2>1, <2>2
<1>11. CASE InspectOff
  <2>1. ctx' = ctx /\ hurt' = hurt /\ pc = "next" /\ pc' # "caller"
        /\ op.todo # <<>> /\ ~out[Ch] /\ UNCHANGED <<volt, out>>
    BY <1>11 DEF InspectOff, Runs, contexts
  <2>2. ASSUME Idling PROVE Idling'
    <3>1. op.kind = "idle"
      BY <2>1, <2>2 DEF Idling
    <3>2. Pass /\ pc' = "next"
      BY <1>11, <3>1 DEF InspectOff, Runs
    <3> QED
      BY <2>1, <2>2, <3>2, PassIdling
  <2> QED
    BY <1>1, <1>2, <2>1, <2>2
<1>12. CASE InspectOn
  <2>1. ctx' = ctx /\ hurt' = hurt /\ pc = "next" /\ pc' # "caller"
        /\ op.todo # <<>> /\ UNCHANGED <<volt, out>>
    BY <1>12 DEF InspectOn, Runs, TypeOK, Operations, contexts
  <2>2. ASSUME Idling PROVE Idling'
    <3>1. op.kind = "idle"
      BY <2>1, <2>2 DEF Idling
    <3>2. op'.todo = op.todo /\ op'.kind = op.kind /\ op'.goal = op.goal /\ op'.then = "done"
      BY <1>12, <3>1 DEF InspectOn, TypeOK, Operations
    <3>3. pc' = "ramp" \/ (pc' = "done" /\ volt[Ch] = Goal)
      BY <1>12, <3>2 DEF InspectOn, Runs
    <3> QED
      BY <2>1, <2>2, <3>2, <3>3, SameIdling
  <2> QED
    BY <1>1, <1>2, <2>1, <2>2
<1>13. CASE SwitchOffFirst
  <2>1. ctx' = ctx /\ hurt' = hurt /\ pc = "next" /\ pc' = "set" /\ op.kind = "off"
    BY <1>13 DEF SwitchOffFirst, Runs, contexts
  <2>2. ~Idling
    BY <2>1 DEF Idling
  <2> QED
    BY <1>1, <1>2, <2>1, <2>2
<1>14. CASE RampStep \/ RampEnds \/ RampNative \/ SetVerified
  <2>1. /\ ctx' = ctx /\ hurt' = hurt /\ pc \in {"ramp", "set"} /\ pc' # "caller"
        /\ op.todo # <<>> /\ UNCHANGED out
        /\ op'.todo = op.todo /\ op'.kind = op.kind /\ op'.goal = op.goal
        /\ op'.then = op.then
    BY <1>14 DEF RampStep, RampEnds, RampNative, SetVerified, Runs, TypeOK, Operations, contexts,
                 GoalInv, Working
  <2>2. \A c \in Channels : c # Ch => volt'[c] = volt[c]
    BY <1>14 DEF RampStep, RampEnds, RampNative, SetVerified, TypeOK
  <2>3. ASSUME Idling PROVE Idling'
    <3>1. op.then = "done"
      BY <2>1, <2>3 DEF Idling
    <3>2. pc' \in {"ramp", "set"} \/ (pc' = "done" /\ volt'[Ch] = Goal)
      BY <1>14, <2>1, <3>1, ChTypes
         DEF RampStep, RampEnds, RampNative, SetVerified, Runs, TypeOK, Operations
    <3> QED
      BY <2>1, <2>2, <2>3, <3>1, <3>2, SameIdling
  <2> QED
    BY <1>1, <1>2, <2>1, <2>3
<1>15. CASE NextChannel
  <2>1. ctx' = ctx /\ hurt' = hurt /\ pc = "done" /\ pc' = "next" /\ Pass
        /\ op.todo # <<>> /\ UNCHANGED <<volt, out>>
    BY <1>15 DEF NextChannel, Runs, contexts, GoalInv, Working
  <2>2. Idling => volt[Ch] = Idle[Ch]
    BY <2>1 DEF Idling, Goal
  <2> QED
    BY <1>1, <1>2, <2>1, <2>2, PassIdling
<1>16. CASE CheckSetpoint \/ SwitchOn \/ SwitchOff
  <2>1. ctx' = ctx /\ hurt' = hurt /\ pc \in {"on", "switch", "off"}
    BY <1>16 DEF CheckSetpoint, SwitchOn, SwitchOff, Runs, contexts
  <2>2. ~Idling
    BY <2>1 DEF Idling
  <2> QED
    BY <1>1, <1>2, <2>1, <2>2
<1>17. ASSUME NEW c \in Channels, NEW v \in Strange, NEW on \in BOOLEAN, Foreign(c, v, on)
      PROVE  hurt' = {} => Idling'
  BY <1>1, <1>2, <1>17 DEF Foreign, Hurts, contexts
<1>18. CASE UNCHANGED vars
  BY <1>1, <1>2, <1>18 DEF vars, Idling, Ch, Goal
<1> QED
  BY <1>3, <1>4, <1>5, <1>6, <1>7, <1>8, <1>9, <1>10, <1>11, <1>12, <1>13, <1>14,
     <1>15, <1>16, <1>17, <1>18 DEF Next, Request

(***************************************************************************)
(* Checks and shutdowns.                                                   *)
(***************************************************************************)

LEMMA CheckStep ==
  ASSUME TypeOK, GoalInv, CheckInv, [Next]_vars
  PROVE  CheckInv'
<1>1. SUFFICES ASSUME pc' = "switch", ~touched' PROVE volt'[Head(op'.todo)] \in Safe
  BY DEF CheckInv, Ch
<1>2. CASE CheckSetpoint
  BY <1>2 DEF CheckSetpoint, Ch
<1>3. ASSUME NEW c \in Channels, NEW v \in Strange, NEW on \in BOOLEAN, Foreign(c, v, on)
      PROVE  volt'[Head(op'.todo)] \in Safe
  <2>1. pc = "switch" /\ ~touched /\ c # Ch /\ op.todo # <<>> /\ op' = op
    BY <1>1, <1>3 DEF Foreign, GoalInv, Working
  <2> QED
    BY <1>3, <2>1, ChTypes DEF Foreign, CheckInv, TypeOK, Ch
<1>4. CASE UNCHANGED vars
  BY <1>1, <1>4 DEF vars, CheckInv, Ch
<1>5. CASE Call
  BY <1>1, <1>5, CallShape
<1>6. CASE Open \/ OpenFails \/ Finish \/ InspectRefused \/ Refused \/ RequestFails \/ Close
  BY <1>1, <1>6 DEF Open, OpenFails, Finish, InspectRefused, Refused, RequestFails, Raise, Over, Close
<1>7. CASE InspectOff \/ InspectOn \/ SwitchOffFirst \/ RampStep \/ RampEnds \/ RampNative
           \/ SetVerified \/ NextChannel \/ SwitchOn \/ SwitchOff
  BY <1>1, <1>7 DEF InspectOff, InspectOn, SwitchOffFirst, RampStep, RampEnds, RampNative,
                    SetVerified, NextChannel, SwitchOn, SwitchOff, Runs, TypeOK, Operations
<1> QED
  BY <1>2, <1>3, <1>4, <1>5, <1>6, <1>7 DEF Next, Request

\* The profiles of the channel in progress.
LEMMA ResetSafe ==
  ASSUME TypeOK, op.todo # <<>>
  PROVE  Reset[Ch] \in Safe /\ Idle[Ch] \in Safe
BY ChTypes, Constants

\* A setpoint between two voltages in the range is in the range.
LEMMA TowardSafe ==
  ASSUME NEW a \in Safe, NEW b \in Safe, Distance(b, a) > Step
  PROVE  Toward(a, b) \in Safe
BY RangeAssumption DEF Safe, Distance, Toward

LEMMA ShutdownStep ==
  ASSUME TypeOK, GoalInv, CallerInv, ShutdownInv, [Next]_vars
  PROVE  ShutdownInv'
<1>1. CASE Call
  <2>2. ASSUME NEW seq \in Selections, NEW kind \in {"reset", "idle", "off"},
               Bulk(kind, seq, IF kind = "idle" THEN Idle ELSE Reset)
        PROVE  ShutdownInv'
    BY <2>2 DEF Bulk, Begin, ShutdownInv
  <2>3. ASSUME NEW seq, NEW goal, Bulk("apply", seq, goal) \/ EnterApplied(seq, goal)
        PROVE  ShutdownInv'
    BY <2>3 DEF Bulk, EnterApplied, Begin, ShutdownInv
  <2>4. ASSUME NEW c, EnterControl(c) PROVE ShutdownInv'
    BY <2>4 DEF EnterControl, NoOp, ShutdownInv
  <2>5. ASSUME NEW kind \in {"apply", "idle"}, NEW goal, Control(kind, goal) PROVE ShutdownInv'
    BY <2>5 DEF Control, Begin, ShutdownInv
  <2>6. CASE Leave
    BY <2>6 DEF Leave, Begin, ShutdownInv
  <2> QED
    BY <1>1, <2>2, <2>3, <2>4, <2>5, <2>6 DEF Call
<1>2. CASE OpenFails \/ Finish \/ InspectRefused \/ Refused \/ RequestFails
  BY <1>2 DEF OpenFails, Finish, InspectRefused, Refused, RequestFails, Raise, NoOp, ShutdownInv
<1>3. CASE Close
  BY <1>3 DEF Close, Begin, NoOp, ShutdownInv
<1>4. CASE Open
  BY <1>4 DEF Open, ghosts, device, ShutdownInv, Ch, Switched
<1>5. SUFFICES ASSUME op'.kind = "off", ~Call, ~OpenFails, ~Finish, ~InspectRefused, ~Refused,
                      ~RequestFails, ~Close, ~Open
               PROVE  ShutdownInv'
  BY <1>1, <1>2, <1>3, <1>4 DEF ShutdownInv
<1>6. CASE InspectOff
  <2>1. /\ op.kind = "off" /\ pc' = "set" /\ op.todo # <<>> /\ ~out[Ch] /\ UNCHANGED <<volt, out>>
        /\ op' = [op EXCEPT !.tries = 0, !.then = "done"]
    BY <1>5, <1>6 DEF InspectOff, Runs, Pass, TypeOK, Operations
  <2> QED
    BY <2>1 DEF ShutdownInv, Ch, TypeOK, Operations
<1>7. CASE InspectOn
  <2>1. /\ op.kind = "off" /\ volt[Ch] \in Safe /\ op.todo # <<>> /\ UNCHANGED <<volt, out, driver>>
        /\ op' = [op EXCEPT !.cur = volt[Ch], !.tries = 0,
                            !.then = IF Switched THEN "off" ELSE "done"]
        /\ pc' = IF volt[Ch] = Goal THEN op'.then ELSE "ramp"
    BY <1>5, <1>7 DEF InspectOn, Runs, TypeOK, Operations
  <2>2. op'.then = (IF Switched THEN "off" ELSE "done") /\ op'.cur = volt[Ch]
        /\ op'.todo = op.todo /\ op'.goal = op.goal
    BY <2>1 DEF TypeOK, Operations
  <2>3. Goal = Reset[Ch]
    BY <2>1 DEF ShutdownInv, Goal
  <2> QED
    BY <2>1, <2>2, <2>3 DEF ShutdownInv, Ch, Switched
<1>8. CASE SwitchOffFirst
  <2>1. /\ op.kind = "off" /\ pc' = "set" /\ op.todo # <<>>
        /\ op'.todo = op.todo /\ op'.goal = op.goal /\ op'.then = "done" /\ ~out'[Ch]
    BY <1>8, ChTypes DEF SwitchOffFirst, Runs, TypeOK, Operations
  <2> QED
    BY <2>1 DEF ShutdownInv, Ch
<1>9. CASE RampStep
  <2>1. /\ op.kind = "off" /\ pc = "ramp" /\ pc' = "ramp" /\ op'.cur \in Safe
        /\ op'.todo = op.todo /\ op'.goal = op.goal /\ op'.then = op.then
        /\ UNCHANGED <<out, touched, driver>>
    BY <1>5, <1>9 DEF RampStep, Runs, TypeOK, Operations
  <2> QED
    BY <2>1 DEF ShutdownInv, Ch, Switched
<1>10. CASE RampEnds
  <2>1. pc = "ramp" /\ pc' = "set" /\ UNCHANGED <<op, volt, out, touched, driver>>
    BY <1>10 DEF RampEnds, Runs, Unseen
  <2> QED
    BY <1>5, <2>1 DEF ShutdownInv, Ch, Switched
<1>11. CASE RampNative
  <2>1. /\ op.kind = "off" /\ pc = "ramp" /\ pc' \in {"ramp", op.then} /\ op'.cur \in Safe
        /\ op'.todo = op.todo /\ op'.goal = op.goal /\ op'.then = op.then
        /\ ~Switched /\ UNCHANGED driver
    BY <1>5, <1>11 DEF RampNative, Runs, TypeOK, Operations
  <2>2. op.then \in {"off", "done"}
    BY <2>1 DEF ShutdownInv, TypeOK, Operations
  <2> QED
    BY <2>1, <2>2 DEF ShutdownInv, Switched
<1>12. CASE SetVerified
  <2>1. /\ op.kind = "off" /\ pc = "set" /\ op.todo # <<>>
        /\ op'.todo = op.todo /\ op'.goal = op.goal /\ op'.then = op.then
        /\ UNCHANGED <<out, touched, driver>>
    BY <1>5, <1>12 DEF SetVerified, Runs, Unseen, TypeOK, Operations, GoalInv, Working
  <2>2. op.then \in {"off", "done"} /\ Goal = Reset[Ch]
    BY <2>1 DEF ShutdownInv, TypeOK, Operations, Goal
  <2>3. CASE pc' = "set"
    BY <2>1, <2>3 DEF ShutdownInv, Ch, Switched
  <2>4. CASE pc' = op.then /\ volt' = [volt EXCEPT ![Ch] = Goal]
    <3>1. volt'[Ch] = Reset[Ch]
      BY <2>1, <2>2, <2>4, ChTypes DEF TypeOK
    <3> QED
      BY <2>1, <2>2, <2>4, <3>1 DEF ShutdownInv, Ch, Switched
  <2> QED
    BY <1>12, <2>3, <2>4 DEF SetVerified, Runs
<1>13. CASE NextChannel \/ SwitchOn \/ SwitchOff
  <2>1. /\ op.kind = "off" /\ pc' = "next" /\ op'.goal = op.goal /\ op'.then = op.then
    BY <1>5, <1>13 DEF NextChannel, SwitchOn, SwitchOff, Runs, Pass, TypeOK, Operations
  <2> QED
    BY <2>1 DEF ShutdownInv
<1>14. CASE CheckSetpoint
  BY <1>5, <1>14 DEF CheckSetpoint, Runs, ShutdownInv
<1>15. ASSUME NEW c \in Channels, NEW v \in Strange, NEW on \in BOOLEAN, Foreign(c, v, on)
      PROVE  ShutdownInv'
  <2>1. /\ UNCHANGED <<op, pc, driver>> /\ op.kind = "off"
        /\ volt' = [volt EXCEPT ![c] = v] /\ out' = [out EXCEPT ![c] = on]
        /\ ~touched' => ~touched /\ (op.todo = <<>> \/ c # Ch)
    BY <1>5, <1>15 DEF Foreign
  <2>2. CASE touched'
    BY <2>1, <2>2 DEF ShutdownInv
  <2>3. CASE pc \notin {"ramp", "set", "off", "done"}
    BY <2>1, <2>3 DEF ShutdownInv
  <2>4. CASE ~touched' /\ pc \in {"ramp", "set", "off", "done"}
    <3>1. op.todo # <<>> /\ c # Ch /\ ~touched
      BY <2>1, <2>4 DEF GoalInv, Working
    <3>2. volt'[Ch] = volt[Ch] /\ out'[Ch] = out[Ch]
      BY <2>1, <3>1, ChTypes DEF TypeOK
    <3> QED
      BY <2>1, <3>1, <3>2 DEF ShutdownInv, Ch, Switched
  <2> QED
    BY <2>2, <2>3, <2>4
<1>16. CASE UNCHANGED vars
  BY <1>16 DEF vars, ShutdownInv, Ch, Switched
<1> QED
  BY <1>5, <1>6, <1>7, <1>8, <1>9, <1>10, <1>11, <1>12, <1>13, <1>14, <1>15, <1>16
     DEF Next, Request

(***************************************************************************)
(* Theorems.                                                               *)
(***************************************************************************)

\* What holds at each stage of a change of the outputs.
THEOREM Inductive == Spec => []IInv
<1>1. Init => IInv
  <2>1. Init => GoalInv /\ CtxInv /\ CallerInv /\ CheckInv /\ ShutdownInv /\ RampInv /\ LeaveInv
    BY DEF Init, GoalInv, CtxInv, CallerInv, CheckInv, ShutdownInv, RampInv, LeaveInv, Working,
           NoOp, NoCtx
  <2> QED
    BY <2>1, InitTypes DEF IInv
<1>2. IInv /\ [Next]_vars => IInv'
  BY TypeStep, GoalStep, CtxStep, CallerStep, CheckStep, ShutdownStep, RampStepInv, LeaveStep
     DEF IInv
<1> QED
  BY <1>1, <1>2, PTL DEF Spec

\* The variables keep their types.
THEOREM TypeCorrect == Spec => []TypeOK
<1>1. IInv => TypeOK
  BY DEF IInv
<1> QED
  BY Inductive, <1>1, PTL

\* A step of another user is not one of the controller's own.
LEMMA OthersAreForeign ==
  ASSUME TypeOK, Own
  PROVE  ~(\E d \in Channels, v \in Strange, on \in BOOLEAN : Foreign(d, v, on))
<1> SUFFICES ASSUME NEW d \in Channels, NEW v \in Strange, NEW on \in BOOLEAN, Foreign(d, v, on)
             PROVE  FALSE
  OBVIOUS
<1>1. foreign \in Int
  BY Constants DEF TypeOK
<1>2. foreign' = foreign + 1 /\ foreign' = foreign
  BY DEF Foreign, Own
<1> QED
  BY <1>1, <1>2

\* No step of the controller puts an output outside the range of the driver,
\* or switches one on there.
THEOREM OutputsSafe == Spec => OutputStaysSafe
<1>1. ASSUME IInv, [Next]_vars, Own, NEW c \in Channels, out'[c], volt'[c] \notin Safe
      PROVE  \/ out[c] /\ volt[c] = volt'[c]
             \/ pc = "switch" /\ c = Ch /\ touched
  <2>1. TypeOK /\ GoalInv /\ CheckInv
    BY <1>1 DEF IInv
  <2>2. CASE SetVerified
    <3>1. op.todo # <<>> /\ UNCHANGED out
      BY <2>1, <2>2 DEF SetVerified, GoalInv, Working
    <3>2. Goal \in Safe
      BY <2>1, <3>1, ChTypes DEF GoalInv, Goal
    <3> QED
      BY <1>1, <2>1, <2>2, <3>1, <3>2 DEF SetVerified, TypeOK
  <2>3. CASE RampStep
    <3>1. op'.cur \in Safe
      BY <2>1, <2>3 DEF RampStep, TypeOK, Operations
    <3> QED
      BY <1>1, <2>1, <2>3, <3>1 DEF RampStep, TypeOK
  <2>4. CASE RampNative
    BY <1>1, <2>1, <2>4 DEF RampNative, TypeOK
  <2>5. CASE SwitchOn
    <3>1. c # Ch \/ touched \/ volt[c] \in Safe
      BY <2>1, <2>5 DEF SwitchOn, Runs, CheckInv
    <3> QED
      BY <1>1, <2>1, <2>5, <3>1 DEF SwitchOn, Runs, TypeOK
  <2>6. CASE SwitchOff \/ SwitchOffFirst
    BY <1>1, <2>1, <2>6 DEF SwitchOff, SwitchOffFirst, TypeOK
  <2>7. CASE UNCHANGED <<volt, out>>
    BY <1>1, <2>7
  <2>8. ~(\E d \in Channels, v \in Strange, on \in BOOLEAN : Foreign(d, v, on))
    BY <1>1, <2>1, OthersAreForeign
  <2> QED
    BY <1>1, <2>2, <2>3, <2>4, <2>5, <2>6, <2>7, <2>8
       DEF Next, Call, Bulk, EnterApplied, EnterControl, Control, Leave, Request, Open,
           OpenFails, Finish, InspectOff, InspectRefused, InspectOn, RampEnds, NextChannel,
           CheckSetpoint, Refused, RequestFails, Close, vars, device
<1>2. IInv /\ [Next]_vars
        => [Own => \A c \in Channels :
                      out'[c] /\ volt'[c] \notin Safe =>
                         \/ out[c] /\ volt[c] = volt'[c]
                         \/ pc = "switch" /\ c = Ch /\ touched]_vars
  BY <1>1
<1> QED
  BY Inductive, <1>2, PTL DEF Spec, OutputStaysSafe

\* No output that is on moves by more than a ramp step.
THEOREM NoJumps == Spec => NoJump
<1>1. ASSUME IInv, [Next]_vars, Own, Switched, ~lost, ~touched, NEW c \in Channels, out[c], out'[c]
      PROVE  Distance(volt[c], volt'[c]) <= Step
  <2>1. TypeOK /\ GoalInv /\ RampInv
    BY <1>1 DEF IInv
  <2>2. Step \in Nat /\ volt[c] \in Int /\ op.cur \in Int
    BY <2>1, Constants DEF TypeOK, Operations
  <2>3. CASE SetVerified
    <3>1. pc = "set" /\ op.todo # <<>>
      BY <2>1, <2>3 DEF SetVerified, GoalInv, Working
    <3>2. CASE c # Ch \/ volt' = volt
      BY <2>1, <2>2, <2>3, <3>2 DEF SetVerified, TypeOK, Distance
    <3>3. CASE c = Ch /\ volt' = [volt EXCEPT ![Ch] = Goal]
      BY <1>1, <2>1, <3>1, <3>3 DEF RampInv, TypeOK
    <3> QED
      BY <2>3, <3>2, <3>3 DEF SetVerified
  <2>4. CASE RampStep
    <3>1. pc = "ramp" /\ op.todo # <<>> /\ op'.cur = Toward(op.cur, Goal)
      BY <2>1, <2>4 DEF RampStep, Runs, GoalInv, Working, TypeOK, Operations
    <3>2. CASE c # Ch \/ volt' = volt
      BY <2>1, <2>2, <2>4, <3>2 DEF RampStep, TypeOK, Distance
    <3>3. CASE c = Ch /\ volt' = [volt EXCEPT ![Ch] = op'.cur]
      <4>1. volt[c] = op.cur /\ volt'[c] = Toward(op.cur, Goal)
        BY <1>1, <2>1, <3>1, <3>3 DEF RampInv, TypeOK
      <4> QED
        BY <2>2, <4>1 DEF Toward, Distance
    <3> QED
      BY <2>4, <3>2, <3>3 DEF RampStep
  <2>5. CASE RampNative
    BY <1>1, <2>5 DEF RampNative
  <2>6. CASE UNCHANGED volt
    BY <2>2, <2>6 DEF Distance
  <2>7. ~(\E d \in Channels, v \in Strange, on \in BOOLEAN : Foreign(d, v, on))
    BY <1>1, <2>1, OthersAreForeign
  <2> QED
    BY <1>1, <2>3, <2>4, <2>5, <2>6, <2>7
       DEF Next, Call, Bulk, EnterApplied, EnterControl, Control, Leave, Request, Open,
           OpenFails, Finish, InspectOff, InspectRefused, InspectOn, RampEnds, SwitchOn,
           SwitchOff, SwitchOffFirst, NextChannel, CheckSetpoint, Refused, RequestFails, Close,
           vars, device
<1>2. IInv /\ [Next]_vars
        => [Own /\ Switched /\ ~lost /\ ~touched =>
               \A c \in Channels : out[c] /\ out'[c] => Distance(volt[c], volt'[c]) <= Step]_vars
  BY <1>1
<1> QED
  BY Inductive, <1>2, PTL DEF Spec, NoJump

\* A shutdown leaves a channel only off and at its reset voltage.
THEOREM ShutdownsEndOff == Spec => ShutdownEndsOff
<1>1. ASSUME IInv, [Next]_vars, Switched, op.kind = "off", op.todo # <<>>, op'.todo # op.todo,
             ~touched'
      PROVE  ~out'[Ch] /\ volt'[Ch] = Reset[Ch]
  <2>1. TypeOK /\ GoalInv /\ CallerInv /\ ShutdownInv
    BY <1>1 DEF IInv
  <2>2. ~Call /\ ~Close /\ ~Open /\ ~OpenFails /\ ~Finish /\ ~RequestFails
    <3>1. ~Call
      BY <1>1, <2>1, CallShape DEF CallerInv, NoOp
    <3>2. ~Close /\ ~Finish
      BY <1>1, <2>1 DEF Close, Finish, GoalInv
    <3>3. ~Open /\ ~OpenFails /\ ~RequestFails
      BY <1>1 DEF Open, OpenFails, RequestFails
    <3> QED
      BY <3>1, <3>2, <3>3
  <2>3. ~InspectRefused /\ ~SwitchOn /\ ~CheckSetpoint
    BY <1>1, <2>1 DEF InspectRefused, SwitchOn, CheckSetpoint, Runs, ShutdownInv
  <2>4. ~Refused
    <3>1. Goal = Reset[Ch] /\ Reset[Ch] \in Safe
      BY <1>1, <2>1, ResetSafe DEF ShutdownInv, Goal
    <3>2. pc = "ramp" => op.cur \in Safe
      BY <1>1, <2>1 DEF ShutdownInv
    <3>3. pc # "on"
      BY <1>1, <2>1 DEF ShutdownInv
    <3> QED
      BY <1>1, <3>1, <3>2, <3>3, TowardSafe DEF Refused
  <2>5. ~(InspectOff \/ InspectOn \/ SwitchOffFirst \/ RampStep \/ RampEnds \/ RampNative
           \/ SetVerified)
    BY <1>1, <2>1 DEF InspectOff, InspectOn, SwitchOffFirst, RampStep, RampEnds, RampNative,
                      SetVerified, TypeOK, Operations
  <2>6. CASE NextChannel
    BY <1>1, <2>1, <2>6 DEF NextChannel, Runs, Unseen, ShutdownInv
  <2>7. CASE SwitchOff
    <3>1. volt[Ch] = Reset[Ch] /\ UNCHANGED volt
      BY <1>1, <2>1, <2>7 DEF SwitchOff, Runs, Unseen, ShutdownInv
    <3> QED
      BY <1>1, <2>1, <2>7, <3>1, ChTypes DEF SwitchOff, TypeOK
  <2>8. ~(\E d \in Channels, v \in Strange, on \in BOOLEAN : Foreign(d, v, on))
    BY <1>1 DEF Foreign
  <2>9. ~UNCHANGED vars
    BY <1>1 DEF vars
  <2> QED
    BY <1>1, <2>2, <2>3, <2>4, <2>5, <2>6, <2>7, <2>8, <2>9 DEF Next, Request
<1>2. IInv /\ [Next]_vars
        => [Switched /\ op.kind = "off" /\ op.todo # <<>> /\ op'.todo # op.todo /\ ~touched' =>
               ~out'[Ch] /\ volt'[Ch] = Reset[Ch]]_vars
  BY <1>1
<1> QED
  BY Inductive, <1>2, PTL DEF Spec, ShutdownEndsOff

\* A context that ends undisturbed leaves its outputs idle.
THEOREM IdleAtExit == Spec => IdleOnExit
<1>1. ASSUME IInv, [Next]_vars, Ends, hurt = {}, NEW c \in Members(ctx.chans), out[c]
      PROVE  volt[c] = Idle[c]
  <2>1. TypeOK /\ GoalInv /\ CtxInv /\ CallerInv /\ LeaveInv
    BY <1>1 DEF IInv
  <2>2. outer \in Seq(Contexts) /\ Len(outer) \in Nat /\ Len(outer') < Len(outer)
    BY <1>1, <2>1 DEF Ends, TypeOK
  <2>3. CASE Close
    <3>1. outer' # outer /\ EndContext /\ ctx.stage \notin {"none", "body"}
      <4>1. outer' # outer
        BY <2>2
      <4> QED
        BY <2>3, <4>1 DEF Close, contexts
    <3>2. ctx.stage = "leave" \/ (ctx.stage = "enter" /\ ctx.kind \in {"applied", "none"})
      BY <1>1, <2>1, <3>1 DEF Ends, TypeOK, Contexts
    <3>3. ctx.stage = "leave"
      BY <2>1, <2>3, <2>2, <3>1, <3>2 DEF Close, CtxInv, contexts
    <3>4. op.todo = <<>>
      BY <2>1, <2>3 DEF Close, GoalInv
    <3>5. Idling
      BY <1>1, <2>1, <3>3 DEF LeaveInv
    <3>6. PICK i \in 1..Len(ctx.chans) : c = ctx.chans[i]
      BY DEF Members
    <3>7. ~(\E j \in 1..Len(op.todo) : op.todo[j] = ctx.chans[i])
      BY <3>4
    <3> QED
      BY <1>1, <3>5, <3>6, <3>7 DEF Idling
  <2>4. CASE Call
    <3>1. UNCHANGED outer \/ \E kind, seq : Enter(kind, seq)
      BY <2>4, CallShape DEF Leave, contexts
    <3>2. outer' # outer /\ ~(\E kind, seq : Enter(kind, seq))
      BY <2>2 DEF Enter
    <3> QED
      BY <3>1, <3>2
  <2>5. CASE UNCHANGED outer
    BY <2>2, <2>5
  <2> QED
    BY <1>1, <2>3, <2>4, <2>5
       DEF Next, Request, Open, OpenFails, Finish, InspectOff, InspectRefused, InspectOn,
           SwitchOffFirst, RampStep, RampEnds, RampNative, SetVerified, NextChannel, CheckSetpoint,
           SwitchOn, SwitchOff, Refused, RequestFails, Runs, Foreign, vars, contexts
<1>2. IInv /\ [Next]_vars
        => [Ends /\ hurt = {} =>
               \A c \in Members(ctx.chans) : out[c] => volt[c] = Idle[c]]_vars
  BY <1>1
<1> QED
  BY Inductive, <1>2, PTL DEF Spec, IdleOnExit
================================================================================
