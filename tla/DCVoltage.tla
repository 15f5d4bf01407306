------------------------------- MODULE DCVoltage -------------------------------
(***************************************************************************)
(* The external DC voltage source (external_devices/dc_voltage): the       *)
(* controller's ramps, its resets and shutdowns, and the two contexts that *)
(* must leave every output idle, nested as a caller may nest them.  Every  *)
(* write is an action, with the reads next to it; a check and the write it *)
(* is for are two, between which another user may act.                     *)
(***************************************************************************)
EXTENDS Integers, Sequences

CONSTANTS
    Channels,
    MinV, MaxV,     \* the range the driver allows
    Step,           \* ramp_step_size_v
    Reset, Idle,    \* reset_voltage_v and idle_voltage_v of each channel
    MaxSets,        \* max_set_attempts
    Selections,     \* the channels a caller may idle, reset or shut down together
    Requests,       \* the channels and voltages a caller may apply together
    Asked,          \* the voltages a caller may ask a bound control for
    Strange,        \* the voltages another user may leave
    MaxCalls,       \* bound: operations and contexts
    MaxForeign      \* bound: changes by another user

Safe == MinV..MaxV

ASSUME RangeAssumption == MinV \in Int /\ MaxV \in Int /\ Step \in Nat \ {0} /\ MaxSets \in Nat \ {0}
ASSUME ProfileAssumption ==  \* validate_profile and resolve_dc_voltage_profile
    Reset \in [Channels -> Safe] /\ Idle \in [Channels -> Safe]
ASSUME CallerAssumption ==
    /\ Selections \subseteq Seq(Channels) /\ Requests \subseteq Seq(Channels) \X [Channels -> Int]
    /\ Asked \subseteq Int /\ Strange \subseteq Int
ASSUME BoundAssumption == MaxCalls \in Nat /\ MaxForeign \in Nat

VARIABLES
    driver,    \* "ons61797" with output switches, or "qblox" with native ramps
    volt, out, \* setpoint and output switch of each channel
    pc,
    op,        \* the operation in progress
    ctx,       \* the innermost context
    outer,     \* the contexts around it, innermost first, NoCtx last
    raised,    \* an error is on its way to the caller
    lost,      \* ghost: the device dropped a setpoint of the ramp in progress
    touched,   \* ghost: since the channel in progress was inspected or checked,
               \* another user changed it or a request to it failed
    hurt,      \* ghost: channels disturbed since the context began to idle
    calls, foreign

vars == <<driver, volt, out, pc, op, ctx, outer, raised, lost, touched, hurt, calls, foreign>>
device == <<driver, volt, out>>
contexts == <<ctx, outer>>
ghosts == <<lost, touched, hurt>>

NoOp == [kind |-> "none", own |-> FALSE, todo |-> <<>>, goal |-> Reset, cur |-> 0, tries |-> 0,
         then |-> "done"]
NoCtx == [kind |-> "none", stage |-> "none", chans |-> <<>>]

Operations == [kind : {"none", "apply", "idle", "reset", "off"}, own : BOOLEAN,
               todo : Seq(Channels), goal : [Channels -> Int], cur : Int, tries : 0..MaxSets,
               then : {"done", "on", "off"}]
Contexts == [kind : {"none", "applied", "control"},
             stage : {"none", "enter", "body", "leave"}, chans : Seq(Channels)]

Switched == driver = "ons61797"
Distance(v, w) == IF v >= w THEN v - w ELSE w - v
Members(seq) == {seq[i] : i \in 1..Len(seq)}

Init ==
    /\ driver \in {"ons61797", "qblox"}
    /\ volt \in [Channels -> {0} \cup Strange]
    /\ out \in [Channels -> BOOLEAN]
    /\ driver = "qblox" => \A c \in Channels : out[c]
    /\ pc = "caller" /\ op = NoOp /\ ctx = NoCtx /\ outer = <<>>
    /\ raised = FALSE /\ lost = FALSE /\ touched = FALSE /\ hurt = {}
    /\ calls = 0 /\ foreign = 0

(***************************************************************************)
(* The caller.  A request with a voltage outside the range is refused      *)
(* before anything is done, and leaves no trace here.                      *)
(***************************************************************************)

Validated(goal, seq) == \A c \in Members(seq) : goal[c] \in Safe

\* An operation, on a connection of its own or on one that is open.
Begin(kind, own, seq, goal) ==
    op' = [kind |-> kind, own |-> own, todo |-> seq, goal |-> goal, cur |-> 0, tries |-> 0,
           then |-> "done"]

Calling == pc = "caller" /\ calls < MaxCalls /\ calls' = calls + 1

Enter(kind, seq) ==
    /\ ctx' = [kind |-> kind, stage |-> "enter", chans |-> seq]
    /\ outer' = <<ctx>> \o outer

\* reset, apply, idle and turn off for a selection, each on its own connection,
\* also inside a context.
Bulk(kind, seq, goal) ==
    /\ Calling
    /\ Validated(goal, seq)
    /\ Begin(kind, TRUE, seq, goal)
    /\ pc' = "open"
    /\ raised' = FALSE
    /\ UNCHANGED <<device, contexts, ghosts, foreign>>

EnterApplied(seq, goal) ==
    /\ Calling
    /\ Validated(goal, seq)
    /\ Enter("applied", seq)
    /\ Begin("apply", TRUE, seq, goal)
    /\ pc' = "open"
    /\ raised' = FALSE
    /\ hurt' = {}
    /\ UNCHANGED <<device, lost, touched, foreign>>

\* dc_voltage_control holds one connection for one channel.
EnterControl(c) ==
    /\ Calling
    /\ Enter("control", <<c>>)
    /\ op' = NoOp
    /\ pc' = "open"
    /\ raised' = FALSE
    /\ hurt' = {}
    /\ UNCHANGED <<device, lost, touched, foreign>>

\* The apply_voltage, of which a sweep is a sequence, or the idle of a bound
\* control, of the innermost context or of one around it.
Control(kind, goal) ==
    /\ Calling
    /\ \E control \in Members(<<ctx>> \o outer) :
          /\ control.kind = "control"
          /\ Validated(goal, control.chans)
          /\ Begin(kind, FALSE, control.chans, goal)
    /\ pc' = "next"
    /\ raised' = FALSE
    /\ UNCHANGED <<device, contexts, ghosts, foreign>>

\* The body ends or raises: both contexts return to idle.
Leave ==
    /\ pc = "caller"
    /\ ctx.stage = "body"
    /\ ctx' = [ctx EXCEPT !.stage = "leave"]
    /\ Begin("idle", ctx.kind = "applied", ctx.chans, Idle)
    /\ pc' = IF ctx.kind = "control" THEN "next" ELSE "open"
    /\ raised' = FALSE
    /\ hurt' = {}
    /\ UNCHANGED <<device, outer, lost, touched, calls, foreign>>

(***************************************************************************)
(* Operations on the device.                                               *)
(***************************************************************************)

Ch == Head(op.todo)
Goal == op.goal[Ch]
Runs(at, to) ==
    pc = at /\ pc' = to /\ UNCHANGED <<driver, contexts, raised, hurt, calls, foreign>>
Pass == op' = [op EXCEPT !.todo = Tail(@)]

\* Channels that are disturbed while a context idles them.
Hurts(chans) == hurt' = IF ctx.stage = "leave" THEN hurt \cup chans ELSE hurt

\* Where an operation goes when it is over: a connection that belongs to it,
\* or to a context that is left, is closed.
Over == IF op.own \/ ctx.stage # "body" THEN "close" ELSE "caller"

Raise == pc' = Over /\ raised' = TRUE /\ op' = NoOp

\* The channel in progress was seen now.
Seen == lost' = FALSE /\ touched' = FALSE
Unseen == UNCHANGED <<lost, touched>>

\* The device is created; ONS61797Device closes its client when it is not in
\* independent output mode.
Open ==
    /\ pc = "open"
    /\ IF ctx.kind = "control" /\ ctx.stage = "enter"
       THEN pc' = "caller" /\ ctx' = [ctx EXCEPT !.stage = "body"]
       ELSE pc' = "next" /\ UNCHANGED ctx
    /\ UNCHANGED <<device, op, outer, raised, ghosts, calls, foreign>>

OpenFails ==
    /\ pc = "open"
    /\ pc' = "close"
    /\ raised' = TRUE /\ op' = NoOp
    /\ touched' = TRUE
    /\ Hurts(Members(ctx.chans))
    /\ UNCHANGED <<device, contexts, lost, calls, foreign>>

Finish ==
    /\ pc = "next" /\ op.todo = <<>>
    /\ pc' = Over /\ op' = NoOp
    /\ UNCHANGED <<device, contexts, raised, ghosts, calls, foreign>>

\* An output that is off is left alone by idle, and set at once by reset, which
\* then switches it on, and by turn off.
InspectOff ==
    /\ pc = "next" /\ op.todo # <<>> /\ ~out[Ch]
    /\ \/ op.kind = "idle" /\ Runs("next", "next") /\ Pass
       \/ /\ op.kind \in {"reset", "off"}
          /\ Runs("next", "set")
          /\ op' = [op EXCEPT !.tries = 0, !.then = IF op.kind = "reset" THEN "on" ELSE "done"]
    /\ Seen
    /\ UNCHANGED <<volt, out>>

\* `_apply_voltage` refuses an output that is off, `_turn_off_channels` one
\* that has no switch and reads back outside the range.
InspectRefused ==
    /\ pc = "next" /\ op.todo # <<>>
    /\ \/ op.kind = "apply" /\ ~out[Ch]
       \/ op.kind = "off" /\ out[Ch] /\ volt[Ch] \notin Safe /\ ~Switched
    /\ Raise
    /\ UNCHANGED <<device, contexts, ghosts, calls, foreign>>

\* An output that is on is ramped from its readback, and then switched off by
\* turn off, where the device has switches.
InspectOn_Unvalidated ==
    /\ pc = "next" /\ op.todo # <<>> /\ out[Ch]
    /\ op' = [op EXCEPT !.cur = volt[Ch], !.tries = 0,
                        !.then = IF op.kind = "off" /\ Switched THEN "off" ELSE "done"]
    /\ Runs("next", IF volt[Ch] = Goal THEN op'.then ELSE "ramp")
    /\ Seen
    /\ UNCHANGED <<volt, out>>

InspectOn ==
    /\ pc = "next" /\ op.todo # <<>> /\ out[Ch]
    /\ op.kind = "off" => volt[Ch] \in Safe
    /\ op' = [op EXCEPT !.cur = volt[Ch], !.tries = 0,
                        !.then = IF op.kind = "off" /\ Switched THEN "off" ELSE "done"]
    /\ Runs("next", IF volt[Ch] = Goal THEN op'.then ELSE "ramp")
    /\ Seen
    /\ UNCHANGED <<volt, out>>

\* Turning off an output whose readback is outside the range: first the switch.
SwitchOffFirst ==
    /\ pc = "next" /\ op.todo # <<>> /\ out[Ch]
    /\ op.kind = "off" /\ volt[Ch] \notin Safe /\ Switched
    /\ Runs("next", "set")
    /\ out' = [out EXCEPT ![Ch] = FALSE]
    /\ op' = [op EXCEPT !.tries = 0, !.then = "done"]
    /\ Seen
    /\ UNCHANGED volt

Toward(cur, goal) == IF goal >= cur THEN cur + Step ELSE cur - Step

\* One setpoint of a software ramp.  It is not read back: one that the device
\* drops goes unnoticed.
RampStep ==
    /\ Runs("ramp", "ramp")
    /\ Switched /\ Distance(Goal, op.cur) > Step
    /\ Toward(op.cur, Goal) \in Safe
    /\ op' = [op EXCEPT !.cur = Toward(op.cur, Goal)]
    /\ \/ volt' = [volt EXCEPT ![Ch] = op'.cur] /\ UNCHANGED lost
       \/ UNCHANGED volt /\ lost' = TRUE
    /\ UNCHANGED <<out, touched>>

RampEnds_Early ==
    /\ Runs("ramp", "set")
    /\ Switched
    /\ UNCHANGED <<volt, out, op>> /\ Unseen

RampEnds ==
    /\ Runs("ramp", "set")
    /\ Switched /\ Distance(Goal, op.cur) <= Step
    /\ UNCHANGED <<volt, out, op>> /\ Unseen

\* A native ramp that returns may have stopped anywhere on its way.
RampNative ==
    /\ pc = "ramp" /\ ~Switched /\ op.cur \in Safe /\ op.tries < MaxSets
    /\ \E v \in Safe :
          /\ Distance(v, Goal) <= Distance(op.cur, Goal)
          /\ volt' = [volt EXCEPT ![Ch] = v]
          /\ op' = [op EXCEPT !.cur = v, !.tries = @ + 1]
          /\ Runs("ramp", IF v = Goal THEN op.then ELSE "ramp")
    /\ UNCHANGED out /\ Unseen

\* A setpoint that is read back: it has been taken, or is set again.
SetVerified ==
    /\ pc = "set" /\ op.tries < MaxSets
    /\ op' = [op EXCEPT !.tries = @ + 1]
    /\ \/ volt' = [volt EXCEPT ![Ch] = Goal] /\ Runs("set", op.then)
       \/ volt[Ch] # Goal /\ UNCHANGED volt /\ Runs("set", "set")
    /\ UNCHANGED out /\ Unseen

\* The channel is done.
NextChannel == Runs("done", "next") /\ Pass /\ UNCHANGED <<volt, out>> /\ Unseen

\* ONS61797Device.on reads the stored setpoint, and then switches on.
CheckSetpoint_Unchecked ==
    /\ Runs("on", "switch")
    /\ Seen
    /\ UNCHANGED <<volt, out, op>>

CheckSetpoint ==
    /\ Runs("on", "switch")
    /\ volt[Ch] \in Safe
    /\ Seen
    /\ UNCHANGED <<volt, out, op>>

SwitchOn ==
    /\ Runs("switch", "next")
    /\ out' = [out EXCEPT ![Ch] = TRUE]
    /\ Pass
    /\ UNCHANGED volt /\ Unseen

SwitchOff ==
    /\ Runs("off", "next")
    /\ out' = [out EXCEPT ![Ch] = FALSE]
    /\ Pass
    /\ UNCHANGED volt /\ Unseen

\* The driver refuses a setpoint outside the range, that of a ramp which starts
\* there or the one stored in an output that is to be switched on.
Refused ==
    /\ \/ pc = "ramp" /\ Switched /\ Distance(Goal, op.cur) > Step
          /\ Toward(op.cur, Goal) \notin Safe
       \/ pc = "ramp" /\ ~Switched /\ op.cur \notin Safe
       \/ pc = "on" /\ volt[Ch] \notin Safe
    /\ Raise
    /\ Hurts({Ch})
    /\ UNCHANGED <<device, contexts, lost, touched, calls, foreign>>

\* Any request may raise: the device does not answer, or has not shown the
\* voltage in its last readback.  A request that takes effect and then raises
\* is its own step and a raise after it.
RequestFails ==
    /\ pc \in {"next", "ramp", "set", "on", "switch", "off", "done"} /\ op.todo # <<>>
    /\ Raise
    /\ touched' = TRUE
    /\ Hurts({Ch})
    /\ UNCHANGED <<device, contexts, lost, calls, foreign>>

\* A context ends, and the one around it is the innermost again.
EndContext == ctx' = Head(outer) /\ outer' = Tail(outer)

\* The connection is closed, without or with an error.  What follows depends
\* on what it was for: entering apply_voltages failed, so that its channels
\* are idled; a context is over; or the caller goes on.
Close_NoCleanup ==
    /\ pc = "close"
    /\ \E fails \in BOOLEAN : raised' = (raised \/ fails)
    /\ CASE ctx.kind = "applied" /\ ctx.stage = "enter" /\ ~raised' ->
                ctx' = [ctx EXCEPT !.stage = "body"] /\ UNCHANGED outer
         [] ctx.stage \in {"none", "body"} -> UNCHANGED contexts
         [] OTHER -> EndContext
    /\ pc' = "caller" /\ op' = NoOp
    /\ UNCHANGED <<device, ghosts, calls, foreign>>

Close ==
    /\ pc = "close"
    /\ \E fails \in BOOLEAN : raised' = (raised \/ fails)
    /\ IF ctx.kind = "applied" /\ ctx.stage = "enter" /\ raised'
       THEN /\ ctx' = [ctx EXCEPT !.stage = "leave"] /\ UNCHANGED outer
            /\ Begin("idle", TRUE, ctx.chans, Idle)
            /\ pc' = "open" /\ hurt' = {}
       ELSE /\ CASE ctx.kind = "applied" /\ ctx.stage = "enter" ->
                       ctx' = [ctx EXCEPT !.stage = "body"] /\ UNCHANGED outer
                 [] ctx.stage \in {"none", "body"} -> UNCHANGED contexts
                 [] OTHER -> EndContext
            /\ pc' = "caller" /\ op' = NoOp
            /\ UNCHANGED hurt
    /\ UNCHANGED <<device, lost, touched, calls, foreign>>

\* Another user of the instrument, at its front panel or through the server.
Foreign(c, v, on) ==
    /\ foreign < MaxForeign
    /\ on \/ Switched
    /\ volt' = [volt EXCEPT ![c] = v] /\ out' = [out EXCEPT ![c] = on]
    /\ touched' = (touched \/ (op.todo # <<>> /\ c = Ch))
    /\ Hurts({c})
    /\ foreign' = foreign + 1
    /\ UNCHANGED <<driver, pc, op, contexts, raised, lost, calls>>

Call ==
    \/ \E seq \in Selections, kind \in {"reset", "idle", "off"} :
          Bulk(kind, seq, IF kind = "idle" THEN Idle ELSE Reset)
    \/ \E request \in Requests :
          Bulk("apply", request[1], request[2]) \/ EnterApplied(request[1], request[2])
    \/ \E c \in Channels : EnterControl(c)
    \/ Control("idle", Idle)
    \/ \E v \in Asked : Control("apply", [c \in Channels |-> v])
    \/ Leave

Request ==
    \/ Open \/ OpenFails \/ Finish
    \/ InspectOff \/ InspectRefused \/ InspectOn \/ SwitchOffFirst
    \/ RampStep \/ RampEnds \/ RampNative \/ SetVerified
    \/ NextChannel \/ CheckSetpoint \/ SwitchOn \/ SwitchOff
    \/ Refused \/ RequestFails \/ Close

Next == Call \/ Request
          \/ \E c \in Channels, v \in Strange, on \in BOOLEAN : Foreign(c, v, on)

Spec == Init /\ [][Next]_vars

(***************************************************************************)
(* Properties.                                                             *)
(***************************************************************************)

Volts == Safe \cup Strange \cup {0}

\* The variables keep their types.
TypeOK ==
    /\ driver \in {"ons61797", "qblox"}
    /\ volt \in [Channels -> Volts]
    /\ out \in [Channels -> BOOLEAN]
    /\ raised \in BOOLEAN /\ lost \in BOOLEAN /\ touched \in BOOLEAN
    /\ pc \in {"caller", "open", "next", "ramp", "set", "on", "switch", "off", "done", "close"}
    /\ op \in Operations
    /\ ctx \in Contexts /\ outer \in Seq(Contexts)
    /\ hurt \subseteq Channels
    /\ calls \in 0..MaxCalls /\ foreign \in 0..MaxForeign

Own == foreign' = foreign

\* The controller never puts an output outside the range: an output that is on
\* at a voltage the driver does not allow was on at that voltage before, and
\* one is never switched on with such a setpoint, however the setpoint came
\* about.  What another user does to a channel between the check of its
\* setpoint and the switch goes unnoticed.
OutputStaysSafe ==
    [][Own => \A c \in Channels :
                 out'[c] /\ volt'[c] \notin Safe =>
                    \/ out[c] /\ volt[c] = volt'[c]
                    \/ pc = "switch" /\ c = Ch /\ touched]_vars

\* An output that is on is moved by one ramp step at a time, through resets,
\* repeated setpoints and errors, as long as no setpoint of the ramp was
\* dropped and nobody else changed the channel since it was read.
NoJump ==
    [][Own /\ Switched /\ ~lost /\ ~touched =>
          \A c \in Channels : out[c] /\ out'[c] => Distance(volt[c], volt'[c]) <= Step]_vars

\* Where there are switches, a shutdown is done with a channel only when it is
\* off at its reset voltage: from any readback, also one from which the driver
\* refuses to ramp, unless a request failed or another user interfered.
ShutdownEndsOff ==
    [][Switched /\ op.kind = "off" /\ op.todo # <<>> /\ op'.todo # op.todo /\ ~touched' =>
          ~out'[Ch] /\ volt'[Ch] = Reset[Ch]]_vars

\* A context ends; a bound control without a connection never began.
Ends == Len(outer') < Len(outer) /\ ~(ctx.kind = "control" /\ ctx.stage = "enter")

\* A context that ends leaves each of its outputs that is on at its idle
\* voltage, however entering it, its body and the operations and contexts in it
\* ended, unless a request failed or another user interfered while it idled.
IdleOnExit ==
    [][Ends /\ hurt = {} =>
          \A c \in Members(ctx.chans) : out[c] => volt[c] = Idle[c]]_vars

\* apply_voltages says that it returns "each channel to idle on exit": also
\* the channels of which no request failed when those of another did.  Not kept:
\* the loop over the channels ends at the first that fails.
EachIdleOnExit ==
    [][Ends =>
          \A c \in Members(ctx.chans) \ hurt : out[c] => volt[c] = Idle[c]]_vars
================================================================================
