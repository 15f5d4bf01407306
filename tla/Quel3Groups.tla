------------------------------ MODULE Quel3Groups ------------------------------
(***************************************************************************)
(* backend/quel3/execution: a group of jobs that share an execution, as    *)
(* the sequence of their payloads.  What it needs of the hardware, how     *)
(* many of its shots an execution can take, where its jobs are placed on   *)
(* the timeline and where their captures end up in the result.             *)
(*                                                                         *)
(* Times are integers in a unit that divides every sampling period, so     *)
(* that quotients and grids are exact; waveforms and captures are the      *)
(* numbers of their samples.                                               *)
(***************************************************************************)
EXTENDS Integers, Sequences, FiniteSetsExt

CONSTANTS
    Payloads,      \* what PayloadAnalysis can say of a job
    OptionSets,    \* Quel3ExecutionOptions
    ReceiverOf     \* capture_resource of each alias

\* A job plays its waveforms for `dur` on its aliases, the domain of `freq`,
\* `wave` and `caps`; caps[alias] are the lengths of its capture windows there.
\* `settings` stands for the interval's fellows that must be equal (cable delays).
Modes == {"raw", "perShot", "averagedWaveform", "averagedValue"}
ASSUME PayloadsAssumption ==
    \A p \in Payloads :
        /\ p.n \in Nat \ {0} /\ p.dur \in Nat \ {0} /\ p.grid \in Nat \ {0}
        /\ p.interval \in Nat /\ p.mode \in Modes
        /\ DOMAIN p.wave = DOMAIN p.freq /\ DOMAIN p.caps = DOMAIN p.freq
        /\ DOMAIN p.freq \subseteq DOMAIN ReceiverOf /\ DOMAIN p.freq # {}
        /\ \A a \in DOMAIN p.freq : p.wave[a] \in Nat /\ p.caps[a] \in Seq(Nat \ {0})
ASSUME ReceiversAssumption == IsFiniteSet(DOMAIN ReceiverOf)
ASSUME OptionsAssumption ==
    \A o \in OptionSets :
        /\ o.merge \in BOOLEAN
        /\ {o.waveform, o.capture, o.returned, o.duration} \subseteq Nat \ {0}

AliasesOf(p) == DOMAIN p.freq
Conditions(group) == group[1]
PerShot(group) == Conditions(group).mode \in {"raw", "perShot"}

-----------------------------------------------------------------------------
(* Placement.                                                              *)

CeilToGrid(t, grid) == ((t + grid - 1) \div grid) * grid

\* math.lcm of the members' grids.
Grid(group) ==
    LET grids == {group[k].grid : k \in 1..Len(group)}
    IN Min({m \in 1..ProductSet(grids) : \A g \in grids : m % g = 0})

Starts_NoInterval(group) ==
    LET start[k \in 1..Len(group)] ==
            IF k = 1 THEN 0
            ELSE CeilToGrid(start[k - 1] + group[k - 1].dur, Grid(group))
    IN start

\* A job starts on the grid after its predecessor and the shot interval.
Starts(group) ==
    LET start[k \in 1..Len(group)] ==
            IF k = 1 THEN 0
            ELSE CeilToGrid(start[k - 1] + group[k - 1].dur + Conditions(group).interval,
                            Grid(group))
    IN start

ShotDuration(group) ==
    Starts(group)[Len(group)] + group[Len(group)].dur + Conditions(group).interval

-----------------------------------------------------------------------------
(* Resources.                                                              *)

Waveforms(group, a) ==
    SumFunction([k \in {k \in 1..Len(group) : a \in AliasesOf(group[k])} |-> group[k].wave[a]])

\* The capture windows of the group: place in the group, alias, index.
Captures(group) ==
    UNION {UNION {{<<k, a, i>> : i \in 1..Len(group[k].caps[a])} : a \in AliasesOf(group[k])}
             : k \in 1..Len(group)}

\* Samples that are captured for the windows in `captures`.
Length(group, captures) ==
    SumFunction([c \in captures |-> group[c[1]].caps[c[2]][c[3]]])
Captured(group, r) == Length(group, {c \in Captures(group) : ReceiverOf[c[2]] = r})
Receivers(group) == {ReceiverOf[c[2]] : c \in Captures(group)}

\* What a shot, or the average of all of them, returns.
ReturnedOnce(group) ==
    IF Conditions(group).mode \in {"raw", "averagedWaveform"}
    THEN Length(group, Captures(group)) ELSE Cardinality(Captures(group))
Returned(group, shots) == ReturnedOnce(group) * (IF PerShot(group) THEN shots ELSE 1)

\* Without _resource_violations.
Fits(group, options, shots) ==
    /\ \A k \in 1..Len(group) : \A a \in AliasesOf(group[k]) :
          Waveforms(group, a) <= options.waveform
    /\ \A r \in Receivers(group) : Captured(group, r) * shots <= options.capture
    /\ Returned(group, shots) <= options.returned
    /\ ShotDuration(group) * shots <= options.duration

ShotLimit_IgnoresReturned(group, options) ==
    Min({Conditions(group).n, options.duration \div ShotDuration(group)}
        \cup {options.capture \div Captured(group, r) : r \in Receivers(group)})

\* _max_shots_per_execution
ShotLimit(group, options) ==
    Min({Conditions(group).n, options.duration \div ShotDuration(group)}
        \cup {options.capture \div Captured(group, r) : r \in Receivers(group)}
        \cup (IF PerShot(group) /\ Returned(group, 1) > 0
              THEN {options.returned \div Returned(group, 1)} ELSE {}))

\* _incompatibility_reason: each setting, every shared frequency and the
\* sampling period of the captures agree.
Agree(p, q) ==
    /\ p.n = q.n /\ p.mode = q.mode /\ p.interval = q.interval /\ p.settings = q.settings
    /\ \A a \in DOMAIN p.freq \cap DOMAIN q.freq : p.freq[a] = q.freq[a]
    /\ p.period = q.period \/ "none" \in {p.period, q.period}
Compatible(group) == \A k, l \in 1..Len(group) : Agree(group[k], group[l])

-----------------------------------------------------------------------------
(* The built payload and its result mapping.                               *)

\* The windows that an alias has from the jobs before the k-th.
Offset(group, k, a) ==
    SumFunction([m \in {m \in 1..(k - 1) : a \in AliasesOf(group[m])} |-> Len(group[m].caps[a])])

\* _TimelineBuilder.append: the windows of a job come behind those that its
\* alias has.
ExecutionIndex_Original(group, k, a, i) == i

ExecutionIndex(group, k, a, i) == Offset(group, k, a) + i

\* The capture that the n-th window of an alias is for.
WindowOf(group, a, n) ==
    LET k == CHOOSE k \in 1..Len(group) :
                /\ a \in AliasesOf(group[k])
                /\ n - Offset(group, k, a) \in 1..Len(group[k].caps[a])
    IN <<k, a, n - Offset(group, k, a)>>
================================================================================
