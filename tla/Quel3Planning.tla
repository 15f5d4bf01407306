---------------------------- MODULE Quel3Planning ----------------------------
(***************************************************************************)
(* backend/quel3/execution: a batch of jobs is packed into groups that     *)
(* share an execution, jobs that are too long are split into ranges of     *)
(* shots, the executions are built and run one after another, and their    *)
(* captures are put back into one result per job.                          *)
(***************************************************************************)
EXTENDS Quel3Groups

CONSTANT MaxJobs        \* bound: jobs in the batch

ASSUME MaxJobsAssumption == MaxJobs \in Nat \ {0}

VARIABLES
    jobs,       \* the payloads of the batch
    options,
    stage,      \* "group", "split", "run", "done" or "refused"
    current,    \* the group being packed: the indices of its jobs
    groups,     \* the groups that are packed
    plan,       \* the executions: [jobs, starts, from, to], shots from..to-1
    completed,  \* how many of them were run
    received,   \* shots_received of each job
    chunks,     \* capture_chunks of each capture of each job
    weights     \* shot_counts of each job

vars == <<jobs, options, stage, current, groups, plan, completed, received, chunks, weights>>
planning == <<current, groups, plan>>
assembly == <<completed, received, chunks, weights>>

Indices == 1..Len(jobs)
Members(group) == {group[k] : k \in 1..Len(group)}
PayloadsOf(group) == [k \in 1..Len(group) |-> jobs[group[k]]]

Init ==
    /\ jobs \in UNION {[1..n -> Payloads] : n \in 1..MaxJobs}
    /\ options \in OptionSets
    /\ stage = "group"
    /\ current = <<>> /\ groups = <<>> /\ plan = <<>>
    /\ completed = 0
    /\ received = [j \in Indices |-> 0]
    /\ chunks = [c \in Captures(jobs) |-> <<>>]
    /\ weights = [j \in Indices |-> <<>>]

-----------------------------------------------------------------------------
(* Planning: _group_adjacent_payloads and _split_shots.                    *)

\* Jobs are packed in their order.
NextJob == IF current = <<>> THEN 1 ELSE current[Len(current)] + 1
Grouping == stage = "group" /\ NextJob <= Len(jobs)
FitsAlone == Fits(PayloadsOf(<<NextJob>>), options, 1)

\* A job that does not fit with a single shot: the batch is refused.
Refuse ==
    /\ Grouping /\ ~FitsAlone
    /\ stage' = "refused"
    /\ UNCHANGED <<jobs, options, planning, assembly>>

Packs_SomeShots(group) == options.merge /\ Compatible(group) /\ Fits(group, options, 1)

\* The group goes into one execution with all its shots.
Packs(group) ==
    /\ options.merge /\ Compatible(group)
    /\ Fits(group, options, 1) /\ ShotLimit(group, options) = Conditions(group).n

Pack ==
    /\ Grouping /\ FitsAlone
    /\ current # <<>> /\ Packs(PayloadsOf(Append(current, NextJob)))
    /\ current' = Append(current, NextJob)
    /\ UNCHANGED <<jobs, options, stage, groups, plan, assembly>>

StartGroup ==
    /\ Grouping /\ FitsAlone
    /\ current # <<>> => ~Packs(PayloadsOf(Append(current, NextJob)))
    /\ groups' = IF current = <<>> THEN groups ELSE Append(groups, current)
    /\ current' = <<NextJob>>
    /\ UNCHANGED <<jobs, options, stage, plan, assembly>>

Grouped ==
    /\ stage = "group" /\ NextJob > Len(jobs)
    /\ stage' = "split"
    /\ groups' = Append(groups, current) /\ current' = <<>>
    /\ UNCHANGED <<jobs, options, plan, assembly>>

\* The shots of the first group that is left which are planned already.
Planned == IF plan # <<>> /\ plan[Len(plan)].jobs = groups[1] THEN plan[Len(plan)].to ELSE 0

\* One execution of a group; the group is done with its last shot.
Split ==
    /\ stage = "split" /\ groups # <<>>
    /\ LET group == PayloadsOf(groups[1])
           limit == ShotLimit(group, options)
           n == Conditions(group).n
           to == Min({Planned + limit, n})
       IN /\ limit > 0   \* range() refuses a step of 0
          /\ plan' = Append(plan, [jobs |-> groups[1], starts |-> Starts(group),
                                   from |-> Planned, to |-> to])
          /\ groups' = IF to = n THEN Tail(groups) ELSE groups
    /\ UNCHANGED <<jobs, options, stage, current, assembly>>

StartRunning ==
    /\ stage = "split" /\ groups = <<>>
    /\ stage' = "run"
    /\ UNCHANGED <<jobs, options, planning, assembly>>

-----------------------------------------------------------------------------
(* Running: what the hardware returns of the built payload, and where the  *)
(* assembler puts it.                                                      *)

Execution == plan[completed + 1]
Position(e, j) == CHOOSE k \in 1..Len(e.jobs) : e.jobs[k] = j

\* The capture of a job and the one that the chunk taken for it is of.
Original(e, c) == <<e.jobs[c[1]], c[2], c[3]>>
Chunk(e, k, a, i) ==
    LET group == PayloadsOf(e.jobs)
    IN [of |-> Original(e, WindowOf(group, a, ExecutionIndex(group, k, a, i))),
        from |-> e.from, to |-> e.to]

Weight_Equal(e) == 1

\* The weight of an execution in its jobs' averages.
Weight(e) == e.to - e.from

\* An execution is run and Quel3ResultAssembler.add takes its captures, each
\* with its shots, if they are the job's next.
Run ==
    /\ stage = "run" /\ completed < Len(plan)
    /\ \A j \in Members(Execution.jobs) : received[j] = Execution.from
    /\ chunks' = [c \in Captures(jobs) |->
                    IF c[1] \in Members(Execution.jobs)
                    THEN Append(chunks[c], Chunk(Execution, Position(Execution, c[1]), c[2], c[3]))
                    ELSE chunks[c]]
    /\ received' = [j \in Indices |->
                      IF j \in Members(Execution.jobs) THEN Execution.to ELSE received[j]]
    /\ weights' = [j \in Indices |->
                     IF j \in Members(Execution.jobs)
                     THEN Append(weights[j], Weight(Execution)) ELSE weights[j]]
    /\ completed' = completed + 1
    /\ UNCHANGED <<jobs, options, stage, planning>>

\* finish: every job has all its shots.
Finish ==
    /\ stage = "run" /\ completed = Len(plan)
    /\ \A j \in Indices : received[j] = jobs[j].n
    /\ stage' = "done"
    /\ UNCHANGED <<jobs, options, planning, assembly>>

Terminated == stage \in {"done", "refused"} /\ UNCHANGED vars

Next == Refuse \/ Pack \/ StartGroup \/ Grouped \/ Split \/ StartRunning \/ Run \/ Finish
            \/ Terminated

Spec == Init /\ [][Next]_vars

-----------------------------------------------------------------------------
(* Properties.                                                             *)

Executions == {plan[k] : k \in 1..Len(plan)}
Shots(e) == e.to - e.from

\* An execution is within each limit, counted job by job: the quotients that
\* bound a split never let a sum over the limit.  Its jobs come one after
\* another, the shot interval between them, on the sampling grid of each.
ExecutionsFit ==
    \A e \in Executions :
        LET group == PayloadsOf(e.jobs)
            last == Len(group)
        IN /\ \A a \in DOMAIN ReceiverOf :
                 SumFunction([k \in 1..last |-> IF a \in AliasesOf(group[k])
                                               THEN group[k].wave[a] ELSE 0]) <= options.waveform
           /\ \A r \in Receivers(group) : Captured(group, r) * Shots(e) <= options.capture
           /\ Returned(group, Shots(e)) <= options.returned
           /\ (e.starts[last] + group[last].dur + Conditions(group).interval) * Shots(e)
                 <= options.duration
           /\ \A k \in 1..last :
                 /\ k > 1 => e.starts[k] >= e.starts[k - 1] + group[k - 1].dur + group[k].interval
                 /\ \A l \in 1..last : e.starts[k] % group[l].grid = 0

\* Only a job on its own is split, only if it cannot run with all its shots,
\* and into as few executions as the limits allow: no range could have taken
\* the first shot of the next.
SplitsOnlyOversized ==
    \A e \in Executions :
        LET group == PayloadsOf(e.jobs)
        IN Shots(e) < Conditions(group).n =>
              /\ Len(group) = 1
              /\ e.to < Conditions(group).n => ~Fits(group, options, Shots(e) + 1)

\* Every job gets back, for each of its captures, that capture of every one of
\* its shots exactly once and in order; in an average, each shot counts the same.
ResultsRestored ==
    stage = "done" =>
        \A c \in Captures(jobs) :
            LET got == chunks[c]
            IN /\ got # <<>> /\ got[1].from = 0 /\ got[Len(got)].to = jobs[c[1]].n
               /\ Len(weights[c[1]]) = Len(got)
               /\ \A k \in 1..Len(got) :
                     /\ got[k].of = c
                     /\ k > 1 => got[k].from = got[k - 1].to
                     /\ weights[c[1]][k] = got[k].to - got[k].from
=============================================================================
