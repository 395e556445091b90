------------------------------ MODULE SwarmLoop ------------------------------
(***************************************************************************)
(* One run of src/orchestration/swarm_loop.py: a plan is executed in       *)
(* parallel waves along its dependencies, each step by one worker after    *)
(* another, and reviewed.  The steps of a wave are tasks of one asyncio    *)
(* loop that interleave at the worker call; the registry of WorkerHealth   *)
(* is shared with other runs.                                              *)
(*                                                                         *)
(* Steps are numbered as in SwarmResult.steps, from 0.  The heartbeat and  *)
(* the grading hook cannot affect the run and are left out.                *)
(***************************************************************************)
EXTENDS WorkerHealth, Sequences, SequencesExt, Filters

CONSTANTS
    Plans,          \* what the planner may propose: sequences of [subtask, depends_on]
    Rosters,        \* what worker_candidates_fn may return: sets of workers
    NoWorker,
    MaxSteps,       \* MAX_STEPS
    MaxReviews,     \* MAX_REVIEW_ITERS, 0 when there is no review_fn
    MaxRetries,     \* MAX_STEP_RETRIES
    Shared          \* whether other runs use the workers meanwhile

ASSUME SwarmAssumption ==
    /\ Plans \subseteq Seq([subtask : BOOLEAN, depends_on : SUBSET Int])
    /\ Rosters \subseteq (SUBSET Workers) \ {{}}
    /\ NoWorker \notin Workers
    /\ MaxSteps \in Nat /\ MaxReviews \in Nat /\ MaxRetries \in Nat \ {0}
    /\ Shared \in BOOLEAN

Ids == 0 .. MaxSteps - 1

VARIABLES
    phase,
    size,           \* Len(result.steps)
    depends, status, attempts, tried, calling,  \* by step; calling: the worker asked
    batch, wave, running,   \* the batch, its current wave, the steps still executing
    findings,       \* result.findings, as step numbers
    staged,         \* the staging file of the task
    reviews         \* review_iters

stepVars == <<depends, status, attempts, tried, calling>>
loopVars == <<phase, size, batch, wave, running, findings, staged, reviews>>
vars == <<healthVars, stepVars, loopVars>>

Init ==
    /\ HealthInit
    /\ phase = "planning" /\ size = 0
    /\ depends = [i \in Ids |-> {}]
    /\ status = [i \in Ids |-> "none"]
    /\ attempts = [i \in Ids |-> 0]
    /\ tried = [i \in Ids |-> {}]
    /\ calling = [i \in Ids |-> NoWorker]
    /\ batch = {} /\ wave = {} /\ running = {}
    /\ findings = <<>> /\ staged = <<>>
    /\ reviews = 0

-----------------------------------------------------------------------------
(* Plan                                                                    *)

\* Of the first MAX_STEPS proposals, those that have a subtask.
Usable(plan) == {k \in 1 .. MaxSteps : k <= Len(plan) /\ plan[k].subtask}

\* The proposal that becomes step i.  A step keeps the indices it was planned with, which
\* count the dropped proposals too.
Proposal(plan, i) ==
    plan[CHOOSE k \in Usable(plan) : Cardinality({l \in Usable(plan) : l < k}) = i]

Plan(plan) ==
    /\ phase = "planning"
    /\ Usable(plan) # {}
    /\ size' = Cardinality(Usable(plan))
    /\ depends' = [i \in Ids |-> IF i < size' THEN Proposal(plan, i).depends_on ELSE {}]
    /\ status' = [i \in Ids |-> IF i < size' THEN "pending" ELSE "none"]
    /\ batch' = 0 .. size' - 1
    /\ phase' = "waves"
    /\ UNCHANGED <<healthVars, attempts, tried, calling, wave, running, findings, staged,
                   reviews>>

\* plan_fn raises, or proposes nothing usable: the caller falls back.
PlanFails ==
    /\ phase = "planning"
    /\ phase' = "aborted"
    /\ UNCHANGED <<healthVars, stepVars, size, batch, wave, running, findings, staged, reviews>>

-----------------------------------------------------------------------------
(* Execute, in waves                                                       *)

Pending == {i \in batch : status[i] = "pending"}

DepsSatisfied(i) == \A d \in depends[i] : d \in 0 .. size - 1 /\ status[d] = "done"

StartWave ==
    /\ phase = "waves"
    /\ wave' = {i \in Pending : DepsSatisfied(i)}
    /\ wave' # {}
    /\ running' = wave'
    /\ phase' = "working"
    /\ UNCHANGED <<healthVars, stepVars, size, batch, findings, staged, reviews>>

Review == IF reviews < MaxReviews THEN "reviewing" ELSE "finishing"

\* Mutant: the loop waits for the stragglers.
EndDrainedBatch ==
    /\ phase = "waves"
    /\ Pending = {}
    /\ phase' = Review
    /\ UNCHANGED <<healthVars, stepVars, size, batch, wave, running, findings, staged, reviews>>

\* No step is ready: the batch is drained, or the rest has unmet or circular dependencies.
EndBatch ==
    /\ phase = "waves"
    /\ \A i \in Pending : ~DepsSatisfied(i)
    /\ status' = [i \in Ids |-> IF i \in Pending THEN "failed" ELSE status[i]]
    /\ phase' = Review
    /\ UNCHANGED <<healthVars, depends, attempts, tried, calling, size, batch, wave, running,
                   findings, staged, reviews>>

\* _execute_step, up to the await of the worker.
Call(i, roster, w) ==
    /\ i \in running /\ calling[i] = NoWorker /\ attempts[i] < MaxRetries
    /\ w \in FilterCandidates(roster \ tried[i])
    /\ tried' = [tried EXCEPT ![i] = @ \union {w}]
    /\ attempts' = [attempts EXCEPT ![i] = @ + 1]
    /\ calling' = [calling EXCEPT ![i] = w]
    /\ UNCHANGED <<healthVars, depends, status, loopVars>>

Answers(i) ==
    /\ calling[i] # NoWorker
    /\ RecordSuccess(calling[i])
    /\ status' = [status EXCEPT ![i] = "done"]
    /\ calling' = [calling EXCEPT ![i] = NoWorker]
    /\ running' = running \ {i}
    /\ UNCHANGED <<depends, attempts, tried, phase, size, batch, wave, findings, staged, reviews>>

\* An empty answer is neither a success nor a failure of the worker.
AnswersEmpty(i) ==
    /\ calling[i] # NoWorker
    /\ calling' = [calling EXCEPT ![i] = NoWorker]
    /\ UNCHANGED <<healthVars, depends, status, attempts, tried, loopVars>>

Fails(i, k) ==
    /\ calling[i] # NoWorker
    /\ RecordFailure(calling[i], k)
    /\ calling' = [calling EXCEPT ![i] = NoWorker]
    /\ UNCHANGED <<depends, status, attempts, tried, loopVars>>

GiveUp(i, roster) ==
    /\ i \in running /\ calling[i] = NoWorker
    /\ attempts[i] = MaxRetries \/ FilterCandidates(roster \ tried[i]) = {}
    /\ status' = [status EXCEPT ![i] = "failed"]
    /\ running' = running \ {i}
    /\ UNCHANGED <<healthVars, depends, attempts, tried, calling, phase, size, batch, wave,
                   findings, staged, reviews>>

\* The step numbers, in order.
InOrder == [k \in 1 .. MaxSteps |-> k - 1]

DoneIn(S) == Filter(InOrder, {i \in S : status[i] = "done"})

\* Mutant: the findings of the whole batch are collected after each wave.
EndWaveCollectsBatch ==
    /\ phase = "working" /\ running = {}
    /\ findings' = findings \o DoneIn(batch)
    /\ staged' = staged \o DoneIn(batch)
    /\ wave' = {}
    /\ phase' = "waves"
    /\ UNCHANGED <<healthVars, stepVars, size, batch, running, reviews>>

\* gather() returns when all steps of the wave have; their findings are staged in order.
EndWave ==
    /\ phase = "working" /\ running = {}
    /\ findings' = findings \o DoneIn(wave)
    /\ staged' = staged \o DoneIn(wave)
    /\ wave' = {}
    /\ phase' = "waves"
    /\ UNCHANGED <<healthVars, stepVars, size, batch, running, reviews>>

-----------------------------------------------------------------------------
(* Review                                                                  *)

FollowUp(m) ==
    /\ phase = "reviewing"
    /\ m > 0 /\ size + m <= MaxSteps
    /\ reviews' = reviews + 1
    /\ size' = size + m
    /\ batch' = size .. size' - 1
    /\ status' = [i \in Ids |-> IF i \in batch' THEN "pending" ELSE status[i]]
    /\ phase' = "waves"
    /\ UNCHANGED <<healthVars, depends, attempts, tried, calling, wave, running, findings, staged>>

\* The verdict is "done", or no follow-up step fits; or review_fn raises.
Accept ==
    /\ phase = "reviewing"
    /\ reviews' \in {reviews, reviews + 1}
    /\ phase' = "finishing"
    /\ UNCHANGED <<healthVars, stepVars, size, batch, wave, running, findings, staged>>

\* clear_staging, and the result goes back to the caller.
Finish ==
    /\ phase = "finishing"
    /\ phase' = "finished"
    /\ staged' = <<>>
    /\ UNCHANGED <<healthVars, stepVars, size, batch, wave, running, findings, reviews>>

-----------------------------------------------------------------------------

RunStep ==
    \/ \E plan \in Plans : Plan(plan)
    \/ PlanFails \/ StartWave \/ EndBatch \/ EndWave
    \/ \E m \in 1 .. MaxSteps : FollowUp(m)
    \/ Accept \/ Finish

StepTask(i) ==
    \/ \E roster \in Rosters : GiveUp(i, roster) \/ \E w \in Workers : Call(i, roster, w)
    \/ Answers(i) \/ AnswersEmpty(i)
    \/ \E k \in Classes : Fails(i, k)

\* Another run of the swarm hears from a worker, or a cooldown is over.
Elsewhere(w) ==
    /\ \/ Shared /\ RecordSuccess(w)
       \/ Shared /\ \E k \in Classes : RecordFailure(w, k)
       \/ BenchEnds(w)
    /\ UNCHANGED <<stepVars, loopVars>>

Next ==
    \/ RunStep
    \/ \E i \in Ids : StepTask(i)
    \/ \E w \in Workers : Elsewhere(w)

Spec == Init /\ [][Next]_vars

\* The event loop runs every task that is ready, and worker calls end (the client has a
\* timeout).  Nothing is promised of the workers' health.
FairSpec == Spec /\ WF_vars(RunStep) /\ \A i \in Ids : WF_vars(StepTask(i))

-----------------------------------------------------------------------------
(* Properties                                                              *)

Phases == {"planning", "aborted", "waves", "working", "reviewing", "finishing", "finished"}

\* The type invariant of the run.
TypeOK ==
    /\ HealthTypeOK
    /\ phase \in Phases /\ size \in 0 .. MaxSteps
    /\ depends \in [Ids -> SUBSET Int]
    /\ status \in [Ids -> {"none", "pending", "done", "failed"}]
    /\ attempts \in [Ids -> 0 .. MaxRetries]
    /\ tried \in [Ids -> SUBSET Workers]
    /\ calling \in [Ids -> Workers \union {NoWorker}]
    /\ batch \subseteq Ids /\ wave \subseteq batch /\ running \subseteq wave
    /\ findings \in Seq(Ids) /\ staged \in Seq(Ids)
    /\ reviews \in 0 .. MaxReviews

\* Each finished step's finding reaches the caller exactly once, in the result and in the
\* staging file, however the steps of its wave interleave and whichever of them fail; the
\* staging file is gone when the run is over.
FindingsExact ==
    /\ Cardinality(ToSet(findings)) = Len(findings)
    /\ ToSet(findings) = {i \in Ids : status[i] = "done"} \ wave
    /\ staged = IF phase = "finished" THEN <<>> ELSE findings

Unmet(i) == {d \in depends[i] : d \notin 0 .. size - 1 \/ status[d] # "done"}

\* Work is only ever done on finished dependencies: a step that was given to a worker has
\* every dependency among the steps, and done, and stays so.
DependenciesDone ==
    \A i \in Ids : attempts[i] > 0 => Unmet(i) = {}

\* A finished run has settled every step of the plan and of the follow-up rounds.
EveryStepSettled ==
    phase = "finished" => \A i \in 0 .. size - 1 : status[i] \in {"done", "failed"}

\* The steps of a run add up: each is run on finished work only, hands its finding in once,
\* and none is left over, whichever steps fail and in whatever order the wave's tasks end.
StepsExact == FindingsExact /\ DependenciesDone /\ EveryStepSettled

\* A step fails for a cause: all its retries used or every worker of a roster tried (the
\* health gate itself never fails a step), or, unasked, in a deadlock: no pending step is
\* ready and none is running that could make one ready.
FailsForCause ==
    [][\A i \in Ids : status[i] = "pending" /\ status'[i] = "failed" =>
         IF Unmet(i) = {}
         THEN attempts[i] = MaxRetries \/ \E roster \in Rosters : roster \subseteq tried[i]
         ELSE running = {} /\ \A j \in Pending : Unmet(j) # {}]_vars

\* Every run ends: cyclic plans, dead workers and a reviewer who is never content included.
RunEnds == <>(phase \in {"finished", "aborted"})
=============================================================================
