--------------------------- MODULE SwarmLoopProofs ---------------------------
(***************************************************************************)
(* For any number of workers, steps, retries and reviews, and any planner: *)
(* benches are earned, steps fail for a cause, work is done on finished    *)
(* dependencies and handed in once, and a finished run has settled its     *)
(* steps.                                                                  *)
(*                                                                         *)
(* The registry needs no fact about the run: whoever records, and when,    *)
(* keeps RegistryInv.  RunInv says what the phases of a run have in        *)
(* common; HandedIn relates the findings to the statuses.                  *)
(***************************************************************************)
EXTENDS SwarmLoop, FilterProofs, FiniteSetTheorems, TLAPS

-----------------------------------------------------------------------------
(* The registry                                                            *)

\* A bench outlives the failure that earned it: what comes after is a second one.
RegistryInv ==
    /\ HealthTypeOK
    /\ \A w \in Workers : benched[w] => consecutive[w] > 0
    /\ BenchEarned

LEMMA FailureKeeps ==
  ASSUME RegistryInv, NEW w, NEW k \in Classes, RecordFailure(w, k)
  PROVE  RegistryInv'
<1> USE DEF RegistryInv, HealthTypeOK, BenchEarned, RecordFailure, ConsecutiveToBench
<1>1. CASE w \in Workers
  <2>1. /\ consecutive' \in [Workers -> 0 .. 2]
        /\ klass' \in [Workers -> Classes]
        /\ consecutive'[w] > 0
    BY <1>1
  <2>2. benched'[w] = (benched[w] \/ k = "pointless" \/ consecutive'[w] >= 2)
    BY <1>1
  <2>3. benched[w] \in BOOLEAN
    BY <1>1
  <2>4. benched'[w] \in BOOLEAN
    BY <2>2, <2>3
  <2>5. benched' \in [Workers -> BOOLEAN]
    BY <2>4, <1>1
  <2>6. benched[w] => consecutive'[w] >= 2
    BY <1>1
  <2>7. benched'[w] => consecutive'[w] >= 2 \/ klass'[w] = "pointless"
    BY <2>2, <2>6, <1>1
  <2>8. \A v \in Workers \ {w} : /\ benched'[v] = benched[v]
                                 /\ consecutive'[v] = consecutive[v]
                                 /\ klass'[v] = klass[v]
    BY <1>1
  <2> QED
    BY <2>1, <2>5, <2>7, <2>8
<1>2. CASE w \notin Workers
  BY <1>2
<1> QED
  BY <1>1, <1>2

LEMMA SuccessKeeps ==
  ASSUME RegistryInv, NEW w, RecordSuccess(w)
  PROVE  RegistryInv'
<1> USE DEF RegistryInv, HealthTypeOK, BenchEarned, RecordSuccess, ConsecutiveToBench
<1>1. CASE w \in Workers
  <2>1. HealthTypeOK'
    BY <1>1 DEF Classes
  <2>2. ~benched'[w]
    BY <1>1
  <2>3. \A v \in Workers \ {w} : /\ benched'[v] = benched[v]
                                 /\ consecutive'[v] = consecutive[v]
                                 /\ klass'[v] = klass[v]
    BY <1>1
  <2> QED
    BY <2>1, <2>2, <2>3
<1>2. CASE w \notin Workers
  BY <1>2
<1> QED
  BY <1>1, <1>2

LEMMA BenchEndKeeps ==
  ASSUME RegistryInv, NEW w, BenchEnds(w)
  PROVE  RegistryInv'
  BY DEF RegistryInv, HealthTypeOK, BenchEarned, BenchEnds

LEMMA RegistryUntouched ==
  ASSUME RegistryInv, UNCHANGED healthVars
  PROVE  RegistryInv'
  BY DEF RegistryInv, HealthTypeOK, BenchEarned, healthVars

\* Steps of this run record through Answers and Fails only; other runs do so at any time.
LEMMA RegistryStep == RegistryInv /\ [Next]_vars => RegistryInv'
<1> SUFFICES ASSUME RegistryInv, [Next]_vars PROVE RegistryInv'
  OBVIOUS
<1>1. CASE RunStep
  BY <1>1, RegistryUntouched DEF RunStep, Plan, PlanFails, StartWave, EndBatch, EndWave, FollowUp,
     Accept, Finish
<1>2. ASSUME NEW i \in Ids, StepTask(i) PROVE RegistryInv'
  BY <1>2, FailureKeeps, SuccessKeeps, RegistryUntouched
     DEF StepTask, GiveUp, Call, Answers, AnswersEmpty, Fails
<1>3. ASSUME NEW w \in Workers, Elsewhere(w) PROVE RegistryInv'
  BY <1>3, FailureKeeps, SuccessKeeps, BenchEndKeeps DEF Elsewhere
<1>4. CASE UNCHANGED vars
  BY <1>4, RegistryUntouched DEF vars
<1> QED
  BY <1>1, <1>2, <1>3, <1>4 DEF Next

\* One failure that a retry may cure never benches a worker, in whatever order the runs that
\* share it record (worker_health.py, record_failure and record_success).
THEOREM BenchesAreEarned == Spec => []BenchEarned
<1>1. Init => RegistryInv
  BY DEF Init, HealthInit, RegistryInv, HealthTypeOK, BenchEarned, Classes, ConsecutiveToBench
<1>2. RegistryInv => BenchEarned
  BY DEF RegistryInv
<1> QED
  BY <1>1, <1>2, RegistryStep, PTL DEF Spec

-----------------------------------------------------------------------------
(* The run                                                                 *)

RunTypeOK ==
    /\ size \in 0 .. MaxSteps
    /\ status \in [Ids -> {"none", "pending", "done", "failed"}]
    /\ attempts \in [Ids -> Nat]
    /\ calling \in [Ids -> Workers \union {NoWorker}]
    /\ batch \subseteq 0 .. size - 1
    /\ wave \subseteq Ids /\ running \subseteq wave

\* Steps run only while a wave is worked on, and were ready when it began; a worker is asked
\* for a running step only.
RunningReady ==
    /\ phase # "working" => running = {}
    /\ \A i \in running : status[i] = "pending" /\ Unmet(i) = {}
    /\ \A i \in Ids : calling[i] # NoWorker => i \in running

\* What is not settled yet is in the batch, and no phase but those of a batch leaves it so.
OpenInBatch ==
    \A i \in 0 .. size - 1 :
        \/ status[i] \in {"done", "failed"}
        \/ status[i] = "pending" /\ i \in batch /\ phase \in {"waves", "working"}

\* Before the plan there are no steps.
NothingPlanned == phase = "planning" => size = 0 /\ \A i \in Ids : attempts[i] = 0

RunInv == RunTypeOK /\ RunningReady /\ OpenInBatch /\ NothingPlanned /\ DependenciesDone

LEMMA UsableBounded ==
  ASSUME NEW plan \in Plans
  PROVE  Cardinality(Usable(plan)) \in 0 .. MaxSteps
<1>1. IsFiniteSet(1 .. MaxSteps) /\ Cardinality(1 .. MaxSteps) = MaxSteps
  BY FS_Interval, SwarmAssumption
<1> QED
  BY <1>1, FS_Subset, FS_CardinalityType, SwarmAssumption DEF Usable

LEMMA ReadyIsMet == \A i : DepsSatisfied(i) <=> Unmet(i) = {}
  BY DEF DepsSatisfied, Unmet

\* A step that settles makes no dependency of another one unmet: only pending steps settle.
LEMMA SettlingKeepsMet ==
  ASSUME RunTypeOK, NEW j \in Ids, Unmet(j) = {}, UNCHANGED <<depends, size>>,
         NEW i \in Ids, status[i] # "done", NEW s, status' = [status EXCEPT ![i] = s]
  PROVE  Unmet(j)' = {}
  BY SwarmAssumption DEF RunTypeOK, Unmet, Ids

\* What RunInv reads of a step that leaves the plan, the phase and the statuses alone.
LEMMA AskingKeepsRun ==
  ASSUME RunInv, UNCHANGED <<depends, status, loopVars>>, attempts' \in [Ids -> Nat],
         \A j \in Ids : attempts'[j] = attempts[j] \/ j \in running,
         NEW i \in running, NEW w \in Workers \union {NoWorker},
         calling' = [calling EXCEPT ![i] = w]
  PROVE  RunInv'
<1> USE DEF RunInv, loopVars
<1>1. \A j \in Ids : Unmet(j)' = Unmet(j)
  BY DEF Unmet
<1>2. RunTypeOK' /\ OpenInBatch'
  BY DEF RunTypeOK, OpenInBatch
<1>3. RunningReady'
  BY <1>1 DEF RunningReady, RunTypeOK
<1>4. NothingPlanned'
  BY DEF NothingPlanned, RunningReady
<1>5. DependenciesDone'
  BY <1>1 DEF DependenciesDone, RunningReady
<1> QED
  BY <1>2, <1>3, <1>4, <1>5

\* A running step is done with, one way or the other.
LEMMA SettlingKeepsRun ==
  ASSUME RunInv, NEW i \in running, NEW s \in {"done", "failed"},
         status' = [status EXCEPT ![i] = s], running' = running \ {i},
         calling' = [calling EXCEPT ![i] = NoWorker],
         UNCHANGED <<depends, attempts, phase, size, batch, wave>>
  PROVE  RunInv'
<1> USE DEF RunInv
<1>1. i \in Ids /\ status[i] # "done"
  BY DEF RunTypeOK, RunningReady
<1>2. \A j \in Ids : Unmet(j) = {} => Unmet(j)' = {}
  BY <1>1, SettlingKeepsMet
<1>3. RunTypeOK'
  BY DEF RunTypeOK
<1>4. RunningReady'
  BY <1>1, <1>2 DEF RunningReady, RunTypeOK
<1>5. OpenInBatch'
  BY <1>1 DEF OpenInBatch, RunTypeOK, Ids
<1>6. NothingPlanned'
  BY DEF NothingPlanned
<1>7. DependenciesDone'
  BY <1>2 DEF DependenciesDone
<1> QED
  BY <1>3, <1>4, <1>5, <1>6, <1>7

LEMMA RunStepKeepsRun == ASSUME RunInv, RunStep PROVE RunInv'
<1> USE SwarmAssumption DEF RunInv
<1>1. ASSUME NEW plan \in Plans, Plan(plan) PROVE RunInv'
  <2>1. size' \in 0 .. MaxSteps
    BY <1>1, UsableBounded DEF Plan
  <2>2. RunTypeOK' /\ OpenInBatch'
    BY <1>1, <2>1 DEF Plan, RunTypeOK, OpenInBatch, Ids
  <2>3. RunningReady' /\ NothingPlanned'
    BY <1>1 DEF Plan, RunningReady, NothingPlanned
  <2>4. DependenciesDone'
    BY <1>1 DEF Plan, NothingPlanned, DependenciesDone
  <2> QED
    BY <2>2, <2>3, <2>4
<1>2. CASE PlanFails \/ Accept \/ Finish
  <2>1. UNCHANGED <<stepVars, size, batch, wave, running>>
    BY <1>2 DEF PlanFails, Accept, Finish
  <2>2. \A j \in Ids : Unmet(j)' = Unmet(j)
    BY <2>1 DEF Unmet, stepVars
  <2>3. RunTypeOK' /\ DependenciesDone'
    BY <2>1, <2>2 DEF RunTypeOK, DependenciesDone, stepVars
  <2>4. RunningReady' /\ OpenInBatch' /\ NothingPlanned'
    BY <1>2, <2>1 DEF PlanFails, Accept, Finish, RunningReady, OpenInBatch, NothingPlanned,
       stepVars
  <2> QED
    BY <2>3, <2>4
<1>3. CASE StartWave
  <2>1. UNCHANGED <<stepVars, size, batch>> /\ phase' = "working"
    BY <1>3 DEF StartWave
  <2>2. \A j : Unmet(j)' = Unmet(j)
    BY <2>1 DEF Unmet, stepVars
  <2>3. wave' \subseteq batch /\ running' = wave'
    BY <1>3 DEF StartWave, Pending
  <2>4. RunTypeOK'
    BY <2>1, <2>3 DEF RunTypeOK, Ids, stepVars
  <2>5. OpenInBatch' /\ NothingPlanned'
    BY <1>3 DEF StartWave, OpenInBatch, NothingPlanned, stepVars
  <2>6. RunningReady'
    BY <1>3, <2>2, ReadyIsMet DEF StartWave, RunningReady, Pending, stepVars
  <2>7. DependenciesDone'
    BY <2>1, <2>2 DEF DependenciesDone, stepVars
  <2> QED
    BY <2>4, <2>5, <2>6, <2>7
<1>4. CASE EndBatch
  <2>1. phase' \in {"reviewing", "finishing"}
    BY <1>4 DEF EndBatch, Review
  <2>2. RunTypeOK'
    BY <1>4 DEF EndBatch, RunTypeOK
  <2>3. OpenInBatch' /\ NothingPlanned'
    BY <1>4, <2>1 DEF EndBatch, OpenInBatch, NothingPlanned, Pending, RunTypeOK, Ids
  <2>4. RunningReady'
    BY <1>4, <2>1 DEF EndBatch, RunningReady
  <2>5. \A j \in Ids : Unmet(j) = {} => Unmet(j)' = {}
    BY <1>4 DEF EndBatch, Unmet, Pending, RunTypeOK, Ids
  <2>6. DependenciesDone'
    BY <1>4, <2>5 DEF EndBatch, DependenciesDone
  <2> QED
    BY <2>2, <2>3, <2>4, <2>6
<1>5. CASE EndWave
  <2>1. UNCHANGED <<stepVars, size, batch, running>> /\ phase' = "waves" /\ running = {}
    BY <1>5 DEF EndWave
  <2>2. \A j \in Ids : Unmet(j)' = Unmet(j)
    BY <2>1 DEF Unmet, stepVars
  <2>3. RunTypeOK' /\ DependenciesDone'
    BY <1>5, <2>2 DEF EndWave, RunTypeOK, DependenciesDone, stepVars
  <2>4. RunningReady' /\ OpenInBatch' /\ NothingPlanned'
    BY <1>5 DEF EndWave, RunningReady, OpenInBatch, NothingPlanned, stepVars
  <2> QED
    BY <2>3, <2>4
<1>6. ASSUME NEW m \in 1 .. MaxSteps, FollowUp(m) PROVE RunInv'
  <2>1. RunTypeOK'
    BY <1>6 DEF FollowUp, RunTypeOK, Ids
  <2>2. OpenInBatch' /\ NothingPlanned'
    BY <1>6 DEF FollowUp, OpenInBatch, NothingPlanned, RunTypeOK, Ids
  <2>3. RunningReady'
    BY <1>6 DEF FollowUp, RunningReady
  <2>4. \A j \in Ids : Unmet(j) = {} => Unmet(j)' = {}
    BY <1>6 DEF FollowUp, Unmet, RunTypeOK, Ids
  <2>5. DependenciesDone'
    BY <1>6, <2>4 DEF FollowUp, DependenciesDone
  <2> QED
    BY <2>1, <2>2, <2>3, <2>5
<1> QED
  BY <1>1, <1>2, <1>3, <1>4, <1>5, <1>6 DEF RunStep

LEMMA StepTaskKeepsRun == ASSUME RunInv, NEW i \in Ids, StepTask(i) PROVE RunInv'
<1> USE DEF RunInv
<1>1. ASSUME NEW roster \in Rosters, NEW w \in Workers, Call(i, roster, w) PROVE RunInv'
  <2>1. attempts' \in [Ids -> Nat] /\ \A j \in Ids : attempts'[j] = attempts[j] \/ j \in running
    BY <1>1 DEF Call, RunTypeOK
  <2> QED
    BY <1>1, <2>1, AskingKeepsRun DEF Call
<1>2. CASE AnswersEmpty(i) \/ \E k \in Classes : Fails(i, k)
  <2>1. i \in running
    BY <1>2 DEF AnswersEmpty, Fails, RunningReady
  <2>2. /\ calling' = [calling EXCEPT ![i] = NoWorker]
        /\ UNCHANGED <<depends, status, attempts, loopVars>>
    BY <1>2 DEF AnswersEmpty, Fails
  <2> QED
    BY <2>1, <2>2, AskingKeepsRun DEF RunTypeOK
<1>3. ASSUME NEW roster \in Rosters, GiveUp(i, roster) PROVE RunInv'
  <2>1. calling' = [calling EXCEPT ![i] = NoWorker]
    BY <1>3 DEF GiveUp, RunTypeOK
  <2> QED
    BY <1>3, <2>1, SettlingKeepsRun DEF GiveUp
<1>4. CASE Answers(i)
  <2>1. i \in running
    BY <1>4 DEF Answers, RunningReady
  <2> QED
    BY <1>4, <2>1, SettlingKeepsRun DEF Answers
<1> QED
  BY <1>1, <1>2, <1>3, <1>4 DEF StepTask

LEMMA RunStaysSound == RunInv /\ [Next]_vars => RunInv'
<1> SUFFICES ASSUME RunInv, [Next]_vars PROVE RunInv'
  OBVIOUS
<1>1. CASE UNCHANGED <<stepVars, loopVars>>
  <2>1. \A j \in Ids : Unmet(j)' = Unmet(j)
    BY <1>1 DEF stepVars, loopVars, Unmet
  <2> QED
    BY <1>1, <2>1 DEF stepVars, loopVars, RunInv, RunTypeOK, RunningReady, OpenInBatch,
       NothingPlanned, DependenciesDone
<1> QED
  BY <1>1, RunStepKeepsRun, StepTaskKeepsRun DEF Next, Elsewhere, vars

LEMMA InitialRun == Init => RunInv
<1> SUFFICES ASSUME Init PROVE RunInv
  OBVIOUS
<1>1. RunTypeOK
  BY SwarmAssumption DEF Init, RunTypeOK, Ids
<1>2. RunningReady /\ NothingPlanned /\ DependenciesDone
  BY DEF Init, RunningReady, NothingPlanned, DependenciesDone
<1>3. OpenInBatch
  BY DEF Init, OpenInBatch
<1> QED
  BY <1>1, <1>2, <1>3 DEF RunInv

\* A step is only ever given to a worker on finished dependencies, and a finished run has
\* settled all its steps (swarm_loop.py, run_swarm), whatever the plan and its cycles.
THEOREM StepsSettled == Spec => [](DependenciesDone /\ EveryStepSettled)
<1>1. RunInv => DependenciesDone /\ EveryStepSettled
  BY DEF RunInv, OpenInBatch, EveryStepSettled
<1> QED
  BY <1>1, InitialRun, RunStaysSound, PTL DEF Spec

-----------------------------------------------------------------------------
(* The findings                                                            *)

\* What one wave hands in: the steps of it that are done, each once.
LEMMA WaveHandsIn ==
  ASSUME NEW S \in SUBSET Ids
  PROVE  /\ DoneIn(S) \in Seq(Ids) /\ IsInjective(DoneIn(S))
         /\ ToSet(DoneIn(S)) = {i \in S : status[i] = "done"}
<1> USE SwarmAssumption
<1>1. InOrder \in Seq(Ids) /\ DOMAIN InOrder = 1 .. MaxSteps
  BY DEF InOrder, Ids
<1>2. ToSet(InOrder) = Ids
  <2>1. ASSUME NEW i \in Ids PROVE i \in ToSet(InOrder)
    <3>1. i + 1 \in 1 .. MaxSteps /\ InOrder[i + 1] = i
      BY DEF InOrder, Ids
    <3> QED
      BY <1>1, <3>1 DEF ToSet
  <2>2. ASSUME NEW i \in ToSet(InOrder) PROVE i \in Ids
    BY <1>1 DEF ToSet, InOrder, Ids
  <2> QED
    BY <2>1, <2>2
<1>3. IsInjective(InOrder)
  BY DEF InOrder, IsInjective
<1>4. DoneIn(S) \in Seq(Ids) /\ ToSet(DoneIn(S)) = Ids \cap {i \in S : status[i] = "done"}
  BY <1>1, <1>2, FilterMembers DEF DoneIn
<1>5. IsInjective(DoneIn(S))
  BY <1>1, <1>3, FilterDistinct DEF DoneIn
<1> QED
  BY <1>4, <1>5

\* Every finding is that of a step that is done, no step has two, and those that are done but
\* not handed in are the ones whose wave is still worked on.
HandedIn ==
    /\ findings \in Seq(Ids) /\ IsInjective(findings)
    /\ ToSet(findings) = {i \in Ids : status[i] = "done"} \ wave
    /\ staged = IF phase = "finished" THEN <<>> ELSE findings
    /\ phase # "working" => wave = {}
    /\ \A i \in Ids : i >= size => status[i] = "none"
    /\ \A i \in wave : i < size
    /\ phase = "planning" => size = 0

LEMMA InitialFindings == Init => HandedIn
<1>1. ToSet(<<>>) = {} /\ IsInjective(<<>>)
  BY DEF ToSet, IsInjective
<1> QED
  BY <1>1 DEF Init, HandedIn

LEMMA RunStepHandsIn ==
  ASSUME RunInv, HandedIn, RunStep
  PROVE  HandedIn'
<1> USE SwarmAssumption DEF RunInv, RunTypeOK, HandedIn, Ids
<1>1. ASSUME NEW plan \in Plans, Plan(plan) PROVE HandedIn'
  <2>1. size' \in 0 .. MaxSteps
    BY <1>1, UsableBounded DEF Plan
  <2>2. UNCHANGED <<findings, staged, wave>> /\ phase = "planning" /\ phase' = "waves"
    BY <1>1 DEF Plan
  <2>3. \A i \in Ids : status[i] = "none"
    BY <2>2
  <2>4. \A i \in Ids : status'[i] = IF i < size' THEN "pending" ELSE "none"
    BY <1>1 DEF Plan
  <2>5. \A i \in Ids : status[i] # "done" /\ status'[i] # "done"
    BY <2>3, <2>4
  <2>6. \A i \in Ids : i >= size' => status'[i] = "none"
    BY <2>1, <2>4
  <2> QED
    BY <2>2, <2>5, <2>6
<1>2. CASE PlanFails \/ Accept
  BY <1>2 DEF PlanFails, Accept, stepVars
<1>3. CASE StartWave
  <2>1. UNCHANGED <<status, size, findings, staged>> /\ phase = "waves" /\ phase' = "working"
    BY <1>3 DEF StartWave, stepVars
  <2>2. wave' \subseteq batch /\ \A i \in wave' : status[i] = "pending"
    BY <1>3 DEF StartWave, Pending
  <2> QED
    BY <2>1, <2>2
<1>4. CASE EndBatch
  <2>1. UNCHANGED <<size, wave, findings, staged>> /\ phase = "waves"
    BY <1>4 DEF EndBatch
  <2>2. phase' \in {"reviewing", "finishing"}
    BY <1>4 DEF EndBatch, Review
  <2>3. \A i \in Ids : status'[i] = IF i \in Pending THEN "failed" ELSE status[i]
    BY <1>4 DEF EndBatch
  <2>4. \A i \in Pending : status[i] = "pending" /\ i < size
    BY DEF Pending
  <2> QED
    BY <2>1, <2>2, <2>3, <2>4
<1>5. CASE EndWave
  <2> DEFINE d == DoneIn(wave)
  <2>1. /\ d \in Seq(Ids) /\ IsInjective(d)
        /\ ToSet(d) = {i \in wave : status[i] = "done"}
    BY WaveHandsIn
  <2>2. /\ findings' = findings \o d /\ staged' = staged \o d
        /\ wave' = {} /\ phase = "working" /\ phase' = "waves" /\ UNCHANGED <<status, size>>
    BY <1>5 DEF EndWave, stepVars
  <2> HIDE DEF d
  <2>3. ToSet(findings) \cap ToSet(d) = {}
    BY <2>1
  <2>4. findings' \in Seq(Ids) /\ ToSet(findings') = ToSet(findings) \cup ToSet(d)
    BY <2>1, <2>2, ConcatMembers
  <2>5. IsInjective(findings')
    BY <2>1, <2>2, <2>3, ConcatDistinct
  <2>6. ToSet(findings') = {i \in Ids : status'[i] = "done"} \ wave'
    BY <2>1, <2>2, <2>4
  <2> QED
    BY <2>2, <2>4, <2>5, <2>6
<1>6. ASSUME NEW m \in 1 .. MaxSteps, FollowUp(m) PROVE HandedIn'
  <2>1. /\ UNCHANGED <<wave, findings, staged>> /\ phase = "reviewing" /\ phase' = "waves"
        /\ size' = size + m /\ size' <= MaxSteps /\ batch' = size .. size' - 1
    BY <1>6 DEF FollowUp
  <2>2. \A i \in Ids : status'[i] = IF i \in batch' THEN "pending" ELSE status[i]
    BY <1>6 DEF FollowUp
  <2>3. \A i \in Ids : status'[i] = "done" <=> status[i] = "done"
    BY <2>1, <2>2
  <2>4. \A i \in Ids : i >= size' => status'[i] = "none"
    BY <2>1, <2>2
  <2> QED
    BY <2>1, <2>3, <2>4
<1>7. CASE Finish
  BY <1>7 DEF Finish, stepVars
<1> QED
  BY <1>1, <1>2, <1>3, <1>4, <1>5, <1>6, <1>7 DEF RunStep

\* While a wave is worked on its steps settle one by one; none of it is handed in yet.
LEMMA StepTaskHandsIn ==
  ASSUME RunInv, HandedIn, NEW i \in Ids, StepTask(i)
  PROVE  HandedIn'
<1>1. UNCHANGED <<phase, size, wave, findings, staged>>
  BY DEF StepTask, GiveUp, Call, Answers, AnswersEmpty, Fails, loopVars
<1>2. \/ status' = status
      \/ i \in running /\ \E s \in {"done", "failed"} : status' = [status EXCEPT ![i] = s]
  BY DEF StepTask, GiveUp, Call, Answers, AnswersEmpty, Fails, RunInv, RunningReady
<1>3. i \in running => i \in wave /\ status[i] = "pending"
  BY DEF RunInv, RunTypeOK, RunningReady
<1>4. \A j \in Ids \ wave : status'[j] = status[j]
  BY <1>2, <1>3 DEF RunInv, RunTypeOK
<1> QED
  BY <1>1, <1>4, SwarmAssumption DEF HandedIn, Ids, RunInv, RunTypeOK

LEMMA FindingsStay == RunInv /\ HandedIn /\ [Next]_vars => HandedIn'
<1> SUFFICES ASSUME RunInv, HandedIn, [Next]_vars PROVE HandedIn'
  OBVIOUS
<1>1. CASE UNCHANGED <<stepVars, loopVars>>
  BY <1>1 DEF stepVars, loopVars, HandedIn
<1> QED
  BY <1>1, RunStepHandsIn, StepTaskHandsIn DEF Next, Elsewhere, vars

\* Each finished step's finding reaches the caller exactly once, however the steps of its
\* wave interleave, on finished dependencies, and no step is left over (swarm_loop.py,
\* run_swarm: the findings are collected from the wave, not from the batch).
THEOREM StepsAddUp == Spec => []StepsExact
<1>1. RunInv /\ HandedIn => StepsExact
  <2> SUFFICES ASSUME RunInv, HandedIn PROVE StepsExact
    OBVIOUS
  <2>1. Cardinality(ToSet(findings)) = Len(findings)
    BY DistinctLength DEF HandedIn
  <2>2. FindingsExact
    BY <2>1 DEF HandedIn, FindingsExact
  <2>3. EveryStepSettled
    BY DEF RunInv, OpenInBatch, EveryStepSettled
  <2> QED
    BY <2>2, <2>3 DEF StepsExact, RunInv
<1> QED
  BY <1>1, InitialRun, InitialFindings, RunStaysSound, FindingsStay, PTL DEF Spec

LEMMA FailureIsCaused ==
  ASSUME RunInv, [Next]_vars, NEW i \in Ids, status[i] = "pending", status'[i] = "failed"
  PROVE  IF Unmet(i) = {}
         THEN attempts[i] = MaxRetries \/ \E roster \in Rosters : roster \subseteq tried[i]
         ELSE running = {} /\ \A j \in Pending : Unmet(j) # {}
<1> USE DEF RunInv
<1>1. CASE EndBatch
  <2>1. \A j \in Pending : Unmet(j) # {}
    BY <1>1, ReadyIsMet DEF EndBatch
  <2>2. i \in Pending /\ running = {}
    BY <1>1 DEF EndBatch, RunningReady
  <2> QED
    BY <2>1, <2>2
<1>2. ASSUME NEW roster \in Rosters, NEW j \in Ids, GiveUp(j, roster)
      PROVE  /\ Unmet(i) = {}
             /\ attempts[i] = MaxRetries \/ roster \subseteq tried[i]
  <2>1. j = i
    BY <1>2 DEF GiveUp, RunTypeOK
  <2>2. Unmet(i) = {}
    BY <1>2, <2>1 DEF GiveUp, RunningReady
  <2>3. FilterCandidates(roster \ tried[i]) = {} => roster \subseteq tried[i]
    BY DEF FilterCandidates
  <2> QED
    BY <1>2, <2>1, <2>2, <2>3 DEF GiveUp
<1>3. ASSUME RunStep, ~EndBatch PROVE FALSE
  BY <1>3, SwarmAssumption DEF RunStep, Plan, PlanFails, StartWave, EndWave, FollowUp, Accept,
     Finish, stepVars
<1>4. ASSUME NEW j \in Ids, Answers(j) PROVE FALSE
  BY <1>4 DEF Answers, RunTypeOK
<1>5. ASSUME status' = status PROVE FALSE
  BY <1>5
<1>6. ASSUME NEW j \in Ids, StepTask(j)
      PROVE  \E roster \in Rosters : GiveUp(j, roster)
  BY <1>4, <1>5, <1>6 DEF StepTask, Call, AnswersEmpty, Fails
<1>7. ~\E w \in Workers : Elsewhere(w)
  BY <1>5 DEF Elsewhere, stepVars
<1>8. UNCHANGED vars => FALSE
  BY <1>5 DEF vars, stepVars
<1> QED
  BY <1>1, <1>2, <1>3, <1>6, <1>7, <1>8 DEF Next

\* No step fails without a cause: the health gate never starves one, and none is given up
\* while a running step could still make it ready (swarm_loop.py, _execute_step, run_swarm).
THEOREM FailuresHaveCauses == Spec => FailsForCause
<1>1. RunInv /\ [Next]_vars =>
        [\A i \in Ids : status[i] = "pending" /\ status'[i] = "failed" =>
           IF Unmet(i) = {}
           THEN attempts[i] = MaxRetries \/ \E roster \in Rosters : roster \subseteq tried[i]
           ELSE running = {} /\ \A j \in Pending : Unmet(j) # {}]_vars
  BY FailureIsCaused
<1> QED
  BY <1>1, InitialRun, RunStaysSound, PTL DEF Spec, FailsForCause
=============================================================================
