------------------------- MODULE ProviderChainProofs -------------------------
(***************************************************************************)
(* Machine-checked proofs about ProviderChain, for every number of entries *)
(* and turns, every threshold and retry limit, with and without a health   *)
(* file.  The invariants of the model-checking runs are proved as parts of *)
(* one inductive invariant, IInv, and the last theorem shows that every    *)
(* step of the chain is a step of the abstract specification Failover.     *)
(***************************************************************************)
EXTENDS ProviderChain, FiniteSetTheorems, TLAPS

\* A turn that waits for an answer waits for an entry it has tried, with an attempt left,
\* and one on the floor for a local entry.
CallKnown ==
    \A t \in Turns :
        /\ Calling(t) => cur[t] \in tried[t]
        /\ pc[t] \in {"select", "calling", "retrying"} => attempts[t] < RetryAttempts
        /\ pc[t] = "floor" => cur[t] \in Local

\* The outcome is open until try_with_fallback returns.
OutcomeOpen ==
    \A t \in Turns :
        /\ pc[t] \in {"select", "calling", "retrying"} => outcome[t] = "pending"
        /\ pc[t] = "floor" => outcome[t] \in Failures

TypeInv == TypeOK /\ CallKnown

EntryFields ==
    /\ health \in [Entries -> Healths] /\ fails \in [Entries -> 0 .. FailureThreshold]
    /\ lastErr \in [Entries -> ErrorClasses] /\ down \in [Entries -> BOOLEAN]

LEMMA SnapshotType == Snapshot \in EntryRecord <=> EntryFields
  BY DEF Snapshot, EntryRecord, EntryFields

LEMMA CountedType ==
  ASSUME NEW n \in 0 .. FailureThreshold
  PROVE  Counted(n) \in 1 .. FailureThreshold
  BY ChainAssumption DEF Counted

\* Recording a result keeps the types of memory and file.
LEMMA RecordSuccessType ==
  ASSUME EntriesTyped, NEW e \in Entries, RecordSuccess(e)
  PROVE  EntriesTyped'
<1>1. EntryFields'
  BY ChainAssumption, SnapshotType DEF EntriesTyped, EntryFields, RecordSuccess, Healths
<1>2. Snapshot' \in EntryRecord
  BY <1>1 DEF Snapshot, EntryRecord, EntryFields
<1> QED BY <1>2 DEF EntriesTyped, RecordSuccess, SaveHealth

LEMMA RecordFailureType ==
  ASSUME EntriesTyped, NEW e \in Entries, NEW k \in ErrorClasses, RecordFailure(e, k)
  PROVE  EntriesTyped'
<1> USE SnapshotType DEF EntriesTyped, EntryFields
<1>1. fails' \in [Entries -> 0 .. FailureThreshold]
  <2>1. Counted(fails[e]) \in 0 .. FailureThreshold
    BY CountedType
  <2> QED BY <2>1 DEF RecordFailure
<1>2. health' \in [Entries -> Healths]
  BY DEF RecordFailure, Healths
<1>3. lastErr' \in [Entries -> ErrorClasses] /\ down' \in [Entries -> BOOLEAN]
  BY DEF RecordFailure
<1>4. Snapshot' \in EntryRecord
  BY <1>1, <1>2, <1>3 DEF Snapshot, EntryRecord
<1> QED BY <1>4 DEF RecordFailure, SaveHealth

\* Ending a turn keeps the types of the turns and says where the turn goes.
LEMMA GiveUpType ==
  ASSUME TurnsTyped, CallKnown, NEW t \in Turns, NEW o \in Failures, GiveUp(t, o),
         attempts' \in [Turns -> 0 .. RetryAttempts],
         \A u \in Turns \ {t} : attempts'[u] = attempts[u]
  PROVE  TurnsTyped' /\ CallKnown'
<1>1. /\ cur' \in [Turns -> Entries \union {Null}]
      /\ pc' \in [Turns -> {"idle", "select", "calling", "retrying", "floor", "done"}]
  BY ChainAssumption DEF GiveUp, TurnsTyped
<1>2. outcome' \in [Turns -> Outcomes]
  BY DEF GiveUp, TurnsTyped, Outcomes
<1>3. TurnsTyped'
  BY <1>1, <1>2 DEF GiveUp, TurnsTyped
<1>4. CallKnown'
  BY DEF GiveUp, TurnsTyped, CallKnown, Calling
<1> QED BY <1>3, <1>4

LEMMA AnswerType ==
  ASSUME TurnsTyped, CallKnown, NEW t \in Turns, NEW o \in Outcomes, Answer(t, o)
  PROVE  TurnsTyped' /\ CallKnown'
  BY DEF Answer, TurnsTyped, CallKnown, Calling

LEMMA AdvanceType ==
  ASSUME TypeInv, NEW t \in Turns, NEW k \in Errors, Calling(t), Advance(t, k)
  PROVE  TypeInv'
<1>1. cur[t] \in Entries /\ k \in ErrorClasses
  BY ChainAssumption DEF TypeInv, TypeOK, TurnsTyped, CallKnown
<1>2. EntriesTyped'
  BY <1>1, RecordFailureType DEF TypeInv, TypeOK, Advance
<1>3. /\ attempts' \in [Turns -> 0 .. RetryAttempts]
      /\ \A u \in Turns \ {t} : attempts'[u] = attempts[u]
  BY ChainAssumption DEF TypeInv, TypeOK, TurnsTyped, CallKnown, Calling, Advance
<1>4. TurnsTyped' /\ CallKnown'
  <2>1. CASE attempts[t] + 1 < RetryAttempts
    BY <1>3, <2>1 DEF Advance, TypeInv, TypeOK, TurnsTyped, CallKnown, Calling
  <2>2. CASE ~(attempts[t] + 1 < RetryAttempts)
    <3>1. GiveUp(t, "exhausted") /\ "exhausted" \in Failures
      BY <2>2 DEF Advance, Failures
    <3> QED BY <1>3, <3>1, GiveUpType DEF TypeInv, TypeOK
  <2> QED BY <2>1, <2>2
<1> QED BY <1>2, <1>4 DEF TypeInv, TypeOK, Advance, ProbesTyped

LEMMA TypeInit == Init => TypeInv
<1> SUFFICES ASSUME Init PROVE TypeInv
  OBVIOUS
<1>1. EntriesTyped
  BY ChainAssumption DEF Init, Fresh, EntriesTyped, Snapshot, EntryRecord, Healths, ErrorClasses
<1>2. TurnsTyped /\ CallKnown
  BY ChainAssumption DEF Init, TurnsTyped, CallKnown, Calling, Outcomes
<1> QED BY <1>1, <1>2 DEF Init, TypeInv, TypeOK, ProbesTyped

LEMMA TypeStep == TypeInv /\ [Next]_vars => TypeInv'
<1> SUFFICES ASSUME TypeInv, [Next]_vars PROVE TypeInv'
  OBVIOUS
<1> USE DEF TypeInv, TypeOK
<1>1. ASSUME NEW t \in Turns, NEW tr \in Requests, StartTurn(t, tr) PROVE TypeInv'
  <2>1. TurnsTyped' /\ CallKnown'
    BY <1>1, ChainAssumption DEF StartTurn, TurnsTyped, CallKnown, Calling, Outcomes
  <2> QED BY <1>1, <2>1 DEF StartTurn, entryVars, EntriesTyped, Snapshot, ProbesTyped
<1>2. ASSUME NEW t \in Turns, Select(t) PROVE TypeInv'
  <2>1. TurnsTyped' /\ CallKnown'
    BY <1>2, ChainAssumption DEF Select, TurnsTyped, CallKnown, Calling
  <2> QED BY <1>2, <2>1 DEF Select, entryVars, EntriesTyped, Snapshot, ProbesTyped
<1>3. ASSUME NEW t \in Turns, NoneAvailable(t) \/ ChainExhausted(t) PROVE TypeInv'
  <2>1. attempts' = attempts /\ UNCHANGED <<entryVars, disk, probe>>
    BY <1>3 DEF NoneAvailable, ChainExhausted
  <2>2. \E o \in Failures : GiveUp(t, o)
    BY <1>3 DEF NoneAvailable, ChainExhausted, Failures
  <2>3. TurnsTyped' /\ CallKnown'
    BY <2>1, <2>2, GiveUpType DEF TurnsTyped
  <2> QED BY <2>1, <2>3 DEF entryVars, EntriesTyped, Snapshot, ProbesTyped
<1>4. ASSUME NEW t \in Turns, CallAnswers(t) PROVE TypeInv'
  <2>1. EntriesTyped'
    BY <1>4, RecordSuccessType DEF CallAnswers, CallKnown, Calling, TurnsTyped
  <2>2. TurnsTyped' /\ CallKnown'
    BY <1>4, AnswerType DEF CallAnswers, Outcomes
  <2> QED BY <1>4, <2>1, <2>2 DEF CallAnswers, ProbesTyped
<1>5. ASSUME NEW t \in Turns, CallRejected(t) PROVE TypeInv'
  <2>1. EntriesTyped'
    BY <1>5, RecordFailureType, ChainAssumption
    DEF CallRejected, CallKnown, Calling, TurnsTyped
  <2>2. TurnsTyped' /\ CallKnown'
    BY <1>5, GiveUpType DEF CallRejected, Failures, TurnsTyped
  <2> QED BY <1>5, <2>1, <2>2 DEF CallRejected, ProbesTyped
<1>6. ASSUME NEW t \in Turns, NEW k \in Errors, CallBlips(t, k) PROVE TypeInv'
  <2>1. TurnsTyped' /\ CallKnown'
    BY <1>6 DEF CallBlips, TurnsTyped, CallKnown, Calling
  <2> QED BY <1>6, <2>1 DEF CallBlips, entryVars, EntriesTyped, Snapshot, ProbesTyped
<1>7. ASSUME NEW t \in Turns, NEW k \in Errors, CallFails(t, k) \/ RetryFails(t, k)
      PROVE  TypeInv'
  BY <1>7, AdvanceType DEF CallFails, RetryFails, Calling
<1>8. ASSUME NEW t \in Turns, FloorAnswers(t) \/ FloorFails(t) PROVE TypeInv'
  <2>1. \E o \in Outcomes : Answer(t, o)
    BY <1>8 DEF FloorAnswers, FloorFails, TurnsTyped, Outcomes
  <2>2. TurnsTyped' /\ CallKnown'
    BY <2>1, AnswerType
  <2> QED BY <1>8, <2>2
          DEF FloorAnswers, FloorFails, entryVars, EntriesTyped, Snapshot, ProbesTyped
<1>9. ASSUME UNCHANGED turnVars, EntriesTyped', ProbesTyped' PROVE TypeInv'
  BY <1>9 DEF turnVars, TurnsTyped, CallKnown, Calling
<1>10. ASSUME NEW e \in Entries, ProbeStep(e) PROVE TypeInv'
  <2>1. ProbesTyped' /\ UNCHANGED turnVars
    BY <1>10 DEF ProbeStep, ProbeRaises, ProbeUnhealthy, ProbeRecovers, ProbeHealthy,
                 ProbeEnds, ProbesTyped, turnVars
  <2>2. ASSUME NEW k \in Errors, ProbeRaises(e, k) PROVE EntriesTyped'
    BY <2>2, RecordFailureType, ChainAssumption DEF ProbeRaises
  <2>3. ASSUME ProbeUnhealthy(e) \/ ProbeHealthy(e) PROVE EntriesTyped'
    <3>1. EntryFields'
      BY <2>3, SnapshotType, ChainAssumption
      DEF EntriesTyped, EntryFields, ProbeUnhealthy, ProbeHealthy, Healths
    <3>2. Snapshot' \in EntryRecord
      BY <3>1 DEF Snapshot, EntryRecord, EntryFields
    <3> QED BY <2>3, <3>2 DEF EntriesTyped, ProbeUnhealthy, ProbeHealthy
  <2>4. ASSUME ProbeRecovers(e) PROVE EntriesTyped'
    BY <2>4, RecordSuccessType DEF ProbeRecovers
  <2> QED BY <1>9, <1>10, <2>1, <2>2, <2>3, <2>4 DEF ProbeStep
<1>11. ASSUME NEW e \in Entries, CooldownElapses(e) PROVE TypeInv'
  BY <1>9, <1>11 DEF CooldownElapses, EntriesTyped, Snapshot, ProbesTyped, turnVars
<1>12. ASSUME Sweep PROVE TypeInv'
  BY <1>9, <1>12 DEF Sweep, entryVars, EntriesTyped, Snapshot, ProbesTyped
<1>13. ASSUME Restart PROVE TypeInv'
  <2>1. TurnsTyped' /\ CallKnown' /\ ProbesTyped'
    BY <1>13, ChainAssumption DEF Restart, TurnsTyped, CallKnown, Calling, ProbesTyped, Outcomes
  <2>2. Snapshot' = disk
    BY <1>13 DEF Restart, Snapshot, EntriesTyped, EntryRecord
  <2>3. cooling' \in [Entries -> BOOLEAN]
    BY <1>13, ChainAssumption DEF Restart, EntriesTyped
  <2> QED BY <1>13, <2>1, <2>2, <2>3 DEF Restart, EntriesTyped
<1>14. ASSUME UNCHANGED vars PROVE TypeInv'
  BY <1>9, <1>14 DEF vars, entryVars, EntriesTyped, Snapshot, ProbesTyped
<1> QED
  BY <1>1, <1>2, <1>3, <1>4, <1>5, <1>6, <1>7, <1>8, <1>10, <1>11, <1>12, <1>13, <1>14
  DEF Next, TurnStep

\* The chain, its turns and its monitor keep their types: TypeOK is inductive once a turn
\* that waits for an answer is known to wait for an entry (CallKnown).
THEOREM TypeCorrect == Spec => []TypeOK
<1>1. TypeInv => TypeOK
  BY DEF TypeInv
<1> QED BY <1>1, TypeInit, TypeStep, PTL DEF Spec

\* A healthy entry that is neither busy nor demoted comes first, if it may be selected at all.
LEMMA HealthyComesFirst ==
  ASSUME EntriesTyped, NEW tr, NEW excluded, NEW demoted \in SUBSET Demotable,
         NEW busy \in SUBSET Pooled, NEW e \in Entries, IsSelected(e, tr, excluded, demoted, busy),
         NEW f \in Candidates(tr, excluded) \ (Pooled \union Demotable), health[f] = "healthy"
  PROVE  health[e] = "healthy" /\ e <= f
<1>1. f \in Entries /\ ~InCooldown(f)
  BY DEF Candidates, InCooldown
<1>2. f \in Eligible(tr, excluded)
  BY <1>1 DEF Eligible
<1>3. f \in Selectable(tr, excluded) \ busy
  BY <1>2 DEF Selectable
<1>4. e = f \/ SortsBefore(e, f, demoted)
  BY <1>3 DEF IsSelected
<1>5. CASE e = f
  BY <1>1, <1>5 DEF Entries
<1>6. CASE SortsBefore(e, f, demoted)
  <2>1. health[e] = "healthy"
    BY <1>6 DEF SortsBefore
  <2>2. e < f
    BY <1>6, <2>1 DEF SortsBefore
  <2> QED
    BY <1>1, <2>1, <2>2 DEF Entries
<1> QED
  BY <1>4, <1>5, <1>6

\* Whatever the pools and the demotions are when a turn selects, and whatever happened before,
\* no healthy entry is passed over for a worse or a later one.
THEOREM PriorityIsRespected == Spec => PriorityRespected
<1>1. TypeInv => \A t \in Turns : Select(t) =>
         \A f \in Candidates(tier[t], tried[t]) \ (Pooled \union Demotable) :
             health[f] = "healthy" => health[cur'[t]] = "healthy" /\ cur'[t] <= f
  <2> SUFFICES ASSUME TypeInv, NEW t \in Turns, Select(t),
                      NEW f \in Candidates(tier[t], tried[t]) \ (Pooled \union Demotable),
                      health[f] = "healthy"
               PROVE  health[cur'[t]] = "healthy" /\ cur'[t] <= f
    OBVIOUS
  <2>1. PICK demoted \in SUBSET Demotable, busy \in SUBSET Pooled, e \in Entries :
           IsSelected(e, tier[t], tried[t], demoted, busy) /\ cur' = [cur EXCEPT ![t] = e]
    BY DEF Select
  <2>2. cur'[t] = e
    BY <2>1 DEF TypeInv, TypeOK, TurnsTyped
  <2> QED
    BY <2>1, <2>2, HealthyComesFirst DEF TypeInv, TypeOK
<1> QED
  BY <1>1, TypeInit, TypeStep, PTL DEF Spec, PriorityRespected


-----------------------------------------------------------------------------
(* The bookkeeping of health, in memory and in the file.                   *)

HealthInv == TypeInv /\ HealthAccounted /\ BenchDurable

LEMMA RecordSuccessAccounted ==
  ASSUME HealthInv, NEW e \in Entries, RecordSuccess(e)
  PROVE  HealthAccounted' /\ BenchDurable'
<1> USE DEF HealthInv, TypeInv, TypeOK
<1>1. EntryFields /\ EntriesTyped'
  BY SnapshotType, RecordSuccessType DEF EntriesTyped
<1>2. Accounted(Snapshot')
  BY <1>1, ChainAssumption
  DEF RecordSuccess, HealthAccounted, Accounted, Snapshot, EntryFields
<1>3. HealthAccounted'
  BY <1>2 DEF RecordSuccess, SaveHealth, HealthAccounted
<1>4. BenchDurable'
  <2> SUFFICES ASSUME Persisted PROVE BenchDurable'
    BY DEF BenchDurable
  <2>1. disk' = Snapshot'
    BY DEF RecordSuccess, SaveHealth
  <2> QED BY <2>1 DEF BenchDurable, Snapshot
<1> QED BY <1>3, <1>4

LEMMA RecordFailureAccounted ==
  ASSUME HealthInv, NEW e \in Entries, NEW k \in ErrorClasses, RecordFailure(e, k)
  PROVE  HealthAccounted' /\ BenchDurable'
<1> USE DEF HealthInv, TypeInv, TypeOK
<1>1. EntryFields
  BY SnapshotType DEF EntriesTyped
<1>2. Accounted(Snapshot')
  <2> SUFFICES ASSUME NEW f \in Entries
               PROVE  /\ health'[f] \in {"healthy", "unknown"} => fails'[f] = 0
                      /\ fails'[f] > 0 => down'[f]
                      /\ health'[f] = "failed" =>
                           fails'[f] >= FailureThreshold \/ lastErr'[f] = ModelGone
    BY DEF Accounted, Snapshot
  <2>1. CASE f = e
    BY <1>1, <2>1 DEF RecordFailure, EntryFields
  <2>2. CASE f # e
    BY <1>1, <2>2 DEF RecordFailure, EntryFields, HealthAccounted, Accounted, Snapshot
  <2> QED BY <2>1, <2>2
<1>3. HealthAccounted'
  BY <1>2 DEF RecordFailure, SaveHealth, HealthAccounted
<1>4. BenchDurable'
  <2> SUFFICES ASSUME Persisted PROVE BenchDurable'
    BY DEF BenchDurable
  <2>1. disk' = Snapshot'
    BY DEF RecordFailure, SaveHealth
  <2> QED BY <2>1 DEF BenchDurable, Snapshot
<1> QED BY <1>3, <1>4

LEMMA HealthInit == Init => HealthInv
<1> SUFFICES ASSUME Init PROVE HealthInv
  OBVIOUS
<1>1. HealthAccounted
  BY ChainAssumption DEF Init, Fresh, HealthAccounted, Accounted, Snapshot
<1>2. BenchDurable
  BY DEF Init, Fresh, BenchDurable
<1> QED BY <1>1, <1>2, TypeInit DEF HealthInv

LEMMA HealthStep == HealthInv /\ [Next]_vars => HealthInv'
<1> SUFFICES ASSUME HealthInv, [Next]_vars PROVE HealthAccounted' /\ BenchDurable'
  BY TypeStep DEF HealthInv
<1>1. ASSUME UNCHANGED <<health, fails, lastErr, down, disk>>
      PROVE  HealthAccounted' /\ BenchDurable'
  BY <1>1 DEF HealthInv, HealthAccounted, Accounted, Snapshot, BenchDurable
<1>2. ASSUME NEW t \in Turns, NEW k \in ErrorClasses, Calling(t), RecordFailure(cur[t], k)
      PROVE  HealthAccounted' /\ BenchDurable'
  <2>1. cur[t] \in Entries
    BY <1>2 DEF HealthInv, TypeInv, TypeOK, TurnsTyped, CallKnown
  <2> QED BY <1>2, <2>1, RecordFailureAccounted
<1>3. ASSUME NEW t \in Turns, TurnStep(t) PROVE HealthAccounted' /\ BenchDurable'
  <2>1. CASE CallAnswers(t)
    <3>1. cur[t] \in Entries
      BY <2>1 DEF HealthInv, TypeInv, TypeOK, TurnsTyped, CallKnown, CallAnswers, Calling
    <3> QED BY <2>1, <3>1, RecordSuccessAccounted DEF CallAnswers
  <2>2. CASE CallRejected(t)
    BY <1>2, <2>2, ChainAssumption DEF CallRejected, Calling
  <2>3. ASSUME NEW k \in Errors, CallFails(t, k) \/ RetryFails(t, k)
        PROVE  HealthAccounted' /\ BenchDurable'
    BY <1>2, <2>3, ChainAssumption DEF CallFails, RetryFails, Advance, Calling
  <2>4. CASE \/ Select(t) \/ NoneAvailable(t) \/ ChainExhausted(t)
             \/ (\E k \in Errors : CallBlips(t, k)) \/ FloorAnswers(t) \/ FloorFails(t)
    BY <1>1, <2>4 DEF Select, NoneAvailable, ChainExhausted, CallBlips, FloorAnswers,
                      FloorFails, entryVars
  <2> QED BY <1>3, <2>1, <2>2, <2>3, <2>4 DEF TurnStep
<1>4. ASSUME NEW e \in Entries, ProbeStep(e) PROVE HealthAccounted' /\ BenchDurable'
  <2>1. ASSUME NEW k \in Errors, ProbeRaises(e, k) PROVE HealthAccounted' /\ BenchDurable'
    BY <2>1, RecordFailureAccounted, ChainAssumption DEF ProbeRaises
  <2>2. CASE ProbeRecovers(e)
    BY <2>2, RecordSuccessAccounted DEF ProbeRecovers
  <2>3. CASE ProbeUnhealthy(e) \/ ProbeHealthy(e)
    <3>1. EntryFields
      BY SnapshotType DEF HealthInv, TypeInv, TypeOK, EntriesTyped
    <3>2. HealthAccounted'
      BY <2>3, <3>1, ChainAssumption
      DEF HealthInv, ProbeUnhealthy, ProbeHealthy, HealthAccounted, Accounted, Snapshot, EntryFields
    <3>3. BenchDurable'
      BY <2>3, <3>1 DEF HealthInv, ProbeUnhealthy, ProbeHealthy, BenchDurable, EntryFields
    <3> QED BY <3>2, <3>3
  <2> QED BY <1>4, <2>1, <2>2, <2>3 DEF ProbeStep
<1>5. ASSUME Restart PROVE HealthAccounted' /\ BenchDurable'
  <2>1. Snapshot' = disk
    BY <1>5 DEF Restart, Snapshot, HealthInv, TypeInv, TypeOK, EntriesTyped, EntryRecord
  <2>2. HealthAccounted'
    BY <1>5, <2>1 DEF Restart, HealthInv, HealthAccounted
  <2> QED BY <1>5, <2>2 DEF Restart, BenchDurable
<1>6. CASE \/ \E t \in Turns, tr \in Requests : StartTurn(t, tr)
           \/ \E e \in Entries : CooldownElapses(e)
           \/ Sweep \/ UNCHANGED vars
  BY <1>1, <1>6 DEF StartTurn, CooldownElapses, Sweep, vars, entryVars
<1> QED BY <1>3, <1>4, <1>5, <1>6 DEF Next

\* An entry's health, failure count, last error and outage start agree in every state, in
\* memory and in the health file.
THEOREM HealthCorrect == Spec => []HealthAccounted
<1>1. HealthInv => HealthAccounted
  BY DEF HealthInv
<1> QED BY <1>1, HealthInit, HealthStep, PTL DEF Spec

\* With a health file a benched entry is benched in the file, at every point a crash can
\* strike.
THEOREM BenchSurvivesCrash == Spec => []BenchDurable
<1>1. HealthInv => BenchDurable
  BY DEF HealthInv
<1> QED BY <1>1, HealthInit, HealthStep, PTL DEF Spec

-----------------------------------------------------------------------------
(* The books of a turn.                                                    *)

TurnInv == TypeInv /\ OutcomeOpen /\ TurnAccounted /\ FloorAsked

LEMMA TriedFinite ==
  ASSUME TurnsTyped, NEW t \in Turns
  PROVE  /\ IsFiniteSet(tried[t]) /\ Cardinality(tried[t]) \in Nat
         /\ Cardinality(tried[t]) <= N
         /\ Cardinality(tried[t]) = N => tried[t] = Entries
<1>1. N \in Int /\ 1 \in Int /\ N > 0
  BY ChainAssumption
<1>2. IsFiniteSet(Entries) /\ Cardinality(Entries) = N
  BY <1>1, FS_Interval DEF Entries
<1>3. tried[t] \in SUBSET Entries
  BY DEF TurnsTyped
<1> QED BY <1>2, <1>3, FS_Subset, FS_CardinalityType

LEMMA TurnInit == Init => TurnInv
<1> SUFFICES ASSUME Init PROVE TurnInv
  OBVIOUS
<1>1. Cardinality({}) = 0
  BY FS_EmptySet
<1> QED BY <1>1, TypeInit, ChainAssumption
        DEF Init, TurnInv, OutcomeOpen, TurnAccounted, FloorAsked, Calling

\* What the books need of a step that changes turn t alone.
Books(t) ==
    /\ outcome[t] # "floor" => Cardinality(tried[t]) =
          IF Calling(t) \/ outcome[t] \in {"answered", "fallback", "rejected"}
          THEN attempts[t] + 1 ELSE attempts[t]
    /\ pc[t] \in {"select", "calling", "retrying"} =>
          attempts[t] < RetryAttempts /\ outcome[t] = "pending"
    /\ outcome[t] = "exhausted" => attempts[t] = RetryAttempts \/ tried[t] = Entries
    /\ outcome[t] = "unavailable" => attempts[t] < RetryAttempts
    /\ pc[t] = "floor" => outcome[t] \in Failures
    /\ pc[t] = "done" /\ outcome[t] \in Failures /\ Local # {} => cur[t] \in Local

LEMMA TurnInvBooks == TurnInv <=> TypeInv /\ \A t \in Turns : Books(t)
  BY DEF TurnInv, OutcomeOpen, TurnAccounted, FloorAsked, Books

LEMMA TurnInvBooksNext == TurnInv' <=> TypeInv' /\ \A t \in Turns : Books(t)'
  BY DEF TurnInv, OutcomeOpen, TurnAccounted, FloorAsked, Books

OnlyTurn(t) ==
    \A u \in Turns \ {t} :
        /\ pc'[u] = pc[u] /\ tried'[u] = tried[u] /\ attempts'[u] = attempts[u]
        /\ cur'[u] = cur[u] /\ outcome'[u] = outcome[u]

LEMMA OthersKeepBooks ==
  ASSUME TurnInv, NEW t \in Turns, OnlyTurn(t), NEW u \in Turns \ {t}
  PROVE  Books(u)'
  BY TurnInvBooks DEF OnlyTurn, Books, Calling

\* Ending a turn closes its books.
LEMMA GiveUpBooks ==
  ASSUME TurnInv, NEW t \in Turns, NEW o \in Failures, GiveUp(t, o),
         attempts'[t] \in Nat,
         Cardinality(tried[t]) = IF o = "rejected" THEN attempts'[t] + 1 ELSE attempts'[t],
         o = "exhausted" => attempts'[t] = RetryAttempts \/ tried[t] = Entries,
         o = "unavailable" => attempts'[t] < RetryAttempts
  PROVE  Books(t)'
<1>1. pc'[t] \in {"done", "floor"} /\ outcome'[t] = o /\ tried'[t] = tried[t]
  BY DEF GiveUp, TurnInv, TypeInv, TypeOK, TurnsTyped
<1>2. pc'[t] = "done" => Local = {}
  BY DEF GiveUp, TurnInv, TypeInv, TypeOK, TurnsTyped
<1> QED BY <1>1, <1>2 DEF Books, Calling, Failures

LEMMA AdvanceBooks ==
  ASSUME TurnInv, NEW t \in Turns, NEW k \in Errors, Calling(t), Advance(t, k)
  PROVE  Books(t)' /\ OnlyTurn(t)
<1> USE DEF TurnInv, TypeInv, TypeOK
<1>1. attempts'[t] = attempts[t] + 1 /\ attempts[t] \in Nat /\ attempts[t] < RetryAttempts
  BY ChainAssumption DEF Advance, TurnsTyped, CallKnown, Calling
<1>2. Cardinality(tried[t]) = attempts[t] + 1
  <2>1. outcome[t] = "pending"
    BY DEF OutcomeOpen, Calling
  <2> QED BY <2>1 DEF TurnAccounted
<1>3. CASE attempts[t] + 1 < RetryAttempts
  <2>1. pc'[t] = "select" /\ tried' = tried /\ outcome' = outcome /\ cur' = cur
    BY <1>3 DEF Advance, TurnsTyped
  <2>2. outcome[t] = "pending"
    BY DEF OutcomeOpen, Calling
  <2> QED BY <1>1, <1>2, <1>3, <2>1, <2>2 DEF Books, Calling, OnlyTurn, Advance, TurnsTyped, Failures
<1>4. CASE ~(attempts[t] + 1 < RetryAttempts)
  <2>1. GiveUp(t, "exhausted") /\ "exhausted" \in Failures
    BY <1>4 DEF Advance, Failures
  <2>2. attempts'[t] = RetryAttempts
    BY <1>1, <1>4, ChainAssumption
  <2>3. Books(t)'
    BY <1>1, <1>2, <2>1, <2>2, GiveUpBooks
  <2> QED BY <2>1, <2>3 DEF GiveUp, OnlyTurn, Advance, TurnsTyped
<1> QED BY <1>3, <1>4

LEMMA TurnStepBooks ==
  ASSUME TurnInv, NEW t \in Turns, TurnStep(t)
  PROVE  Books(t)' /\ OnlyTurn(t)
<1> USE DEF TurnInv, TypeInv, TypeOK
<1>0. Books(t) /\ attempts[t] \in Nat /\ RetryAttempts \in Nat /\ N \in Nat
  BY TurnInvBooks, ChainAssumption DEF TurnsTyped
<1>1. CASE Select(t)
  <2>1. PICK e \in Entries : /\ e \notin tried[t] /\ cur' = [cur EXCEPT ![t] = e]
                             /\ tried' = [tried EXCEPT ![t] = @ \union {e}]
    BY <1>1 DEF Select, IsSelected, Selectable, Eligible, Candidates
  <2>2. Cardinality(tried'[t]) = Cardinality(tried[t]) + 1
    BY <2>1, TriedFinite, FS_AddElement DEF TurnsTyped
  <2>3. /\ pc'[t] = "calling" /\ pc[t] = "select" /\ outcome' = outcome
        /\ attempts' = attempts
    BY <1>1 DEF Select, TurnsTyped
  <2>4. outcome[t] = "pending" /\ Cardinality(tried[t]) = attempts[t]
    BY <1>0, <2>3 DEF Books, Calling
  <2>5. Books(t)'
    BY <1>0, <2>2, <2>3, <2>4 DEF Books, Calling, Failures
  <2> QED BY <1>1, <2>1, <2>5 DEF Select, OnlyTurn, TurnsTyped
<1>2. CASE NoneAvailable(t) \/ ChainExhausted(t)
  <2>1. /\ pc[t] = "select" /\ attempts' = attempts /\ outcome[t] = "pending"
        /\ Cardinality(tried[t]) = attempts[t] /\ attempts[t] < RetryAttempts
    BY <1>0, <1>2 DEF NoneAvailable, ChainExhausted, Books, Calling
  <2>2. CASE NoneAvailable(t)
    BY <1>0, <2>1, <2>2, GiveUpBooks DEF NoneAvailable, GiveUp, OnlyTurn, TurnsTyped, Failures
  <2>3. CASE ChainExhausted(t)
    <3>1. tried[t] = Entries
      <4>1. Cardinality(tried[t]) <= N
        BY TriedFinite
      <4> QED BY <1>0, <2>1, <2>3, <4>1, TriedFinite DEF ChainExhausted
    <3> QED BY <1>0, <2>1, <2>3, <3>1, GiveUpBooks
            DEF ChainExhausted, GiveUp, OnlyTurn, TurnsTyped, Failures
  <2> QED BY <1>2, <2>2, <2>3
<1>3. CASE CallAnswers(t)
  <2>1. PICK o \in {"answered", "fallback"} : Answer(t, o)
    BY <1>3 DEF CallAnswers
  <2>2. Cardinality(tried[t]) = attempts[t] + 1
    BY <1>0, <1>3 DEF CallAnswers, Books, Calling
  <2> QED BY <1>0, <2>1, <2>2 DEF Answer, Books, Calling, OnlyTurn, TurnsTyped, Failures
<1>4. CASE CallRejected(t)
  <2>1. Cardinality(tried[t]) = attempts[t] + 1 /\ attempts' = attempts
    BY <1>0, <1>4 DEF CallRejected, Books, Calling
  <2>2. GiveUp(t, "rejected") /\ "rejected" \in Failures
    BY <1>4 DEF CallRejected, Failures
  <2>3. Books(t)'
    BY <1>0, <2>1, <2>2, GiveUpBooks
  <2> QED BY <2>1, <2>2, <2>3 DEF GiveUp, OnlyTurn, TurnsTyped
<1>5. ASSUME NEW k \in Errors, CallBlips(t, k) PROVE Books(t)' /\ OnlyTurn(t)
  BY <1>0, <1>5 DEF CallBlips, Books, Calling, OnlyTurn, TurnsTyped, Failures
<1>6. ASSUME NEW k \in Errors, CallFails(t, k) \/ RetryFails(t, k)
      PROVE  Books(t)' /\ OnlyTurn(t)
  BY <1>6, AdvanceBooks DEF CallFails, RetryFails, Calling
<1>7. CASE FloorAnswers(t)
  BY <1>0, <1>7 DEF FloorAnswers, Answer, Books, Calling, OnlyTurn, TurnsTyped, Failures
<1>8. CASE FloorFails(t)
  BY <1>0, <1>8 DEF FloorFails, Answer, Books, Calling, OnlyTurn, TurnsTyped, Failures, CallKnown
<1> QED BY <1>1, <1>2, <1>3, <1>4, <1>5, <1>6, <1>7, <1>8 DEF TurnStep

LEMMA TurnInvStep == TurnInv /\ [Next]_vars => TurnInv'
<1> SUFFICES ASSUME TurnInv, [Next]_vars PROVE \A t \in Turns : Books(t)'
  BY TypeStep, TurnInvBooksNext DEF TurnInv
<1>0. Cardinality({}) = 0
  BY FS_EmptySet
<1>1. ASSUME UNCHANGED turnVars PROVE \A t \in Turns : Books(t)'
  BY <1>1, TurnInvBooks DEF turnVars, Books, Calling
<1>2. ASSUME NEW t \in Turns, NEW tr \in Requests, StartTurn(t, tr)
      PROVE  \A u \in Turns : Books(u)'
  <2>1. OnlyTurn(t)
    BY <1>2 DEF StartTurn, OnlyTurn, TurnInv, TypeInv, TypeOK, TurnsTyped
  <2>2. Books(t)'
    BY <1>0, <1>2, ChainAssumption
    DEF StartTurn, Books, Calling, TurnInv, TypeInv, TypeOK, TurnsTyped, Failures
  <2> QED BY <2>1, <2>2, OthersKeepBooks
<1>3. ASSUME NEW t \in Turns, TurnStep(t) PROVE \A u \in Turns : Books(u)'
  BY <1>3, TurnStepBooks, OthersKeepBooks
<1>4. CASE Restart
  BY <1>0, <1>4, ChainAssumption DEF Restart, Books, Calling, Failures
<1>5. CASE \/ \E e \in Entries : ProbeStep(e) \/ CooldownElapses(e)
           \/ Sweep \/ UNCHANGED vars
  BY <1>1, <1>5 DEF ProbeStep, ProbeRaises, ProbeUnhealthy, ProbeRecovers, ProbeHealthy,
                    CooldownElapses, Sweep, vars, turnVars
<1> QED BY <1>2, <1>3, <1>4, <1>5 DEF Next

\* Every turn has one distinct entry tried per recorded failure plus the one it is calling
\* or ended on, and gives up only for the reasons try_with_fallback states.
THEOREM TurnsAreAccounted == Spec => []TurnAccounted
<1>1. TurnInv => TurnAccounted
  BY DEF TurnInv
<1> QED BY <1>1, TurnInit, TurnInvStep, PTL DEF Spec

\* No turn ends in an error before the local floor, if there is one, has been asked.
THEOREM FloorAlwaysAsked == Spec => []FloorAsked
<1>1. TurnInv => FloorAsked
  BY DEF TurnInv
<1> QED BY <1>1, TurnInit, TurnInvStep, PTL DEF Spec

-----------------------------------------------------------------------------
(* Refinement: every step of the chain is a step of Failover or a stutter. *)

LEMMA PhaseTable ==
  ASSUME NEW t \in Turns, TurnsTyped
  PROVE  /\ PhaseOf(t) = "idle" <=> pc[t] = "idle"
         /\ PhaseOf(t) = "choosing" <=> pc[t] = "select"
         /\ PhaseOf(t) = "asking" <=> Calling(t)
         /\ PhaseOf(t) = "last_resort" <=> pc[t] = "floor"
         /\ PhaseOf(t) = "replied" <=> pc[t] = "done"
  BY DEF PhaseOf, Calling, TurnsTyped

\* A step that changes turn t alone changes its phase and replier alone.
LEMMA AbstractUpdate ==
  ASSUME TurnInv, TurnInv', NEW t \in Turns, OnlyTurn(t)
  PROVE  /\ AbsPhase' = [AbsPhase EXCEPT ![t] = PhaseOf(t)']
         /\ AbsReplier' = [AbsReplier EXCEPT ![t] = ReplierOf(t)']
<1>1. \A u \in Turns \ {t} : PhaseOf(u)' = PhaseOf(u) /\ ReplierOf(u)' = ReplierOf(u)
  BY DEF PhaseOf, ReplierOf, OnlyTurn
<1>2. /\ AbsPhase' = [u \in Turns |-> PhaseOf(u)']
      /\ AbsReplier' = [u \in Turns |-> ReplierOf(u)']
  BY DEF AbsPhase, AbsReplier
<1> QED BY <1>1, <1>2 DEF AbsPhase, AbsReplier

LEMMA AbstractValue ==
  ASSUME NEW t \in Turns
  PROVE  AbsPhase[t] = PhaseOf(t) /\ AbsReplier[t] = ReplierOf(t)
  BY DEF AbsPhase, AbsReplier

\* Before the answer nobody has replied.
LEMMA OpenReplier ==
  ASSUME TurnInv, NEW t \in Turns, pc[t] \in {"select", "calling", "retrying", "floor"}
  PROVE  ReplierOf(t) = Null
  BY DEF TurnInv, OutcomeOpen, ReplierOf, Failures

LEMMA GiveUpRefines ==
  ASSUME TurnInv, TurnInv', NEW t \in Turns, NEW o \in Failures, GiveUp(t, o), OnlyTurn(t),
         pc[t] \in {"select", "calling", "retrying"}
  PROVE  Abstract!GaveUp(t)
<1> USE DEF TurnInv, TypeInv, TypeOK
<1>1. AbsPhase[t] \in {"choosing", "asking"}
  BY AbstractValue, PhaseTable DEF Calling
<1>2. ReplierOf(t)' = Null
  BY DEF GiveUp, ReplierOf, TurnsTyped, Failures
<1>3. UNCHANGED <<tried, AbsReplier>>
  <2>1. AbsReplier' = [AbsReplier EXCEPT ![t] = AbsReplier[t]]
    BY <1>2, AbstractUpdate, AbstractValue, OpenReplier
  <2> QED BY <2>1 DEF AbsReplier, GiveUp
<1>4. CASE Local = {} /\ pc' = [pc EXCEPT ![t] = "done"] /\ cur' = cur
  <2>1. PhaseOf(t)' = "replied"
    BY <1>4 DEF PhaseOf, TurnsTyped
  <2> QED BY <1>1, <1>3, <1>4, <2>1, AbstractUpdate DEF Abstract!GaveUp
<1>5. ASSUME NEW e \in Local, pc' = [pc EXCEPT ![t] = "floor"], cur' = [cur EXCEPT ![t] = e]
      PROVE  Abstract!GaveUp(t)
  <2>1. PhaseOf(t)' = "last_resort"
    BY <1>5 DEF PhaseOf, TurnsTyped
  <2> QED BY <1>1, <1>3, <1>5, <2>1, AbstractUpdate DEF Abstract!GaveUp
<1> QED BY <1>4, <1>5 DEF GiveUp

LEMMA AnswerRefines ==
  ASSUME TurnInv, TurnInv', NEW t \in Turns, OnlyTurn(t),
         NEW o \in {"answered", "fallback", "floor"}, Answer(t, o),
         pc[t] \in {"calling", "retrying", "floor"}
  PROVE  Abstract!Answered(t)
<1> USE DEF TurnInv, TypeInv, TypeOK
<1>1. AbsPhase[t] \in {"asking", "last_resort"}
  BY AbstractValue, PhaseTable DEF Calling
<1>2. PhaseOf(t)' = "replied" /\ ReplierOf(t)' = cur[t]
  BY DEF Answer, PhaseOf, ReplierOf, TurnsTyped
<1> QED BY <1>1, <1>2, AbstractUpdate DEF Abstract!Answered, Answer

LEMMA AdvanceRefines ==
  ASSUME TurnInv, TurnInv', NEW t \in Turns, NEW k \in Errors, Calling(t), Advance(t, k)
  PROVE  Abstract!Declined(t) \/ Abstract!GaveUp(t)
<1> USE DEF TurnInv, TypeInv, TypeOK
<1>0. OnlyTurn(t)
  BY AdvanceBooks
<1>1. CASE attempts[t] + 1 < RetryAttempts
  <2>1. AbsPhase[t] = "asking" /\ PhaseOf(t)' = "choosing" /\ UNCHANGED <<tried, cur, outcome>>
    BY <1>1, AbstractValue, PhaseTable DEF Advance, PhaseOf, TurnsTyped
  <2>2. UNCHANGED AbsReplier
    <3>1. ReplierOf(t)' = ReplierOf(t)
      BY <2>1 DEF ReplierOf
    <3>2. AbsReplier' = [AbsReplier EXCEPT ![t] = AbsReplier[t]]
      BY <1>0, <3>1, AbstractUpdate, AbstractValue
    <3> QED BY <3>2 DEF AbsReplier
  <2> QED BY <1>0, <2>1, <2>2, AbstractUpdate DEF Abstract!Declined
<1>2. CASE ~(attempts[t] + 1 < RetryAttempts)
  BY <1>0, <1>2, GiveUpRefines DEF Advance, Calling, Failures
<1> QED BY <1>1, <1>2

LEMMA TurnStepRefines ==
  ASSUME TurnInv, TurnInv', NEW t \in Turns, TurnStep(t)
  PROVE  Abstract!Work(t) \/ UNCHANGED Abstract!vars
<1> USE DEF TurnInv, TypeInv, TypeOK
<1>0. OnlyTurn(t)
  BY TurnStepBooks
<1>1. CASE Select(t)
  <2>1. PICK e \in Entries : /\ e \notin tried[t] /\ cur' = [cur EXCEPT ![t] = e]
                             /\ tried' = [tried EXCEPT ![t] = @ \union {e}]
    BY <1>1 DEF Select, IsSelected, Selectable, Eligible, Candidates
  <2>2. AbsPhase[t] = "choosing" /\ PhaseOf(t)' = "asking"
    BY <1>1, AbstractValue, PhaseTable DEF Select, PhaseOf, TurnsTyped
  <2>3. Cardinality(tried[t]) < RetryAttempts
    BY <1>1 DEF Select, TurnAccounted, OutcomeOpen, CallKnown, Calling
  <2>4. UNCHANGED AbsReplier
    <3>1. ReplierOf(t) = Null /\ ReplierOf(t)' = Null
      BY <1>1 DEF Select, OutcomeOpen, ReplierOf
    <3>2. AbsReplier' = [AbsReplier EXCEPT ![t] = AbsReplier[t]]
      BY <1>0, <3>1, AbstractUpdate, AbstractValue
    <3> QED BY <3>2 DEF AbsReplier
  <2>5. Abstract!Ask(t, e)
    <3>1. AbsPhase' = [AbsPhase EXCEPT ![t] = "asking"]
      BY <1>0, <2>2, AbstractUpdate
    <3>2. Abstract!Cardinality(tried[t]) = Cardinality(tried[t])
      BY DEF Abstract!Cardinality, Cardinality
    <3> QED BY <2>1, <2>2, <2>3, <2>4, <3>1, <3>2 DEF Abstract!Ask
  <2> QED BY <2>5 DEF Abstract!Work
<1>2. CASE NoneAvailable(t) \/ ChainExhausted(t)
  BY <1>0, <1>2, GiveUpRefines DEF NoneAvailable, ChainExhausted, Failures, Abstract!Work
<1>3. CASE CallAnswers(t)
  BY <1>0, <1>3, AnswerRefines DEF CallAnswers, Abstract!Work
<1>4. CASE CallRejected(t)
  BY <1>0, <1>4, GiveUpRefines DEF CallRejected, Failures, Abstract!Work
<1>5. ASSUME NEW k \in Errors, CallBlips(t, k) PROVE UNCHANGED Abstract!vars
  <2>1. PhaseOf(t)' = PhaseOf(t) /\ ReplierOf(t)' = ReplierOf(t)
    BY <1>5 DEF CallBlips, PhaseOf, ReplierOf, TurnsTyped
  <2>2. /\ AbsPhase' = [AbsPhase EXCEPT ![t] = AbsPhase[t]]
        /\ AbsReplier' = [AbsReplier EXCEPT ![t] = AbsReplier[t]]
    BY <1>0, <2>1, AbstractUpdate, AbstractValue
  <2> QED BY <1>5, <2>2 DEF CallBlips, AbsPhase, AbsReplier, Abstract!vars
<1>6. ASSUME NEW k \in Errors, CallFails(t, k) \/ RetryFails(t, k) PROVE Abstract!Work(t)
  BY <1>6, AdvanceRefines DEF CallFails, RetryFails, Calling, Abstract!Work
<1>7. CASE FloorAnswers(t)
  BY <1>0, <1>7, AnswerRefines DEF FloorAnswers, Abstract!Work
<1>8. CASE FloorFails(t)
  <2>1. AbsPhase[t] = "last_resort" /\ PhaseOf(t)' = "replied"
    BY <1>8, AbstractValue, PhaseTable DEF FloorFails, Answer, PhaseOf, TurnsTyped
  <2>2. ReplierOf(t)' = ReplierOf(t) /\ UNCHANGED <<tried, cur>>
    BY <1>8 DEF FloorFails, Answer, ReplierOf, TurnsTyped
  <2>3. AbsReplier' = [AbsReplier EXCEPT ![t] = AbsReplier[t]]
    BY <1>0, <2>2, AbstractUpdate, AbstractValue
  <2>4. Abstract!LastResortFailed(t)
    BY <1>0, <2>1, <2>2, <2>3, AbstractUpdate DEF Abstract!LastResortFailed, AbsReplier
  <2> QED BY <2>4 DEF Abstract!Work
<1> QED BY <1>1, <1>2, <1>3, <1>4, <1>5, <1>6, <1>7, <1>8 DEF TurnStep

LEMMA RefinementInit == Init => Abstract!Idle
  BY DEF Init, Abstract!Idle, AbsPhase, AbsReplier, PhaseOf, ReplierOf

LEMMA RefinementStep ==
  ASSUME TurnInv, TurnInv', [Next]_vars
  PROVE  [Abstract!Next]_(Abstract!vars)
<1>1. ASSUME UNCHANGED turnVars PROVE UNCHANGED Abstract!vars
  BY <1>1 DEF turnVars, Abstract!vars, AbsPhase, AbsReplier, PhaseOf, ReplierOf
<1>2. ASSUME NEW t \in Turns, NEW tr \in Requests, StartTurn(t, tr)
      PROVE  Abstract!Start(t)
  <2> USE DEF TurnInv, TypeInv, TypeOK
  <2>1. OnlyTurn(t)
    BY <1>2 DEF StartTurn, OnlyTurn, TurnsTyped
  <2>2. AbsPhase[t] \in {"idle", "replied"}
    BY <1>2, AbstractValue, PhaseTable DEF StartTurn
  <2>3. PhaseOf(t)' = "choosing" /\ ReplierOf(t)' = Null
    BY <1>2 DEF StartTurn, PhaseOf, ReplierOf, TurnsTyped
  <2> QED BY <1>2, <2>1, <2>2, <2>3, AbstractUpdate DEF StartTurn, Abstract!Start
<1>3. ASSUME NEW t \in Turns, TurnStep(t)
      PROVE  Abstract!Next \/ UNCHANGED Abstract!vars
  BY <1>3, TurnStepRefines DEF Abstract!Next
<1>4. CASE Restart
  BY <1>4 DEF Restart, Abstract!Next, Abstract!Crash, AbsPhase, AbsReplier, PhaseOf, ReplierOf
<1>5. CASE \/ \E e \in Entries : ProbeStep(e) \/ CooldownElapses(e)
           \/ Sweep \/ UNCHANGED vars
  BY <1>1, <1>5 DEF ProbeStep, ProbeRaises, ProbeUnhealthy, ProbeRecovers, ProbeHealthy,
                    CooldownElapses, Sweep, vars, turnVars
<1> QED BY <1>2, <1>3, <1>4, <1>5 DEF Next, Abstract!Next

\* Every behaviour of the chain, whatever its monitor and its restarts do, is a behaviour
\* of Failover: no provider asked twice by a turn, at most retry_attempts of them, a reply
\* that is the answer of the provider asked last.
THEOREM ChainImplementsFailover == Spec => ImplementsFailover
<1>1. TurnInv /\ TurnInv' /\ [Next]_vars => [Abstract!Next]_(Abstract!vars)
  BY RefinementStep
<1> QED BY <1>1, RefinementInit, TurnInit, TurnInvStep, PTL
        DEF Spec, ImplementsFailover, Abstract!SafeSpec
=============================================================================
