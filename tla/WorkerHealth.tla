----------------------------- MODULE WorkerHealth -----------------------------
(***************************************************************************)
(* The reachability registry of src/orchestration/worker_health.py: which  *)
(* workers answer, and which are benched.  Its functions hold no await and *)
(* re-read the file each time, so each is one step; the file is the state. *)
(*                                                                         *)
(* A bench lasts for a cooldown of its failure's class and may end at any  *)
(* moment here; classes are told apart by whether one failure is enough.   *)
(***************************************************************************)
EXTENDS Naturals, FiniteSets

CONSTANT Workers

ConsecutiveToBench == 2     \* _CONSECUTIVE_TO_BENCH

\* MODEL_GONE, NOT_CONFIGURED and AUTH bench on the first failure.
Classes == {"pointless", "retryable"}

VARIABLES
    consecutive,    \* consecutive failures (no row: none), counted up to the threshold
    klass,          \* the class of the last one
    benched         \* now < benched_until

healthVars == <<consecutive, klass, benched>>

HealthInit ==
    /\ consecutive = [w \in Workers |-> 0]
    /\ klass = [w \in Workers |-> "retryable"]
    /\ benched = [w \in Workers |-> FALSE]

HealthTypeOK ==
    /\ consecutive \in [Workers -> 0 .. ConsecutiveToBench]
    /\ klass \in [Workers -> Classes]
    /\ benched \in [Workers -> BOOLEAN]

\* Mutant: any failure benches.
RecordFailureAtOnce(w, k) ==
    /\ consecutive' = [consecutive EXCEPT ![w] = IF @ < ConsecutiveToBench THEN @ + 1 ELSE @]
    /\ klass' = [klass EXCEPT ![w] = k]
    /\ benched' = [benched EXCEPT ![w] = TRUE]

RecordFailure(w, k) ==
    /\ consecutive' = [consecutive EXCEPT ![w] = IF @ < ConsecutiveToBench THEN @ + 1 ELSE @]
    /\ klass' = [klass EXCEPT ![w] = k]
    /\ benched' = [benched EXCEPT
         ![w] = @ \/ k = "pointless" \/ consecutive'[w] >= ConsecutiveToBench]

\* The row is deleted.
RecordSuccess(w) ==
    /\ consecutive' = [consecutive EXCEPT ![w] = 0]
    /\ klass' = [klass EXCEPT ![w] = "retryable"]
    /\ benched' = [benched EXCEPT ![w] = FALSE]

BenchEnds(w) ==
    /\ benched[w]
    /\ benched' = [benched EXCEPT ![w] = FALSE]
    /\ UNCHANGED <<consecutive, klass>>

\* Mutant: the gate stays closed when everybody is benched.
FilterCandidatesClosed(candidates) == {w \in candidates : ~benched[w]}

FilterCandidates(candidates) ==
    LET live == {w \in candidates : ~benched[w]}
    IN  IF live = {} THEN candidates ELSE live

-----------------------------------------------------------------------------

\* A bench was earned: by as many failures in a row as the code asks for, or by a failure
\* that no retry can cure.  One blip never costs a worker its place.
BenchEarned ==
    \A w \in Workers :
        benched[w] => consecutive[w] >= ConsecutiveToBench \/ klass[w] = "pointless"
=============================================================================
