---------------------------- MODULE ProviderChain ----------------------------
(***************************************************************************)
(* The failover chain of src/core/provider_chain.py, with the bridge's     *)
(* emergency floor (src/core/bridge.py) and the background HealthMonitor.  *)
(*                                                                         *)
(* Everything runs on one asyncio loop: a step of this module is the code  *)
(* between two suspension points.  No region under ProviderChain._lock     *)
(* contains an await, so each of them is atomic; turns and probes          *)
(* interleave at the provider call, at the sleeps and at health_check().   *)
(*                                                                         *)
(* Entries are numbered in the order of self.entries (sorted by priority). *)
(* Times are abstracted to what the code compares: cooling[e] stands for   *)
(* now < cooldown_until, down[e] for a non-zero down_since.  An error text *)
(* is represented by the class classify_error gives it.                    *)
(***************************************************************************)
EXTENDS Naturals, FiniteSets

CONSTANTS
    N,                  \* number of entries in the chain
    Turns,              \* turns that may be in flight together
    Tiers,              \* nano / standard / deep
    TierOf,             \* entry -> tier
    Requests,           \* the tiers that turns ask for
    Priority,           \* entry -> configured priority
    Local,              \* the entries whose cost_class is "local"
    RetryAttempts,      \* ChainConfig.retry_attempts
    FailureThreshold,   \* ChainConfig.failure_threshold
    Persisted,          \* whether health_path is configured
    Demotable,          \* entries routing_weights may demote
    Pooled,             \* entries pool_manager may report busy
    Errors              \* the error classes that providers raise

Entries == 1 .. N
Null == 0               \* "no entry"
AnyTier == "any"        \* tier=None: the whole chain

Transient  == "transient"
Quota      == "quota"
Auth       == "auth"
BadRequest == "bad_request"
ModelGone  == "model_gone"
Unknown    == "unknown"
ErrorClasses == {Transient, Quota, Auth, BadRequest, ModelGone, Unknown}

ASSUME ChainAssumption ==
    /\ N \in Nat \ {0}
    /\ TierOf \in [Entries -> Tiers] /\ AnyTier \notin Tiers
    /\ Requests \subseteq Tiers \union {AnyTier}
    /\ Priority \in [Entries -> Nat]
    /\ \A e, f \in Entries : e < f => Priority[e] <= Priority[f]
    /\ Local \subseteq Entries
    /\ RetryAttempts \in Nat \ {0}
    /\ FailureThreshold \in Nat \ {0}
    /\ Persisted \in BOOLEAN
    /\ Demotable \subseteq Entries
    /\ Pooled \subseteq Entries
    /\ Errors \subseteq ErrorClasses

Healths == {"healthy", "degraded", "failed", "unknown"}

IsRetryableSame(k)    == k \in {Transient, Unknown}
IsProbeRecoverable(k) == k \in {Transient, Unknown}
ShouldAdvanceChain(k) == k # BadRequest

VARIABLES
    \* ProviderChainEntry, one function per field
    health, fails, lastErr, cooling, down,
    \* the health file (the absent file reads as a fresh chain)
    disk,
    \* the local state of try_with_fallback and of the bridge around it
    pc, tier, tried, attempts, cur, first, outcome,
    \* the monitor: the probe in flight on each entry, with its was_down snapshot
    probe

entryVars == <<health, fails, lastErr, cooling, down>>
turnVars  == <<pc, tier, tried, attempts, cur, first, outcome>>
vars      == <<entryVars, disk, turnVars, probe>>

Snapshot == [health |-> health, fails |-> fails, lastErr |-> lastErr, down |-> down]

Fresh == [health  |-> [e \in Entries |-> "unknown"],
          fails   |-> [e \in Entries |-> 0],
          lastErr |-> [e \in Entries |-> Unknown],   \* classify_error("")
          down    |-> [e \in Entries |-> FALSE]]

-----------------------------------------------------------------------------
(* Recording the result of a call: record_success and record_failure.      *)

\* Mutant: nothing is written when a result is recorded.
SaveNothing == disk' = disk

SaveHealth == disk' = IF Persisted THEN Snapshot' ELSE disk

\* Mutant: a success leaves consecutive_failures as it was.
RecordSuccessNoReset(e) ==
    /\ health'  = [health EXCEPT ![e] = "healthy"]
    /\ cooling' = [cooling EXCEPT ![e] = FALSE]
    /\ down'    = [down EXCEPT ![e] = FALSE]
    /\ UNCHANGED <<fails, lastErr>>
    /\ SaveHealth

RecordSuccess(e) ==
    /\ fails'   = [fails EXCEPT ![e] = 0]
    /\ health'  = [health EXCEPT ![e] = "healthy"]
    /\ cooling' = [cooling EXCEPT ![e] = FALSE]
    /\ down'    = [down EXCEPT ![e] = FALSE]
    /\ lastErr' = lastErr
    /\ SaveHealth

\* consecutive_failures is counted up to FailureThreshold, the largest value the code
\* compares it with.
Counted(n) == IF n < FailureThreshold THEN n + 1 ELSE n

\* down_since is set by the first failure and kept by the next ones: set either way.
RecordFailure(e, k) ==
    /\ down'    = [down EXCEPT ![e] = TRUE]
    /\ fails'   = [fails EXCEPT ![e] = Counted(@)]
    /\ lastErr' = [lastErr EXCEPT ![e] = k]
    /\ cooling' = [cooling EXCEPT ![e] = TRUE]
    /\ health'  = [health EXCEPT ![e] =
                     IF k = ModelGone \/ fails'[e] >= FailureThreshold
                     THEN "failed" ELSE "degraded"]
    /\ SaveHealth

-----------------------------------------------------------------------------
(* select_provider                                                         *)

\* Mutant: the entries already tried this turn are not excluded.
CandidatesAgain(tr, excluded) == {e \in Entries : tr \in {TierOf[e], AnyTier}}

Candidates(tr, excluded) == {e \in Entries : tr \in {TierOf[e], AnyTier} /\ e \notin excluded}

InCooldown(e) == health[e] = "degraded" /\ cooling[e]

Eligible(tr, excluded) ==
    LET open == {e \in Candidates(tr, excluded) : ~InCooldown(e)}
    IN  IF open = {} THEN Candidates(tr, excluded) ELSE open

\* Mutant: health is left out of the sort key.
SortsBeforeByPriority(e, f, demoted) == e < f

\* The sort key: (not healthy, demoted, position).
SortsBefore(e, f, demoted) ==
    LET unhealthy(x) == health[x] # "healthy"
    IN  \/ ~unhealthy(e) /\ unhealthy(f)
        \/ /\ unhealthy(e) = unhealthy(f)
           /\ \/ e \notin demoted /\ f \in demoted
              \/ (e \in demoted) = (f \in demoted) /\ e < f

Selectable(tr, excluded) == {e \in Eligible(tr, excluded) : health[e] # "failed"}

\* What select_provider returns when routing_weights demotes `demoted` and the pools
\* of `busy` are busy: non-busy entries first, all of them when every pool is busy.
IsSelected(e, tr, excluded, demoted, busy) ==
    LET usable == Selectable(tr, excluded)
        ranked == IF usable \ busy # {} THEN usable \ busy ELSE usable
    IN  e \in ranked /\ \A f \in ranked \ {e} : SortsBefore(e, f, demoted)

(* emergency_floor: the local entries of every tier, FAILED ones last.  It reads     *)
(* the health `h` that the failing step leaves.                                      *)
IsFloor(e, h) ==
    /\ e \in Local
    /\ \A f \in Local \ {e} :
          \/ h[e] # "failed" /\ h[f] = "failed"
          \/ (h[e] = "failed") = (h[f] = "failed") /\ e < f

-----------------------------------------------------------------------------
(* A turn: BridgeManager._invoke_with_chain around try_with_fallback.      *)

StartTurn(t, tr) ==
    /\ pc[t] \in {"idle", "done"}
    /\ pc'       = [pc EXCEPT ![t] = "select"]
    /\ tier'     = [tier EXCEPT ![t] = tr]
    /\ tried'    = [tried EXCEPT ![t] = {}]
    /\ attempts' = [attempts EXCEPT ![t] = 0]
    /\ cur'      = [cur EXCEPT ![t] = Null]
    /\ first'    = [first EXCEPT ![t] = Null]
    /\ outcome'  = [outcome EXCEPT ![t] = "pending"]
    /\ UNCHANGED <<entryVars, disk, probe>>

Answer(t, o) ==
    /\ pc'      = [pc EXCEPT ![t] = "done"]
    /\ outcome' = [outcome EXCEPT ![t] = o]
    /\ UNCHANGED <<tier, tried, attempts, cur, first>>

\* Mutant: the bridge returns the error without asking the floor.
GiveUpSilently(t, o) ==
    /\ outcome' = [outcome EXCEPT ![t] = o]
    /\ pc' = [pc EXCEPT ![t] = "done"]
    /\ UNCHANGED <<tier, tried, cur, first>>

\* try_with_fallback returns success=False: the bridge asks the emergency floor, if any.
GiveUp(t, o) ==
    /\ outcome' = [outcome EXCEPT ![t] = o]
    /\ \/ Local = {} /\ pc' = [pc EXCEPT ![t] = "done"] /\ cur' = cur
       \/ \E e \in Local : /\ IsFloor(e, health')
                           /\ pc'  = [pc EXCEPT ![t] = "floor"]
                           /\ cur' = [cur EXCEPT ![t] = e]
    /\ UNCHANGED <<tier, tried, first>>

\* One evaluation of the while condition and of select_provider.
Select(t) ==
    /\ pc[t] = "select"
    /\ attempts[t] < N
    /\ \E demoted \in SUBSET Demotable, busy \in SUBSET Pooled :
         \E e \in Entries :
            /\ IsSelected(e, tier[t], tried[t], demoted, busy)
            /\ cur'   = [cur EXCEPT ![t] = e]
            /\ tried' = [tried EXCEPT ![t] = @ \union {e}]
            /\ first' = IF attempts[t] = 0 THEN [first EXCEPT ![t] = e] ELSE first
    /\ pc' = [pc EXCEPT ![t] = "calling"]
    /\ UNCHANGED <<entryVars, disk, tier, attempts, outcome, probe>>

NoneAvailable(t) ==
    /\ pc[t] = "select"
    /\ attempts[t] < N
    /\ Selectable(tier[t], tried[t]) = {}
    /\ UNCHANGED <<entryVars, disk, probe, attempts>>
    /\ GiveUp(t, "unavailable")

\* Every entry of a short chain has failed before retry_attempts was reached.
ChainExhausted(t) ==
    /\ pc[t] = "select"
    /\ attempts[t] >= N
    /\ UNCHANGED <<entryVars, disk, probe, attempts>>
    /\ GiveUp(t, "exhausted")

UsedLowerPriority(t) == Priority[cur[t]] > Priority[first[t]]

CallAnswers(t) ==
    /\ pc[t] \in {"calling", "retrying"}
    /\ RecordSuccess(cur[t])
    /\ Answer(t, IF UsedLowerPriority(t) THEN "fallback" ELSE "answered")
    /\ UNCHANGED probe

\* The failure is recorded and the loop goes on to the next entry, or ends here.
Advance(t, k) ==
    /\ RecordFailure(cur[t], k)
    /\ attempts' = [attempts EXCEPT ![t] = @ + 1]
    /\ IF attempts[t] + 1 < RetryAttempts
       THEN /\ pc' = [pc EXCEPT ![t] = "select"]
            /\ UNCHANGED <<tier, tried, cur, first, outcome>>
       ELSE GiveUp(t, "exhausted")
    /\ UNCHANGED probe

CallRejected(t) ==
    /\ pc[t] = "calling"
    /\ BadRequest \in Errors /\ ~ShouldAdvanceChain(BadRequest)
    /\ RecordFailure(cur[t], BadRequest)
    /\ GiveUp(t, "rejected")
    /\ UNCHANGED <<attempts, probe>>

CallBlips(t, k) ==
    /\ pc[t] = "calling"
    /\ IsRetryableSame(k)
    /\ pc' = [pc EXCEPT ![t] = "retrying"]
    /\ UNCHANGED <<entryVars, disk, tier, tried, attempts, cur, first, outcome, probe>>

CallFails(t, k) ==
    /\ pc[t] = "calling"
    /\ ShouldAdvanceChain(k) /\ ~IsRetryableSame(k)
    /\ Advance(t, k)

\* The retry on the same provider fails, with an error of any class.
RetryFails(t, k) ==
    /\ pc[t] = "retrying"
    /\ Advance(t, k)

\* The floor's answer or failure is recorded nowhere.
FloorAnswers(t) ==
    /\ pc[t] = "floor"
    /\ Answer(t, "floor")
    /\ UNCHANGED <<entryVars, disk, probe>>

FloorFails(t) ==
    /\ pc[t] = "floor"
    /\ Answer(t, outcome[t])
    /\ UNCHANGED <<entryVars, disk, probe>>

-----------------------------------------------------------------------------
(* HealthMonitor                                                           *)

IsDown(e) == fails[e] > 0 \/ health[e] = "failed"

\* Mutant: only entries that are up are probed.
ShouldProbeUp(e) == ~IsDown(e)

ShouldProbe(e) ==
    \/ ~IsDown(e)
    \/ lastErr[e] = Quota /\ ~cooling[e]
    \/ IsProbeRecoverable(lastErr[e])

\* gather() starts all the checks back to back and the next sweep waits for the last.
Sweep ==
    /\ \A e \in Entries : probe[e] = "none"
    /\ probe' = [e \in Entries |-> IF ~ShouldProbe(e) THEN "none"
                                   ELSE IF IsDown(e) THEN "was_down" ELSE "was_up"]
    /\ UNCHANGED <<entryVars, disk, turnVars>>

ProbeEnds(e) ==
    /\ probe[e] # "none"
    /\ probe' = [probe EXCEPT ![e] = "none"]

ProbeRaises(e, k) ==
    /\ ProbeEnds(e)
    /\ RecordFailure(e, k)
    /\ UNCHANGED turnVars

\* health_check() returned False: marked DEGRADED in memory only.
ProbeUnhealthy(e) ==
    /\ ProbeEnds(e)
    /\ health' = [health EXCEPT ![e] = "degraded"]
    /\ UNCHANGED <<fails, lastErr, cooling, down, disk, turnVars>>

\* health_check() returned True on an entry that was down when the probe started.
ProbeRecovers(e) ==
    /\ probe[e] = "was_down"
    /\ ProbeEnds(e)
    /\ RecordSuccess(e)
    /\ UNCHANGED turnVars

\* health_check() returned True on an entry that was up: in memory only.
ProbeHealthy(e) ==
    /\ probe[e] = "was_up"
    /\ ProbeEnds(e)
    /\ health' = [health EXCEPT ![e] = "healthy"]
    /\ fails'  = [fails EXCEPT ![e] = 0]
    /\ UNCHANGED <<lastErr, cooling, down, disk, turnVars>>

-----------------------------------------------------------------------------
(* Time and the process.                                                   *)

CooldownElapses(e) ==
    /\ cooling[e]
    /\ cooling' = [cooling EXCEPT ![e] = FALSE]
    /\ UNCHANGED <<health, fails, lastErr, down, disk, turnVars, probe>>

\* The process dies and __init__ reads the health file.  cooldown_until only ever
\* changes together with a save, so the file holds the value of memory.
Restart ==
    /\ health'  = disk.health
    /\ fails'   = disk.fails
    /\ lastErr' = disk.lastErr
    /\ down'    = disk.down
    /\ cooling' = [e \in Entries |-> Persisted /\ cooling[e]]
    /\ pc' = [t \in Turns |-> "idle"]  /\ tier' = [t \in Turns |-> AnyTier]
    /\ tried' = [t \in Turns |-> {}]   /\ attempts' = [t \in Turns |-> 0]
    /\ cur' = [t \in Turns |-> Null]   /\ first' = [t \in Turns |-> Null]
    /\ outcome' = [t \in Turns |-> "pending"]
    /\ probe'   = [e \in Entries |-> "none"]
    /\ disk'    = disk

Init ==
    /\ disk = Fresh
    /\ health = Fresh.health /\ fails = Fresh.fails
    /\ lastErr = Fresh.lastErr /\ down = Fresh.down
    /\ cooling = [e \in Entries |-> FALSE]
    /\ pc = [t \in Turns |-> "idle"]  /\ tier = [t \in Turns |-> AnyTier]
    /\ tried = [t \in Turns |-> {}]   /\ attempts = [t \in Turns |-> 0]
    /\ cur = [t \in Turns |-> Null]   /\ first = [t \in Turns |-> Null]
    /\ outcome = [t \in Turns |-> "pending"]
    /\ probe = [e \in Entries |-> "none"]

TurnStep(t) ==
    \/ Select(t) \/ NoneAvailable(t) \/ ChainExhausted(t)
    \/ CallAnswers(t) \/ CallRejected(t)
    \/ \E k \in Errors : CallBlips(t, k) \/ CallFails(t, k) \/ RetryFails(t, k)
    \/ FloorAnswers(t) \/ FloorFails(t)

ProbeStep(e) ==
    \/ \E k \in Errors : ProbeRaises(e, k)
    \/ ProbeUnhealthy(e) \/ ProbeRecovers(e) \/ ProbeHealthy(e)

Next ==
    \/ \E t \in Turns : (\E tr \in Requests : StartTurn(t, tr)) \/ TurnStep(t)
    \/ \E e \in Entries : ProbeStep(e) \/ CooldownElapses(e)
    \/ Sweep
    \/ Restart

Spec == Init /\ [][Next]_vars

\* Provider calls and health checks end (they carry timeouts), the sleeps end, the
\* monitor's loop runs, and time passes.  New turns and crashes are never promised.
Fairness ==
    /\ \A t \in Turns : WF_vars(TurnStep(t))
    /\ \A e \in Entries : WF_vars(ProbeStep(e)) /\ WF_vars(CooldownElapses(e))
    /\ WF_vars(Sweep)

FairSpec == Spec /\ Fairness

-----------------------------------------------------------------------------
(* Properties                                                              *)

EntryRecord == [health  : [Entries -> Healths],
                fails   : [Entries -> 0 .. FailureThreshold],
                lastErr : [Entries -> ErrorClasses],
                down    : [Entries -> BOOLEAN]]

Failures == {"rejected", "exhausted", "unavailable"}
Outcomes == Failures \union {"pending", "answered", "fallback", "floor"}

EntriesTyped ==
    /\ Snapshot \in EntryRecord /\ disk \in EntryRecord
    /\ cooling \in [Entries -> BOOLEAN]

TurnsTyped ==
    /\ pc \in [Turns -> {"idle", "select", "calling", "retrying", "floor", "done"}]
    /\ tier \in [Turns -> Tiers \union {AnyTier}]
    /\ tried \in [Turns -> SUBSET Entries]
    /\ attempts \in [Turns -> 0 .. RetryAttempts]
    /\ cur \in [Turns -> Entries \union {Null}]
    /\ first \in [Turns -> Entries \union {Null}]
    /\ outcome \in [Turns -> Outcomes]

ProbesTyped == probe \in [Entries -> {"none", "was_up", "was_down"}]

\* The type invariant of the chain, its turns and its monitor.
TypeOK == EntriesTyped /\ TurnsTyped /\ ProbesTyped

Accounted(r) ==
    \A e \in Entries :
        /\ r.health[e] \in {"healthy", "unknown"} => r.fails[e] = 0
        /\ r.fails[e] > 0 => r.down[e]
        /\ r.health[e] = "failed" =>
              r.fails[e] >= FailureThreshold \/ r.lastErr[e] = ModelGone

\* However turns, probes and restarts interleave, an entry's fields agree in memory and
\* in the health file: no failures behind a healthy or unknown mark, an outage start
\* behind every failure count (so a recovery can say how long it lasted), and a FAILED
\* mark only for a count at the threshold or a retired model.
HealthAccounted == Accounted(Snapshot) /\ Accounted(disk)

\* With a health file, every benched entry is benched in the file with the same cause:
\* a crash at any point keeps it benched (_save_health "stays benched after a reboot").
BenchDurable ==
    Persisted => \A e \in Entries :
        /\ health[e] = "failed" => disk.health[e] = "failed"
        /\ disk.lastErr[e] = lastErr[e]

Calling(t) == pc[t] \in {"calling", "retrying"}

\* The books of try_with_fallback: a turn has one distinct entry tried per recorded
\* failure plus the one being called (or that answered, or rejected the request); it gives up as
\* exhausted only after retry_attempts failures or the whole chain, and as unavailable
\* only before both.
TurnAccounted ==
    \A t \in Turns :
        /\ outcome[t] # "floor" => Cardinality(tried[t]) =
              IF Calling(t) \/ outcome[t] \in {"answered", "fallback", "rejected"}
              THEN attempts[t] + 1 ELSE attempts[t]
        /\ pc[t] \in {"select", "calling", "retrying"} => attempts[t] < RetryAttempts
        /\ outcome[t] = "exhausted" => attempts[t] = RetryAttempts \/ tried[t] = Entries
        /\ outcome[t] = "unavailable" => attempts[t] < RetryAttempts

\* A turn that ends in an error has asked the local floor, whenever one is configured,
\* whatever its tier and however it failed ("the alternative is silence").
FloorAsked ==
    \A t \in Turns :
        pc[t] = "done" /\ outcome[t] \in Failures /\ Local # {} => cur[t] \in Local

\* A selection never passes over a healthy entry for one of lower priority or of worse
\* health, unless that entry's pool is busy or routing_weights demoted it.
PriorityRespected ==
    [][\A t \in Turns : Select(t) =>
         \A f \in Candidates(tier[t], tried[t]) \ (Pooled \union Demotable) :
             health[f] = "healthy" => health[cur'[t]] = "healthy" /\ cur'[t] <= f]_vars

AwaitsProbe(e) ==
    /\ IsDown(e)
    /\ \/ IsProbeRecoverable(lastErr[e])
       \/ lastErr[e] = Quota /\ health[e] = "failed"

\* A down entry whose failure class a machine may clear is eventually probed (a quota
\* one once its window is over), unless its state changes first.
RecoverableIsProbed ==
    \A e \in Entries : AwaitsProbe(e) ~> (probe[e] = "was_down" \/ ~AwaitsProbe(e))

-----------------------------------------------------------------------------
(* The chain implements the abstract specification Failover.               *)

PhaseOf(t) ==
    CASE pc[t] = "idle"                     -> "idle"
      [] pc[t] = "select"                   -> "choosing"
      [] pc[t] \in {"calling", "retrying"}  -> "asking"
      [] pc[t] = "floor"                    -> "last_resort"
      [] pc[t] = "done"                     -> "replied"

ReplierOf(t) == IF outcome[t] \in {"answered", "fallback", "floor"} THEN cur[t] ELSE Null

AbsPhase   == [t \in Turns |-> PhaseOf(t)]
AbsReplier == [t \in Turns |-> ReplierOf(t)]

Abstract == INSTANCE Failover WITH
    Providers    <- Entries,
    LastResorts  <- Local,
    MaxProviders <- RetryAttempts,
    Nobody       <- Null,
    phase        <- AbsPhase,
    asked        <- tried,
    asking       <- cur,
    replier      <- AbsReplier

\* Turns behave as Failover says under every interleaving with other turns, probes and
\* restarts: no provider asked twice, no more than retry_attempts of them, the reply is
\* the answer of the provider asked last, the floor only once the chain has given up.
ImplementsFailover == Abstract!SafeSpec

\* ... and every turn is replied to.
ImplementsFailoverLive == Abstract!Spec

-----------------------------------------------------------------------------
(* What the source says of the chain and the code does not keep.           *)

\* select_provider's doc: "one benched provider at the head of the order must not hide
\* untried ones behind it": a turn finds nobody only when every untried entry is FAILED.
NoHiddenProvider ==
    [][\A t \in Turns : NoneAvailable(t) =>
         \A e \in Candidates(tier[t], tried[t]) : health[e] = "failed"]_vars

\* HealthMonitor's doc: "auth / bad_request / model_gone: needs a human; never probed or
\* auto-cleared here".
NeverAutoCleared ==
    [][\A e \in Entries :
         ProbeStep(e) /\ IsDown(e) /\ lastErr[e] \in {Auth, BadRequest, ModelGone}
             => IsDown(e)']_vars

=============================================================================
