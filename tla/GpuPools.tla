-------------------------------- MODULE GpuPools --------------------------------
(***************************************************************************)
(* The GPU pools of src/core/pool_manager.py: pool_manager.start() polls   *)
(* the metrics of one pool after the other and sleeps, and select_provider *)
(* of the chain asks for its candidates whether their pools are busy.      *)
(*                                                                         *)
(* Load is what a poll would read, above the thresholds or not.  Time is   *)
(* counted in sleeps of the loop, up to where a verdict is too old to be   *)
(* believed.  record_response_time has no caller and is left out.          *)
(***************************************************************************)
EXTENDS Naturals, Sequences, SequencesExt

CONSTANTS
    PoolOrder,  \* the pools in the order of pools.yaml
    Polled,     \* those in pooled mode with a metrics_url
    ChainOrder,      \* the entries of the provider chain, best first
    PoolOf,     \* the pool of each, or NoPool
    NoPool,
    Believed    \* 3: poll intervals for which a verdict counts

GpuPoolSet == ToSet(PoolOrder)

ASSUME GpuAssumption ==
    /\ Polled \subseteq GpuPoolSet /\ NoPool \notin GpuPoolSet
    /\ PoolOf \in [ToSet(ChainOrder) -> GpuPoolSet \cup {NoPool}]
    /\ Believed \in Nat \ {0}

VARIABLES
    loaded,     \* the pools that are loaded
    answers,    \* the pools whose metrics can be read
    verdict,    \* PoolHealth.is_busy of each pool
    age,        \* sleeps since its last_checked; a pool was never checked at first
    due         \* the pools still to be polled in this round

gpuVars == <<loaded, answers, verdict, age, due>>

PollOrder == SelectSeq(PoolOrder, LAMBDA p : p \in Polled)

GpuInit ==
    /\ loaded \in SUBSET GpuPoolSet /\ answers \in SUBSET Polled
    /\ verdict = [p \in GpuPoolSet |-> FALSE]
    /\ age = [p \in GpuPoolSet |-> Believed + 1]
    /\ due = PollOrder

LoadChanges(p) ==
    /\ loaded' = IF p \in loaded THEN loaded \ {p} ELSE loaded \cup {p}
    /\ UNCHANGED <<answers, verdict, age, due>>

MetricsChange(p) ==
    /\ p \in Polled
    /\ answers' = IF p \in answers THEN answers \ {p} ELSE answers \cup {p}
    /\ UNCHANGED <<loaded, verdict, age, due>>

\* _poll_metrics: without an answer, or with one that is not 200, the old verdict stays.
PollMetrics ==
    /\ due # <<>>
    /\ LET p == Head(due) IN
       IF p \in answers
       THEN /\ verdict' = [verdict EXCEPT ![p] = p \in loaded]
            /\ age' = [age EXCEPT ![p] = 0]
       ELSE UNCHANGED <<verdict, age>>
    /\ due' = Tail(due)
    /\ UNCHANGED <<loaded, answers>>

\* asyncio.sleep(poll_interval)
PollSleep ==
    /\ due = <<>>
    /\ due' = PollOrder
    /\ age' = [p \in GpuPoolSet |-> IF age[p] > Believed THEN age[p] ELSE age[p] + 1]
    /\ UNCHANGED <<loaded, answers, verdict>>

GpuNext ==
    \/ PollMetrics \/ PollSleep
    \/ \E p \in GpuPoolSet : LoadChanges(p) \/ MetricsChange(p)

\* Mutant: a verdict is believed for ever.
IsBusyForGood(e) == PoolOf[e] # NoPool /\ verdict[PoolOf[e]]

\* is_gpu_busy
IsGpuBusy(e) ==
    /\ PoolOf[e] # NoPool
    /\ age[PoolOf[e]] <= Believed
    /\ verdict[PoolOf[e]]

\* select_provider: the first candidate whose pool is not busy, or the first.
Selected(candidates) ==
    LET idle == SelectSeq(candidates, LAMBDA e : ~IsGpuBusy(e))
    IN  IF idle # <<>> THEN Head(idle) ELSE Head(candidates)
--------------------------------------------------------------------------------
\* The best entry of the chain is passed over for the load of its pool only while there is
\* some: once the pool is idle for good the entry is the one selected from then on, whether
\* its metrics can be read or not (pool_manager.py:465-467).
IdlePoolUsed ==
    (PoolOf[ChainOrder[1]] # NoPool /\ <>[](PoolOf[ChainOrder[1]] \notin loaded))
        => <>[](Selected(ChainOrder) = ChainOrder[1])
================================================================================
