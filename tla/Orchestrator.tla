------------------------------- MODULE Orchestrator -------------------------------
(***************************************************************************)
(* Dispatch of a message to specialists (src/core/orchestrator.py) and the *)
(* pool of their claims, one per session (session_state.py), which is kept *)
(* by a store (session_state_store.py).  A dispatch works on its own copy: *)
(* the store hands out and takes in whole states.  Turns of adapters run   *)
(* concurrently, also for one session.                                     *)
(*                                                                         *)
(* A claim is named by its dispatch and its specialist; all claims speak   *)
(* of one keyword, with a figure each.  What the models answer is a choice *)
(* and the rolling window holds dispatches for exchanges.                  *)
(***************************************************************************)
EXTENDS Naturals, FiniteSets, Sequences

CONSTANTS
    Dispatches,
    SessionOf,          \* the session of each; a context has one session here
    Specialists,
    Loadable,           \* the specialists that have a profile
    Defaults,           \* default_specialists
    MaxSpecialists,     \* 0: no limit
    WindowSize,         \* CONTEXT_WINDOW_SIZE
    Figure,             \* the figure each claim gives
    MaxRestarts,
    TornStore           \* a file that does not parse

Sessions == {SessionOf[d] : d \in Dispatches}
Claims == Dispatches \X Specialists

ASSUME OrchestratorAssumption ==
    /\ DOMAIN SessionOf = Dispatches
    /\ Loadable \subseteq Specialists /\ Defaults \subseteq Specialists
    /\ MaxSpecialists \in Nat /\ WindowSize \in Nat \ {0} /\ MaxRestarts \in Nat
    /\ Figure \in [Claims -> Nat]

VARIABLES
    withStore,  \* a store is configured; main() configures none
    stage,      \* of each dispatch
    state,      \* its SessionState
    answer,     \* of its specialists
    pool,       \* the store's table
    disk,       \* and its file
    window,     \* the rolling context window of each session's context
    restarts,
    seen        \* history: the claims in the store when the dispatch loaded its state

orchestratorVars == <<withStore, stage, state, answer, pool, disk, window, restarts, seen>>

NoClaims == [claims |-> {}, conflicts |-> {}, consensus |-> FALSE]

OrchestratorInit ==
    /\ withStore \in BOOLEAN
    /\ stage = [d \in Dispatches |-> "new"]
    /\ state = [d \in Dispatches |-> NoClaims]
    /\ answer = [d \in Dispatches |-> [s \in Specialists |-> "unasked"]]
    /\ pool = [k \in Sessions |-> NoClaims]
    /\ disk = pool
    /\ window = [k \in Sessions |-> <<>>]
    /\ restarts = 0
    /\ seen = [d \in Dispatches |-> {}]

\* Mutant: each dispatch begins with an empty state.
LoadFresh(k) == NoClaims

\* The stored state or a fresh one; no caller supplies one of its own.
LoadState(k) == IF withStore THEN pool[k] ELSE NoClaims

Proceed(d, s) == stage' = [stage EXCEPT ![d] = s]

\* A question about the conversation itself, or a context without a workspace.
Bypass(d) ==
    /\ stage[d] = "new"
    /\ Proceed(d, "bypassed")
    /\ UNCHANGED <<state, answer, pool, disk, window, restarts, seen>>

Dispatch(d) ==
    /\ stage[d] = "new"
    /\ Proceed(d, "routing")
    /\ state' = [state EXCEPT ![d] = LoadState(SessionOf[d])]
    /\ seen' = [seen EXCEPT ![d] = pool[SessionOf[d]].claims]
    /\ UNCHANGED <<answer, pool, disk, window, restarts>>

\* The cap keeps the default specialists first.
Capped(chosen) ==
    IF MaxSpecialists = 0 \/ Cardinality(chosen) <= MaxSpecialists THEN {chosen}
    ELSE {c \in SUBSET chosen : /\ Cardinality(c) = MaxSpecialists
                                /\ chosen \cap Defaults \subseteq c \/ c \subseteq Defaults}

\* The router has chosen, by model or by keyword; those with a profile are asked.
Route(d) ==
    /\ stage[d] = "routing"
    /\ \E chosen \in SUBSET Specialists \ {{}} : \E c \in Capped(chosen) :
          LET profiles == c \cap Loadable IN
          IF profiles = {} THEN Proceed(d, "bypassed") /\ UNCHANGED answer
          ELSE /\ Proceed(d, "asking")
               /\ answer' = [answer EXCEPT ![d] = [s \in Specialists |->
                                IF s \in profiles THEN "asked" ELSE "unasked"]]
    /\ UNCHANGED <<state, pool, disk, window, restarts, seen>>

\* Routing takes longer than 30 s, or no specialist fits.
RouteFails(d) ==
    /\ stage[d] = "routing"
    /\ Proceed(d, "bypassed")
    /\ UNCHANGED <<state, answer, pool, disk, window, restarts, seen>>

\* A specialist answers, with a claim or without, or fails.
Answer(d, s) ==
    /\ answer[d][s] = "asked"
    /\ \E a \in {"claim", "silent", "failed"} : answer' = [answer EXCEPT ![d][s] = a]
    /\ UNCHANGED <<stage, state, pool, disk, window, restarts, seen>>

Outputs(d) == {s \in Specialists : answer[d][s] \in {"claim", "silent"}}
AllIn(d) == stage[d] = "asking" /\ \A s \in Specialists : answer[d][s] # "asked"

\* detect_conflicts: figures of different specialists are compared.
DetectConflicts(claims) ==
    IF Cardinality({c[2] : c \in claims}) < 2
    THEN [claims |-> claims, conflicts |-> {}, consensus |-> FALSE]
    ELSE [claims |-> claims,
          conflicts |-> {p \in SUBSET claims : \E a, b \in p :
                           p = {a, b} /\ a[2] # b[2] /\ Figure[a] # Figure[b]},
          consensus |-> Cardinality({Figure[c] : c \in claims}) = 1]

\* The claims of the answers are added, conflicts are sought if there is more than one
\* answer.
WithAnswers(d) ==
    LET claims == state[d].claims \cup {<<d, s>> : s \in {t \in Specialists : answer[d][t] = "claim"}}
    IN  IF Cardinality(Outputs(d)) > 1 THEN DetectConflicts(claims)
        ELSE [state[d] EXCEPT !.claims = claims]

\* SessionStateStore.set and _save, which swallows what goes wrong with the file.
SetState(k, st) ==
    /\ pool' = [pool EXCEPT ![k] = st]
    /\ disk' = pool' \/ disk' = TornStore

\* gather() returns; failures are dropped.
Collect(d) ==
    /\ AllIn(d)
    /\ IF Outputs(d) = {} THEN Proceed(d, "bypassed") /\ UNCHANGED <<state, pool, disk>>
       ELSE /\ state' = [state EXCEPT ![d] = WithAnswers(d)]
            /\ IF withStore THEN SetState(SessionOf[d], state'[d])
               ELSE UNCHANGED <<pool, disk>>
            /\ Proceed(d, IF Cardinality(Outputs(d)) = 1 THEN "closing" ELSE "synthesizing")
    /\ UNCHANGED <<answer, window, restarts, seen>>

Remember(k, d) ==
    window' = [window EXCEPT ![k] =
        LET w == Append(@, d) IN IF Len(w) > WindowSize THEN Tail(w) ELSE w]

\* The one answer, or the synthesis, is the reply.
Reply(d) ==
    /\ stage[d] \in {"closing", "synthesizing"}
    /\ Proceed(d, "answered")
    /\ Remember(SessionOf[d], d)
    /\ UNCHANGED <<state, answer, pool, disk, restarts, seen>>

\* The bridge raises; the claims stay in the store.
SynthesisFails(d) ==
    /\ stage[d] = "synthesizing"
    /\ Proceed(d, "failed")
    /\ UNCHANGED <<state, answer, pool, disk, window, restarts, seen>>

\* The process dies, perhaps in a save, and starts again from the file.
Restart ==
    /\ restarts < MaxRestarts
    /\ restarts' = restarts + 1
    /\ disk' \in {disk} \cup (IF withStore /\ \E d \in Dispatches : AllIn(d) /\ Outputs(d) # {}
                              THEN {TornStore} ELSE {})
    /\ pool' = IF disk' = TornStore THEN [k \in Sessions |-> NoClaims] ELSE disk'
    /\ stage' = [d \in Dispatches |->
                    IF stage[d] \in {"new", "bypassed", "answered", "failed"} THEN stage[d] ELSE "failed"]
    /\ answer' = [d \in Dispatches |-> [s \in Specialists |-> "unasked"]]
    /\ window' = [k \in Sessions |-> <<>>]
    /\ UNCHANGED <<state, seen>>

OrchestratorNext ==
    /\ UNCHANGED withStore
    /\ \/ Restart
       \/ \E d \in Dispatches :
             \/ Bypass(d) \/ Dispatch(d) \/ Route(d) \/ RouteFails(d) \/ Collect(d)
             \/ Reply(d) \/ SynthesisFails(d)
             \/ \E s \in Specialists : Answer(d, s)
--------------------------------------------------------------------------------
\* The pool accumulates across rounds (session_state.py:112-124): a claim leaves the store
\* only if a dispatch of the same session that had begun before the claim was stored puts
\* its own state over it (the store has no merge), or with a file that could not be
\* written to the end.
ClaimsKept ==
    [][\A k \in Sessions : \A c \in pool[k].claims \ pool'[k].claims :
          \/ disk' = TornStore /\ restarts' # restarts
          \/ \E d \in Dispatches : /\ stage[d] = "asking" /\ stage'[d] # "asking"
                                   /\ SessionOf[d] = k /\ c \notin seen[d]]_orchestratorVars
================================================================================
