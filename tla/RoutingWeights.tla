---------------------------- MODULE RoutingWeights ----------------------------
(***************************************************************************)
(* The feedback loop of the routing weights: the provider chain appends a  *)
(* row of telemetry for each attempt (src/core/routing_telemetry.py), a    *)
(* council leaves a session record (src/orchestration/council_session.py), *)
(* and src/core/routing_weights.py derives from what is recent in both     *)
(* which providers are demoted, and puts those last in the chain and among *)
(* the members of a council.                                               *)
(*                                                                         *)
(* Days are counted in ages up to the window.  An answer is clean, leaks   *)
(* its reasoning, or is slow: over SLOW_DEMOTE_MS and LAT_BAD_MS.  What is *)
(* too old for the window is dropped from the model.                       *)
(***************************************************************************)
EXTENDS Integers, Sequences, FiniteSets, SequencesExt

CONSTANTS
    Roster,         \* the providers in the order of the chain
    Shows,          \* the answers each provider may give
    Window,         \* WINDOW_DAYS
    RowCap,         \* PER_PROVIDER_CAP
    SessionCap,     \* MAX_SESSIONS
    MinEvidence,    \* MIN_SAMPLES
    SlowSamples,    \* SLOW_MIN_LAT_SAMPLES
    Steady          \* the providers that never go down

ASSUME RoutingAssumption ==
    /\ {Window, RowCap, SessionCap, MinEvidence, SlowSamples} \subseteq Nat \ {0}
    /\ Shows \in [ToSet(Roster) -> SUBSET {"clean", "leak", "slow"}]

Routed == ToSet(Roster)
NoWeights == {}     \* there is no weights file

VARIABLES
    up,         \* the providers that answer
    telemetry,  \* the recent rows of each provider, oldest first
    sessions,   \* the recent session records, oldest first
    weights,    \* {the set of the demoted} as the weights file has it, or NoWeights
    stale       \* the file is older than REBUILD_TTL_S

weightVars == <<up, telemetry, sessions, weights, stale>>

WeightInit ==
    /\ up = Routed
    /\ telemetry = [p \in Routed |-> <<>>]
    /\ sessions = <<>>
    /\ weights = NoWeights /\ stale = FALSE

Newest(s, n) == IF Len(s) > n THEN SubSeq(s, Len(s) - n + 1, Len(s)) ELSE s

Seated(p) == Cardinality({i \in DOMAIN sessions : p \in sessions[i].seated})
FailedIn(p) == Cardinality({i \in DOMAIN sessions : p \in sessions[i].failed})
RowsOf(p, hows) == Cardinality({i \in DOMAIN telemetry[p] : telemetry[p][i].how \in hows})

\* derive() for one provider: reliability with a prior of four at one half, times the
\* share of clean answers, times one half if the upper median of the latencies is slow.
Demoted(p) ==
    LET ok == RowsOf(p, {"clean", "leak", "slow"})
        attempts == Len(telemetry[p]) + Seated(p) + FailedIn(p)
        slow == ok > 0 /\ RowsOf(p, {"slow"}) >= ok - ok \div 2
        weight == (ok + Seated(p) + 2) * (RowsOf(p, {"clean", "slow"}) + 1) * (IF slow THEN 1 ELSE 2)
        whole == (attempts + 4) * (ok + 1) * 2
    IN  /\ attempts >= MinEvidence
        /\ 100 * weight < 35 * whole \/ (ok >= SlowSamples /\ slow)

Derived == {p \in Routed : Demoted(p)}

\* order(): within each run between anchors, the demoted go to the end.
Partition(run, demoted) ==
    SelectSeq(run, LAMBDA p : p \notin demoted) \o SelectSeq(run, LAMBDA p : p \in demoted)

Ordered(items, demoted, anchors) ==
    LET \* what is put out, and the run collected, after each item
        walk[i \in 0 .. Len(items)] ==
            IF i = 0 THEN [out |-> <<>>, run |-> <<>>]
            ELSE IF items[i] \in anchors
            THEN [out |-> walk[i - 1].out \o Partition(walk[i - 1].run, demoted) \o <<items[i]>>,
                  run |-> <<>>]
            ELSE [walk[i - 1] EXCEPT !.run = Append(@, items[i])]
        end == walk[Len(items)]
    IN  end.out \o Partition(end.run, demoted)

\* Mutant: a file that is there is good enough.
LoadKept ==
    IF weights = NoWeights THEN weights' = {Derived} /\ stale' = FALSE
    ELSE UNCHANGED <<weights, stale>>

\* load(): a file that is missing or stale is rebuilt.
Load ==
    IF weights = NoWeights \/ stale THEN weights' = {Derived} /\ stale' = FALSE
    ELSE UNCHANGED <<weights, stale>>

\* A rebuild that cannot write its file: nothing is demoted this time.
LoadFails == (weights = NoWeights \/ stale) /\ UNCHANGED <<weights, stale>>

MayShow(p) == IF p \in up THEN Shows[p] ELSE {"fail"}

\* A turn asks the chain, which ends with the first answer; each attempt leaves a row.
Turn(demoted) ==
    LET chain == Ordered(Roster, demoted, {})
        asked == IF \A p \in Routed : p \notin up THEN Len(chain)
                 ELSE CHOOSE i \in DOMAIN chain : chain[i] \in up /\ \A j \in 1 .. i - 1 : chain[j] \notin up
    IN  /\ \E how \in MayShow(chain[asked]) :
              telemetry' = [p \in Routed |->
                  IF \E i \in 1 .. asked : chain[i] = p
                  THEN Newest(Append(telemetry[p],
                                     [age |-> 0, how |-> IF p = chain[asked] THEN how ELSE "fail"]), RowCap)
                  ELSE telemetry[p]]
        /\ UNCHANGED <<up, sessions>>

TakeTurn == Load /\ Turn(UNION weights')
TakeTurnUnweighted == LoadFails /\ Turn({})

\* A council of some members.  Its record is written before the judge sees it, and not at
\* all if every role failed.
Council ==
    /\ \E members \in SUBSET Routed \ {{}} :
          /\ Load
          /\ sessions' = IF members \cap up = {} THEN sessions
                         ELSE Newest(Append(sessions, [age |-> 0, seated |-> members \cap up,
                                                       failed |-> members \ up]), SessionCap)
    /\ UNCHANGED <<up, telemetry>>

\* The judge's verdict and the chairman's answer rewrite a record, which is new then.
Rewritten ==
    /\ \E i \in DOMAIN sessions :
          /\ sessions[i].age = 0
          /\ sessions' = Append(RemoveAt(sessions, i), sessions[i])
    /\ UNCHANGED <<up, telemetry, weights, stale>>

\* A day passes; what is older than the window is not read any more.
Recent(s) == SelectSeq(s, LAMBDA r : r.age < Window - 1)
Aged(s) == [i \in DOMAIN Recent(s) |-> [Recent(s)[i] EXCEPT !.age = @ + 1]]

DayPasses ==
    /\ telemetry' = [p \in Routed |-> Aged(telemetry[p])]
    /\ sessions' = Aged(sessions)
    /\ stale' = (weights # NoWeights)
    /\ UNCHANGED <<up, weights>>

HalfHourPasses ==
    /\ weights # NoWeights /\ ~stale /\ stale' = TRUE
    /\ UNCHANGED <<up, telemetry, sessions, weights>>

GoesDown(p) == p \in up \ Steady /\ up' = up \ {p} /\ UNCHANGED <<telemetry, sessions, weights, stale>>
ComesBack(p) == p \in Routed \ up /\ up' = up \cup {p} /\ UNCHANGED <<telemetry, sessions, weights, stale>>

WeightNext ==
    \/ TakeTurn \/ TakeTurnUnweighted \/ Council \/ Rewritten \/ DayPasses \/ HalfHourPasses
    \/ \E p \in Routed : GoesDown(p) \/ ComesBack(p)
--------------------------------------------------------------------------------
\* "Old failures must age out" (routing_weights.py:67-68): a provider that is up for good
\* and answers cleanly and in time is not demoted for good, although nobody may ask it
\* while it is last.
ForgivenInTime ==
    \A p \in Routed : <>[](p \in up /\ Shows[p] = {"clean"}) => []<>(p \notin UNION weights)
================================================================================
