------------------------------- MODULE Decisions -------------------------------
(***************************************************************************)
(* Which tier answers a message, and what is learned from the operator's   *)
(* corrections: src/core/behaviors.py (NexusBehavior), triage.py,          *)
(* triage_validator.py, and the two callers in                             *)
(* src/adapters/adapter_base.py (_process_message, _handle_command).       *)
(*                                                                         *)
(* The preferences live in memory and in a file that the operator may edit *)
(* (the only way to an override for one channel).  Decisions are inserted  *)
(* at once; every later write is a daemon thread that waits for the write  *)
(* lock, so writes of different threads commit in any order, and those     *)
(* that have not committed are lost when the process ends.                 *)
(***************************************************************************)
EXTENDS Naturals, Sequences, SequencesExt

CONSTANTS
    Channels, NoTier, TornPrefs,
    MaxDecisions, MaxCommands, MaxPrefEdits, MaxEnds    \* bounds

ASSUME DecisionsAssumption ==
    {MaxDecisions, MaxCommands, MaxPrefEdits, MaxEnds} \subseteq Nat

Tiers == {"nano", "standard", "deep"}
Rank(tier) == [nano |-> 0, standard |-> 1, deep |-> 2][tier]

\* UserPreferences, without what only changes how an answer looks.
DefaultPrefs == [tier |-> NoTier, auto |-> TRUE, effort |-> FALSE, provider |-> FALSE,
                 overrides |-> {}]

VARIABLES
    prefs,          \* NexusBehavior.prefs
    prefsFile,      \* user_preferences.json
    newer,          \* the file is younger than _prefs_mtime
    decisions,      \* the table: channel, tier and outcome of each decision
    signals,        \* the table outcome_signals
    lastDecision,   \* _last_decision and _last_decision_tier, by channel
    writers,        \* the threads that wait for the write lock
    decided, commands, edits, ends,
    released        \* history: the decisions a release was asked for

decisionVars == <<prefs, prefsFile, newer, decisions, signals, lastDecision, writers,
                  decided, commands, edits, ends, released>>

DecisionsInit ==
    /\ prefs = DefaultPrefs /\ prefsFile = DefaultPrefs /\ newer = TRUE
    /\ decisions = <<>> /\ signals = <<>> /\ writers = <<>> /\ released = {}
    /\ lastDecision = [c \in Channels |-> 0]
    /\ decided = 0 /\ commands = 0 /\ edits = 0 /\ ends = 0

\* UserPreferences.load: what does not parse is as good as nothing.
LoadPrefs(f) == IF f = TornPrefs THEN DefaultPrefs ELSE f

\* _reload_if_changed
Reloaded == IF newer THEN LoadPrefs(prefsFile) ELSE prefs

\* route_message() ranks an override of the channel, then a lock, then the tier that the
\* triage has chosen; only that is recorded.
Source(p, c) ==
    CASE c \in p.overrides -> "channel_override"
      [] c \notin p.overrides /\ p.tier # NoTier /\ ~p.auto -> "global_override"
      [] OTHER -> "triage"

\* A message: classify() chooses a tier, and the decision is inserted, if the database can
\* be written; what comes after is the turn.
RouteMessage(c) ==
    /\ decided < MaxDecisions
    /\ decided' = decided + 1
    /\ prefs' = Reloaded /\ newer' = FALSE
    /\ \/ UNCHANGED <<decisions, lastDecision>>
       \/ /\ Source(prefs', c) = "triage"
          /\ \E tier \in Tiers :
                decisions' = Append(decisions, [channel |-> c, tier |-> tier, outcome |-> "unknown"])
          /\ lastDecision' = [lastDecision EXCEPT ![c] = Len(decisions')]
    /\ UNCHANGED <<prefsFile, signals, writers, commands, edits, ends, released>>

\* handle_command(); set_tier() and the rest, on the preferences in memory.
Commanded(p, cmd) ==
    CASE cmd \in Tiers -> [p EXCEPT !.tier = cmd, !.auto = FALSE]
      [] cmd = "auto" -> [p EXCEPT !.tier = NoTier, !.auto = TRUE, !.effort = FALSE, !.provider = FALSE]
      [] cmd = "provider" -> [p EXCEPT !.provider = TRUE]
      [] cmd = "effort" -> [p EXCEPT !.effort = TRUE]

\* record_override: a lock on another tier than the one given as chosen until now.
OverrideWrite(c, from, to) ==
    IF Rank(from) = Rank(to) THEN <<>>
    ELSE << [decision |-> lastDecision[c], channel |-> c,
             signal |-> IF Rank(to) > Rank(from) THEN "override_up" ELSE "override_down",
             outcome |-> IF Rank(to) > Rank(from) THEN "under" ELSE "over"] >>

\* record_auto_released: no row of its own.
ReleaseWrite(c) ==
    IF lastDecision[c] = 0 THEN <<>>
    ELSE << [decision |-> lastDecision[c], channel |-> c, signal |-> "none", outcome |-> "correct"] >>

\* A command of the operator: it changes and saves the preferences, and files what it says
\* of the channel's last decision.  A lock counts as a correction unless there was one.
Command(c, cmd) ==
    /\ commands < MaxCommands
    /\ commands' = commands + 1
    /\ prefs' = Commanded(prefs, cmd)
    /\ prefsFile' = prefs' /\ newer' = TRUE
    /\ writers' = writers \o
         (CASE cmd \in Tiers /\ prefs.tier = NoTier -> OverrideWrite(c, "standard", cmd)
            [] cmd = "auto" -> ReleaseWrite(c)
            [] OTHER -> <<>>)
    /\ released' = IF cmd = "auto" THEN released \cup {lastDecision[c]} ELSE released
    /\ UNCHANGED <<decisions, signals, lastDecision, decided, edits, ends>>

\* Mutant: the last verdict on a decision stands.
OutcomeReplaced(id, outcome) == [decisions EXCEPT ![id].outcome = outcome]

\* UPDATE ... WHERE id = ? AND outcome IS NULL
OutcomeSet(id, outcome) ==
    IF decisions[id].outcome = "unknown" THEN [decisions EXCEPT ![id].outcome = outcome] ELSE decisions

\* One of the threads has the lock: its row and its outcome are one transaction, or are
\* lost together when the database cannot be written.
Commit ==
    /\ \E k \in DOMAIN writers :
          LET w == writers[k] IN
          /\ writers' = RemoveAt(writers, k)
          /\ \/ UNCHANGED <<signals, decisions>>
             \/ /\ signals' = IF w.signal = "none" THEN signals ELSE Append(signals, w)
                /\ decisions' = IF w.decision = 0 THEN decisions ELSE OutcomeSet(w.decision, w.outcome)
    /\ UNCHANGED <<prefs, prefsFile, newer, lastDecision, decided, commands, edits, ends, released>>

\* The operator edits the file: an override for a channel, or a lock.
EditPrefs ==
    /\ edits < MaxPrefEdits /\ prefsFile # TornPrefs
    /\ edits' = edits + 1
    /\ \/ \E c \in Channels : prefsFile' = [prefsFile EXCEPT !.overrides = @ \cup {c}]
       \/ \E tier \in Tiers : prefsFile' = [prefsFile EXCEPT !.tier = tier, !.auto = FALSE]
    /\ newer' = TRUE
    /\ UNCHANGED <<prefs, decisions, signals, lastDecision, writers, decided, commands, ends, released>>

\* The process ends, perhaps while it saves the preferences, and starts again.
ProcessEnds ==
    /\ ends < MaxEnds
    /\ ends' = ends + 1
    /\ prefsFile' \in {prefsFile, TornPrefs}
    /\ prefs' = LoadPrefs(prefsFile') /\ newer' = TRUE
    /\ lastDecision' = [c \in Channels |-> 0]
    /\ writers' = <<>>
    /\ UNCHANGED <<decisions, signals, decided, commands, edits, released>>

DecisionsNext ==
    \/ Commit \/ EditPrefs \/ ProcessEnds
    \/ \E c \in Channels :
          \/ RouteMessage(c)
          \/ \E cmd \in Tiers \cup {"auto", "provider", "effort"} : Command(c, cmd)

--------------------------------------------------------------------------------
\* The first signal filed for a decision has this outcome.
FirstSays(filed, id, is) ==
    \E k \in DOMAIN filed :
        filed[k].decision = id /\ filed[k].outcome = is /\ \A j \in 1 .. k - 1 : filed[j].decision # id

\* No outcome ever changes; it is that of the first signal, or "correct" if a release was
\* asked for, and says "unknown" only if there is no signal.
OutcomeStands(id) ==
    LET is == decisions'[id].outcome IN
    /\ decisions[id].outcome \in {"unknown", is}
    /\ is = "unknown" => ~\E k \in DOMAIN signals' : signals'[k].decision = id
    /\ is = "correct" => id \in released
    /\ is \in {"under", "over"} => FirstSays(signals', id, is)

\* The signal is filed for a decision of its own channel.
FiledForItsChannel(k) ==
    LET id == signals'[k].decision IN id = 0 \/ decisions'[id].channel = signals'[k].channel

WordsStand == (\A id \in DOMAIN decisions : OutcomeStands(id)) /\ \A k \in DOMAIN signals' : FiledForItsChannel(k)

\* The outcome that self-evaluation counts is the first thing the operator said of a
\* decision, in whatever order the threads commit (triage_validator.py:275, "AND
\* outcome IS NULL"), and every signal is filed for a decision of its own channel.
OutcomesStand == [][WordsStand]_decisionVars
================================================================================
