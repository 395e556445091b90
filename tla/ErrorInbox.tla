------------------------------- MODULE ErrorInbox -------------------------------
(***************************************************************************)
(* The error inbox: scripts/run_tracked.py wraps the jobs of the crontab   *)
(* and leaves a start marker and a record of the last run, scripts/        *)
(* nightly_sweeper.py judges those files and keeps one entry per job, and  *)
(* src/core/turn_failure.py files crashed turns among them.                *)
(*                                                                         *)
(* Time is counted in ticks, longer than the sweeper's grace: a fire time  *)
(* is judged from the next tick on.  Runs of one job may overlap, and may  *)
(* die without a record.  What a run prints is reduced to how it is judged:*)
(* "ok", "bad" (exit code or crash signature) or "odd" (clean, but not     *)
(* what is expected of the job).  An entry is its status; the texts and    *)
(* the count of occurrences are left out.                                  *)
(***************************************************************************)
EXTENDS Naturals

CONSTANTS
    Jobs,
    DueAt,          \* the fire times of each job
    MaxClock,       \* bound
    HungAfter,      \* HUNG_HOURS
    MaxAge,         \* max_age_hours of each job, or Never
    Never,
    Units,          \* services and timers of systemd, which are asked directly
    MaxTurnCrashes  \* bound

ASSUME InboxAssumption ==
    /\ {MaxClock, HungAfter, MaxTurnCrashes} \subseteq Nat
    /\ DueAt \in [Jobs -> SUBSET (1 .. MaxClock)]
    /\ MaxAge \in [Jobs -> Nat \cup {Never}] /\ Never \notin Nat
    /\ Jobs \cap Units = {}

Outcomes == {"ok", "bad", "odd"}
Nothing == [status |-> "none"]

VARIABLES
    clock,
    listed,         \* the jobs in the crontab
    running,        \* the start times of each job's runs
    marker,         \* .started of each job, or Never
    record,         \* its state file, or Nothing
    since,          \* tracking_since, or Never
    firstSeen,      \* .jobs_first_seen.json
    inbox,          \* the status of the entry of each job and unit
    turnEntry,      \* the entry of crashed turns
    turnCrashes,
    latest,         \* history: the latest run of each job and how it ended
    misses,         \* history: the fire times missed since, and whether the job was known
    blurred         \* history: the jobs whose files do not tell all that

crontabVars == <<listed, clock, misses>>
trackedVars == <<running, marker, record, latest, blurred>>
sweepVars == <<since, firstSeen, inbox>>
turnVars == <<turnEntry, turnCrashes>>
inboxVars == <<crontabVars, trackedVars, sweepVars, turnVars>>

InboxInit ==
    /\ clock = 0 /\ since = Never /\ turnCrashes = 0 /\ turnEntry = "none"
    /\ listed \in SUBSET Jobs /\ blurred = {}
    /\ running = [j \in Jobs |-> {}] /\ misses = running
    /\ marker = [j \in Jobs |-> Never] /\ firstSeen = marker
    /\ record = [j \in Jobs |-> Nothing] /\ latest = record
    /\ inbox = [x \in Jobs \cup Units |-> "none"]

\* The operator adds a job to the crontab, or takes it out.  What is known of it stays.
CrontabEdited(j) ==
    /\ listed' = IF j \in listed THEN listed \ {j} ELSE listed \cup {j}
    /\ misses' = [misses EXCEPT ![j] = {}]
    /\ blurred' = IF firstSeen[j] # Never \/ marker[j] # Never THEN blurred \cup {j} ELSE blurred
    /\ UNCHANGED <<clock, running, marker, record, latest, sweepVars, turnVars>>

\* Time passes; cron starts what is due, unless it is not up.  run_tracked writes the
\* marker first.
Tick ==
    /\ clock < MaxClock
    /\ clock' = clock + 1
    /\ \E started \in SUBSET {j \in listed : clock' \in DueAt[j]} :
          /\ marker' = [j \in Jobs |-> IF j \in started THEN clock' ELSE marker[j]]
          /\ running' = [j \in Jobs |-> IF j \in started THEN running[j] \cup {clock'} ELSE running[j]]
          /\ latest' = [j \in Jobs |-> IF j \in started THEN [start |-> clock', status |-> "running"]
                                       ELSE latest[j]]
          /\ blurred' = blurred \ started
          /\ misses' = [j \in Jobs |->
                IF j \in started THEN {}
                ELSE IF j \notin listed \/ clock' \notin DueAt[j] THEN misses[j]
                ELSE misses[j] \cup {[at |-> clock', known |-> firstSeen[j] # Never]}]
    /\ UNCHANGED <<listed, record, sweepVars, turnVars>>

\* A run ends and replaces the record, or fails to.
Finish(j) ==
    /\ \E start \in running[j], how \in Outcomes, written \in BOOLEAN :
          /\ running' = [running EXCEPT ![j] = @ \ {start}]
          /\ record' = IF written THEN [record EXCEPT ![j] = [start |-> start, status |-> how]] ELSE record
          /\ latest' = IF latest[j].start = start THEN [latest EXCEPT ![j].status = how] ELSE latest
          /\ blurred' = IF written /\ latest[j].start = start THEN blurred ELSE blurred \cup {j}
    /\ UNCHANGED <<marker, crontabVars, sweepVars, turnVars>>

\* The wrapper is killed.
RunDies(j) ==
    /\ \E start \in running[j] : running' = [running EXCEPT ![j] = @ \ {start}]
    /\ UNCHANGED <<marker, record, latest, blurred, crontabVars, sweepVars, turnVars>>

\* The fire times that are judged.  last_fire(NOW - GRACE) is the latest of them; the sweep
\* that began to track a job came after the fire time of its tick.
FiresJudged(j, from) == {t \in DueAt[j] : from < t /\ t < clock}

\* latest_start is the greatest of these.
Starts(j) == {record[j].start : r \in {record[j]} \ {Nothing}} \cup ({marker[j]} \ {Never})

TooOld(age, j) == MaxAge[j] # Never /\ age > MaxAge[j]

\* classify(); what holds of the last fire time holds of some, or of all that are judged.
Classify(j, from) ==
    LET unfinished == marker[j] # Never /\ (record[j] # Nothing => marker[j] > record[j].start)
        due == FiresJudged(j, from)
    IN  IF unfinished /\ clock - marker[j] > HungAfter THEN "HUNG"
        ELSE IF \E fire \in due : \A t \in Starts(j) : t < fire THEN "DID_NOT_FIRE"
        ELSE IF record[j] = Nothing
             THEN IF due # {} /\ \A fire \in due : TooOld(clock - fire, j) THEN "STALE" ELSE "NOT_YET_DUE"
        ELSE IF record[j].status = "bad" THEN "FAILED"
        ELSE IF TooOld(clock - record[j].start, j) THEN "STALE"
        ELSE IF record[j].status = "odd" THEN "SILENT" ELSE "OK"

Problems == {"FAILED", "DID_NOT_FIRE", "HUNG", "SILENT", "STALE"}

\* Mutant: an entry that is open stays as it is.
EntryStuck(entry, status) == IF status \in Problems /\ entry \notin Problems THEN status ELSE entry

\* update_inbox() for one job.
Entry(entry, status) ==
    IF status \in Problems THEN status
    ELSE IF status = "OK" /\ entry \in Problems THEN "RECOVERED" ELSE entry

\* The directory of the states exists once a job was tracked.  Without it the file of the
\* first sightings cannot be written, and the sweep ends there.
Tracked == \E j \in Jobs : marker[j] # Never

\* main() with update_inbox(); failed are the units that systemd says have failed.
SweepWith(failed) ==
    LET from == IF since = Never THEN clock ELSE since
        Seen(j) == IF firstSeen[j] # Never THEN firstSeen[j]
                   ELSE IF marker[j] # Never THEN from ELSE clock
    IN  /\ since' = from
        /\ IF ~Tracked THEN UNCHANGED <<firstSeen, inbox>>
           ELSE /\ firstSeen' = [j \in Jobs |-> IF j \in listed THEN Seen(j) ELSE firstSeen[j]]
                /\ inbox' = [x \in Jobs \cup Units |->
                      IF x \in Units THEN Entry(inbox[x], IF x \in failed THEN "FAILED" ELSE "OK")
                      ELSE IF x \notin listed THEN inbox[x]
                      ELSE Entry(inbox[x], Classify(x, IF Seen(x) > from THEN Seen(x) ELSE from))]
        /\ UNCHANGED <<crontabVars, trackedVars, turnVars>>

Sweep == \E failed \in SUBSET Units : SweepWith(failed)

\* --clear, and --clear-recovered for what has recovered.
ClearEntry(x) ==
    /\ inbox[x] # "none"
    /\ inbox' = [inbox EXCEPT ![x] = "none"]
    /\ UNCHANGED <<since, firstSeen, crontabVars, trackedVars, turnVars>>

\* turn_failure.record(): the old entry is read, the file truncated ...
TurnCrashes ==
    /\ turnCrashes < MaxTurnCrashes
    /\ turnCrashes' = turnCrashes + 1
    /\ turnEntry' = "torn"
    /\ UNCHANGED <<crontabVars, trackedVars, sweepVars>>

\* ... and written, unless the process dies first: then no sweep can list the entries for
\* its message to the operator, until the next crash of a turn replaces the file.
TurnRecorded ==
    /\ turnEntry = "torn"
    /\ turnEntry' = "FAILED"
    /\ UNCHANGED <<turnCrashes, crontabVars, trackedVars, sweepVars>>

InboxNext ==
    \/ Tick \/ Sweep \/ TurnCrashes \/ TurnRecorded
    \/ \E j \in Jobs : CrontabEdited(j) \/ Finish(j) \/ RunDies(j)
    \/ \E x \in Jobs \cup Units : ClearEntry(x)
--------------------------------------------------------------------------------
Missed(j, known) == \E m \in misses[j] : m.at < clock /\ m.known \in {TRUE, known}

EndedWrong(j) ==
    /\ latest[j] # Nothing
    /\ IF latest[j].status = "running" THEN clock - latest[j].start > HungAfter
       ELSE latest[j].status # "ok" \/ TooOld(clock - latest[j].start, j)

\* "A job that comes good is marked RECOVERED" and the problems are what the docstring of
\* nightly_sweeper.py lists: after a sweep that got through, the entry of a job is open
\* if a fire time it was known for was missed since its last run, or if that run ended
\* wrong; and, unless the run is still going on, open for no other reason.
SweepTellsTruth ==
    Sweep /\ Tracked =>
        \A j \in listed \ blurred :
           /\ Missed(j, TRUE) \/ EndedWrong(j) => inbox'[j] \in Problems
           /\ inbox'[j] \in Problems =>
                 \/ Missed(j, FALSE) \/ EndedWrong(j)
                 \/ latest[j] # Nothing /\ latest[j].status = "running"

SweepTruthful == [][SweepTellsTruth]_inboxVars
================================================================================
