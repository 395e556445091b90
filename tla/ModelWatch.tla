------------------------------- MODULE ModelWatch -------------------------------
(***************************************************************************)
(* The two periodic looks at models: src/lifecycle/manager.py (has a       *)
(* tracked model a new version?) and fit_check.py (is there another model  *)
(* worth a test?), run by a timer and by hand (scripts/model_check.py and  *)
(* llmfit_fit_check.py).                                                   *)
(*                                                                         *)
(* Each reads a state file, asks the outside world, which may fail, and    *)
(* writes the file as a whole and a message to the operator, in opposite   *)
(* orders.  The run by hand may force a check, or only show what it would  *)
(* say; it may overlap with that of the timer.  A run may be killed        *)
(* anywhere: a file being written is then cut short and counts as empty.   *)
(***************************************************************************)
EXTENDS Naturals, FiniteSets

CONSTANTS
    Models,                    \* tracked_models of model_sources.yaml
    Candidates,                 \* names that llmfit may recommend
    Current,                    \* the model that runs: configured, or guessed from the hardware
    NoRun, NoCandidate, CutShort,
    MaxVersions, MaxPeriods, MaxChecks, MaxCuts     \* bounds

\* What a run of the lifecycle manager holds.
CheckRuns ==
    [state : [models : [Models -> Nat], checked : Nat], left : SUBSET Models,
     updates : SUBSET (Models \X Nat), first : SUBSET (Models \X Nat),
     dry : BOOLEAN, saved : BOOLEAN]

ASSUME ModelWatchAssumption ==
    /\ {MaxVersions, MaxPeriods, MaxChecks, MaxCuts} \subseteq Nat
    /\ NoCandidate \notin Candidates /\ NoRun \notin CheckRuns

Runners == {"timer", "hand"}

NeverChecked == [models |-> [m \in Models |-> 0], checked |-> 0]
NeverFitted == [last |-> NoCandidate, checked |-> 0]

VARIABLES
    version,        \* the digest that the source has now, by model
    checkFile,      \* lifecycle state: digest by model (0: none), last_check
    check,          \* the runs of ModelLifecycleManager
    fitFile,        \* llmfit_fit_state.json: last_notified, last_check
    fit,            \* the runs of HardwareFitChecker
    period,         \* the month, or the interval of the fit check
    checks, cuts,
    announced,      \* history: what a message was sent about
    seenFirst,      \* history: the digests that were the first of their model in a state
    cutOff          \* history: what a run that was killed had still to say

watchVars == <<version, checkFile, check, fitFile, fit, period, checks, cuts, announced,
               seenFirst, cutOff>>

ModelWatchInit ==
    /\ version = [m \in Models |-> 1] /\ period = 1 /\ checks = 0 /\ cuts = 0
    /\ checkFile = NeverChecked /\ check = [r \in Runners |-> NoRun]
    /\ fitFile = NeverFitted /\ fit = [r \in Runners |-> NoRun]
    /\ announced = {} /\ seenFirst = {} /\ cutOff = {}

Loaded(f, fresh) == IF f = CutShort THEN fresh ELSE f

\* The outside: a new version of a model (or an old one again), time.
NewVersion(m) ==
    /\ \E v \in 1..MaxVersions \ {version[m]} : version' = [version EXCEPT ![m] = v]
    /\ UNCHANGED <<checkFile, check, fitFile, fit, period, checks, cuts, announced, seenFirst, cutOff>>

NextPeriod ==
    /\ period < MaxPeriods
    /\ period' = period + 1
    /\ UNCHANGED <<version, checkFile, check, fitFile, fit, checks, cuts, announced, seenFirst, cutOff>>

--------------------------------------------------------------------------------
(* ModelLifecycleManager.run *)

\* The timer's run neither forces nor is dry; a run of this month already is the last,
\* unless forced.
StartCheck(r) ==
    /\ checks < MaxChecks /\ check[r] = NoRun
    /\ checks' = checks + 1
    /\ \E force, dry \in (IF r = "timer" THEN {FALSE} ELSE BOOLEAN) :
          LET state == Loaded(checkFile, NeverChecked) IN
          check' = IF ~force /\ state.checked = period THEN check
                   ELSE [check EXCEPT ![r] = [state |-> state, left |-> Models, updates |-> {},
                                              first |-> {}, dry |-> dry, saved |-> FALSE]]
    /\ UNCHANGED <<version, checkFile, fitFile, fit, period, cuts, announced, seenFirst, cutOff>>

\* One tracked model: a fetch that fails, or finds nothing, leaves what was known; the
\* first digest of a model is noted and not reported.
FetchVersion(r, m) ==
    /\ check[r] # NoRun /\ m \in check[r].left
    /\ LET run == [check[r] EXCEPT !.left = @ \ {m}]
           known == run.state.models[m]
           seen == [run EXCEPT !.state.models[m] = version[m]] IN
       \/ check' = [check EXCEPT ![r] = run]
       \/ check' = [check EXCEPT ![r] =
              CASE known = 0 -> [seen EXCEPT !.first = @ \cup {<<m, version[m]>>}]
                [] known \notin {0, version[m]} -> [seen EXCEPT !.updates = @ \cup {<<m, version[m]>>}]
                [] OTHER -> run]
    /\ UNCHANGED <<version, checkFile, fitFile, fit, period, checks, cuts, announced, seenFirst, cutOff>>

\* Mutant: the state is saved before dry_run is looked at.
SaveAnyway(r) ==
    /\ check[r] # NoRun /\ check[r].left = {} /\ ~check[r].saved
    /\ checkFile' = [check[r].state EXCEPT !.checked = period]
    /\ seenFirst' = seenFirst \cup check[r].first
    /\ check' = IF check[r].dry THEN [check EXCEPT ![r] = NoRun] ELSE [check EXCEPT ![r].saved = TRUE]
    /\ UNCHANGED <<version, fitFile, fit, period, checks, cuts, announced, cutOff>>

\* _save_state, with the new digests, before anything is said; a dry run ends here.
SaveCheck(r) ==
    /\ check[r] # NoRun /\ check[r].left = {} /\ ~check[r].saved
    /\ IF check[r].dry
       THEN check' = [check EXCEPT ![r] = NoRun] /\ UNCHANGED <<checkFile, seenFirst>>
       ELSE /\ checkFile' = [check[r].state EXCEPT !.checked = period]
            /\ seenFirst' = seenFirst \cup check[r].first
            /\ check' = [check EXCEPT ![r].saved = TRUE]
    /\ UNCHANGED <<version, fitFile, fit, period, checks, cuts, announced, cutOff>>

\* _notify: one message about all updates; whether it arrives is the notifier's affair.
NotifyCheck(r) ==
    /\ check[r] # NoRun /\ check[r].saved
    /\ announced' = announced \cup check[r].updates
    /\ check' = [check EXCEPT ![r] = NoRun]
    /\ UNCHANGED <<version, checkFile, fitFile, fit, period, checks, cuts, seenFirst, cutOff>>

--------------------------------------------------------------------------------
(* HardwareFitChecker.run *)

StartFit(r) ==
    /\ checks < MaxChecks /\ fit[r] = NoRun
    /\ checks' = checks + 1
    /\ \E force, dry \in (IF r = "timer" THEN {FALSE} ELSE BOOLEAN) :
          LET state == Loaded(fitFile, NeverFitted) IN
          fit' = IF ~force /\ state.checked = period THEN fit
                 ELSE [fit EXCEPT ![r] = [state |-> state, new |-> NoCandidate, dry |-> dry, step |-> "ask"]]
    /\ UNCHANGED <<version, checkFile, check, fitFile, period, cuts, announced, seenFirst, cutOff>>

\* The first recommendation other than the current model is the candidate; without a
\* baseline or a recommendation there is none, and one told last time is not told again.
\* Without the binary the run ends and leaves no trace.
Recommend(r) ==
    /\ fit[r] # NoRun /\ fit[r].step = "ask"
    /\ \/ fit' = [fit EXCEPT ![r] = NoRun]
       \/ \E c \in (Candidates \ {Current}) \cup {NoCandidate} :
             fit' = [fit EXCEPT ![r].new = IF c = fit[r].state.last THEN NoCandidate ELSE c,
                                ![r].step = "tell"]
    /\ UNCHANGED <<version, checkFile, check, fitFile, period, checks, cuts, announced, seenFirst, cutOff>>

\* _notify, then _save_state: the other order.
NotifyFit(r) ==
    /\ fit[r] # NoRun /\ fit[r].step = "tell"
    /\ fit' = IF fit[r].dry THEN [fit EXCEPT ![r] = NoRun] ELSE [fit EXCEPT ![r].step = "save"]
    /\ announced' = announced \cup IF fit[r].dry THEN {} ELSE {fit[r].new} \ {NoCandidate}
    /\ UNCHANGED <<version, checkFile, check, fitFile, period, checks, cuts, seenFirst, cutOff>>

SaveFit(r) ==
    /\ fit[r] # NoRun /\ fit[r].step = "save"
    /\ fitFile' = [last |-> IF fit[r].new = NoCandidate THEN fit[r].state.last ELSE fit[r].new,
                   checked |-> period]
    /\ fit' = [fit EXCEPT ![r] = NoRun]
    /\ UNCHANGED <<version, checkFile, check, period, checks, cuts, announced, seenFirst, cutOff>>

\* A run is killed, perhaps in the middle of the write it was about to make.
Cut(r) ==
    /\ cuts < MaxCuts
    /\ cuts' = cuts + 1
    /\ \/ /\ check[r] # NoRun
          /\ checkFile' \in {checkFile} \cup
                {CutShort : u \in {v \in {check[r]} : v.left = {} /\ ~v.saved /\ ~v.dry}}
          /\ cutOff' = IF check[r].saved THEN cutOff \cup check[r].updates ELSE cutOff
          /\ check' = [check EXCEPT ![r] = NoRun]
          /\ UNCHANGED <<fitFile, fit>>
       \/ /\ fit[r] # NoRun
          /\ fitFile' \in {fitFile} \cup {CutShort : u \in {v \in {fit[r]} : v.step = "save"}}
          /\ fit' = [fit EXCEPT ![r] = NoRun]
          /\ UNCHANGED <<checkFile, check, cutOff>>
    /\ UNCHANGED <<version, period, checks, announced, seenFirst>>

ModelWatchNext ==
    \/ NextPeriod
    \/ \E m \in Models : NewVersion(m)
    \/ \E r \in Runners :
          \/ StartCheck(r) \/ SaveCheck(r) \/ NotifyCheck(r)
          \/ StartFit(r) \/ Recommend(r) \/ NotifyFit(r) \/ SaveFit(r) \/ Cut(r)
          \/ \E m \in Models : FetchVersion(r, m)

--------------------------------------------------------------------------------
\* What the files remember as known to the operator is: a digest in the state was
\* announced, was the first of its model (manager.py:82 notes it silently), is about to be
\* announced, or its run was killed between save and message (manager.py:111-113); and the
\* candidate that is not proposed again was proposed.  Dry runs, failed fetches, overlapping
\* runs and versions that come back never make news known that nobody was told.
NewsTold ==
    /\ checkFile # CutShort =>
          \A m \in Models : LET known == <<m, checkFile.models[m]>> IN
             \/ checkFile.models[m] = 0
             \/ known \in announced \cup seenFirst \cup cutOff
             \/ \E r \in Runners : check[r] # NoRun /\ check[r].saved /\ known \in check[r].updates
    /\ fitFile # CutShort => fitFile.last \in announced \cup {NoCandidate}
================================================================================
