-------------------------------- MODULE Learning --------------------------------
(***************************************************************************)
(* How the capability map learns: the swarm's grader                       *)
(* (src/orchestration/swarm_grading.py), the shadow grader of a local      *)
(* model (capability_grader.py) and the judge of the council               *)
(* (council_judge.py) each keep a CapabilityMap of their own from their    *)
(* first grade on, record their verdicts in it and save it whole; the      *)
(* swarm's wiring (swarm_wiring.py) and the council's role assignment      *)
(* (council_roles.py, council_executor.py) read the file afresh.           *)
(*                                                                         *)
(* A grading is a task that awaits a model between its start and its       *)
(* verdict.  Sampling, missing keys and empty answers are the choice not   *)
(* to start one.  Which members of a council are healthy is an input here, *)
(* see WorkerHealth.                                                       *)
(***************************************************************************)
EXTENDS CapabilityMap, FiniteSets, SequencesExt

CONSTANTS
    Slots,          \* the tasks of the swarm's grader
    Judges,         \* the judges that have a key, best first
    Nano,           \* providers of the nano tier
    Past,           \* documents that earlier processes have saved
    Local,          \* the model the shadow grader calibrates
    MaxInflight,    \* _MAX_INFLIGHT of the swarm's grader
    RoleMinSamples, \* ROLE_MIN_SAMPLES
    MaxVerdicts, MaxCouncils, MaxKills,
    NoMap           \* an instance that is not there

ASSUME LearningAssumption ==
    /\ Nano \subseteq Providers /\ Local \in Providers /\ Judges \in Seq(Providers)
    /\ {"coding", "council_skeptic", "council_advocate", "council_verifier"} \subseteq Domains
    /\ Slots \cap {"shadow", "skeptic", "advocate"} = {}
    /\ Past \subseteq Documents /\ \A doc \in Past : \A x \in Domains \X Providers : RowSound(doc[x])
    /\ {Missing, Torn, NoMap} \cap Documents = {}
    /\ MaxInflight \in Nat \ {0} /\ RoleMinSamples \in Nat
    /\ MaxVerdicts \in Nat /\ MaxCouncils \in Nat /\ MaxKills \in Nat

Roles == <<"skeptic", "advocate", "verifier">>      \* ROLE_NAMES
Judged == {"skeptic", "advocate"}                   \* the roles that are graded
RoleDomain(role) == [skeptic |-> "council_skeptic", advocate |-> "council_advocate",
                     verifier |-> "council_verifier"][role]
Demanding == "coding"                               \* one of DEMANDING_DOMAINS
RoleReliabilityFloor == 4000

Graders == {"swarm", "shadow", "council"}
Tasks == Slots \cup {"shadow"} \cup Judged
GraderOf(g) == CASE g \in Slots -> "swarm" [] g \in Judged -> "council" [] OTHER -> "shadow"

NoTask == <<>>

VARIABLES
    file,       \* capability_map.json
    copy,       \* the CapabilityMap of each grader
    reader,     \* what a running swarm has read: the workers for a demanding step
    task,       \* the pair under judgement and the judges left to ask
    inflight,   \* the graders' counters
    seats,      \* the roles of the council that is asking its members
    verdicts, councils, crashes,
    savers      \* history: the graders that saved since the process started

learningVars == <<file, copy, reader, task, inflight, seats, verdicts, councils, crashes, savers>>

LearningInit ==
    /\ file \in {Missing} \cup Past
    /\ copy = [i \in Graders |-> NoMap]
    /\ reader = {}
    /\ task = [g \in Tasks |-> NoTask]
    /\ inflight = [i \in Graders |-> 0]
    /\ seats = <<>>
    /\ verdicts = 0 /\ councils = 0 /\ crashes = 0
    /\ savers = {}

\* _lazy: the first grading of a grader loads its map.
Lazy(i) == IF copy[i] = NoMap THEN Load(file) ELSE copy[i]

\* An exception in the constructor ends the grading before it awaits anything.
CanLoad(i) == copy[i] # NoMap \/ file # Torn

StartGrading(g, x, judges) ==
    /\ task[g] = NoTask /\ judges # <<>>
    /\ CanLoad(GraderOf(g))
    /\ copy' = [copy EXCEPT ![GraderOf(g)] = Lazy(GraderOf(g))]
    /\ task' = [task EXCEPT ![g] = [pair |-> x, judges |-> judges]]

Enter(i) == inflight' = [inflight EXCEPT ![i] = @ + 1]
\* Mutant: the counter goes down only after a verdict.
LeaveGraded(i) == inflight' = IF i = "council" \/ verdicts' = verdicts THEN inflight
                              ELSE [inflight EXCEPT ![i] = @ - 1]

\* `finally: self._inflight -= 1`; the council's judge keeps no counter.
Leave(i) == inflight' = IF i = "council" THEN inflight ELSE [inflight EXCEPT ![i] = @ - 1]

\* The workers of a demanding step: the proven ones and at most the best probe, or all
\* if none is proven.
WorkerSets(doc, d) ==
    LET proven == Qualified(doc, d)
        probes == ProbeCandidates(doc, d) \ proven
        best == {p \in probes : \A q \in probes : doc[<<d, q>>].score <= doc[<<d, p>>].score}
    IN  IF proven = {} THEN {Providers} ELSE {proven} \cup {proven \cup {p} : p \in best}

\* run_swarm_delegation reads the map once, for all its steps.
BeginRun ==
    /\ reader = {} /\ file # Torn
    /\ reader' = WorkerSets(Load(file), Demanding)
    /\ UNCHANGED <<file, copy, task, inflight, seats, verdicts, councils, crashes, savers>>

EndRun ==
    /\ reader # {}
    /\ reader' = {}
    /\ UNCHANGED <<file, copy, task, inflight, seats, verdicts, councils, crashes, savers>>

\* A worker has completed a step and its finding is sampled: the best judge but itself.
GradeFinding(g) ==
    /\ g \in Slots /\ reader # {}
    /\ inflight["swarm"] < MaxInflight
    /\ \E p \in UNION reader :
          StartGrading(g, <<Demanding, p>>, SubSeq(SelectSeq(Judges, LAMBDA j : j # p), 1, 1))
    /\ Enter("swarm")
    /\ UNCHANGED <<file, reader, seats, verdicts, councils, crashes, savers>>

\* The shadow run of the local model; the judge is chosen when its answer is there, from
\* the same judges.
GradeShadow ==
    /\ inflight["shadow"] < 1
    /\ StartGrading("shadow", <<Demanding, Local>>, SubSeq(Judges, 1, 1))
    /\ Enter("shadow")
    /\ UNCHANGED <<file, reader, seats, verdicts, councils, crashes, savers>>

\* _role_eligible: a nano model that has often failed the role is not trusted with it.
RoleEligible(doc, role, p) ==
    LET row == doc[<<RoleDomain(role), p>>]
    IN  p \notin Nano \/ row.grades < RoleMinSamples \/ row.score >= RoleReliabilityFloor

\* assign_roles: one member per role while there are any, an eligible one if there is
\* one.  choose() exploits or explores: any member of the pool.
SeatRole(doc, members, sofar, role) ==
    LET remaining == members \ ToSet(sofar)
        eligible == {p \in remaining : RoleEligible(doc, role, p)}
    IN  IF remaining = {} THEN {sofar}
        ELSE {Append(sofar, p) : p \in IF eligible = {} THEN remaining ELSE eligible}

Seatings(doc, members) ==
    LET one == SeatRole(doc, members, <<>>, Roles[1])
        two == UNION {SeatRole(doc, members, s, Roles[2]) : s \in one}
    IN  UNION {SeatRole(doc, members, s, Roles[3]) : s \in two}

\* The council sits: one at a time, and not before its last verdicts are in.
Convene ==
    /\ seats = <<>> /\ file # Torn /\ councils < MaxCouncils
    /\ councils' = councils + 1
    /\ \A g \in Judged : task[g] = NoTask
    /\ \E members \in SUBSET Providers \ {{}} : seats' \in Seatings(Load(file), members)
    /\ UNCHANGED <<file, copy, reader, task, inflight, verdicts, crashes, savers>>

\* All members have answered or failed.  The answers of the judged roles are graded in
\* parallel, after the chairman's synthesis if there is one.
Deliberate ==
    /\ seats # <<>>
    /\ \E answered \in SUBSET (Judged \cap {Roles[k] : k \in DOMAIN seats}) :
          IF answered = {} \/ ~CanLoad("council") THEN UNCHANGED <<copy, task>>
          ELSE /\ copy' = [copy EXCEPT !["council"] = Lazy("council")]
               /\ task' = [g \in Tasks |-> IF g \in answered
                    THEN [pair |-> <<RoleDomain(g), seats[IF g = Roles[1] THEN 1 ELSE 2]>>,
                          judges |-> Judges]
                    ELSE task[g]]
    /\ seats' = <<>>
    /\ UNCHANGED <<file, reader, inflight, verdicts, councils, crashes, savers>>

\* cm.save(), after the verdict is recorded: the whole document, over whatever is there.
Save(i, doc) == file' = doc

\* A verdict is recorded and saved with no await in between; open("w") has emptied the
\* file when a write fails.
Verdict(g, result) ==
    LET i == GraderOf(g) IN
    /\ task[g] # NoTask /\ verdicts < MaxVerdicts
    /\ verdicts' = verdicts + 1
    /\ copy' = [copy EXCEPT ![i] = Update(@, task[g].pair, result)]
    /\ \/ Save(i, copy'[i]) /\ savers' = savers \cup {i}
       \/ file' = Torn /\ UNCHANGED savers
    /\ task' = [task EXCEPT ![g] = NoTask]
    /\ Leave(i)
    /\ UNCHANGED <<reader, seats, councils, crashes>>

\* The local model or the judge fails, times out or says nothing that parses: the council
\* asks its next judge, the others give up.
JudgeFails(g) ==
    /\ task[g] # NoTask
    /\ UNCHANGED verdicts
    /\ IF g \in Judged /\ Len(task[g].judges) > 1
       THEN task' = [task EXCEPT ![g].judges = Tail(@)] /\ UNCHANGED inflight
       ELSE task' = [task EXCEPT ![g] = NoTask] /\ Leave(GraderOf(g))
    /\ UNCHANGED <<file, copy, reader, seats, councils, crashes, savers>>

\* The process dies, perhaps while it writes the file, and starts again.
Kill ==
    /\ crashes < MaxKills
    /\ crashes' = crashes + 1
    /\ file' \in {file} \cup (IF \E g \in Tasks : task[g] # NoTask THEN {Torn} ELSE {})
    /\ copy' = [i \in Graders |-> NoMap]
    /\ reader' = {}
    /\ task' = [g \in Tasks |-> NoTask]
    /\ inflight' = [i \in Graders |-> 0]
    /\ seats' = <<>>
    /\ savers' = {}
    /\ UNCHANGED <<verdicts, councils>>

LearningNext ==
    \/ BeginRun \/ EndRun \/ GradeShadow \/ Convene \/ Deliberate \/ Kill
    \/ \E g \in Tasks : \/ GradeFinding(g) \/ JudgeFails(g)
                        \/ \E result \in {0, 10000} : Verdict(g, result)

--------------------------------------------------------------------------------
\* The flap guard (capability_map.py:43-49): a grade moves a provider over the bar or
\* back exactly when the last Confirm scores are on the other side of it, or when the
\* score collapses, whatever reloads, research findings and other grades came between.
SidesStand ==
    \A i \in Graders, x \in Domains \X Providers :
        copy[i] # NoMap /\ copy'[i] # NoMap =>
            LET old == copy[i][x]
                new == copy'[i][x]
            IN  new.grades > old.grades =>
                    (Above(new) # Above(old) <=>
                        \/ Len(new.last) = Confirm /\ Beyond(new.last, Above(old))
                        \/ Above(old) /\ new.score < Bar - Band)

FlapGuard == [][SidesStand]_learningVars

\* No grade is lost while one grader saves the map: what its copy holds is in the file,
\* unless a write failed or was cut short and left a file that does not parse.  (Two
\* graders overwrite each other's grades: each saves the whole of its own copy.)
GradesKept ==
    file # Torn =>
        \A i \in Graders : copy[i] # NoMap /\ savers \subseteq {i} =>
            \A x \in Domains \X Providers :
                copy[i][x].grades <= (IF file = Missing THEN 0 ELSE file[x].grades)

\* The counters that cap the graders count the gradings in flight, whatever failed: one
\* that stays up would stop all grading for good.
InflightExact ==
    \A i \in {"swarm", "shadow"} :
        /\ inflight[i] = Cardinality({g \in Tasks : GraderOf(g) = i /\ task[g] # NoTask})
        /\ inflight[i] <= IF i = "swarm" THEN MaxInflight ELSE 1

\* The grading books balance: no verdict is lost, no grader is blocked by one that failed,
\* and a provider changes sides only as its own grades say.
GradesExact == [](GradesKept /\ InflightExact) /\ FlapGuard
=================================================================================
