--------------------------------- MODULE Setup ---------------------------------
(***************************************************************************)
(* How an installation comes about: install.sh as root, the bootstrap      *)
(* script it leaves for the service account, the hook that starts the      *)
(* script at the first login, src/setup/systemd.py, and the setup wizard:  *)
(* src/setup/wizard.py and src/setup/provider_setup.py.                    *)
(*                                                                         *)
(* Both scripts stop at the first command that fails (set -e), and may be  *)
(* killed anywhere; both are run again by hand.  Versions of the           *)
(* repository are counted.                                                 *)
(*                                                                         *)
(* The wizard runs for a first installation, or again over one that has    *)
(* providers, asks for everything first and then writes three files one by *)
(* one: providers.yaml, .env and the notify section of adapters.yaml.  An  *)
(* instance of a provider is <<type, n>> (gemini, gemini_2, ...), and so   *)
(* is the variable of its key (GOOGLE_API_KEY, GOOGLE_API_KEY_2, ...).     *)
(* Answers, of the operator or of a presets file, are choices; the texts,  *)
(* the identity files, the hardware report and the compose file, which     *)
(* nothing of this reads, are left out.                                    *)
(*                                                                         *)
(* The scripts and the files the wizard writes share no state: the wizard  *)
(* of the scripts may end in any way, and the two are specified apart.     *)
(***************************************************************************)
EXTENDS Naturals, Sequences, FiniteSets, SequencesExt, FiniteSetsExt

CONSTANTS MaxInstalls, MaxBoots, MaxReleases    \* bounds

ASSUME SetupAssumption ==
    {MaxInstalls, MaxBoots, MaxReleases} \subseteq Nat

\* What the scripts do, in order.
RootSteps == <<"packages", "user", "sudoers", "config", "script", "hook">>
BootSteps == <<"code", "scaffold", "templates", "venv", "pip", "defaults", "wizard",
               "shims", "unit", "service", "start", "timer">>
RootDone == Len(RootSteps) + 1
BootDone == Len(BootSteps) + 1

VARIABLES
    root,       \* the step install.sh is at, 0 if it does not run
    boot,       \* the step the bootstrap script is at, 0 if it does not run
    byHook,     \* the login hook has started it
    made,       \* what there is: of RootSteps, "done", "unit", "enabled", "started", ...
    upstream,   \* the latest version of the repository
    code,       \* the version checked out, 0: none
    venv,       \* "none", "partial" or "made"
    deps,       \* the version whose requirements are installed
    wizard,     \* the wizard runs
    installs, boots

setupVars == <<root, boot, byHook, made, upstream, code, venv, deps, wizard, installs, boots>>
rootVars == <<root, installs>>
bootVars == <<boot, byHook, boots>>
treeVars == <<code, venv, deps>>

SetupInit ==
    /\ root = 0 /\ boot = 0 /\ byHook = FALSE /\ made = {}
    /\ upstream = 1 /\ code = 0 /\ venv = "none" /\ deps = 0
    /\ wizard = FALSE /\ installs = 0 /\ boots = 0

Release ==
    /\ upstream < MaxReleases
    /\ upstream' = upstream + 1
    /\ UNCHANGED <<rootVars, bootVars, made, treeVars, wizard>>

RootStarts ==
    /\ root = 0 /\ installs < MaxInstalls
    /\ root' = 1 /\ installs' = installs + 1
    /\ UNCHANGED <<bootVars, made, upstream, treeVars, wizard>>

\* Each step leaves what it is for, whether it was there before or not; only the hook is
\* appended once more.
RootStep ==
    /\ root \in DOMAIN RootSteps
    /\ made' = made \cup {RootSteps[root]}
    /\ root' = root + 1
    /\ UNCHANGED <<installs, bootVars, upstream, treeVars, wizard>>

RootStops ==
    /\ root # 0
    /\ root' = 0
    /\ UNCHANGED <<installs, bootVars, made, upstream, treeVars, wizard>>

\* A login, the installer's own at its end or a later one, finds the script and no mark of
\* an earlier bootstrap; or the script is started by hand.
BootStarts(hook) ==
    /\ boot = 0 /\ boots < MaxBoots /\ ~wizard
    /\ "script" \in made
    /\ hook => "hook" \in made /\ "done" \notin made
    /\ boot' = 1 /\ byHook' = hook /\ boots' = boots + 1
    /\ root' = IF root = RootDone THEN 0 ELSE root
    /\ UNCHANGED <<installs, made, upstream, treeVars, wizard>>

At(place) == boot # 0 /\ boot # BootDone /\ BootSteps[boot] = place
Advance == boot' = boot + 1 /\ UNCHANGED <<byHook, boots>>

\* A clone, or a pull where there is a .git: one that is cut short stays for good, since
\* nothing can be pulled into it (see BootStops).
CheckOut ==
    /\ At("code") /\ "partial_clone" \notin made
    /\ code' = upstream
    /\ Advance
    /\ UNCHANGED <<rootVars, made, upstream, venv, deps, wizard>>

MakeVenv ==
    /\ At("venv") /\ venv # "partial"
    /\ venv' = "made"
    /\ Advance
    /\ UNCHANGED <<rootVars, made, upstream, code, deps, wizard>>

\* Mutant: the requirements are installed into a new environment only.
PipOnce == deps' = IF deps = 0 THEN code ELSE deps

\* pip install -r requirements.txt, of the version checked out.
PipInstall == deps' = code

\* The environment has its activate script last, so a partial one stops here.
Pip ==
    /\ At("pip")
    /\ PipInstall
    /\ Advance
    /\ UNCHANGED <<rootVars, made, upstream, code, venv, wizard>>

Make(place) ==
    /\ At(place)
    /\ made' = made \cup {place}
    /\ Advance
    /\ UNCHANGED <<rootVars, upstream, treeVars, wizard>>

\* Copies of the examples, where there is no file yet.
DefaultFiles == Make("defaults")

\* The wizard runs, at its place in the script or by hand.
WizardStarts ==
    /\ ~wizard
    /\ At("wizard") \/ (boot = 0 /\ "wizard" \in made)
    /\ wizard' = TRUE
    /\ UNCHANGED <<rootVars, bootVars, made, upstream, treeVars>>

Scaffold == Make("scaffold")    \* the folders of the layout manifest
Templates == Make("templates")  \* the identity files, over those that are there
Shims == Make("shims")

\* systemd.py writes the unit; that it cannot is only a warning.
GenerateUnit ==
    \/ Make("unit")
    \/ At("unit") /\ Advance /\ UNCHANGED <<made, rootVars, upstream, treeVars, wizard>>

\* The timer of the fit check, which sudo lets only an account with rights of its own install.
Timer == Make("timer")

\* cp, daemon-reload and enable, if systemd.py has left a unit, now or earlier.
InstallService ==
    /\ At("service") /\ "unit" \in made
    /\ made' = made \cup {"enabled"}
    /\ Advance
    /\ UNCHANGED <<rootVars, upstream, treeVars, wizard>>

StartService ==
    /\ At("start")
    /\ made' = made \cup {"started"}
    /\ Advance
    /\ UNCHANGED <<rootVars, upstream, treeVars, wizard>>

NoService ==
    /\ At("service") /\ "unit" \notin made
    /\ boot' = boot + 2
    /\ UNCHANGED <<byHook, boots, rootVars, made, upstream, treeVars, wizard>>

\* The script ends, fails or is killed.  The hook then marks the bootstrap as done, whatever
\* became of it, unless its shell is gone too.
BootStops ==
    /\ boot # 0 /\ ~wizard
    /\ boot' = 0
    /\ made' \in LET left == IF At("code") /\ code = 0 THEN {{}, {"partial_clone"}} ELSE {{}}
                     marks == IF byHook THEN {{}, {"done"}} ELSE {{}}
                 IN  {made \cup l \cup m : l \in left, m \in marks}
    /\ venv' \in IF At("venv") /\ venv = "none" THEN {"none", "partial"} ELSE {venv}
    /\ UNCHANGED <<byHook, boots, rootVars, upstream, code, deps, wizard>>

\* It ends with status 0: all written, cancelled, or left with Ctrl-C at a question.
WizardEnds ==
    /\ wizard
    /\ wizard' = FALSE
    /\ IF At("wizard") THEN Advance /\ made' = made \cup {"wizard"}
       ELSE UNCHANGED <<bootVars, made>>
    /\ UNCHANGED <<rootVars, upstream, treeVars>>

\* It fails or is killed, and the script with it.
WizardDies ==
    /\ wizard
    /\ wizard' = FALSE
    /\ boot' = 0
    /\ made' \in {made} \cup (IF byHook /\ boot # 0 THEN {made \cup {"done"}} ELSE {})
    /\ UNCHANGED <<byHook, boots, rootVars, upstream, treeVars>>

SetupNext ==
    \/ Release \/ RootStarts \/ RootStep \/ RootStops
    \/ \E hook \in BOOLEAN : BootStarts(hook)
    \/ CheckOut \/ Scaffold \/ Templates \/ MakeVenv \/ Pip \/ DefaultFiles \/ Shims \/ GenerateUnit
    \/ InstallService \/ NoService \/ StartService \/ Timer \/ BootStops \/ WizardStarts
    \/ WizardEnds \/ WizardDies
--------------------------------------------------------------------------------
(* The files of the wizard *)

CONSTANTS
    Types,          \* provider types of the registry
    Access,         \* how each is reached: "cli", "key", "local" or "cloud"
    Chats,          \* platforms that can be configured
    NoKey,          \* the entry names no variable
    None,           \* no answer
    MaxPicks,       \* bound: numbers typed at one selection
    MaxWizards      \* bound: runs of the wizard

ASSUME WizardAssumption ==
    /\ Access \in [Types -> {"cli", "key", "local", "cloud"}]
    /\ MaxPicks \in Nat /\ MaxWizards \in Nat

VARIABLES
    step,           \* where the wizard is, "off": nowhere
    rerun,          \* it found providers when it started
    toSetUp,        \* the selected types that are not set up yet
    configured,     \* what set-up gave for each type: "key", "endpoint" or "login"
    role,           \* the choice of the orchestrator, for routing.default
    chats,          \* selected platforms
    notice,         \* the protocol chosen for notifications
    entries,        \* providers.yaml: the variable of each instance
    primary,        \* providers.yaml: routing.default
    keys,           \* .env: the instance whose key each variable holds
    notify,         \* adapters.yaml: the protocol of the notify section
    named,          \* history: every instance that was ever written
    cut,            \* history: a run died between two files or inside one
    runs

askVars == <<rerun, toSetUp, configured, role, chats, notice>>
providersVars == <<entries, primary, named>>
wizardVars == <<step, askVars, providersVars, keys, notify, cut, runs>>

NoEntries == <<>>               \* a file or a dict without entries
Instances(type) == {n \in DOMAIN entries : n[1] = type}

\* providers.yaml and .env as the installer copies them from the examples, whose .env names
\* the variables without a value, or absent in a checkout made by hand.
WizardInit ==
    /\ step = "off" /\ rerun = FALSE /\ toSetUp = NoEntries /\ configured = NoEntries
    /\ role = None /\ chats = {} /\ notice = None
    /\ \/ entries = NoEntries /\ primary = None /\ keys = NoEntries
       \/ \E t \in Types :
             /\ Access[t] = "key"
             /\ entries = [n \in {<<t, 1>>} |-> <<t, 1>>] /\ primary = <<t, 1>>
             /\ keys = [v \in {<<u, 1>> : u \in {u \in Types : Access[u] = "key"}} |-> None]
    /\ named = DOMAIN entries
    /\ notify = None /\ cut = FALSE /\ runs = 0

AskNext(next) == step' = next /\ UNCHANGED <<providersVars, keys, notify, cut, runs>>
Leaves == AskNext("off") /\ UNCHANGED askVars

\* system_scan: a file that is absent, empty or does not parse has no providers.
Scan ==
    /\ step = "off" /\ runs < MaxWizards
    /\ step' = "menu" /\ runs' = runs + 1
    /\ rerun' = (entries # NoEntries)
    /\ toSetUp' = NoEntries /\ configured' = NoEntries /\ role' = None /\ chats' = {} /\ notice' = None
    /\ UNCHANGED <<providersVars, keys, notify, cut>>

\* The menu of a re-run, or "Continue to provider setup?".
ToProviders == step = "menu" /\ AskNext("select") /\ UNCHANGED askVars
ToAdapters == step = "menu" /\ rerun /\ AskNext("adapters") /\ UNCHANGED askVars
Cancel == step = "menu" /\ Leaves

\* Numbers separated by commas, in the order they are typed; a number may be typed twice.
Selections(items) == SeqOf(items, MaxPicks)

\* One number, or none that is valid.
RadioItems(items) == items \cup {None}

SelectProviders ==
    /\ step = "select"
    /\ \E selection \in Selections(Types) :
          IF rerun /\ selection = <<>> THEN Leaves
          ELSE /\ toSetUp' = selection
               /\ AskNext("configure")
               /\ UNCHANGED <<rerun, configured, role, chats, notice>>

\* What the set-up of a provider gives: its CLI answers a test after the login or not; its
\* key, which is kept even if the test fails, or no key; its local service, which need not
\* run, or not that either.
CliOutcomes == {"login", None}
KeyOutcomes == {"key", None}
LocalOutcomes == {"endpoint", None}

\* By the access mode; for cloud accounts there is no set-up yet.
SetupResults(type) ==
    CASE Access[type] = "cli" -> CliOutcomes
      [] Access[type] = "key" -> KeyOutcomes
      [] Access[type] = "local" -> LocalOutcomes
      [] OTHER -> {None}

\* configured.update(result): one entry per type, the last one.
ConfigureProvider ==
    /\ step = "configure" /\ toSetUp # NoEntries
    /\ \E result \in SetupResults(Head(toSetUp)) :
          configured' = IF result = None THEN configured
                        ELSE [t \in DOMAIN configured \cup {Head(toSetUp)} |->
                                 IF t = Head(toSetUp) THEN result ELSE configured[t]]
    /\ toSetUp' = Tail(toSetUp)
    /\ AskNext("configure")
    /\ UNCHANGED <<rerun, role, chats, notice>>

NothingConfigured ==
    /\ step = "configure" /\ toSetUp = NoEntries /\ configured = NoEntries
    /\ AskNext(IF rerun THEN "off" ELSE "adapters")
    /\ UNCHANGED askVars

\* {**active, **configured}: a second instance of a type does not appear by its own name.
RoleItems(old) == old \cup {<<t, 1>> : t \in DOMAIN configured}

AssignRole ==
    /\ step = "configure" /\ toSetUp = NoEntries /\ configured # NoEntries
    /\ LET items == RoleItems(IF rerun THEN DOMAIN entries ELSE {})
       IN  role' \in IF Cardinality(items) = 1 THEN items ELSE RadioItems(items)
    /\ AskNext(IF rerun THEN "providers" ELSE "adapters")
    /\ UNCHANGED <<rerun, toSetUp, configured, chats, notice>>

SelectAdapters ==
    /\ step = "adapters"
    /\ \E selection \in SUBSET Chats :
          IF rerun /\ selection = {} THEN Leaves
          ELSE /\ chats' = selection
               /\ AskNext("platform")
               /\ UNCHANGED <<rerun, toSetUp, configured, role, notice>>

\* A compose file for a platform that is to run here, written whether there is one or not.
SetUpPlatform == step = "platform" /\ AskNext("notifications") /\ UNCHANGED askVars

\* notification_setup: a selected platform, mail or nothing.
ChooseNotice ==
    /\ step = "notifications"
    /\ notice' \in RadioItems(chats \cup {"email"})
    /\ AskNext(IF configured # NoEntries THEN "providers" ELSE "notice")
    /\ UNCHANGED <<rerun, toSetUp, configured, role, chats>>

\* Ctrl-C at a question ends the wizard with status 0, as if it had been answered; at a menu
\* it fails, and so does a local service that does not answer within two seconds.
Interrupted == step \notin {"off", "providers", "keys", "notice"} /\ Leaves

\* The first free name, and the variable: the one of the type, or a suffixed one when that
\* is in .env, with a value or without.
NewName(type) == <<type, Min((1 .. Cardinality(Instances(type)) + 1) \ {n[2] : n \in Instances(type)})>>
NewVariable(type) ==
    IF configured[type] # "key" THEN NoKey
    ELSE IF <<type, 1>> \in DOMAIN keys THEN <<type, Max({NewName(type)[2], 2})>>
    ELSE <<type, 1>>
NewNames == [t \in DOMAIN configured |-> NewName(t)]

\* Merged with the entries that are there.
Merged(new) ==
    [n \in DOMAIN entries \cup DOMAIN new |-> IF n \in DOMAIN new THEN new[n] ELSE entries[n]]

\* write_configs, first file.  All that is neither providers nor routing is gone.
WriteProviders ==
    /\ step = "providers"
    /\ entries' = Merged([n \in {NewNames[t] : t \in DOMAIN configured} |-> NewVariable(n[1])])
    /\ primary' = role
    /\ named' = named \cup DOMAIN entries'
    /\ step' = "keys"
    /\ UNCHANGED <<askVars, keys, notify, cut, runs>>

\* Mutant: only the new keys are written.
KeysReplaced(new) == new

\* existing_env.update(new_env)
KeysMerged(new) ==
    [v \in DOMAIN keys \cup DOMAIN new |-> IF v \in DOMAIN new THEN new[v] ELSE keys[v]]

\* The instances of this run: the last of each type that was set up.
Newest(type) == CHOOSE n \in Instances(type) : \A m \in Instances(type) : m[2] <= n[2]

\* write_configs, second file, with the variables chosen before the first was written.
WriteKeys ==
    /\ step = "keys"
    /\ LET fresh == {Newest(t) : t \in {t \in DOMAIN configured : configured[t] = "key"}}
       IN  keys' = KeysMerged([v \in {entries[n] : n \in fresh} |->
                                  CHOOSE n \in fresh : entries[n] = v])
    /\ step' = IF rerun THEN "off" ELSE "notice"
    /\ UNCHANGED <<askVars, providersVars, notify, cut, runs>>

\* write_notify_config: the section is replaced by one with this protocol only, the other
\* sections stay; a file that does not parse stays as it is.
WriteNotice ==
    /\ step = "notice"
    /\ notify' = IF notice = None \/ notify = "unparsable" THEN notify ELSE notice
    /\ step' = "off"
    /\ UNCHANGED <<askVars, providersVars, keys, cut, runs>>

\* It is killed before, between or inside the files.
Dies ==
    /\ step \in {"providers", "keys", "notice"}
    /\ step' = "off" /\ cut' = TRUE
    /\ \/ UNCHANGED <<providersVars, keys, notify>>
       \/ step = "providers" /\ entries' = NoEntries /\ primary' = None /\ UNCHANGED <<named, keys, notify>>
       \/ step = "keys" /\ keys' = NoEntries /\ UNCHANGED <<providersVars, notify>>
       \/ step = "notice" /\ notify' = "unparsable" /\ UNCHANGED <<providersVars, keys>>
    /\ UNCHANGED <<askVars, runs>>

WizardNext ==
    \/ Scan \/ ToProviders \/ ToAdapters \/ Cancel \/ SelectProviders \/ ConfigureProvider
    \/ NothingConfigured \/ AssignRole \/ SelectAdapters \/ SetUpPlatform \/ ChooseNotice
    \/ Interrupted \/ WriteProviders \/ WriteKeys \/ WriteNotice \/ Dies
--------------------------------------------------------------------------------
\* However often the scripts were cut short and run again: the service is enabled and
\* started only when the code is there as a whole, in an environment with the packages of
\* that very version, after a wizard has come to its end, and by an account that may do so.
ServiceReady ==
    [][InstallService \/ StartService =>
          /\ code # 0 /\ venv = "made" /\ deps = code
          /\ {"user", "sudoers", "defaults", "wizard", "unit"} \subseteq made]_setupVars

\* "Merge new provider configs into existing providers.yaml + .env" (wizard.py:897-900):
\* whatever is answered, given up and run again, between two runs every provider that was
\* ever written is in providers.yaml, its variable is in .env, and the orchestrator is one of
\* them, unless a run died between the files or inside one, or no orchestrator was chosen.
ConfigSound ==
    step = "off" /\ ~cut =>
        /\ named \subseteq DOMAIN entries
        /\ \A n \in DOMAIN entries : entries[n] # NoKey => entries[n] \in DOMAIN keys
        /\ primary \in DOMAIN entries \cup {None}
================================================================================
