-------------------------------- MODULE Process --------------------------------
(***************************************************************************)
(* The service process: run() of src/main.py with the checks and builders  *)
(* it calls (config_schema.py, chain_builder.py, providers/__init__.py),   *)
(* and the unit that src/setup/systemd.py generates, which starts it again *)
(* however it ends.                                                        *)
(*                                                                         *)
(* A configuration is the types of its providers and the sections it has;  *)
(* it is read once, at the start.  What the tasks do is the matter of the  *)
(* other modules: here they run, crash unnoticed, or are cancelled.        *)
(***************************************************************************)
EXTENDS Naturals, FiniteSets

CONSTANTS
    Types,          \* the types of providers
    Checked,        \* those config_schema.py accepts
    Known,          \* those of PROVIDER_REGISTRY
    AdapterNames,
    MaxConfigEdits, MaxSignals      \* bounds

ASSUME ProcessAssumption ==
    Checked \subseteq Types /\ Known \subseteq Types /\ {MaxConfigEdits, MaxSignals} \subseteq Nat

Configs == [types : SUBSET Types, failover : BOOLEAN, pools : BOOLEAN]

VARIABLES
    config,     \* providers.yaml
    usable,     \* the types whose packages and keys are there
    phase,      \* of the process
    routes,       \* how it routes: the sections it was started with
    tasks,      \* its tasks that run
    signalled,  \* it has been told to stop
    wanted,     \* systemd is to keep it up
    configEdits, kills

processVars == <<config, usable, phase, routes, tasks, signalled, wanted, configEdits, kills>>

ProcessInit ==
    /\ config \in Configs /\ usable = Types
    /\ phase = "down" /\ routes = {} /\ tasks = {}
    /\ signalled = FALSE /\ wanted = TRUE /\ configEdits = 0 /\ kills = 0

Edit ==
    /\ configEdits < MaxConfigEdits /\ configEdits' = configEdits + 1
    /\ \/ config' \in Configs /\ UNCHANGED usable
       \/ usable' \in SUBSET Types /\ UNCHANGED config
    /\ UNCHANGED <<phase, routes, tasks, signalled, wanted, kills>>

\* Mutant: Restart=on-failure, and an end that was asked for is none.
RestartsOnFailure == wanted /\ ~signalled

\* Restart=always: after an end of any kind, while the unit is to be up.
Restarts == wanted

SystemdStarts ==
    /\ phase = "down" /\ Restarts
    /\ phase' = "loading" /\ signalled' = FALSE
    /\ UNCHANGED <<config, usable, routes, tasks, wanted, configEdits, kills>>

\* validate_providers_yaml: at least one provider, and of each an accepted type.
Valid(c) == c.types # {} /\ c.types \subseteq Checked

\* _build_providers skips what it cannot load.
LoadedTypes(c) == c.types \cap Known \cap usable

\* Loading and building, without an await: it ends in sys.exit(1), or in a router with a
\* chain if there is a failover section, and pools if there are any.
BuildAll ==
    /\ phase = "loading"
    /\ IF Valid(config) /\ LoadedTypes(config) # {}
       THEN /\ phase' = "starting"
            /\ routes' = {"router"} \cup (IF config.failover THEN {"chain"} ELSE {})
                                  \cup (IF config.pools THEN {"pools"} ELSE {})
       ELSE phase' = "down" /\ UNCHANGED routes
    /\ UNCHANGED <<config, usable, tasks, signalled, wanted, configEdits, kills>>

\* The monitor is started first, then the tasks of the engine, of the pools, and of every
\* adapter that could be built.
StartTasks ==
    /\ phase = "starting"
    /\ \E built \in SUBSET AdapterNames :
          tasks' = {"engine", "pools"} \cup built \cup (IF "chain" \in routes THEN {"monitor"} ELSE {})
    /\ phase' = "running"
    /\ UNCHANGED <<config, usable, routes, signalled, wanted, configEdits, kills>>

\* Nobody awaits a task before the shutdown: one that raises is gone, and the process
\* goes on without it.
TaskCrashes(t) ==
    /\ t \in tasks /\ phase = "running"
    /\ tasks' = tasks \ {t}
    /\ UNCHANGED <<config, usable, phase, routes, signalled, wanted, configEdits, kills>>

\* systemctl stop, or a signal from elsewhere.  Before its handler is set a signal kills.
Signal(stop) ==
    /\ phase # "down" /\ ~signalled
    /\ kills < MaxSignals /\ kills' = kills + 1
    /\ wanted' = (wanted /\ ~stop)
    /\ signalled' = TRUE
    /\ phase' = IF phase \in {"loading", "starting"} THEN "down" ELSE phase
    /\ UNCHANGED <<config, usable, routes, tasks, configEdits>>

SystemctlStart ==
    /\ ~wanted /\ wanted' = TRUE
    /\ UNCHANGED <<config, usable, phase, routes, tasks, signalled, configEdits, kills>>

\* `await stop.wait()` returns; engine, monitor and pools are stopped in this order ...
Shutdown ==
    /\ phase = "running" /\ signalled
    /\ phase' = "stopping"
    /\ UNCHANGED <<config, usable, routes, tasks, signalled, wanted, configEdits, kills>>

StopNext ==
    /\ phase = "stopping"
    /\ LET stoppers == tasks \cap {"engine", "monitor", "pools"} IN
       IF stoppers = {} THEN phase' = "gathering" /\ UNCHANGED tasks
       ELSE /\ LET t == IF "engine" \in stoppers THEN "engine"
                        ELSE IF "monitor" \in stoppers THEN "monitor" ELSE "pools"
               IN  tasks' = tasks \ {t}
            /\ UNCHANGED phase
    /\ UNCHANGED <<config, usable, routes, signalled, wanted, configEdits, kills>>

\* ... and the rest is cancelled and gathered.
Gather ==
    /\ phase = "gathering"
    /\ tasks' = {} /\ phase' = "down" /\ routes' = {}
    /\ UNCHANGED <<config, usable, signalled, wanted, configEdits, kills>>

\* The machine or the kernel ends the process.
ProcessDies ==
    /\ phase # "down"
    /\ kills < MaxSignals /\ kills' = kills + 1
    /\ phase' = "down" /\ tasks' = {} /\ routes' = {}
    /\ UNCHANGED <<config, usable, signalled, wanted, configEdits>>

ProcessGoesOn == SystemdStarts \/ BuildAll \/ StartTasks \/ Shutdown \/ StopNext \/ Gather

ProcessNext ==
    \/ ProcessGoesOn \/ Edit \/ SystemctlStart \/ ProcessDies
    \/ \E stop \in BOOLEAN : Signal(stop)
    \/ \E t \in tasks : TaskCrashes(t)
--------------------------------------------------------------------------------
\* With a configuration that passes the checks and a provider that loads, for good, and a
\* unit that is to be up, the service is up in the end, whatever signals and deaths it met
\* on the way (Restart=always, systemd.py:71): it neither stays down nor hangs in its
\* shutdown.
StaysUp ==
    (<>[](wanted /\ Valid(config) /\ LoadedTypes(config) # {})) => <>[](phase = "running")
================================================================================
