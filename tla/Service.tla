-------------------------------- MODULE Service --------------------------------
(***************************************************************************)
(* What has to go on for ever beside the turns, in parts that share no     *)
(* state: the engine with its trigger file, the messages that scripts and  *)
(* watchers send, the feedback of outcomes into the routing, the load of   *)
(* the GPU pools, and the process itself.  A behaviour is a behaviour of   *)
(* one of them, so that one run checks all without multiplying their       *)
(* states.                                                                 *)
(***************************************************************************)
EXTENDS Engine, Notifier, RoutingWeights, GpuPools, Process

VARIABLE part

serviceVars == <<engineVars, notifierVars, weightVars, gpuVars, processVars, part>>

\* Each part chooses its own initial state only.
ServiceInit ==
    /\ EngineInit /\ NotifierInit /\ WeightInit /\ GpuInit /\ ProcessInit
    /\ part \in {"engine", "notifier", "weights", "gpu", "process"}
    /\ part = "gpu" \/ loaded \cup answers = {}
    /\ part = "process" \/ config = [types |-> {}, failover |-> FALSE, pools |-> FALSE]

EngineStep(A) ==
    /\ part = "engine" /\ A
    /\ UNCHANGED <<notifierVars, weightVars, gpuVars, processVars, part>>

NotifierStep(A) ==
    /\ part = "notifier" /\ A
    /\ UNCHANGED <<engineVars, weightVars, gpuVars, processVars, part>>

WeightStep(A) ==
    /\ part = "weights" /\ A
    /\ UNCHANGED <<engineVars, notifierVars, gpuVars, processVars, part>>

GpuStep(A) ==
    /\ part = "gpu" /\ A
    /\ UNCHANGED <<engineVars, notifierVars, weightVars, processVars, part>>

ProcessStep(A) ==
    /\ part = "process" /\ A
    /\ UNCHANGED <<engineVars, notifierVars, weightVars, gpuVars, part>>

ServiceNext ==
    \/ EngineStep(EngineNext) \/ NotifierStep(NotifierNext) \/ WeightStep(WeightNext)
    \/ GpuStep(GpuNext) \/ ProcessStep(ProcessNext)

\* The engine's loop is one coroutine that awaits sleeps and calls with time-outs: it goes
\* on.  No wait for events outlasts its deadline of a minute.
EngineFairness ==
    WF_serviceVars(EngineStep(Loop)) /\ SF_serviceVars(EngineStep(PollTimesOut))

\* A send goes on (each of its requests has a timeout) and time passes.
NotifierFairness ==
    /\ \A s \in Senders : WF_serviceVars(NotifierStep(Send(s)))
    /\ \A p \in Protos : WF_serviceVars(NotifierStep(Cools(p)))

\* Days pass, and turns are taken.
WeightFairness ==
    WF_serviceVars(WeightStep(DayPasses)) /\ WF_serviceVars(WeightStep(TakeTurn))

\* The loop of the polls goes on, each with a timeout of five seconds.
GpuFairness == WF_serviceVars(GpuStep(PollMetrics)) /\ WF_serviceVars(GpuStep(PollSleep))

\* systemd starts what is to be up; loading, starting and stopping await nothing that has no
\* bound.
ProcessFairness == WF_serviceVars(ProcessStep(ProcessGoesOn))

ServiceSpec ==
    /\ ServiceInit /\ [][ServiceNext]_serviceVars
    /\ EngineFairness /\ NotifierFairness /\ WeightFairness /\ GpuFairness /\ ProcessFairness
================================================================================
