------------------------------- MODULE AgentLoop -------------------------------
(***************************************************************************)
(* The tool-calling loop of src/core/agent_loop.py: one run on one         *)
(* provider, whose answers, like the guard's and the operator's verdicts,  *)
(* are choices.  The clock and the token budget may run out at any check.  *)
(* A call is named by its iteration and its place in the model's turn.     *)
(***************************************************************************)
EXTENDS Naturals, Sequences, FiniteSets

CONSTANTS
    Tools,          \* what the model may name, known to the registry or not
    Confirmed,      \* the tools that require confirmation
    Guarded,        \* a guard_fn was given
    Confirming,     \* a confirm_fn was given
    MaxIters,       \* max_iters
    MaxCalls        \* calls in one turn of the model

ASSUME AgentAssumption ==
    /\ Confirmed \subseteq Tools /\ {Guarded, Confirming} \subseteq BOOLEAN
    /\ MaxIters \in Nat \ {0} /\ MaxCalls \in Nat \ {0}

VARIABLES
    phase,          \* "new", "checking", "sending", "calling", "summarizing", "ended"
    iteration,
    transcript,     \* messages, without the user's prompt
    calls,          \* the calls of the last turn that have no result yet
    outcome         \* termination

agentVars == <<phase, iteration, transcript, calls, outcome>>

AgentInit ==
    /\ phase = "new" /\ iteration = 0 /\ outcome = "none"
    /\ transcript = <<>> /\ calls = <<>>

End(reason) == phase' = "ended" /\ outcome' = reason

\* run_agent: a provider without tools is refused at once.
BeginAgent ==
    /\ phase = "new"
    /\ \/ phase' = "checking" /\ UNCHANGED outcome
       \/ End("error")
    /\ UNCHANGED <<iteration, transcript, calls>>

\* The head of the loop: iterations, time and tokens.
NextIteration ==
    /\ phase = "checking" /\ iteration < MaxIters
    /\ iteration' = iteration + 1
    /\ \/ phase' = "sending" /\ UNCHANGED outcome
       \/ phase' = "summarizing" /\ outcome' \in {"timeout", "token_budget"}
    /\ UNCHANGED <<transcript, calls>>

IterationsSpent ==
    /\ phase = "checking" /\ iteration = MaxIters
    /\ phase' = "summarizing" /\ outcome' = "max_iters"
    /\ UNCHANGED <<iteration, transcript, calls>>

\* The provider raises, or answers in text, which must not be blank.
Concludes ==
    /\ phase = "sending"
    /\ End("error") \/ End("done")
    /\ UNCHANGED <<iteration, transcript, calls>>

\* The model calls tools: its turn enters the transcript.
CallsTools ==
    /\ phase = "sending"
    /\ \E n \in 1 .. MaxCalls : \E tools \in [1 .. n -> Tools] :
          /\ calls' = [k \in 1 .. n |-> [id |-> <<iteration, k>>, tool |-> tools[k]]]
          /\ transcript' = Append(transcript, [kind |-> "turn", calls |-> {<<iteration, k>> : k \in 1 .. n}])
    /\ phase' = "calling"
    /\ UNCHANGED <<iteration, outcome>>

\* Mutant: a call that is not executed leaves no result.
ResultIfRun(call, how) ==
    transcript' = IF how = "run" THEN Append(transcript, [kind |-> "result", id |-> call.id])
                  ELSE transcript

\* One role:"tool" message per call, also for one that was not executed.
Result(call, how) == transcript' = Append(transcript, [kind |-> "result", id |-> call.id])

Settle(how) ==
    /\ phase = "calling" /\ calls # <<>>
    /\ Result(Head(calls), how)
    /\ calls' = Tail(calls)
    /\ phase' = IF Len(calls) = 1 THEN "checking" ELSE "calling"
    /\ UNCHANGED <<iteration, outcome>>

\* The guard says no, or crashes.
Blocked == Guarded /\ Settle("blocked")

\* The operator says no, or there is nobody to ask.
Refused ==
    /\ calls # <<>> /\ Head(calls).tool \in Confirmed
    /\ Settle("refused")

\* The registry runs the tool, whose errors are results too.
Executed ==
    /\ calls # <<>> /\ (Head(calls).tool \in Confirmed => Confirming)
    /\ Settle("run")

\* _final_summarize: one call without tools; it may fail or be blank.
Summarize ==
    /\ phase = "summarizing"
    /\ phase' = "ended"
    /\ UNCHANGED <<iteration, transcript, calls, outcome>>

AgentNext ==
    \/ BeginAgent \/ NextIteration \/ IterationsSpent \/ Concludes \/ CallsTools
    \/ Blocked \/ Refused \/ Executed \/ Summarize
================================================================================
