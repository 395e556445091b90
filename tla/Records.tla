-------------------------------- MODULE Records --------------------------------
(***************************************************************************)
(* What has to be kept exactly, in parts that share no state: the messages *)
(* of a channel, the claims of a session's specialists, the exchange with  *)
(* a provider, the error inbox, the grades of providers, the operator's    *)
(* corrections, the index of the notes, what was said of new models, the   *)
(* cache of research, the journal of turns, the counts of calls, what a    *)
(* council disagrees on, an installation and its configuration.  A         *)
(* behaviour is a behaviour of one of them, so that one run checks all     *)
(* without multiplying their states.                                       *)
(***************************************************************************)
EXTENDS Inbound, Orchestrator, Backends, ErrorInbox, Learning, Decisions, Recall,
        ModelWatch, ResearchCache, FlightLog, UsageLimits, Deliberation, Setup

VARIABLE part

recordVars ==
    <<inboundVars, orchestratorVars, backendVars, inboxVars, learningVars, decisionVars,
      recallVars, watchVars, researchVars, flightVars, usageVars, deliberationVars, setupVars,
      wizardVars, part>>

\* Each part chooses its own initial state only.
RecordsInit ==
    /\ InboundInit /\ OrchestratorInit /\ BackendsInit /\ InboxInit /\ LearningInit
    /\ DecisionsInit /\ RecallInit /\ ModelWatchInit /\ ResearchInit /\ FlightInit
    /\ UsageInit /\ DeliberationInit /\ SetupInit /\ WizardInit
    /\ part \in {"inbound", "orchestrator", "backend", "inbox", "learning", "decisions",
                 "recall", "models", "research", "flight", "usage", "council", "setup",
                 "wizard"}
    /\ part = "inbound" \/ platform = "discord"
    /\ part = "orchestrator" \/ withStore
    /\ part = "inbox" \/ listed = Jobs
    /\ part = "learning" \/ file = Missing
    /\ part = "recall" \/ \A f \in Notes : notes[f] = [rev |-> 1, size |-> 1, touched |-> FALSE]
    /\ part = "backend" \/ (backend = "openai" /\ instructions)
    /\ part = "council" \/ reviewing
    /\ part = "wizard" \/ entries = NoEntries

\* Only the chosen part moves.
Still(p, vars) == IF part # p THEN UNCHANGED vars ELSE TRUE

RecordsNext ==
    /\ \/ part = "inbound" /\ InboundNext
       \/ part = "orchestrator" /\ OrchestratorNext
       \/ part = "backend" /\ BackendsNext
       \/ part = "inbox" /\ InboxNext
       \/ part = "learning" /\ LearningNext
       \/ part = "decisions" /\ DecisionsNext
       \/ part = "recall" /\ RecallNext
       \/ part = "models" /\ ModelWatchNext
       \/ part = "research" /\ ResearchNext
       \/ part = "flight" /\ FlightNext
       \/ part = "usage" /\ UsageNext
       \/ part = "council" /\ DeliberationNext
       \/ part = "setup" /\ SetupNext
       \/ part = "wizard" /\ WizardNext
    /\ Still("inbound", inboundVars) /\ Still("orchestrator", orchestratorVars)
    /\ Still("backend", backendVars) /\ Still("inbox", inboxVars) /\ Still("learning", learningVars)
    /\ Still("decisions", decisionVars) /\ Still("recall", recallVars) /\ Still("models", watchVars)
    /\ Still("research", researchVars) /\ Still("flight", flightVars) /\ Still("usage", usageVars)
    /\ Still("council", deliberationVars) /\ Still("setup", setupVars)
    /\ Still("wizard", wizardVars)
    /\ UNCHANGED part

RecordsSpec == RecordsInit /\ [][RecordsNext]_recordVars
================================================================================
