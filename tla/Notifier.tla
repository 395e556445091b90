------------------------------- MODULE Notifier -------------------------------
(***************************************************************************)
(* Notifier.send of src/core/notify.py: a message goes to its primary      *)
(* protocol or, when that fails or its breaker is open, down the fallback  *)
(* chain.  Senders are short-lived processes (cron jobs, watchers) that    *)
(* share nothing but the breakers and may die at any point.                *)
(*                                                                         *)
(* A protocol delivers while it is up (works) and fails while it is not;   *)
(* the state file of the breakers is assumed readable and writable.        *)
(***************************************************************************)
EXTENDS Naturals, Sequences, SequencesExt, Filters

CONSTANTS
    Protos, Senders,
    Primaries,      \* what messages ask for: protocols, configured or not
    Configured,     \* the protocols with a configuration
    Order,          \* fallback_order
    MaxDeaths       \* bound on the processes that die

ASSUME NotifierAssumption ==
    /\ Primaries \subseteq Protos /\ Configured \subseteq Protos
    /\ Order \in Seq(Protos)
    /\ MaxDeaths \in Nat

VARIABLES
    failures,       \* counted up to the threshold
    opened,         \* opened_at is set
    cooled          \* now - opened_at >= COOLDOWN

-----------------------------------------------------------------------------
(* The circuit breaker of src/core/comms_breaker.py, one per protocol.     *)
(* Each function is one transaction on the state file, under its lock; the *)
(* file is the state and outlives the processes that send.  What the       *)
(* outage notice says (down_since, rerouted) is left out.                  *)

Threshold == 3      \* THRESHOLD

breakerVars == <<failures, opened, cooled>>

BreakerInit ==
    /\ failures = [p \in Protos |-> 0]
    /\ opened = [p \in Protos |-> FALSE]
    /\ cooled = [p \in Protos |-> FALSE]

BreakerTypeOK ==
    /\ failures \in [Protos -> 0 .. Threshold]
    /\ opened \in [Protos -> BOOLEAN]
    /\ cooled \in [Protos -> BOOLEAN]

\* Mutant: there is no half-open state.
AllowClosed(p) == ~opened[p]

Allow(p) == opened[p] => cooled[p]

\* Mutant: one failure too many is needed.
RecordFailureLate(p) ==
    /\ failures' = [failures EXCEPT ![p] = IF @ < Threshold THEN @ + 1 ELSE @]
    /\ opened' = [opened EXCEPT ![p] = failures[p] >= Threshold]
    /\ cooled' = [cooled EXCEPT ![p] = FALSE]

\* The threshold opens the breaker; any failure while it is open, that of a trial or of a
\* send begun before, starts the cooldown anew.
RecordFailure(p) ==
    /\ failures' = [failures EXCEPT ![p] = IF @ < Threshold THEN @ + 1 ELSE @]
    /\ opened' = [opened EXCEPT ![p] = @ \/ failures'[p] >= Threshold]
    /\ cooled' = [cooled EXCEPT ![p] = FALSE]

RecordSuccess(p) ==
    /\ failures' = [failures EXCEPT ![p] = 0]
    /\ opened' = [opened EXCEPT ![p] = FALSE]
    /\ cooled' = [cooled EXCEPT ![p] = FALSE]

CooldownElapses(p) ==
    /\ opened[p] /\ ~cooled[p]
    /\ cooled' = [cooled EXCEPT ![p] = TRUE]
    /\ UNCHANGED <<failures, opened>>

-----------------------------------------------------------------------------
(* Sending                                                                 *)

VARIABLES
    works,          \* the protocols' servers
    place, todo,       \* each sender's place, and what is left of its chain
    deaths,
    good            \* history: the protocols of the chain that were up, their breaker
                    \* closed, ever since the send began

notifierVars == <<breakerVars, works, place, todo, deaths, good>>

NotifierInit ==
    /\ BreakerInit
    /\ works = [p \in Protos |-> TRUE]
    /\ place = [s \in Senders |-> "idle"]
    /\ todo = [s \in Senders |-> <<>>]
    /\ deaths = 0
    /\ good = [s \in Senders |-> {}]

Chain(primary) == Filter(<<primary>> \o Filter(Order, Protos \ {primary}), Configured)

StillGood(P) == {p \in P : works'[p] /\ ~opened'[p]}

Watch == good' = [s \in Senders |-> StillGood(good[s])]

Proto(s) == Head(todo[s])

Moves(s, from, to) == place[s] = from /\ place' = [place EXCEPT ![s] = to]

Start(s, primary) ==
    /\ Moves(s, "idle", "looking")
    /\ todo' = [todo EXCEPT ![s] = Chain(primary)]
    /\ UNCHANGED <<breakerVars, works, deaths>>
    /\ good' = [r \in Senders |->
                  StillGood(IF r = s THEN ToSet(Chain(primary)) ELSE good[r])]

Skip(s) ==
    /\ todo[s] # <<>> /\ ~Allow(Proto(s))
    /\ Moves(s, "looking", "looking")
    /\ todo' = [todo EXCEPT ![s] = Tail(@)]
    /\ UNCHANGED <<breakerVars, works, deaths>>
    /\ Watch

Try(s) ==
    /\ todo[s] # <<>> /\ Allow(Proto(s))
    /\ Moves(s, "looking", "sending")
    /\ UNCHANGED <<breakerVars, works, todo, deaths>>
    /\ Watch

SendOne(s) ==
    /\ Moves(s, "sending", IF works[Proto(s)] THEN "sent" ELSE "failed")
    /\ UNCHANGED <<breakerVars, works, todo, deaths>>
    /\ Watch

\* The reroute that is recorded next is part of the notice.
Delivered(s) ==
    /\ Moves(s, "sent", "idle")
    /\ RecordSuccess(Proto(s))
    /\ todo' = [todo EXCEPT ![s] = <<>>]
    /\ UNCHANGED <<works, deaths>>
    /\ Watch

\* Mutant: a failed send ends the chain.
FailedGivesUp(s) ==
    /\ Moves(s, "failed", "looking")
    /\ RecordFailure(Proto(s))
    /\ todo' = [todo EXCEPT ![s] = <<>>]
    /\ UNCHANGED <<works, deaths>>
    /\ Watch

Failed(s) ==
    /\ Moves(s, "failed", "looking")
    /\ RecordFailure(Proto(s))
    /\ todo' = [todo EXCEPT ![s] = Tail(@)]
    /\ UNCHANGED <<works, deaths>>
    /\ Watch

\* Every protocol failed or was skipped, or none is configured: False, and an error in
\* the log.
NotDelivered(s) ==
    /\ todo[s] = <<>>
    /\ Moves(s, "looking", "idle")
    /\ UNCHANGED <<breakerVars, works, todo, deaths>>
    /\ Watch

Die(s) ==
    /\ place[s] # "idle" /\ deaths < MaxDeaths
    /\ place' = [place EXCEPT ![s] = "idle"]
    /\ todo' = [todo EXCEPT ![s] = <<>>]
    /\ deaths' = deaths + 1
    /\ UNCHANGED <<breakerVars, works>>
    /\ Watch

GoesUpOrDown(p) ==
    /\ works' = [works EXCEPT ![p] = ~@]
    /\ UNCHANGED <<breakerVars, place, todo, deaths>>
    /\ Watch

Cools(p) ==
    /\ CooldownElapses(p)
    /\ UNCHANGED <<works, place, todo, deaths>>
    /\ Watch

Send(s) ==
    \/ Skip(s) \/ Try(s) \/ SendOne(s) \/ Delivered(s) \/ Failed(s) \/ NotDelivered(s)

NotifierNext ==
    \/ \E s \in Senders : (\E p \in Primaries : Start(s, p)) \/ Send(s) \/ Die(s)
    \/ \E p \in Protos : GoesUpOrDown(p) \/ Cools(p)


-----------------------------------------------------------------------------
(* Properties                                                              *)

\* However the sends of several processes interleave, the breaker is open exactly after
\* THRESHOLD failures that no success came between.
OpenAtThreshold == \A p \in Protos : opened[p] <=> failures[p] = Threshold

\* A message is reported undelivered only if no protocol of its chain was up, with its
\* breaker closed, all the while: neither the failures of the others nor the sends of
\* other processes make it miss one.
HealthyIsUsed == [][\A s \in Senders : NotDelivered(s) => good[s] = {}]_notifierVars

AsksFirst(s, p) == place[s] = "looking" /\ todo[s] # <<>> /\ Proto(s) = p

\* No schedule of concurrent senders keeps out a protocol that is back for good: if
\* messages keep asking for it, its breaker closes.
Recovers ==
    \A p \in Configured :
        <>[]works[p] /\ []<>(\E s \in Senders : AsksFirst(s, p)) => []<>~opened[p]
=============================================================================
