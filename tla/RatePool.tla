-------------------------------- MODULE RatePool --------------------------------
(***************************************************************************)
(* The rate windows of src/core/pool_manager.py and the order in which     *)
(* src/core/pool_router.py offers a pool's providers.                      *)
(*                                                                         *)
(* The clock counts coarse ticks; the deques of requests and of tokens are *)
(* one sequence of calls, read through a minute's and a day's window.      *)
(***************************************************************************)
EXTENDS Naturals, Sequences, SequencesExt, Filters

CONSTANTS
    Providers,
    Pool,           \* the tier pool of the triage result, in its configured order
    Class,          \* cost class of each provider
    Limits,         \* rpm, rpd, tpm and tpd of each provider, 0 when unlimited
    Communicators,  \* the providers configured with role: communicator
    Minute, Day,    \* window lengths, in ticks
    Cooldown,       \* the 60 s after a rate-limit answer, in ticks
    MaxClock        \* bound on the clock

Classes == {"local", "free_limited", "paid_subscription", "unknown"}

ASSUME RatePoolAssumption ==
    /\ Pool \in Seq(Providers)
    /\ Class \in [Providers -> Classes]
    /\ Limits \in [Providers -> [rpm : Nat, rpd : Nat, tpm : Nat, tpd : Nat]]
    /\ Communicators \subseteq Providers
    /\ Minute \in Nat /\ Day \in Nat /\ Cooldown \in Nat /\ MaxClock \in Nat

VARIABLES
    clock,
    calls,          \* each provider's recorded requests: when, and their tokens
    cooldownUntil

rateVars == <<clock, calls, cooldownUntil>>

RateInit ==
    /\ clock = 0
    /\ calls = [p \in Providers |-> <<>>]
    /\ cooldownUntil = [p \in Providers |-> 0]

Within(s, span) == SelectSeq(s, LAMBDA c : c.at + span >= clock)

Tokens(s) == FoldSeq(LAMBDA c, sum : c.tokens + sum, 0, s)

Below(n, limit) == limit = 0 \/ n < limit

IsAvailable(p) ==
    /\ clock >= cooldownUntil[p]
    /\ \/ Class[p] = "local"
       \/ LET minute == Within(calls[p], Minute)
              day    == Within(calls[p], Day)
          IN  /\ Below(Len(minute), Limits[p].rpm)
              /\ Below(Len(day), Limits[p].rpd)
              /\ Below(Tokens(minute), Limits[p].tpm)
              /\ Below(Tokens(day), Limits[p].tpd)

ByClass(s) ==
    LET OfClass(c) == Filter(s, {p \in Providers : Class[p] = c})
    IN  OfClass("local") \o OfClass("free_limited")
          \o OfClass("paid_subscription") \o OfClass("unknown")

Available == {p \in Providers : IsAvailable(p)}

\* The exhausted providers stay at the end of the order: they may recover meanwhile.
OrderedPool == ByClass(Filter(Pool, Available)) \o ByClass(Filter(Pool, Providers \ Available))

SelectCommunicator == Filter(OrderedPool, Communicators)

RecordRequest(p, tokens) ==
    /\ calls' = [calls EXCEPT ![p] =
                   Within(Append(@, [at |-> clock, tokens |-> tokens]), Day)]
    /\ UNCHANGED <<clock, cooldownUntil>>

SetCooldown(p) ==
    /\ cooldownUntil' = [cooldownUntil EXCEPT ![p] = clock + Cooldown]
    /\ UNCHANGED <<clock, calls>>

Tick ==
    /\ clock < MaxClock
    /\ clock' = clock + 1
    /\ UNCHANGED <<calls, cooldownUntil>>
=================================================================================
