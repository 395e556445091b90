------------------------------- MODULE Failover -------------------------------
(***************************************************************************)
(* What the provider chain promises its caller, without its health         *)
(* bookkeeping: a turn asks providers one after the other, never the same  *)
(* one twice and at most MaxProviders of them; its reply is the answer of  *)
(* the provider it is asking, or that of a local provider asked as a last  *)
(* resort, or an error; and a turn that is not cut by a crash is replied   *)
(* to.                                                                     *)
(***************************************************************************)
EXTENDS Naturals, FiniteSets

CONSTANTS
    Turns,
    Providers,
    LastResorts,    \* the local ones among the providers
    MaxProviders,
    Nobody          \* not a provider

VARIABLES
    phase,      \* where the turn is
    asked,      \* the providers asked so far
    asking,     \* the provider asked last
    replier     \* whose answer was the reply, Nobody for none or an error

vars == <<phase, asked, asking, replier>>

Phases == {"idle", "choosing", "asking", "last_resort", "replied"}

Start(t) ==
    /\ phase[t] \in {"idle", "replied"}
    /\ phase'   = [phase EXCEPT ![t] = "choosing"]
    /\ asked'   = [asked EXCEPT ![t] = {}]
    /\ asking'  = [asking EXCEPT ![t] = Nobody]
    /\ replier' = [replier EXCEPT ![t] = Nobody]

Ask(t, p) ==
    /\ phase[t] = "choosing"
    /\ p \notin asked[t]
    /\ Cardinality(asked[t]) < MaxProviders
    /\ phase'  = [phase EXCEPT ![t] = "asking"]
    /\ asked'  = [asked EXCEPT ![t] = @ \union {p}]
    /\ asking' = [asking EXCEPT ![t] = p]
    /\ UNCHANGED replier

Declined(t) ==
    /\ phase[t] = "asking"
    /\ phase' = [phase EXCEPT ![t] = "choosing"]
    /\ UNCHANGED <<asked, asking, replier>>

Answered(t) ==
    /\ phase[t] \in {"asking", "last_resort"}
    /\ phase'   = [phase EXCEPT ![t] = "replied"]
    /\ replier' = [replier EXCEPT ![t] = asking[t]]
    /\ UNCHANGED <<asked, asking>>

\* Without a last resort the turn is replied to with an error.
GaveUp(t) ==
    /\ phase[t] \in {"choosing", "asking"}
    /\ \/ /\ LastResorts = {}
          /\ phase' = [phase EXCEPT ![t] = "replied"]
          /\ UNCHANGED asking
       \/ \E p \in LastResorts :
            /\ phase'  = [phase EXCEPT ![t] = "last_resort"]
            /\ asking' = [asking EXCEPT ![t] = p]
    /\ UNCHANGED <<asked, replier>>

LastResortFailed(t) ==
    /\ phase[t] = "last_resort"
    /\ phase' = [phase EXCEPT ![t] = "replied"]
    /\ UNCHANGED <<asked, asking, replier>>

Idle ==
    /\ phase = [t \in Turns |-> "idle"]
    /\ asked = [t \in Turns |-> {}]
    /\ asking = [t \in Turns |-> Nobody]
    /\ replier = [t \in Turns |-> Nobody]

\* The process dies with every turn.
Crash ==
    /\ phase' = [t \in Turns |-> "idle"]
    /\ asked' = [t \in Turns |-> {}]
    /\ asking' = [t \in Turns |-> Nobody]
    /\ replier' = [t \in Turns |-> Nobody]

Work(t) ==
    \/ \E p \in Providers : Ask(t, p)
    \/ Declined(t) \/ Answered(t) \/ GaveUp(t) \/ LastResortFailed(t)

Next == (\E t \in Turns : Start(t) \/ Work(t)) \/ Crash

SafeSpec == Idle /\ [][Next]_vars

\* Declined and Ask alternate at most MaxProviders times, so working is ending.
Spec == SafeSpec /\ \A t \in Turns : WF_vars(Work(t))
=============================================================================
