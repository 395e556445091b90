----------------------------- MODULE CouncilLease -----------------------------
(***************************************************************************)
(* The leadership lease and the fencing token of                           *)
(* src/core/council_lease.py, on a Redis-compatible store.  Each store     *)
(* command is one atomic step; acquire() is two of them.  Every command    *)
(* may fail at the client, before or after the store has executed it.      *)
(*                                                                         *)
(* The lease's time to live is abstracted: it may end at any moment after  *)
(* it was set, so renew(), which only moves that moment, changes nothing   *)
(* here.  The knock key is not modelled: no code outside this class reads  *)
(* or writes it.                                                           *)
(***************************************************************************)
EXTENDS Naturals, FiniteSets

CONSTANTS
    Clients,        \* the CouncilLease objects, one per process
    HolderIds,
    HolderOf,       \* client -> the holder_id it writes into the lease
    Free,           \* the value of an absent lease key
    MaxTerms,       \* bound on the number of leadership terms
    Faults          \* what may go wrong during the behaviour

ASSUME LeaseAssumption ==
    /\ HolderOf \in [Clients -> HolderIds]
    /\ Free \notin HolderIds
    /\ MaxTerms \in Nat
    /\ Faults \subseteq {"expiry", "store", "provider", "crash"}

VARIABLES
    lease,          \* the lease key in the store
    fence,          \* the fence counter in the store
    token           \* CouncilLease._token of each client, 0 outside a term

leaseVars == <<lease, fence, token>>

LeaseInit ==
    /\ lease = Free
    /\ fence = 0
    /\ token = [c \in Clients |-> 0]

LeaseTypeOK ==
    /\ lease \in HolderIds \union {Free}
    /\ fence \in 0 .. MaxTerms
    /\ token \in [Clients -> 0 .. MaxTerms]

\* acquire(), first command: SET NX PX.
SetLease(c) ==
    /\ lease = Free /\ fence < MaxTerms
    /\ lease' = HolderOf[c]
    /\ UNCHANGED <<fence, token>>

\* Mutant: the token is read without advancing the fence.
ReadToken(c) ==
    /\ fence > 0
    /\ token' = [token EXCEPT ![c] = fence]
    /\ UNCHANGED <<lease, fence>>

\* acquire(), second command: INCR.  The reply is the token of the new term.  (The bound
\* matters only when an expired lease let several clients in between.)
TakeToken(c) ==
    /\ fence < MaxTerms
    /\ fence' = fence + 1
    /\ token' = [token EXCEPT ![c] = fence + 1]
    /\ UNCHANGED lease

\* INCR raises, executed or not: acquire() returns None and the lease stays set.
LoseToken(c) ==
    /\ "store" \in Faults
    /\ fence' \in {fence, fence + 1} \intersect (0 .. MaxTerms)
    /\ UNCHANGED <<lease, token>>

\* is_fenced_out(token), when the read succeeds.
FencedOut(c) == token[c] < fence

\* release(): compare-and-delete on the holder id.
Release(c) ==
    /\ lease' = IF lease = HolderOf[c] THEN Free ELSE lease
    /\ token' = [token EXCEPT ![c] = 0]
    /\ UNCHANGED fence

\* release() raises before the store has executed it.
ReleaseLost(c) ==
    /\ "store" \in Faults
    /\ token' = [token EXCEPT ![c] = 0]
    /\ UNCHANGED <<lease, fence>>

\* Mutant: the key is set without a time to live.
NeverExpires == FALSE /\ UNCHANGED leaseVars

LeaseExpires ==
    /\ "expiry" \in Faults /\ lease # Free
    /\ lease' = Free
    /\ UNCHANGED <<fence, token>>

\* The process of c dies: its object is lost, its lease stays.
Forget(c) ==
    /\ "crash" \in Faults
    /\ token' = [token EXCEPT ![c] = 0]
    /\ UNCHANGED <<lease, fence>>
=============================================================================
