---------------------------- MODULE CouncilResumer ----------------------------
(***************************************************************************)
(* The background resumers of src/core/council_resumer.py: each scans the  *)
(* open checkpoints of src/core/council_checkpoint.py, takes the council   *)
(* lease, continues the interrupted tasks one by one and delivers their    *)
(* answers.  Resumers run in separate processes and meet in the store only;*)
(* each store command (asyncio.to_thread) is one step, and the processes   *)
(* interleave between any two of them.                                     *)
(***************************************************************************)
EXTENDS CouncilLease

CONSTANTS Tasks, NoTask

ASSUME TaskAssumption == NoTask \notin Tasks

VARIABLES
    saved,      \* the tasks whose checkpoint was ever saved
    open,       \* the checkpoints in the store
    lapsed,     \* the tasks whose checkpoint outlived its day in the store
    pc, ready, cp,      \* the local state of _scan: where it is, the rest of its list,
                        \* the checkpoint being resumed
    delivered   \* the answers users got: <<task, token of the delivering term>>

resumerVars == <<pc, ready, cp>>
vars == <<leaseVars, saved, open, lapsed, resumerVars, delivered>>

Init ==
    /\ LeaseInit
    /\ saved = {} /\ open = {} /\ lapsed = {}
    /\ pc = [r \in Clients |-> "waiting"]
    /\ ready = [r \in Clients |-> {}]
    /\ cp = [r \in Clients |-> NoTask]
    /\ delivered = {}

Goto(r, from, to) ==
    /\ pc[r] = from
    /\ pc' = [pc EXCEPT ![r] = to]

\* An orchestrator is interrupted and leaves a checkpoint (CheckpointStore.save).
Save(t) ==
    /\ t \notin saved
    /\ saved' = saved \union {t}
    /\ open' = open \union {t}
    /\ UNCHANGED <<leaseVars, lapsed, resumerVars, delivered>>

\* DEFAULT_TTL_S after its last save the store drops a checkpoint, listed or not.
Lapse(t) ==
    /\ "expiry" \in Faults
    /\ t \in open
    /\ open' = open \ {t}
    /\ lapsed' = lapsed \union {t}
    /\ UNCHANGED <<leaseVars, saved, resumerVars, delivered>>

\* list_open and _is_resumable: whichever open checkpoints are idle, belong to the
\* platform, and whose provider has recovered.  Nothing is held while the list is used.
List(r) ==
    /\ pc[r] = "waiting"
    /\ \E found \in SUBSET open :
          /\ ready' = [ready EXCEPT ![r] = found]
          /\ pc' = [pc EXCEPT ![r] = IF found = {} THEN "waiting" ELSE "listed"]
    /\ UNCHANGED <<leaseVars, saved, open, lapsed, cp, delivered>>

Acquire(r) ==
    /\ Goto(r, "listed", "leased")
    /\ SetLease(r)
    /\ UNCHANGED <<saved, open, lapsed, ready, cp, delivered>>

\* The lease is held elsewhere, or the store does not answer.
NotAcquired(r) ==
    /\ Goto(r, "listed", "waiting")
    /\ ready' = [ready EXCEPT ![r] = {}]
    /\ UNCHANGED <<leaseVars, saved, open, lapsed, cp, delivered>>

StartTerm(r) ==
    /\ Goto(r, "leased", "next")
    /\ TakeToken(r)
    /\ UNCHANGED <<saved, open, lapsed, ready, cp, delivered>>

TermLost(r) ==
    /\ Goto(r, "leased", "waiting")
    /\ LoseToken(r)
    /\ ready' = [ready EXCEPT ![r] = {}]
    /\ UNCHANGED <<saved, open, lapsed, cp, delivered>>

\* The next checkpoint of the for loop, with _resume_one's renew() and first fence check:
\* a fenced-out resumer (or one that cannot read the fence) skips it.
Take(r) ==
    /\ \E t \in ready[r] :
          /\ ready' = [ready EXCEPT ![r] = @ \ {t}]
          /\ \/ ~FencedOut(r) /\ Goto(r, "next", "invoking") /\ cp' = [cp EXCEPT ![r] = t]
             \/ Goto(r, "next", "next") /\ cp' = cp
    /\ UNCHANGED <<leaseVars, saved, open, lapsed, delivered>>

\* The provider answers; the fence has not been re-read yet.
Invoke(r) ==
    /\ Goto(r, "invoking", "answered")
    /\ UNCHANGED <<leaseVars, saved, open, lapsed, ready, cp, delivered>>

\* An error result leaves the checkpoint for a later retry.
InvokeFails(r) ==
    /\ "provider" \in Faults
    /\ Goto(r, "invoking", "next")
    /\ cp' = [cp EXCEPT ![r] = NoTask]
    /\ UNCHANGED <<leaseVars, saved, open, lapsed, ready, delivered>>

CheckFence(r) ==
    /\ ~FencedOut(r)
    /\ Goto(r, "answered", "delivering")
    /\ UNCHANGED <<leaseVars, saved, open, lapsed, ready, cp, delivered>>

\* Fenced out, or the fence cannot be read (fail closed).
Abort(r) ==
    /\ Goto(r, "answered", "next")
    /\ cp' = [cp EXCEPT ![r] = NoTask]
    /\ UNCHANGED <<leaseVars, saved, open, lapsed, ready, delivered>>

\* Mutant: the checkpoint is cleared before the answer is delivered.
DeleteFirst(r) ==
    /\ Goto(r, "delivering", "cleared")
    /\ open' = open \ {cp[r]}
    /\ UNCHANGED <<leaseVars, saved, lapsed, ready, cp, delivered>>

Deliver(r) ==
    /\ Goto(r, "delivering", "cleared")
    /\ delivered' = delivered \union {<<cp[r], token[r]>>}
    /\ UNCHANGED <<leaseVars, saved, open, lapsed, ready, cp>>

\* invoke_fn or deliver_fn raises, before or after the user got the answer, or stop()
\* cancels the task at any await of the term: the scan ends through its finally clause.
Raise(r) ==
    /\ "provider" \in Faults
    /\ pc[r] \in {"next", "invoking", "answered", "delivering", "cleared"}
    /\ pc' = [pc EXCEPT ![r] = "releasing"]
    /\ cp' = [cp EXCEPT ![r] = NoTask]
    /\ UNCHANGED <<leaseVars, saved, open, lapsed, ready, delivered>>

\* Mutant: after a delivery the same checkpoint is taken again.
ClearAndRepeat(r) ==
    /\ Goto(r, "cleared", "answered")
    /\ UNCHANGED <<leaseVars, saved, open, lapsed, ready, cp, delivered>>

Clear(r) ==
    /\ Goto(r, "cleared", "next")
    /\ open' = open \ {cp[r]}
    /\ cp' = [cp EXCEPT ![r] = NoTask]
    /\ UNCHANGED <<leaseVars, saved, lapsed, ready, delivered>>

\* delete() raises in the store client: it is logged and the checkpoint stays.
ClearFails(r) ==
    /\ "store" \in Faults
    /\ Goto(r, "cleared", "next")
    /\ cp' = [cp EXCEPT ![r] = NoTask]
    /\ UNCHANGED <<leaseVars, saved, open, lapsed, ready, delivered>>

EndOfList(r) ==
    /\ ready[r] = {}
    /\ Goto(r, "next", "releasing")
    /\ UNCHANGED <<leaseVars, saved, open, lapsed, ready, cp, delivered>>

EndTerm(r) ==
    /\ Goto(r, "releasing", "waiting")
    /\ Release(r) \/ ReleaseLost(r)
    /\ ready' = [ready EXCEPT ![r] = {}]
    /\ UNCHANGED <<saved, open, lapsed, cp, delivered>>

Crash(r) ==
    /\ pc[r] # "waiting"
    /\ pc' = [pc EXCEPT ![r] = "waiting"]
    /\ ready' = [ready EXCEPT ![r] = {}]
    /\ cp' = [cp EXCEPT ![r] = NoTask]
    /\ Forget(r)
    /\ UNCHANGED <<saved, open, lapsed, delivered>>

Expire == LeaseExpires /\ UNCHANGED <<saved, open, lapsed, resumerVars, delivered>>

Work(r) ==
    \/ List(r) \/ Acquire(r) \/ NotAcquired(r) \/ StartTerm(r) \/ TermLost(r) \/ Take(r)
    \/ Invoke(r) \/ InvokeFails(r) \/ CheckFence(r) \/ Abort(r) \/ Deliver(r) \/ Raise(r)
    \/ Clear(r) \/ ClearFails(r) \/ EndOfList(r) \/ EndTerm(r)

Next ==
    \/ \E t \in Tasks : Save(t) \/ Lapse(t)
    \/ \E r \in Clients : Work(r) \/ Crash(r)
    \/ Expire

Spec == Init /\ [][Next]_vars

\* The scan loop goes on for ever, leases run out, and an acquire that is tried again and
\* again gets through to the store.  No other success is promised, and no crash either.
FairSpec ==
    /\ Spec
    /\ WF_vars(Expire)
    /\ \A r \in Clients : WF_vars(Work(r))
    /\ SF_vars(\E r \in Clients : Acquire(r))
    /\ SF_vars(\E r \in Clients : StartTerm(r))

-----------------------------------------------------------------------------
(* Properties                                                              *)

States == {"waiting", "listed", "leased", "next", "invoking", "answered", "delivering",
           "cleared", "releasing"}

\* The type invariant of the store and the resumers.
TypeOK ==
    /\ LeaseTypeOK
    /\ saved \subseteq Tasks /\ open \subseteq saved /\ lapsed \subseteq saved
    /\ pc \in [Clients -> States]
    /\ ready \in [Clients -> SUBSET Tasks]
    /\ cp \in [Clients -> Tasks \union {NoTask}]
    /\ delivered \subseteq Tasks \X (1 .. MaxTerms)

InTerm(r) ==
    pc[r] \in {"next", "invoking", "answered", "delivering", "cleared", "releasing"}

\* The split-brain guard: whatever leases expire, are leaked or are released by a
\* namesake, at most one resumer at a time can pass a fence check.
OneWriter ==
    \A r, s \in Clients :
        InTerm(r) /\ InTerm(s) /\ ~FencedOut(r) /\ ~FencedOut(s) => r = s

\* A term delivers an answer at most once, even when clearing its checkpoint fails.
OncePerTerm ==
    [][\A r \in Clients : Deliver(r) => <<cp[r], token[r]>> \notin delivered]_vars

Answered(t) == \E k \in 1 .. MaxTerms : <<t, k>> \in delivered

\* Within its day in the store a checkpoint leaves only after its answer was delivered:
\* no crash, expiry, error result or store failure loses an interrupted task.
NoTaskLost == \A t \in saved : t \in open \/ t \in lapsed \/ Answered(t)

\* No leaked lease, dead holder or failed term blocks the resumers for good: as long as a
\* saved task is unanswered, new terms begin (up to the bound on terms).
KeepsTrying ==
    \A t \in Tasks : t \in saved ~> (Answered(t) \/ t \in lapsed \/ fence = MaxTerms)

\* The module's doc: "the lease ensures exactly one resumer acts; the fencing token is
\* re-checked right before delivery, so a resumer that lost the lease mid-resume aborts
\* instead of double-delivering".  A resumer that listed a checkpoint before another one
\* cleared it, and acquires the lease afterwards, delivers it again; nothing need fail.
NoDoubleDelivery ==
    \A d, e \in delivered : d[1] = e[1] => d = e
=============================================================================
