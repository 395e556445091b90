------------------------- MODULE CouncilResumerProofs -------------------------
(***************************************************************************)
(* For any number of resumers, tasks and terms, whatever holder ids they   *)
(* use and whatever fails: at most one resumer passes the fence check, a   *)
(* term delivers a task once, and no task is lost within its day.          *)
(***************************************************************************)
EXTENDS CouncilResumer, TLAPS

\* Tokens come from the counter, and two terms never share one: what makes the fence
\* check exclusive although the lease itself is not.
TokensFenced ==
    /\ \A r \in Clients : token[r] <= fence
    /\ \A r \in Clients : InTerm(r) => token[r] >= 1
    /\ \A r, s \in Clients : InTerm(r) /\ InTerm(s) /\ token[r] = token[s] => r = s

Carrying(r) == pc[r] \in {"invoking", "answered", "delivering"}

\* What a term still has to do it has not delivered yet.
TermsFresh ==
    /\ \A d \in delivered : d[2] <= fence
    /\ \A r \in Clients : InTerm(r) =>
          \A t \in ready[r] : <<t, token[r]>> \notin delivered
    /\ \A r \in Clients : Carrying(r) =>
          /\ cp[r] \in Tasks
          /\ cp[r] \notin ready[r]
          /\ <<cp[r], token[r]>> \notin delivered

\* A checkpoint that is about to be cleared was delivered in this term.
ClearedDelivered ==
    \A r \in Clients : pc[r] = "cleared" => cp[r] \in Tasks /\ <<cp[r], token[r]>> \in delivered

IInv == TypeOK /\ TokensFenced /\ TermsFresh /\ ClearedDelivered /\ NoTaskLost

LEMMA Initially == Init => IInv
  BY LeaseAssumption
     DEF Init, LeaseInit, IInv, TypeOK, LeaseTypeOK, States, TokensFenced, TermsFresh,
         ClearedDelivered, NoTaskLost, InTerm, Carrying

LEMMA TypePreserved == TypeOK /\ ClearedDelivered /\ TokensFenced /\ TermsFresh
                         /\ [Next]_vars => TypeOK'
<1> SUFFICES ASSUME TypeOK, ClearedDelivered, TokensFenced, TermsFresh, [Next]_vars
             PROVE  TypeOK'
  OBVIOUS
<1> USE LeaseAssumption DEF TypeOK, LeaseTypeOK, States, Goto
<1>1. ASSUME NEW t \in Tasks, Save(t) PROVE TypeOK'
  BY <1>1 DEF Save, leaseVars, resumerVars
<1>2. ASSUME NEW t \in Tasks, Lapse(t) PROVE TypeOK'
  BY <1>2 DEF Lapse, leaseVars, resumerVars
<1>3. ASSUME NEW r \in Clients, Work(r) PROVE TypeOK'
  <2>1. CASE List(r)
    BY <2>1 DEF List, leaseVars
  <2>2. CASE Acquire(r)
    BY <2>2 DEF Acquire, SetLease
  <2>3. CASE NotAcquired(r)
    BY <2>3 DEF NotAcquired, leaseVars
  <2>4. CASE StartTerm(r)
    BY <2>4 DEF StartTerm, TakeToken
  <2>5. CASE TermLost(r)
    BY <2>5 DEF TermLost, LoseToken
  <2>6. CASE Take(r)
    <3> SUFFICES ASSUME NEW t \in ready[r],
                        ready' = [ready EXCEPT ![r] = @ \ {t}],
                        pc' = [pc EXCEPT ![r] = "invoking"] \/ pc' = [pc EXCEPT ![r] = "next"],
                        cp' = [cp EXCEPT ![r] = t] \/ cp' = cp
                 PROVE  TypeOK'
      BY <2>6 DEF Take
    <3> QED
      BY <2>6 DEF Take, leaseVars
  <2>7. CASE Invoke(r) \/ CheckFence(r) \/ EndOfList(r)
    BY <2>7 DEF Invoke, CheckFence, EndOfList, leaseVars
  <2>8. CASE InvokeFails(r) \/ Abort(r) \/ ClearFails(r) \/ Raise(r)
    BY <2>8 DEF InvokeFails, Abort, ClearFails, Raise, leaseVars
  <2>9. CASE Deliver(r)
    <3>1. cp[r] \in Tasks
      BY <2>9 DEF Deliver, TermsFresh, Carrying
    <3>2. token[r] \in 1 .. MaxTerms
      <4>1. token[r] >= 1
        BY <2>9 DEF Deliver, TokensFenced, InTerm
      <4> QED
        BY <4>1
    <3>3. delivered' \subseteq Tasks \X (1 .. MaxTerms)
      BY <2>9, <3>1, <3>2 DEF Deliver
    <3> QED
      BY <2>9, <3>3 DEF Deliver, leaseVars
  <2>10. CASE Clear(r)
    BY <2>10 DEF Clear, leaseVars
  <2>11. CASE EndTerm(r)
    BY <2>11 DEF EndTerm, Release, ReleaseLost
  <2> QED
    BY <1>3, <2>1, <2>2, <2>3, <2>4, <2>5, <2>6, <2>7, <2>8, <2>9, <2>10, <2>11 DEF Work
<1>4. ASSUME NEW r \in Clients, Crash(r) PROVE TypeOK'
  BY <1>4 DEF Crash, Forget
<1>5. ASSUME Expire PROVE TypeOK'
  BY <1>5 DEF Expire, LeaseExpires, resumerVars
<1>6. CASE UNCHANGED vars
  BY <1>6 DEF vars, leaseVars, resumerVars
<1> QED
  BY <1>1, <1>2, <1>3, <1>4, <1>5, <1>6 DEF Next

\* Only StartTerm issues a token, and it issues one no term has.
LEMMA TokensPreserved ==
  ASSUME TypeOK, TokensFenced, [Next]_vars
  PROVE  TokensFenced'
<1> USE LeaseAssumption DEF TypeOK, LeaseTypeOK, TokensFenced, InTerm, Goto
<1>1. ASSUME NEW t \in Tasks, Save(t) \/ Lapse(t) PROVE TokensFenced'
  BY <1>1 DEF Save, Lapse, leaseVars, resumerVars
<1>2. ASSUME NEW r \in Clients, Work(r) PROVE TokensFenced'
  <2>1. CASE List(r)
    BY <2>1 DEF List, leaseVars
  <2>2. CASE Acquire(r) \/ NotAcquired(r)
    BY <2>2 DEF Acquire, SetLease, NotAcquired, leaseVars
  <2>3. CASE StartTerm(r)
    BY <2>3 DEF StartTerm, TakeToken
  <2>4. CASE TermLost(r)
    BY <2>4 DEF TermLost, LoseToken
  <2>5. CASE Take(r)
    BY <2>5 DEF Take, leaseVars
  <2>6. CASE Invoke(r) \/ InvokeFails(r) \/ CheckFence(r) \/ Abort(r)
    BY <2>6 DEF Invoke, InvokeFails, CheckFence, Abort, leaseVars
  <2>7. CASE Deliver(r) \/ Raise(r) \/ Clear(r) \/ ClearFails(r) \/ EndOfList(r)
    BY <2>7 DEF Deliver, Raise, Clear, ClearFails, EndOfList, leaseVars
  <2>8. CASE EndTerm(r)
    BY <2>8 DEF EndTerm, Release, ReleaseLost
  <2> QED
    BY <1>2, <2>1, <2>2, <2>3, <2>4, <2>5, <2>6, <2>7, <2>8 DEF Work
<1>3. ASSUME NEW r \in Clients, Crash(r) PROVE TokensFenced'
  BY <1>3 DEF Crash, Forget
<1>4. ASSUME Expire PROVE TokensFenced'
  BY <1>4 DEF Expire, LeaseExpires, resumerVars
<1>5. CASE UNCHANGED vars
  BY <1>5 DEF vars, leaseVars, resumerVars
<1> QED
  BY <1>1, <1>2, <1>3, <1>4, <1>5 DEF Next

\* The deliveries of a term: what it still has to do it has not delivered, because its
\* token is its own and each checkpoint of its list is taken once.
LEMMA DeliveriesPreserved ==
  ASSUME TypeOK, TokensFenced, TermsFresh, ClearedDelivered, [Next]_vars
  PROVE  TermsFresh' /\ ClearedDelivered'
<1> USE LeaseAssumption
    DEF TypeOK, LeaseTypeOK, TermsFresh, ClearedDelivered, InTerm, Carrying, Goto
<1> DEFINE Both == TermsFresh /\ ClearedDelivered
<1>1. ASSUME NEW t \in Tasks, Save(t) \/ Lapse(t) PROVE Both'
  BY <1>1 DEF Save, Lapse, leaseVars, resumerVars
<1>2. ASSUME NEW r \in Clients, Work(r) PROVE Both'
  <2>1. CASE List(r)
    BY <2>1 DEF List, leaseVars
  <2>2. CASE Acquire(r) \/ NotAcquired(r)
    BY <2>2 DEF Acquire, SetLease, NotAcquired, leaseVars
  <2>3. CASE StartTerm(r)
    BY <2>3 DEF StartTerm, TakeToken
  <2>4. CASE TermLost(r)
    BY <2>4 DEF TermLost, LoseToken
  <2>5. CASE Take(r)
    BY <2>5 DEF Take, leaseVars
  <2>6. CASE Invoke(r) \/ InvokeFails(r) \/ CheckFence(r) \/ Abort(r)
    BY <2>6 DEF Invoke, InvokeFails, CheckFence, Abort, leaseVars
  <2>7. CASE Deliver(r)
    <3>1. \A s \in Clients : InTerm(s) /\ s # r => token[s] # token[r]
      BY <2>7 DEF Deliver, TokensFenced
    <3>2. token[r] <= fence
      BY DEF TokensFenced
    <3> QED
      BY <2>7, <3>1, <3>2 DEF Deliver, leaseVars
  <2>8. CASE Raise(r) \/ Clear(r) \/ ClearFails(r) \/ EndOfList(r)
    BY <2>8 DEF Raise, Clear, ClearFails, EndOfList, leaseVars
  <2>9. CASE EndTerm(r)
    BY <2>9 DEF EndTerm, Release, ReleaseLost
  <2> QED
    BY <1>2, <2>1, <2>2, <2>3, <2>4, <2>5, <2>6, <2>7, <2>8, <2>9 DEF Work
<1>3. ASSUME NEW r \in Clients, Crash(r) PROVE Both'
  BY <1>3 DEF Crash, Forget
<1>4. ASSUME Expire PROVE Both'
  BY <1>4 DEF Expire, LeaseExpires, resumerVars
<1>5. CASE UNCHANGED vars
  BY <1>5 DEF vars, leaseVars, resumerVars
<1> QED
  BY <1>1, <1>2, <1>3, <1>4, <1>5 DEF Next

\* A checkpoint leaves the store by Clear, after its delivery, or by its time to live.
LEMMA TasksPreserved ==
  ASSUME TypeOK, TokensFenced, ClearedDelivered, NoTaskLost, [Next]_vars
  PROVE  NoTaskLost'
<1> USE LeaseAssumption DEF NoTaskLost, Answered
<1>1. ASSUME NEW t \in Tasks, Save(t) \/ Lapse(t) PROVE NoTaskLost'
  BY <1>1 DEF Save, Lapse
<1>2. ASSUME NEW r \in Clients, Clear(r) PROVE NoTaskLost'
  <2>1. Answered(cp[r])
    <3>1. <<cp[r], token[r]>> \in delivered
      BY <1>2 DEF Clear, Goto, ClearedDelivered
    <3>2. token[r] \in 1 .. MaxTerms
      BY <1>2 DEF Clear, Goto, TokensFenced, InTerm, TypeOK, LeaseTypeOK
    <3> QED
      BY <3>1, <3>2
  <2> QED
    BY <1>2, <2>1 DEF Clear
<1>3. ASSUME NEW r \in Clients, Deliver(r) PROVE NoTaskLost'
  BY <1>3 DEF Deliver
<1>4. CASE UNCHANGED <<saved, open, lapsed, delivered>>
  BY <1>4
<1> QED
  <2>1. ASSUME NEW r \in Clients, Work(r), ~Clear(r), ~Deliver(r)
        PROVE  UNCHANGED <<saved, open, lapsed, delivered>>
    BY <2>1 DEF Work, List, Acquire, NotAcquired, StartTerm, TermLost, Take, Invoke,
                InvokeFails, CheckFence, Abort, Raise, ClearFails, EndOfList, EndTerm
  <2> QED
    BY <1>1, <1>2, <1>3, <1>4, <2>1 DEF Next, Crash, Expire, vars

\* Tokens are fenced, terms are fresh and what is cleared was delivered, at every moment of every
\* behaviour: what the theorems below rest on.
THEOREM Inductive == Spec => []IInv
<1>1. IInv /\ [Next]_vars => IInv'
  BY TypePreserved, TokensPreserved, DeliveriesPreserved, TasksPreserved DEF IInv
<1> QED
  BY Initially, <1>1, PTL DEF Spec

\* The type invariant, for every number of resumers, tasks and terms.
THEOREM TypeCorrect == Spec => []TypeOK
<1>1. IInv => TypeOK
  BY DEF IInv
<1> QED
  BY Inductive, <1>1, PTL

\* Split brain is excluded at the fence: is_fenced_out is true for all resumers but one,
\* although the lease may expire, leak or be released by a namesake.
THEOREM FenceIsExclusive == Spec => []OneWriter
<1>1. IInv => OneWriter
  BY LeaseAssumption DEF IInv, TypeOK, LeaseTypeOK, TokensFenced, OneWriter, FencedOut, InTerm
<1> QED
  BY Inductive, <1>1, PTL

\* An interrupted task stays in the store, within its day, until its answer is delivered.
THEOREM TasksSurvive == Spec => []NoTaskLost
<1>1. IInv => NoTaskLost
  BY DEF IInv
<1> QED
  BY Inductive, <1>1, PTL

\* One term never delivers the same task twice.
THEOREM DeliversOncePerTerm == Spec => OncePerTerm
<1>1. IInv /\ [Next]_vars
        => [\A r \in Clients : Deliver(r) => <<cp[r], token[r]>> \notin delivered]_vars
  BY DEF IInv, TermsFresh, Carrying, Deliver, Goto
<1> QED
  BY Inductive, <1>1, PTL DEF Spec, OncePerTerm
=============================================================================
