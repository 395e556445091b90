----------------------------- MODULE ServiceProofs -----------------------------
(***************************************************************************)
(* For any number of watchers, and wherever the engine stops: no wake      *)
(* event is returned twice, and none is lost without a cause.  For any     *)
(* number of senders and protocols: a breaker is open exactly at the       *)
(* threshold, and no protocol that is up is missed.                        *)
(*                                                                         *)
(* The first invariant says where an event can be: of a written one the    *)
(* two files, the batch and what was heard hold no second copy that would  *)
(* be returned, and a watcher whose file was renamed under it is exposed.  *)
(***************************************************************************)
EXTENDS Service, FilterProofs, TLAPS

Readers == {"no", "inplace", "renamed", "read"}

TriggerTypeOK ==
    /\ lines \in [Places -> SUBSET Events]
    /\ handle \in [Events -> Places \cup {"none", "gone"}]
    /\ reader \in Readers

\* Only what was written is anywhere; a watcher writes once, and a file that was taken away
\* under a watcher's hands counts as exposed.
WritersKnown ==
    /\ \A f \in Places : lines[f] \subseteq written
    /\ batch \subseteq written /\ heard \subseteq written
    /\ \A e \in Events : handle[e] # "none" => e \notin written
    /\ \A e \in Events : handle[e] \in {"reading", "gone"} => e \in exposed

\* What is still to be read was not heard before, nor will another file return it.
OneCopy ==
    /\ lines["trigger"] \cap lines["reading"] = {}
    /\ lines["trigger"] \cap heard = {}
    /\ batch \cap heard = {}
    /\ reader \in {"no", "renamed"} => batch = {}
    /\ reader = "renamed" => lines["reading"] \cap heard = {}
    /\ reader = "read" => batch \cap lines["trigger"] = {}

TriggerInv == TriggerTypeOK /\ WritersKnown /\ OneCopy /\ WakeHeard

LEMMA WatchersKeep ==
  ASSUME TriggerInv, NEW e \in Events, OpenFile(e) \/ AppendLine(e)
  PROVE  TriggerInv'
<1> USE DEF TriggerInv, TriggerTypeOK, WritersKnown, OneCopy, WakeHeard, Places
<1>1. CASE OpenFile(e)
  BY <1>1 DEF OpenFile
<1>2. CASE AppendLine(e)
  <2>1. e \notin written
    BY <1>2 DEF AppendLine
  <2>2. \A f \in Places : lines'[f] = IF f = handle[e] THEN lines[f] \cup {e} ELSE lines[f]
    BY <1>2 DEF AppendLine
  <2>3. TriggerTypeOK'
    BY <1>2 DEF AppendLine
  <2>4. WritersKnown'
    BY <1>2, <2>1, <2>2 DEF AppendLine
  <2>5. OneCopy'
    BY <1>2, <2>1, <2>2 DEF AppendLine
  <2>6. WakeHeard'
    BY <1>2, <2>2 DEF AppendLine
  <2> QED
    BY <2>3, <2>4, <2>5, <2>6
<1> QED
  BY <1>1, <1>2

\* The rename empties the trigger path and replaces what was left to be read.
LEMMA ReadBeginsKeeps ==
  ASSUME TriggerInv, BeginRead \/ BeginReadInPlace
  PROVE  TriggerInv'
<1> USE DEF TriggerInv, TriggerTypeOK, WritersKnown, OneCopy, WakeHeard, Places, Readers
<1>1. CASE BeginRead
  <2>1. lines'["trigger"] = {} /\ lines'["reading"] = lines["trigger"]
    BY <1>1 DEF BeginRead, Claim
  <2>2. TriggerTypeOK'
    BY <1>1 DEF BeginRead, Claim
  <2>3. WritersKnown'
    BY <1>1, <2>1 DEF BeginRead, Claim
  <2>4. OneCopy' /\ WakeHeard'
    BY <1>1, <2>1 DEF BeginRead
  <2> QED
    BY <2>2, <2>3, <2>4
<1>2. CASE BeginReadInPlace
  BY <1>2 DEF BeginReadInPlace
<1> QED
  BY <1>1, <1>2

LEMMA ReadGoesOnKeeps ==
  ASSUME TriggerInv, Read \/ ReadRaises \/ ReaderDies
  PROVE  TriggerInv'
  BY DEF TriggerInv, TriggerTypeOK, WritersKnown, OneCopy, WakeHeard, Places, Readers,
     Read, ReadRaises, ReaderDies

LEMMA ReadEndsKeeps == ASSUME TriggerInv, EndRead PROVE TriggerInv'
<1> USE DEF TriggerInv, TriggerTypeOK, WritersKnown, OneCopy, WakeHeard, Places, Readers, Returned
<1>1. again' = {} /\ heard' = heard \cup batch /\ batch' = {} /\ reader' = "no"
  BY DEF EndRead
<1>2. CASE reader = "read"
  <2>1. lines'["reading"] = {} /\ lines'["trigger"] = lines["trigger"]
    BY <1>2 DEF EndRead
  <2>2. \A e \in Events : handle'[e] = IF handle[e] = "reading" THEN "gone" ELSE handle[e]
    BY <1>2 DEF EndRead, Renamed
  <2>3. TriggerTypeOK'
    BY <1>1, <1>2 DEF EndRead, Renamed
  <2>4. WritersKnown' /\ OneCopy' /\ WakeHeard'
    BY <1>1, <1>2, <2>1, <2>2 DEF EndRead
  <2> QED
    BY <2>3, <2>4
<1>3. CASE reader = "inplace"
  <2>1. lines'["trigger"] = {} /\ lines'["reading"] = lines["reading"]
    BY <1>3 DEF EndRead
  <2>2. TriggerTypeOK'
    BY <1>1, <1>3 DEF EndRead
  <2>3. WritersKnown' /\ OneCopy' /\ WakeHeard'
    BY <1>1, <1>3, <2>1 DEF EndRead
  <2> QED
    BY <2>2, <2>3
<1> QED
  BY <1>2, <1>3 DEF EndRead

LEMMA TriggerUntouched == ASSUME TriggerInv, UNCHANGED triggerVars PROVE TriggerInv'
  BY DEF TriggerInv, TriggerTypeOK, WritersKnown, OneCopy, WakeHeard, triggerVars

LEMMA EngineKeepsTrigger == ASSUME TriggerInv, EngineNext PROVE TriggerInv'
<1>1. CASE StartRead
  BY <1>1, ReadBeginsKeeps DEF StartRead
<1>2. CASE KeepReading \/ ReadFails \/ EngineDies
  BY <1>2, ReadGoesOnKeeps DEF KeepReading, ReadFails, EngineDies
<1>3. CASE PollWakes \/ PollWaits \/ PollTimesOut \/ TickEnds
  BY <1>3, ReadEndsKeeps DEF PollWakes, PollWaits, PollTimesOut, TickEnds
<1>4. CASE \/ StartEngine \/ LoopEnds \/ EnterStandby \/ EnterActive \/ Take \/ Process
           \/ Deliver \/ PollAgain \/ SleepEnds \/ Stop \/ Cancel
  BY <1>4, TriggerUntouched DEF StartEngine, LoopEnds, EnterStandby, EnterActive, Take, Process,
     Deliver, PollAgain, SleepEnds, Stop, Cancel
<1>5. ASSUME NEW m \in Messages, Enqueue(m) PROVE TriggerInv'
  BY <1>5, TriggerUntouched DEF Enqueue
<1>6. ASSUME NEW e \in Events, OpenFile(e) \/ AppendLine(e) PROVE TriggerInv'
  BY <1>6, WatchersKeep
<1> QED
  BY <1>1, <1>2, <1>3, <1>4, <1>5, <1>6 DEF EngineNext, Loop

LEMMA ServiceKeepsTrigger == TriggerInv /\ [ServiceNext]_serviceVars => TriggerInv'
<1> SUFFICES ASSUME TriggerInv, [ServiceNext]_serviceVars PROVE TriggerInv'
  OBVIOUS
<1>1. EngineNext \/ UNCHANGED triggerVars
  BY DEF ServiceNext, EngineStep, NotifierStep, WeightStep, GpuStep, ProcessStep, serviceVars,
     engineVars
<1> QED
  BY <1>1, EngineKeepsTrigger, TriggerUntouched

\* Rename before read (watchers.py, read_events): whatever watchers append, and wherever the
\* engine is stopped or dies, an event is returned at most once and lost only for a cause.
THEOREM WakesAreHeard == ServiceSpec => []WakeHeard
<1>1. ServiceInit => TriggerInv
  BY DEF ServiceInit, EngineInit, TriggerInit, TriggerInv, TriggerTypeOK, WritersKnown, OneCopy,
     WakeHeard, Places, Readers
<1>2. TriggerInv => WakeHeard
  BY DEF TriggerInv
<1> QED
  BY <1>1, <1>2, ServiceKeepsTrigger, PTL DEF ServiceSpec

--------------------------------------------------------------------------------
(* The breakers: their type is all the invariant needs, since every        *)
(* transaction on the file keeps it whoever runs it, and when.             *)

BreakerInv == BreakerTypeOK /\ OpenAtThreshold

LEMMA FailureKeeps ==
  ASSUME BreakerInv, NEW p \in Protos, RecordFailure(p)
  PROVE  BreakerInv'
<1> USE DEF BreakerInv, BreakerTypeOK, OpenAtThreshold, RecordFailure
<1>1. failures' \in [Protos -> 0 .. Threshold]
  BY DEF Threshold
<1>2. opened' \in [Protos -> BOOLEAN] /\ cooled' \in [Protos -> BOOLEAN]
  OBVIOUS
<1>3. opened'[p] <=> failures'[p] = Threshold
  <2>1. failures'[p] >= Threshold <=> failures'[p] = Threshold
    BY <1>1 DEF Threshold
  <2>2. opened[p] => failures'[p] = Threshold
    BY DEF Threshold
  <2>3. opened'[p] <=> opened[p] \/ failures'[p] >= Threshold
    OBVIOUS
  <2> QED
    BY <2>1, <2>2, <2>3
<1>4. \A q \in Protos \ {p} : opened'[q] <=> failures'[q] = Threshold
  OBVIOUS
<1> QED
  BY <1>1, <1>2, <1>3, <1>4

LEMMA SuccessKeeps ==
  ASSUME BreakerInv, NEW p \in Protos, RecordSuccess(p)
  PROVE  BreakerInv'
  BY DEF BreakerInv, BreakerTypeOK, OpenAtThreshold, RecordSuccess, Threshold

\* A record is made for some protocol; which one, and whether it is configured, does not
\* matter to the other breakers.
LEMMA BreakerStep == BreakerInv /\ [NotifierNext]_notifierVars => BreakerInv'
<1> SUFFICES ASSUME BreakerInv, [NotifierNext]_notifierVars PROVE BreakerInv'
  OBVIOUS
<1>1. ASSUME NEW s \in Senders, NEW p \in Primaries, Start(s, p) PROVE BreakerInv'
  BY <1>1 DEF Start, breakerVars, BreakerInv, BreakerTypeOK, OpenAtThreshold
<1>2. ASSUME NEW s \in Senders, Send(s) PROVE BreakerInv'
  <2>1. CASE Skip(s) \/ Try(s) \/ SendOne(s) \/ NotDelivered(s)
    BY <2>1 DEF Skip, Try, SendOne, NotDelivered, breakerVars, BreakerInv, BreakerTypeOK,
                OpenAtThreshold
  <2>2. CASE Delivered(s)
    <3>1. CASE Proto(s) \in Protos
      BY <2>2, <3>1, SuccessKeeps DEF Delivered
    <3>2. CASE Proto(s) \notin Protos
      BY <2>2, <3>2 DEF Delivered, RecordSuccess, BreakerInv, BreakerTypeOK, OpenAtThreshold
    <3> QED
      BY <3>1, <3>2
  <2>3. CASE Failed(s)
    <3>1. CASE Proto(s) \in Protos
      BY <2>3, <3>1, FailureKeeps DEF Failed
    <3>2. CASE Proto(s) \notin Protos
      BY <2>3, <3>2 DEF Failed, RecordFailure, BreakerInv, BreakerTypeOK, OpenAtThreshold
    <3> QED
      BY <3>1, <3>2
  <2> QED
    BY <1>2, <2>1, <2>2, <2>3 DEF Send
<1>3. ASSUME NEW s \in Senders, Die(s) PROVE BreakerInv'
  BY <1>3 DEF Die, breakerVars, BreakerInv, BreakerTypeOK, OpenAtThreshold
<1>4. ASSUME NEW p \in Protos, GoesUpOrDown(p) PROVE BreakerInv'
  BY <1>4 DEF GoesUpOrDown, breakerVars, BreakerInv, BreakerTypeOK, OpenAtThreshold
<1>5. ASSUME NEW p \in Protos, Cools(p) PROVE BreakerInv'
  BY <1>5 DEF Cools, CooldownElapses, BreakerInv, BreakerTypeOK, OpenAtThreshold
<1>6. CASE UNCHANGED notifierVars
  BY <1>6 DEF notifierVars, breakerVars, BreakerInv, BreakerTypeOK, OpenAtThreshold
<1> QED
  BY <1>1, <1>2, <1>3, <1>4, <1>5, <1>6 DEF NotifierNext

\* Whatever processes send, die and interleave, a breaker is open exactly after THRESHOLD
\* failures without a success between them (record_failure, record_success).
THEOREM BreakersAgree == ServiceSpec => []OpenAtThreshold
<1>1. ServiceInit => BreakerInv
  BY DEF ServiceInit, NotifierInit, BreakerInit, BreakerInv, BreakerTypeOK, OpenAtThreshold, Threshold
<1>2. BreakerInv /\ [ServiceNext]_serviceVars => BreakerInv'
  <2> SUFFICES ASSUME BreakerInv, [ServiceNext]_serviceVars PROVE BreakerInv'
    OBVIOUS
  <2>1. [NotifierNext]_notifierVars
    BY DEF ServiceNext, serviceVars, EngineStep, NotifierStep, WeightStep, GpuStep, ProcessStep
  <2> QED
    BY <2>1, BreakerStep
<1>3. BreakerInv => OpenAtThreshold
  BY DEF BreakerInv
<1> QED
  BY <1>1, <1>2, <1>3, PTL DEF ServiceSpec

--------------------------------------------------------------------------------
(* Sending: a protocol that is up, its breaker closed, since a send began  *)
(* is still before the sender, and is not the one that just failed.        *)

Stages == {"idle", "looking", "sending", "sent", "failed"}

SendTypeOK ==
    /\ todo \in [Senders -> Seq(Protos)] /\ place \in [Senders -> Stages]
    /\ good \in [Senders -> SUBSET Protos]

Ahead(s) ==
    /\ place[s] \in {"looking", "sending", "failed"} => good[s] \subseteq ToSet(todo[s])
    /\ place[s] \in {"sending", "failed"} => todo[s] # <<>>
    /\ place[s] = "failed" => Proto(s) \notin good[s]

SendInv == SendTypeOK /\ \A s \in Senders : Ahead(s)

LEMMA ChainType == ASSUME NEW p \in Primaries PROVE Chain(p) \in Seq(Protos)
<1>1. Filter(Order, Protos \ {p}) \in Seq(Protos)
  BY NotifierAssumption, FilterMembers
<1>2. <<p>> \o Filter(Order, Protos \ {p}) \in Seq(Protos)
  BY <1>1, NotifierAssumption
<1> QED
  BY <1>2, FilterMembers DEF Chain

\* Who is not concerned by a step has as much ahead as before.
LEMMA OthersAhead ==
  ASSUME SendInv, NEW r \in Senders, place'[r] = place[r], todo'[r] = todo[r],
         good'[r] \subseteq good[r]
  PROVE  Ahead(r)'
  BY DEF SendInv, Ahead, Proto

LEMMA SendStep == SendInv /\ [NotifierNext]_notifierVars => SendInv'
<1> SUFFICES ASSUME SendInv, [NotifierNext]_notifierVars PROVE SendInv'
  OBVIOUS
<1> USE DEF SendInv, SendTypeOK
<1>1. ASSUME NEW s \in Senders, NEW p \in Primaries, Start(s, p) PROVE SendInv'
  <2>1. Chain(p) \in Seq(Protos) /\ ToSet(Chain(p)) \subseteq Protos
    BY ChainType DEF ToSet
  <2>2. SendTypeOK'
    <3>1. todo' \in [Senders -> Seq(Protos)] /\ place' \in [Senders -> Stages]
      BY <1>1, <2>1 DEF Start, Moves, Stages
    <3>2. good' \in [Senders -> SUBSET Protos]
      BY <1>1, <2>1 DEF Start, StillGood
    <3> QED
      BY <3>1, <3>2
  <2>3. Ahead(s)'
    BY <1>1 DEF Start, Moves, StillGood, Ahead
  <2>4. ASSUME NEW r \in Senders \ {s} PROVE Ahead(r)'
    <3>1. place'[r] = place[r] /\ todo'[r] = todo[r] /\ good'[r] \subseteq good[r]
      BY <1>1 DEF Start, Moves, StillGood
    <3> QED
      BY <3>1, OthersAhead
  <2> QED
    BY <2>2, <2>3, <2>4
<1>2. Watch => /\ good' \in [Senders -> SUBSET Protos]
               /\ \A r \in Senders : /\ good'[r] \subseteq good[r]
                                     /\ \A p \in good'[r] : works'[p] /\ ~opened'[p]
  BY DEF Watch, StillGood
<1>3. ASSUME NEW s \in Senders, Send(s) PROVE SendInv'
  <2>1. Watch
    BY <1>3 DEF Send, Skip, Try, SendOne, Delivered, Failed, NotDelivered
  <2>2. todo[s] # <<>> => /\ Tail(todo[s]) \in Seq(Protos)
                          /\ ToSet(todo[s]) \subseteq ToSet(Tail(todo[s])) \cup {Proto(s)}
    BY TailMembers DEF Proto
  <2>3. todo' \in [Senders -> Seq(Protos)] /\ place' \in [Senders -> Stages]
    <3>1. CASE Skip(s) \/ Failed(s)
      BY <3>1, <2>2 DEF Skip, Failed, Moves, Stages, Ahead
    <3>2. CASE Try(s) \/ SendOne(s) \/ NotDelivered(s)
      BY <3>2 DEF Try, SendOne, NotDelivered, Moves, Stages
    <3>3. CASE Delivered(s)
      <4>1. <<>> \in Seq(Protos)
        OBVIOUS
      <4> QED
        BY <3>3, <4>1 DEF Delivered, Moves, Stages
    <3> QED
      BY <1>3, <3>1, <3>2, <3>3 DEF Send
  <2>4. ASSUME NEW r \in Senders \ {s} PROVE Ahead(r)'
    <3>1. place'[r] = place[r] /\ todo'[r] = todo[r]
      BY <1>3 DEF Send, Skip, Try, SendOne, Delivered, Failed, NotDelivered, Moves
    <3> QED
      BY <1>2, <2>1, <3>1, OthersAhead
  <2>5. Ahead(s)'
    <3>1. CASE Skip(s)
      <4>1. opened[Proto(s)] /\ opened' = opened
        BY <3>1 DEF Skip, Allow, breakerVars
      <4>2. Proto(s) \notin good'[s]
        BY <1>2, <2>1, <4>1
      <4>3. todo'[s] = Tail(todo[s]) /\ place'[s] = "looking" /\ place[s] = "looking" /\ todo[s] # <<>>
        BY <3>1 DEF Skip, Moves
      <4> QED
        BY <1>2, <2>1, <2>2, <4>2, <4>3 DEF Ahead
    <3>2. CASE Try(s)
      BY <1>2, <2>1, <3>2 DEF Try, Moves, Ahead
    <3>3. CASE SendOne(s)
      <4>1. works' = works /\ todo' = todo /\ place[s] = "sending"
        BY <3>3 DEF SendOne, Moves
      <4>2. place'[s] = IF works[Proto(s)] THEN "sent" ELSE "failed"
        BY <3>3 DEF SendOne, Moves
      <4>3. place'[s] = "failed" => Proto(s) \notin good'[s]
        BY <1>2, <2>1, <4>1, <4>2
      <4> QED
        BY <1>2, <2>1, <4>1, <4>2, <4>3 DEF Ahead, Proto
    <3>4. CASE Failed(s)
      <4>1. todo'[s] = Tail(todo[s]) /\ place'[s] = "looking" /\ place[s] = "failed"
        BY <3>4 DEF Failed, Moves
      <4> QED
        BY <1>2, <2>1, <2>2, <4>1 DEF Ahead
    <3>5. CASE Delivered(s) \/ NotDelivered(s)
      BY <3>5 DEF Delivered, NotDelivered, Moves, Ahead
    <3> QED
      BY <1>3, <3>1, <3>2, <3>3, <3>4, <3>5 DEF Send
  <2> QED
    BY <1>2, <2>1, <2>3, <2>4, <2>5
<1>4. ASSUME NEW s \in Senders, Die(s) PROVE SendInv'
  <2>1. Watch
    BY <1>4 DEF Die
  <2>2. SendTypeOK'
    BY <1>2, <1>4, <2>1 DEF Die, Stages
  <2>3. Ahead(s)'
    BY <1>4 DEF Die, Ahead
  <2>4. ASSUME NEW r \in Senders \ {s} PROVE Ahead(r)'
    <3>1. place'[r] = place[r] /\ todo'[r] = todo[r]
      BY <1>4 DEF Die
    <3> QED
      BY <1>2, <2>1, <3>1, OthersAhead
  <2> QED
    BY <2>2, <2>3, <2>4
<1>5. ASSUME NEW p \in Protos, GoesUpOrDown(p) \/ Cools(p) PROVE SendInv'
  <2>1. Watch /\ place' = place /\ todo' = todo
    BY <1>5 DEF GoesUpOrDown, Cools
  <2> QED
    BY <1>2, <2>1, OthersAhead
<1>6. CASE UNCHANGED notifierVars
  BY <1>6, OthersAhead DEF notifierVars
<1> QED
  BY <1>1, <1>3, <1>4, <1>5, <1>6 DEF NotifierNext

\* A message is given up (send returns False) only if no protocol of its chain was up with its
\* breaker closed all the while, for any fallback order, senders, failures and deaths.
THEOREM NoHealthyIsMissed == ServiceSpec => HealthyIsUsed
<1>1. ServiceInit => SendInv
  BY DEF ServiceInit, NotifierInit, SendInv, SendTypeOK, Ahead, Stages
<1>2. [ServiceNext]_serviceVars => [NotifierNext]_notifierVars
  BY DEF ServiceNext, serviceVars, EngineStep, NotifierStep, WeightStep, GpuStep, ProcessStep
<1>3. SendInv => \A s \in Senders : NotDelivered(s) => good[s] = {}
  BY DEF SendInv, Ahead, NotDelivered, Moves, ToSet
<1>4. SendInv /\ [ServiceNext]_serviceVars => SendInv'
  BY <1>2, SendStep
<1> QED
  BY <1>1, <1>3, <1>4, PTL DEF ServiceSpec, HealthyIsUsed
================================================================================
