------------------------------ MODULE TurnProofs ------------------------------
(***************************************************************************)
(* For any number of concurrent turns, sessions, providers and crashes: a  *)
(* turn leaves no placeholder behind but where the response is recorded,   *)
(* a conversation's history and file are sound, and the right provider     *)
(* speaks.                                                                 *)
(*                                                                         *)
(* Four invariants that need nothing of each other: what the user sees of  *)
(* a turn goes with its stage; saves that did not overlap leave the store  *)
(* on disk; a turn that waits for an answer has its prompt in the history; *)
(* the providers a turn could still have are among those it has left.      *)
(***************************************************************************)
EXTENDS Turn, FilterProofs, FiniteSetTheorems, TLAPS

-----------------------------------------------------------------------------
(* The placeholder                                                         *)

Before == {"idle", "marking", "clearing", "dropped", "died"}

\* Nothing is shown before the placeholder; once the heartbeat has stopped, the last word
\* of a turn is the last that is shown.
ShownInv ==
    /\ shown \in [Turns -> {"nothing", "thinking", "final", "left"}]
    /\ beating \in [Turns -> BOOLEAN] /\ push \in [Turns -> BOOLEAN]
    /\ pc = [t \in Turns |-> pc[t]]
    /\ \A t \in Turns :
         /\ pc[t] \in Before => shown[t] = "nothing" /\ ~beating[t] /\ ~push[t]
         /\ pc[t] = "answered" => ~beating[t]
         /\ pc[t] = "done" => shown[t] # "thinking" /\ ~beating[t] /\ ~push[t]

LEMMA ShownStep == ShownInv /\ [Next]_vars => ShownInv'
<1> SUFFICES ASSUME ShownInv, [Next]_vars PROVE ShownInv'
  OBVIOUS
<1> USE DEF ShownInv, Before
<1>1. ASSUME NEW t \in Turns, TurnStep(t) PROVE ShownInv'
  <2>1. CASE Reset(t) \/ Prepare(t)
    BY <2>1 DEF Reset, Prepare, Goto, uiVars
  <2>2. CASE Reply(t)
    BY <2>2 DEF Reply, Goto
  <2>3. CASE PostPlaceholder(t)
    BY <2>3 DEF PostPlaceholder, Goto
  <2>4. ASSUME NEW from \in {"preparing", "ready", "answered"}, SurfaceFailure(t, from)
        PROVE  ShownInv'
    BY <2>4 DEF SurfaceFailure, LastWord, StopHeartbeat, Goto
  <2>5. CASE Output(t)
    BY <2>5 DEF Output, LastWord, Goto
  <2>6. CASE RecordResponse(t)
    BY <2>6 DEF RecordResponse, Goto, uiVars
  <2>7. CASE CallCLI(t) \/ CallAPI(t) \/ CLIAnswers(t)
    BY <2>7 DEF CallCLI, CallAPI, CLIAnswers, Goto, uiVars
  <2>8. ASSUME NEW from \in {"ready", "sending", "storing"}, NEW who, Answered(t, from, who)
        PROVE  ShownInv'
    BY <2>8 DEF Answered, StopHeartbeat, Goto
  <2>9. ASSUME NEW from \in {"ready", "sending", "storing"}, NEW order, Offer(t, from, order)
        PROVE  ShownInv'
    <3>1. /\ \/ Goto(t, from, "checked") /\ UNCHANGED beating
             \/ Goto(t, from, "answered") /\ StopHeartbeat(t)
          /\ UNCHANGED <<shown, push>>
      BY <2>9 DEF Offer
    <3> QED
      BY <3>1 DEF Goto, StopHeartbeat
  <2>10. CASE Save(t)
    BY <2>10 DEF Save, uiVars
  <2>11. CASE SaveEndsTurn(t)
    BY <2>11 DEF SaveEndsTurn, Goto, uiVars
  <2> QED
    BY <1>1, <2>1, <2>2, <2>3, <2>4, <2>5, <2>6, <2>7, <2>8, <2>9, <2>10, <2>11
       DEF TurnStep, Orchestrated, APIAnswers, CLITimesOut, Stored, Succeed, Dispatch, Synthesize,
           Begin, ProviderFails, SaveSpoilsAnswer, Abandon, TryNext
<1>2. ASSUME NEW t \in Turns, Drop(t) \/ Accept(t) PROVE ShownInv'
  BY <1>2 DEF Drop, Accept, Goto, uiVars
<1>3. ASSUME NEW t \in Turns, HeartbeatPush(t) \/ PushArrives(t) PROVE ShownInv'
  BY <1>3 DEF HeartbeatPush, PushArrives
<1>4. CASE TimePasses \/ UNCHANGED vars
  BY <1>4 DEF TimePasses, vars, uiVars
<1>5. CASE Crash
  BY <1>5 DEF Crash
<1> QED
  BY <1>1, <1>2, <1>3, <1>4, <1>5 DEF Next

\* Whatever stage a turn fails in, only the call that records the response leaves it thinking
\* (adapter_base.py, handle_incoming): no heartbeat edit comes after the last word.
THEOREM PlaceholdersEnd == Spec => []OnlyRecordingHangs
<1>1. Init => ShownInv
  BY DEF Init, ShownInv, Before
<1>2. ShownInv => OnlyRecordingHangs
  BY DEF ShownInv, OnlyRecordingHangs, Ended, Before
<1> QED
  BY <1>1, <1>2, ShownStep, PTL DEF Spec

-----------------------------------------------------------------------------
(* The session file                                                        *)

StoreTypeOK ==
    /\ store \in Stores /\ disk \in Stores \cup {Torn}
    /\ copy \in [Turns -> Stores]
    /\ save \in [Turns -> {"none", "copying", "disturbed", "writing"}]
    /\ overlap \in BOOLEAN

\* The conversations that calls resume are the store's.
IdsTypeOK ==
    /\ of \in [Turns -> Sessions]
    /\ resume \in [CLI -> Ids] /\ resumed \in [Turns -> Ids]

\* Without an overlap there is one save at most, of what the store holds; nobody disturbs it.
SaveExact ==
    ~overlap =>
        /\ \A t, u \in Saving : t = u
        /\ \A t \in Turns : save[t] # "disturbed"
        /\ \A t \in Turns : save[t] = "writing" => copy[t] = store
        /\ Saving = {} => Load = store

StoreInv == StoreTypeOK /\ IdsTypeOK /\ SaveExact

fileVars == <<store, disk, save, copy, overlap>>

LEMMA EmptyIsStore == Empty \in Stores
  BY DEF Empty, Stores, Ids

LEMMA StoreKept ==
  ASSUME StoreInv, UNCHANGED <<fileVars, of, resume>>, resumed' \in [Turns -> Ids]
  PROVE  StoreInv'
  BY DEF StoreInv, StoreTypeOK, IdsTypeOK, SaveExact, Saving, Load, fileVars

\* A change of the store while another save is under way is the overlap.
LEMMA WriteKeeps ==
  ASSUME StoreInv, NEW t \in Turns, NEW st \in Stores, Write(t, st),
         UNCHANGED <<of, resume, resumed>>
  PROVE  StoreInv'
<1> USE DEF StoreInv, Write
<1>1. StoreTypeOK' /\ IdsTypeOK'
  BY DEF StoreTypeOK, IdsTypeOK
<1>2. SaveExact'
  <2>1. SUFFICES ASSUME ~overlap' PROVE SaveExact'
    BY DEF SaveExact
  <2>2. Saving = {} /\ ~overlap
    BY <2>1 DEF StoreTypeOK
  <2>3. \A u \in Turns : save[u] = "none"
    BY <2>2 DEF Saving
  <2>4. \A u \in Turns : save'[u] = IF u = t THEN "copying" ELSE "none"
    BY <2>3
  <2>5. Saving' = {t}
    BY <2>4 DEF Saving
  <2> QED
    BY <2>4, <2>5 DEF SaveExact
<1> QED
  BY <1>1, <1>2

LEMMA SaveKeeps ==
  ASSUME StoreInv, NEW t \in Turns, SaveOpen(t) \/ SaveWrite(t) \/ SaveRaises(t),
         UNCHANGED <<of, resume>>, resumed' \in [Turns -> Ids]
  PROVE  StoreInv'
<1> USE DEF StoreInv, StoreTypeOK, IdsTypeOK, SaveExact, Saving
<1>1. CASE SaveOpen(t)
  BY <1>1 DEF SaveOpen
<1>2. CASE SaveWrite(t)
  <2>1. StoreTypeOK' /\ IdsTypeOK'
    BY <1>2, EmptyIsStore DEF SaveWrite
  <2>2. ~overlap => Load' = store'
    BY <1>2, ConversationAssumption DEF SaveWrite, Load
  <2>3. SaveExact'
    BY <1>2, <2>2 DEF SaveWrite
  <2> QED
    BY <2>1, <2>3
<1>3. CASE SaveRaises(t)
  BY <1>3 DEF SaveRaises
<1> QED
  BY <1>1, <1>2, <1>3

LEMMA StoreChanges ==
  ASSUME StoreInv, NEW s \in Sessions
  PROVE  /\ [store EXCEPT !.open = @ \cup {s}] \in Stores
         /\ [store EXCEPT !.open = @ \ {s}] \in Stores
         /\ \A id \in Ids : [store EXCEPT !.cc[s] = id] \in Stores
  BY DEF StoreInv, StoreTypeOK, Stores

LEMMA StoreStep == StoreInv /\ [Next]_vars => StoreInv'
<1> SUFFICES ASSUME StoreInv, [Next]_vars PROVE StoreInv'
  OBVIOUS
<1> USE DEF Quiet
<1>1. \A t \in Turns : of[t] \in Sessions /\ resumed[t] \in Ids /\ t \in Ids
  BY DEF StoreInv, IdsTypeOK, Ids
<1>2. resumed \in [Turns -> Ids]
  BY DEF StoreInv, IdsTypeOK
<1>3. \A t \in Turns : [resumed EXCEPT ![t] = NoId] \in [Turns -> Ids]
  BY DEF StoreInv, IdsTypeOK, Ids
<1>4. ASSUME NEW t \in Turns, Drop(t) \/ Reply(t) \/ PostPlaceholder(t) \/ Prepare(t)
                               \/ HeartbeatPush(t) \/ PushArrives(t)
      PROVE  StoreInv'
  BY <1>2, <1>4, StoreKept DEF Drop, Reply, PostPlaceholder, Prepare, HeartbeatPush, PushArrives,
     convVars, fileVars, seen
<1>5. ASSUME NEW t \in Turns, NEW from, SurfaceFailure(t, from)
      PROVE  StoreInv'
  BY <1>3, <1>5, StoreKept DEF SurfaceFailure, Forget, convVars, fileVars
<1>6. ASSUME NEW t \in Turns, Output(t) \/ RecordResponse(t) PROVE StoreInv'
  BY <1>3, <1>6, StoreKept DEF Output, RecordResponse, Forget, convVars, fileVars
<1>7. ASSUME NEW t \in Turns, Accept(t) PROVE StoreInv'
  BY <1>1, <1>7, StoreChanges, WriteKeeps DEF Accept, MarkActive, seen
<1>8. ASSUME NEW t \in Turns, Reset(t) PROVE StoreInv'
  BY <1>1, <1>8, StoreChanges, WriteKeeps DEF Reset, ClearSession
<1>9. ASSUME NEW t \in Turns, CLIAnswers(t) PROVE StoreInv'
  <2> DEFINE id == IF resumed[t] = NoId THEN t ELSE resumed[t]
  <2>1. id \in Ids
    BY <1>1
  <2>2. SetCCSession(t, of[t], id) /\ UNCHANGED <<of, resume, resumed>>
    BY <1>9 DEF CLIAnswers, seen
  <2> QED
    BY <1>1, <2>1, <2>2, StoreChanges, WriteKeeps DEF SetCCSession
<1>10. ASSUME NEW t \in Turns, CallCLI(t) PROVE StoreInv'
  <2>1. store.cc[of[t]] \in Ids
    BY <1>1 DEF StoreInv, StoreTypeOK, Stores
  <2>2. resume' \in [CLI -> Ids]
    BY <1>10, <2>1 DEF CallCLI, StoreInv, IdsTypeOK
  <2>3. resumed' \in [Turns -> Ids]
    BY <1>10, <2>2 DEF CallCLI, StoreInv, IdsTypeOK
  <2>4. UNCHANGED <<fileVars, of>>
    BY <1>10 DEF CallCLI, convVars, fileVars
  <2> QED
    BY <2>2, <2>3, <2>4 DEF StoreInv, StoreTypeOK, IdsTypeOK, SaveExact, Saving, Load, fileVars
<1>11. ASSUME NEW t \in Turns, CallAPI(t) PROVE StoreInv'
  BY <1>2, <1>11, StoreKept DEF CallAPI, fileVars
<1>12. ASSUME NEW t \in Turns, NEW from, NEW who, Answered(t, from, who), UNCHANGED fileVars
       PROVE  StoreInv'
  BY <1>2, <1>12, StoreKept DEF Answered
<1>13. ASSUME NEW t \in Turns, Orchestrated(t) \/ APIAnswers(t) \/ CLITimesOut(t) \/ Stored(t)
       PROVE  StoreInv'
  BY <1>12, <1>13 DEF Orchestrated, APIAnswers, CLITimesOut, Stored, Succeed, convVars, fileVars
<1>14. ASSUME NEW t \in Turns, NEW from, NEW order, Offer(t, from, order)
       PROVE  UNCHANGED <<of, resume, resumed>>
  BY <1>14 DEF Offer
<1>15. ASSUME NEW t \in Turns, Dispatch(t) \/ Synthesize(t) \/ ProviderFails(t) PROVE StoreInv'
  BY <1>2, <1>14, <1>15, StoreKept DEF Dispatch, Synthesize, Begin, ProviderFails, Abandon, TryNext,
     convVars, fileVars
<1>16. ASSUME NEW t \in Turns, Save(t) \/ SaveEndsTurn(t) PROVE StoreInv'
  BY <1>2, <1>16, SaveKeeps DEF Save, SaveEndsTurn, seen
<1>17. ASSUME NEW t \in Turns, SaveSpoilsAnswer(t) PROVE StoreInv'
  BY <1>2, <1>14, <1>17, SaveKeeps DEF SaveSpoilsAnswer, Abandon, TryNext
<1>18. CASE TimePasses \/ UNCHANGED vars
  BY <1>2, <1>18, StoreKept DEF TimePasses, vars, seen, convVars, fileVars
<1>19. CASE Crash
  <2>1. StoreTypeOK'
    BY <1>19, EmptyIsStore DEF Crash, Reload, Load, StoreInv, StoreTypeOK
  <2>2. IdsTypeOK'
    BY <1>19 DEF Crash, StoreInv, IdsTypeOK, Ids
  <2>3. Saving' = {} /\ Load' = store'
    BY <1>19, ConversationAssumption DEF Crash, Reload, Load, Saving, StoreInv, StoreTypeOK
  <2>4. SaveExact'
    BY <1>19, <2>3 DEF Crash, Reload, SaveExact, Saving
  <2> QED
    BY <2>1, <2>2, <2>4 DEF StoreInv
<1>20. ASSUME NEW t \in Turns, TurnStep(t) PROVE StoreInv'
  BY <1>4, <1>5, <1>6, <1>8, <1>9, <1>10, <1>11, <1>13, <1>15, <1>16, <1>17, <1>20 DEF TurnStep
<1> QED
  BY <1>4, <1>7, <1>18, <1>19, <1>20 DEF Next

-----------------------------------------------------------------------------
(* The message history                                                     *)

Over == {"answered"} \cup Ended

\* Turns of a session whose reply is in its history, if they have one.
Replied(s) == {t \in Turns : of[t] = s /\ pc[t] \in Over}

\* A provider is asked, and its answer will be appended to the history.
Awaited(t) == pc[t] = "sending" /\ First(t) \notin CLI /\ ~ephemeral[t]

Prompted(t, h) == \E j \in 1 .. Len(h) : h[j] = <<"user", t>>

\* No reply stands in a history without the prompt it answers before it.
Answering(h) ==
    \A i \in 1 .. Len(h) :
        h[i][1] = "assistant" => \E j \in 1 .. i - 1 : h[j] = <<"user", h[i][2]>>

HistoryTypeOK ==
    /\ history \in [Sessions -> Seq(Messages)]
    /\ of \in [Turns -> Sessions]
    /\ pc = [t \in Turns |-> pc[t]]
    /\ todo = [t \in Turns |-> todo[t]]
    /\ ephemeral = [t \in Turns |-> ephemeral[t]]

\* Each reply beyond the limit is that of a turn of its own.
RepliesCounted == \A s \in Sessions : Len(history[s]) <= MaxHistory + Cardinality(Replied(s))

PromptsWait == \A t \in Turns : Awaited(t) /\ of[t] \notin cut => Prompted(t, history[of[t]])

RepliesAnswer == \A s \in Sessions \ cut : Answering(history[s])

HistoryInv == HistoryTypeOK /\ RepliesCounted /\ PromptsWait /\ RepliesAnswer

LEMMA AppendKeeps ==
  ASSUME NEW h \in Seq(Messages), NEW m \in Messages
  PROVE  /\ Append(h, m) \in Seq(Messages) /\ Len(Append(h, m)) = Len(h) + 1
         /\ \A u : Prompted(u, h) => Prompted(u, Append(h, m))
         /\ \A u : m = <<"user", u>> => Prompted(u, Append(h, m))
         /\ Answering(h) /\ (m[1] = "assistant" => Prompted(m[2], h)) => Answering(Append(h, m))
<1> DEFINE g == Append(h, m)
<1>1. /\ g \in Seq(Messages) /\ Len(g) = Len(h) + 1 /\ Len(h) \in Nat
      /\ g[Len(h) + 1] = m
      /\ \A i \in 1 .. Len(h) : g[i] = h[i]
  OBVIOUS
<1>2. \A u : Prompted(u, h) => Prompted(u, g)
  BY <1>1 DEF Prompted
<1>3. \A u : m = <<"user", u>> => Prompted(u, g)
  BY <1>1 DEF Prompted
<1>4. ASSUME Answering(h), m[1] = "assistant" => Prompted(m[2], h)
      PROVE  Answering(g)
  <2>1. SUFFICES ASSUME NEW i \in 1 .. Len(g), g[i][1] = "assistant"
                 PROVE  \E j \in 1 .. i - 1 : g[j] = <<"user", g[i][2]>>
    BY DEF Answering
  <2>2. CASE i = Len(h) + 1
    <3>1. PICK j \in 1 .. Len(h) : h[j] = <<"user", m[2]>>
      BY <1>1, <1>4, <2>1, <2>2 DEF Prompted
    <3> QED
      BY <1>1, <2>2, <3>1
  <2>3. CASE i # Len(h) + 1
    <3>1. i \in 1 .. Len(h) /\ g[i] = h[i]
      BY <1>1, <2>3
    <3>2. PICK j \in 1 .. i - 1 : h[j] = <<"user", h[i][2]>>
      BY <1>4, <2>1, <3>1 DEF Answering
    <3>3. g[j] = h[j]
      BY <1>1, <3>1, <3>2
    <3> QED
      BY <3>1, <3>2, <3>3
  <2> QED
    BY <2>2, <2>3
<1> QED
  BY <1>1, <1>2, <1>3, <1>4

LEMMA RepliedFinite ==
  ASSUME NEW R, R \subseteq Turns
  PROVE  IsFiniteSet(R) /\ Cardinality(R) \in Nat
  BY ConversationAssumption, FS_Subset, FS_CardinalityType

\* No turn takes its reply back, so the count only grows.
LEMMA CountGrows ==
  ASSUME RepliesCounted, HistoryTypeOK, NEW h \in [Sessions -> Seq(Messages)], history' = h,
         \A s \in Sessions : Len(h[s]) <= Len(history[s]) \/ Len(h[s]) <= MaxHistory,
         \A s \in Sessions : Replied(s) \subseteq Replied(s)'
  PROVE  RepliesCounted'
<1> SUFFICES ASSUME NEW s \in Sessions
             PROVE  Len(history'[s]) <= MaxHistory + Cardinality(Replied(s)')
  BY DEF RepliesCounted
<1>1. /\ IsFiniteSet(Replied(s)') /\ Cardinality(Replied(s)') \in Nat
      /\ Cardinality(Replied(s)) \in Nat
  BY RepliedFinite DEF Replied
<1>2. Cardinality(Replied(s)) <= Cardinality(Replied(s)')
  BY <1>1, FS_Subset
<1>3. Len(history'[s]) \in Nat /\ Len(history[s]) \in Nat /\ MaxHistory \in Nat
  BY ConversationAssumption DEF HistoryTypeOK
<1> QED
  BY <1>1, <1>2, <1>3 DEF RepliesCounted

\* A turn goes on to another stage than one in which its reply is awaited.
LEMMA StageKeeps ==
  ASSUME HistoryInv, NEW t \in Turns, NEW to, pc' = [pc EXCEPT ![t] = to],
         to = "sending" => UNCHANGED <<todo, ephemeral>> /\ (First(t) \in CLI \/ ephemeral[t]),
         pc[t] \in Over => to \in Over, UNCHANGED <<history, of>>, cut' = cut,
         todo' = [u \in Turns |-> todo'[u]], ephemeral' = [u \in Turns |-> ephemeral'[u]],
         \A u \in Turns \ {t} : todo'[u] = todo[u] /\ ephemeral'[u] = ephemeral[u]
  PROVE  HistoryInv'
<1> USE DEF HistoryInv
<1>1. HistoryTypeOK' /\ RepliesAnswer'
  BY DEF HistoryTypeOK, RepliesAnswer
<1>2. \A s \in Sessions : Replied(s) \subseteq Replied(s)'
  BY DEF Replied, HistoryTypeOK
<1>3. RepliesCounted'
  BY <1>2, CountGrows DEF HistoryTypeOK
<1>4. \A u \in Turns : Awaited(u)' => Awaited(u)
  BY DEF Awaited, First, HistoryTypeOK
<1>5. PromptsWait'
  BY <1>4 DEF PromptsWait, Prompted
<1> QED
  BY <1>1, <1>3, <1>5

LEMMA StageUntouched ==
  ASSUME HistoryInv, UNCHANGED <<history, of, pc, todo, ephemeral, cut>>
  PROVE  HistoryInv'
<1> USE DEF HistoryInv
<1>1. HistoryTypeOK' /\ RepliesAnswer'
  BY DEF HistoryTypeOK, RepliesAnswer
<1>2. \A s : Replied(s)' = Replied(s)
  BY DEF Replied
<1>3. \A u : Awaited(u)' = Awaited(u)
  BY DEF Awaited, First
<1>4. RepliesCounted'
  BY <1>2 DEF RepliesCounted
<1>5. PromptsWait'
  BY <1>3 DEF PromptsWait, Prompted
<1> QED
  BY <1>1, <1>4, <1>5

LEMMA PromptKeeps ==
  ASSUME HistoryInv, NEW t \in Turns, CallAPI(t), ~ephemeral[t]
  PROVE  HistoryInv'
<1> DEFINE s == of[t]
           h == Append(history[s], <<"user", t>>)
<1> USE DEF HistoryInv
<1>1. s \in Sessions /\ history[s] \in Seq(Messages) /\ <<"user", t>> \in Messages
  BY DEF HistoryTypeOK, Messages
<1>2. /\ h \in Seq(Messages) /\ Len(h) = Len(history[s]) + 1 /\ Len(history[s]) \in Nat
      /\ MaxHistory \in Nat \ {0}
  BY <1>1, ConversationAssumption
<1>3. /\ pc[t] = "checked" /\ pc' = [pc EXCEPT ![t] = "sending"]
      /\ UNCHANGED <<of, todo, ephemeral>> /\ AddPrompt(s, t)
      /\ cut' = IF Len(history[s]) < MaxHistory THEN cut ELSE cut \cup {s}
  BY DEF CallAPI, Goto, Quiet
<1>4. history'[s] = IF Len(h) > MaxHistory THEN SubSeq(h, Len(h) - MaxHistory + 1, Len(h)) ELSE h
  BY <1>1, <1>3 DEF AddPrompt, HistoryTypeOK
<1>5. \A r \in Sessions \ {s} : history'[r] = history[r]
  BY <1>3 DEF AddPrompt, HistoryTypeOK
<1>6. history'[s] \in Seq(Messages) /\ Len(history'[s]) <= MaxHistory
  BY <1>2, <1>4
<1>7. HistoryTypeOK'
  BY <1>3, <1>5, <1>6 DEF HistoryTypeOK, AddPrompt
<1>8. RepliesCounted'
  <2>1. \A r \in Sessions : Replied(r) \subseteq Replied(r)'
    BY <1>3 DEF Replied, Over, Ended, HistoryTypeOK
  <2>2. \A r \in Sessions : Len(history[r]) \in Nat
    BY DEF HistoryTypeOK
  <2>3. \A r \in Sessions : Len(history'[r]) <= Len(history[r]) \/ Len(history'[r]) <= MaxHistory
    BY <1>5, <1>6, <2>2
  <2>4. history' \in [Sessions -> Seq(Messages)]
    BY <1>7 DEF HistoryTypeOK
  <2> QED
    BY <2>1, <2>3, <2>4, CountGrows
<1>9. s \notin cut' => history'[s] = h
  BY <1>2, <1>3, <1>4
<1>10. PromptsWait'
  <2>1. SUFFICES ASSUME NEW u \in Turns, Awaited(u)', of[u] \notin cut'
                 PROVE  Prompted(u, history'[of[u]])
    BY <1>3 DEF PromptsWait, Prompted
  <2>2. CASE u = t
    BY <1>1, <1>9, <2>1, <2>2, AppendKeeps
  <2>3. CASE u # t
    <3>1. Prompted(u, history[of[u]])
      BY <1>3, <2>1, <2>3 DEF PromptsWait, Awaited, First, HistoryTypeOK
    <3> QED
      BY <1>1, <1>5, <1>9, <2>1, <3>1, AppendKeeps DEF HistoryTypeOK
  <2> QED
    BY <2>2, <2>3
<1>11. RepliesAnswer'
  <2>1. ASSUME NEW r \in Sessions \ cut' PROVE r \notin cut /\ Answering(history[r])
    BY <1>3 DEF RepliesAnswer
  <2>2. s \notin cut' => Answering(h)
    BY <1>1, <2>1, AppendKeeps
  <2> QED
    BY <1>5, <1>9, <2>1, <2>2 DEF RepliesAnswer
<1> QED
  BY <1>7, <1>8, <1>10, <1>11

LEMMA ReplyKeeps ==
  ASSUME HistoryInv, NEW t \in Turns, APIAnswers(t), ~ephemeral[t]
  PROVE  HistoryInv'
<1> USE DEF HistoryInv
<1>0. PICK s \in Sessions : s = of[t]
  BY DEF HistoryTypeOK
<1> DEFINE h == Append(history[s], <<"assistant", t>>)
<1>1. history[s] \in Seq(Messages) /\ <<"assistant", t>> \in Messages
  BY DEF HistoryTypeOK, Messages
<1>2. /\ pc[t] = "sending" /\ pc' = [pc EXCEPT ![t] = "answered"]
      /\ UNCHANGED <<of, todo, ephemeral, cut>> /\ AddReply(s, t) /\ Awaited(t)
  BY <1>0 DEF APIAnswers, Succeed, Answered, Goto, Quiet, Awaited
<1>3. history'[s] = IF history[s] = <<>> THEN <<>> ELSE h
  BY <1>1, <1>2 DEF AddReply, HistoryTypeOK
<1>4. \A r \in Sessions \ {s} : history'[r] = history[r]
  BY <1>2 DEF AddReply, HistoryTypeOK
<1>5. HistoryTypeOK'
  <2>1. h \in Seq(Messages) /\ <<>> \in Seq(Messages)
    BY <1>1, AppendKeeps
  <2> QED
    BY <1>2, <2>1 DEF HistoryTypeOK, AddReply
<1>6. RepliesCounted'
  <2>1. /\ Replied(s)' = Replied(s) \cup {t} /\ t \notin Replied(s)
        /\ \A r \in Sessions \ {s} : Replied(r)' = Replied(r)
    BY <1>0, <1>2 DEF Replied, Over, Ended, HistoryTypeOK
  <2>2. IsFiniteSet(Replied(s)) /\ Cardinality(Replied(s)) \in Nat
    BY RepliedFinite DEF Replied
  <2>3. Cardinality(Replied(s)') = Cardinality(Replied(s)) + 1
    BY <2>1, <2>2, FS_AddElement
  <2>4. /\ Len(history[s]) \in Nat /\ Len(history'[s]) \in Nat
        /\ Len(history'[s]) <= Len(history[s]) + 1
    BY <1>1, <1>3, AppendKeeps
  <2>5. Len(history[s]) <= MaxHistory + Cardinality(Replied(s))
    BY <1>1 DEF RepliesCounted
  <2>6. Len(history'[s]) <= MaxHistory + Cardinality(Replied(s)')
    BY <2>2, <2>3, <2>4, <2>5, ConversationAssumption
  <2>7. SUFFICES ASSUME NEW r \in Sessions
                 PROVE  Len(history'[r]) <= MaxHistory + Cardinality(Replied(r)')
    BY DEF RepliesCounted
  <2>8. CASE r = s
    BY <2>6, <2>8
  <2>9. CASE r # s
    BY <1>4, <2>1, <2>9 DEF RepliesCounted
  <2> QED
    BY <2>8, <2>9
<1>7. \A u \in Turns : s \notin cut /\ of[u] = s /\ Prompted(u, history[s]) => history'[s] = h
  BY <1>3 DEF Prompted
<1>8. PromptsWait'
  <2>1. SUFFICES ASSUME NEW u \in Turns, Awaited(u)', of[u] \notin cut
                 PROVE  Prompted(u, history'[of[u]])
    BY <1>2 DEF PromptsWait, Prompted
  <2>2. Prompted(u, history[of[u]])
    BY <1>2, <2>1 DEF PromptsWait, Awaited, First, HistoryTypeOK
  <2> QED
    BY <1>1, <1>4, <1>7, <2>1, <2>2, AppendKeeps DEF HistoryTypeOK
<1>9. RepliesAnswer'
  <2>1. s \notin cut => Prompted(t, history[s]) /\ Answering(history[s])
    BY <1>0, <1>1, <1>2 DEF PromptsWait, RepliesAnswer
  <2>2. s \notin cut => history'[s] = h /\ Answering(h)
    BY <1>0, <1>1, <1>7, <2>1, AppendKeeps
  <2> QED
    BY <1>2, <1>4, <2>2 DEF RepliesAnswer
<1> QED
  BY <1>5, <1>6, <1>8, <1>9

\* A reset or a crash empties a history; no turn is asked by it.
LEMMA ForgettingKeeps ==
  ASSUME HistoryInv, UNCHANGED of, cut \subseteq cut', NEW R \in SUBSET Sessions,
         history' = [s \in Sessions |-> IF s \in R THEN <<>> ELSE history[s]],
         pc' = [t \in Turns |-> pc'[t]], todo' = [t \in Turns |-> todo'[t]],
         ephemeral' = [t \in Turns |-> ephemeral'[t]],
         \A t \in Turns : pc[t] \in Over => pc'[t] \in Over,
         \A t \in Turns : Awaited(t)' => Awaited(t) /\ of[t] \notin R \ cut'
  PROVE  HistoryInv'
<1> USE DEF HistoryInv
<1>1. HistoryTypeOK'
  BY DEF HistoryTypeOK
<1>2. RepliesCounted'
  <2>1. \A s \in Sessions : Replied(s) \subseteq Replied(s)'
    BY DEF Replied
  <2>2. \A s \in Sessions : Len(history[s]) \in Nat /\ Len(<<>>) = 0
    BY DEF HistoryTypeOK
  <2>3. \A s \in Sessions : Len(history'[s]) <= Len(history[s])
    BY <2>2
  <2>4. history' \in [Sessions -> Seq(Messages)]
    BY <1>1 DEF HistoryTypeOK
  <2> QED
    BY <2>1, <2>3, <2>4, CountGrows
<1>3. PromptsWait'
  <2>1. SUFFICES ASSUME NEW t \in Turns, Awaited(t)', of[t] \notin cut'
                 PROVE  Prompted(t, history'[of[t]])
    BY DEF PromptsWait, Prompted
  <2>2. of[t] \in Sessions \ R /\ Prompted(t, history[of[t]])
    BY <2>1 DEF PromptsWait, HistoryTypeOK
  <2> QED
    BY <2>2
<1>4. RepliesAnswer'
  <2>1. Answering(<<>>)
    BY DEF Answering
  <2> QED
    BY <2>1 DEF RepliesAnswer
<1> QED
  BY <1>1, <1>2, <1>3, <1>4

LEMMA HistoryStep == HistoryInv /\ [Next]_vars => HistoryInv'
<1> SUFFICES ASSUME HistoryInv, [Next]_vars PROVE HistoryInv'
  OBVIOUS
<1>1. /\ pc = [t \in Turns |-> pc[t]] /\ todo = [t \in Turns |-> todo[t]]
      /\ ephemeral = [t \in Turns |-> ephemeral[t]]
  BY DEF HistoryInv, HistoryTypeOK
<1> USE DEF Goto, Quiet, Over, Ended
<1>2. ASSUME NEW t \in Turns, Drop(t) \/ Accept(t) \/ Reply(t) \/ PostPlaceholder(t) \/ Prepare(t)
                               \/ CLIAnswers(t) \/ SaveEndsTurn(t)
      PROVE  HistoryInv'
  BY <1>1, <1>2, StageKeeps DEF Drop, Accept, MarkActive, Write, Reply, PostPlaceholder, Prepare,
     CLIAnswers, SetCCSession, SaveEndsTurn, SaveRaises, convVars, seen
<1>3. ASSUME NEW t \in Turns, NEW from \in {"preparing", "ready", "answered"},
             SurfaceFailure(t, from)
      PROVE  HistoryInv'
  BY <1>1, <1>3, StageKeeps DEF SurfaceFailure, Forget, convVars
<1>4. ASSUME NEW t \in Turns, Output(t) \/ RecordResponse(t) PROVE HistoryInv'
  BY <1>1, <1>4, StageKeeps DEF Output, RecordResponse, Forget, convVars
<1>5. ASSUME NEW t \in Turns, NEW from \in {"ready", "sending", "storing"}, NEW who,
             Answered(t, from, who), UNCHANGED history
      PROVE  HistoryInv'
  BY <1>1, <1>5, StageKeeps DEF Answered
<1>6. ASSUME NEW t \in Turns, \/ Orchestrated(t) \/ CLITimesOut(t) \/ Stored(t)
                              \/ APIAnswers(t) /\ ephemeral[t]
      PROVE  HistoryInv'
  BY <1>5, <1>6 DEF Orchestrated, CLITimesOut, Stored, APIAnswers, Succeed, convVars
<1>7. ASSUME NEW t \in Turns, NEW from \in {"ready", "sending", "storing"}, NEW order,
             Offer(t, from, order), UNCHANGED history,
             ephemeral' = ephemeral \/ ephemeral' = [ephemeral EXCEPT ![t] = TRUE]
      PROVE  HistoryInv'
  <2>1. \E to \in {"checked", "answered"} : pc[t] = from /\ pc' = [pc EXCEPT ![t] = to]
    BY <1>7 DEF Offer
  <2>2. /\ UNCHANGED <<of, cut>> /\ \E rest : todo' = [todo EXCEPT ![t] = rest]
    BY <1>7 DEF Offer
  <2> QED
    BY <1>1, <1>7, <2>1, <2>2, StageKeeps
<1>8. ASSUME NEW t \in Turns, \/ Dispatch(t) \/ Synthesize(t) \/ ProviderFails(t)
                              \/ SaveSpoilsAnswer(t)
      PROVE  HistoryInv'
  BY <1>7, <1>8 DEF Dispatch, Synthesize, Begin, ProviderFails, SaveSpoilsAnswer, SaveRaises,
     Abandon, TryNext, convVars
<1>9. ASSUME NEW t \in Turns, pc[t] = "checked", pc' = [pc EXCEPT ![t] = "sending"],
             UNCHANGED <<history, of, cut, todo, ephemeral>>,
             First(t) \in CLI \/ ephemeral[t]
      PROVE  HistoryInv'
  BY <1>1, <1>9, StageKeeps
<1>10. ASSUME NEW t \in Turns, Reset(t) PROVE HistoryInv'
  <2>1. /\ pc[t] = "marking" /\ pc' = [pc EXCEPT ![t] = "clearing"]
        /\ UNCHANGED <<of, todo, ephemeral>> /\ cut' = cut \cup {of[t]}
        /\ history' = [history EXCEPT ![of[t]] = <<>>]
    BY <1>10 DEF Reset, ClearSession
  <2>2. history = [s \in Sessions |-> history[s]] /\ of[t] \in Sessions
    BY DEF HistoryInv, HistoryTypeOK
  <2>3. \A u \in Turns : Awaited(u)' => Awaited(u)
    BY <1>1, <2>1 DEF Awaited, First
  <2>4. history' = [s \in Sessions |-> IF s \in {of[t]} THEN <<>> ELSE history[s]]
    BY <2>1, <2>2
  <2> QED
    BY <1>1, <2>1, <2>2, <2>3, <2>4, ForgettingKeeps
<1>11. CASE Crash
  <2>1. \A t \in Turns : pc'[t] \in Ended \cup {"idle"}
    BY <1>11 DEF Crash
  <2>2. \A t \in Turns : ~Awaited(t)'
    BY <2>1 DEF Awaited
  <2>3. history' = [s \in Sessions |-> IF s \in Sessions THEN <<>> ELSE history[s]]
    BY <1>11 DEF Crash, Reload
  <2> QED
    BY <1>11, <2>2, <2>3, ForgettingKeeps DEF Crash
<1>12. ASSUME NEW t \in Turns, Save(t) \/ HeartbeatPush(t) \/ PushArrives(t) PROVE HistoryInv'
  BY <1>12, StageUntouched DEF Save, SaveOpen, SaveWrite, HeartbeatPush, PushArrives, convVars, seen
<1>13. CASE TimePasses \/ UNCHANGED vars
  BY <1>13, StageUntouched DEF TimePasses, vars, convVars, seen
<1>14. ASSUME NEW t \in Turns, TurnStep(t) PROVE HistoryInv'
  <2>1. CASE CallCLI(t) \/ CallAPI(t)
    <3>1. CASE CallCLI(t)
      BY <1>9, <3>1 DEF CallCLI, convVars
    <3>2. CASE CallAPI(t) /\ ephemeral[t]
      BY <1>9, <3>2 DEF CallAPI
    <3> QED
      BY <2>1, <3>1, <3>2, PromptKeeps
  <2>2. CASE APIAnswers(t)
    BY <1>6, <2>2, ReplyKeeps
  <2>3. CASE \/ SurfaceFailure(t, "preparing") \/ SurfaceFailure(t, "ready")
           \/ SurfaceFailure(t, "answered")
    BY <1>3, <2>3
  <2>4. CASE \/ Reply(t) \/ PostPlaceholder(t) \/ Prepare(t) \/ CLIAnswers(t) \/ SaveEndsTurn(t)
             \/ Output(t) \/ RecordResponse(t) \/ Reset(t) \/ Save(t)
    BY <1>2, <1>4, <1>10, <1>12, <2>4
  <2>5. CASE \/ Orchestrated(t) \/ CLITimesOut(t) \/ Stored(t) \/ Dispatch(t) \/ Synthesize(t)
             \/ ProviderFails(t) \/ SaveSpoilsAnswer(t)
    BY <1>6, <1>8, <2>5
  <2> QED
    BY <1>14, <2>1, <2>2, <2>3, <2>4, <2>5 DEF TurnStep
<1> QED
  BY <1>2, <1>11, <1>12, <1>13, <1>14 DEF Next

\* A conversation is sound for whoever takes it up next (bridge.py, _history_append; session.py,
\* _save and _load): its history is bounded and holds no reply without its prompt, and the
\* file is the store, under all interleavings of its turns, their saves and restarts.
THEOREM ConversationsSound == Spec => []ConversationSound
<1>1. Init => StoreInv /\ HistoryInv
  <2> SUFFICES ASSUME Init PROVE StoreInv /\ HistoryInv
    OBVIOUS
  <2>1. StoreInv
    BY EmptyIsStore, ConversationAssumption
       DEF Init, ConvInit, StoreInv, StoreTypeOK, IdsTypeOK, SaveExact, Saving, Load, Ids
  <2>2. HistoryTypeOK /\ PromptsWait /\ RepliesAnswer
    BY DEF Init, ConvInit, HistoryTypeOK, PromptsWait, RepliesAnswer, Awaited, Answering
  <2>3. RepliesCounted
    <3>1. \A s : Cardinality(Replied(s)) \in Nat
      BY RepliedFinite DEF Replied
    <3> QED
      BY <3>1, ConversationAssumption DEF Init, ConvInit, RepliesCounted
  <2> QED
    BY <2>1, <2>2, <2>3 DEF HistoryInv
<1>2. StoreInv => DiskCurrent
  BY DEF StoreInv, SaveExact, DiskCurrent
<1>3. HistoryInv => HistorySound
  <2> SUFFICES ASSUME HistoryInv, NEW s \in Sessions
               PROVE  /\ Len(history[s]) <= MaxHistory + Cardinality({t \in Turns : of[t] = s})
                      /\ s \notin cut =>
                           \A i \in DOMAIN history[s] : history[s][i][1] = "assistant" =>
                              \E j \in 1 .. (i - 1) : history[s][j] = <<"user", history[s][i][2]>>
    BY DEF HistorySound
  <2>1. history[s] \in Seq(Messages) /\ DOMAIN history[s] = 1 .. Len(history[s])
    BY DEF HistoryInv, HistoryTypeOK
  <2> DEFINE all == {t \in Turns : of[t] = s}
  <2>2. IsFiniteSet(all) /\ Cardinality(all) \in Nat /\ Replied(s) \subseteq all
    BY RepliedFinite DEF Replied
  <2>3. Cardinality(Replied(s)) \in Nat /\ Cardinality(Replied(s)) <= Cardinality(all)
    BY <2>2, FS_Subset, FS_CardinalityType
  <2>4. Len(history[s]) <= MaxHistory + Cardinality(all)
    BY <2>1, <2>2, <2>3, ConversationAssumption DEF HistoryInv, RepliesCounted
  <2>5. s \notin cut => Answering(history[s])
    BY DEF HistoryInv, RepliesAnswer
  <2> QED
    BY <2>1, <2>4, <2>5 DEF Answering
<1> QED
  BY <1>1, <1>2, <1>3, StoreStep, HistoryStep, PTL DEF Spec, ConversationSound

-----------------------------------------------------------------------------
(* The speaker                                                             *)

\* Putting a sequence of providers in the order of their classes keeps them.
LEMMA ClassesKeep ==
  ASSUME NEW s \in Seq(Providers)
  PROVE  ByClass(s) \in Seq(Providers) /\ ToSet(ByClass(s)) = ToSet(s)
<1> DEFINE Of(c) == Filter(s, {p \in Providers : Class[p] = c})
<1>1. ASSUME NEW c PROVE Of(c) \in Seq(Providers) /\ ToSet(Of(c)) = ToSet(s) \cap {p \in Providers : Class[p] = c}
  BY FilterMembers
<1>2. ByClass(s) = Of("local") \o Of("free_limited") \o Of("paid_subscription") \o Of("unknown")
  BY DEF ByClass
<1> HIDE DEF Of
<1>3. ToSet(s) \subseteq Providers
  BY DEF ToSet
<1>4. \A p \in Providers : Class[p] \in {"local", "free_limited", "paid_subscription", "unknown"}
  BY RatePoolAssumption DEF Classes
<1> DEFINE two == Of("local") \o Of("free_limited")
           three == two \o Of("paid_subscription")
<1>5. two \in Seq(Providers) /\ ToSet(two) = ToSet(Of("local")) \cup ToSet(Of("free_limited"))
  BY <1>1, ConcatMembers
<1>6. ByClass(s) = three \o Of("unknown")
  BY <1>2
<1> HIDE DEF two
<1>7. three \in Seq(Providers) /\ ToSet(three) = ToSet(two) \cup ToSet(Of("paid_subscription"))
  BY <1>1, <1>5, ConcatMembers
<1> HIDE DEF three
<1>8. ByClass(s) \in Seq(Providers) /\ ToSet(ByClass(s)) = ToSet(three) \cup ToSet(Of("unknown"))
  BY <1>1, <1>6, <1>7, ConcatMembers
<1>9. ToSet(ByClass(s)) = ToSet(s) \cap {p \in Providers : Class[p] \in Classes}
  BY <1>1, <1>5, <1>7, <1>8 DEF Classes
<1> QED
  BY <1>3, <1>4, <1>8, <1>9 DEF Classes

LEMMA PoolKept ==
  /\ OrderedPool \in Seq(Providers) /\ ToSet(OrderedPool) = ToSet(Pool)
  /\ SelectCommunicator \in Seq(Providers)
  /\ ToSet(SelectCommunicator) = ToSet(Pool) \cap Communicators
<1> DEFINE up == Filter(Pool, Available)
           not == Filter(Pool, Providers \ Available)
<1>1. /\ up \in Seq(Providers) /\ ToSet(up) = ToSet(Pool) \cap Available
      /\ not \in Seq(Providers) /\ ToSet(not) = ToSet(Pool) \cap (Providers \ Available)
  BY RatePoolAssumption, FilterMembers
<1>2. OrderedPool = ByClass(up) \o ByClass(not)
  BY DEF OrderedPool
<1> HIDE DEF up, not
<1>3. /\ ByClass(up) \in Seq(Providers) /\ ToSet(ByClass(up)) = ToSet(up)
      /\ ByClass(not) \in Seq(Providers) /\ ToSet(ByClass(not)) = ToSet(not)
  BY <1>1, ClassesKeep
<1>4. OrderedPool \in Seq(Providers) /\ ToSet(OrderedPool) = ToSet(up) \cup ToSet(not)
  BY <1>2, <1>3, ConcatMembers
<1>5. ToSet(Pool) \subseteq Providers
  BY RatePoolAssumption DEF ToSet
<1>6. ToSet(OrderedPool) = ToSet(Pool)
  BY <1>1, <1>4, <1>5
<1> QED
  BY <1>4, <1>6, FilterMembers DEF SelectCommunicator

\* Nobody who is available is passed over on the way to the first who is.
LEMMA FirstAvailableKeeps ==
  ASSUME NEW order \in Seq(Providers)
  PROVE  /\ FirstAvailable(order) \in Seq(Providers)
         /\ ToSet(FirstAvailable(order)) \subseteq ToSet(order)
         /\ StillGood(ToSet(order)) \subseteq ToSet(FirstAvailable(order))
<1> DEFINE I == {i \in 1 .. Len(order) : IsAvailable(order[i])}
           rest == FirstAvailable(order)
<1>1. DOMAIN order = 1 .. Len(order) /\ Len(order) \in Nat /\ I \in SUBSET Nat
  OBVIOUS
<1>2. CASE I = {}
  <2>1. SelectInSeq(order, IsAvailable) = 0
    BY <1>2 DEF SelectInSeq
  <2>2. rest = <<>>
    BY <2>1 DEF FirstAvailable
  <2>3. StillGood(ToSet(order)) = {}
    BY <1>1, <1>2 DEF StillGood, ToSet
  <2>4. <<>> \in Seq(Providers) /\ ToSet(<<>>) = {}
    BY DEF ToSet
  <2> HIDE DEF rest
  <2> QED
    BY <2>2, <2>3, <2>4 DEF rest
<1>3. CASE I # {}
  <2>1. SelectInSeq(order, IsAvailable) = Min(I)
    BY <1>3 DEF SelectInSeq
  <2>2. \E i \in I : \A j \in I : i <= j
    BY <1>1, <1>3, Smallest
  <2>3. Min(I) \in I /\ \A j \in I : Min(I) <= j
    BY <2>2 DEF Min
  <2> DEFINE i == Min(I)
  <2>4. rest = SubSeq(order, i, Len(order)) /\ i \in 1 .. Len(order)
    <3>1. i \in 1 .. Len(order) /\ i # 0
      BY <2>3
    <3> HIDE DEF i
    <3>2. SelectInSeq(order, IsAvailable) = i
      BY <2>1 DEF i
    <3> QED
      BY <3>1, <3>2 DEF FirstAvailable
  <2> HIDE DEF rest, i, I
  <2>5. /\ rest \in Seq(Providers) /\ Len(rest) = Len(order) - i + 1
        /\ \A k \in 1 .. Len(rest) : rest[k] = order[i + k - 1]
    BY <1>1, <2>4
  <2>6. DOMAIN rest = 1 .. Len(rest)
    BY <2>5
  <2>7. ToSet(rest) \subseteq ToSet(order)
    BY <1>1, <2>4, <2>5, <2>6 DEF ToSet
  <2>8. ASSUME NEW p \in StillGood(ToSet(order)) PROVE p \in ToSet(rest)
    <3>1. PICK j \in 1 .. Len(order) : p = order[j] /\ IsAvailable(p)
      BY <1>1 DEF StillGood, ToSet
    <3>2. j \in I
      BY <3>1 DEF I
    <3>3. i <= j
      BY <2>3, <3>2 DEF i
    <3>4. j - i + 1 \in 1 .. Len(rest) /\ rest[j - i + 1] = order[j]
      BY <1>1, <2>4, <2>5, <3>3
    <3> QED
      BY <2>6, <3>1, <3>4 DEF ToSet
  <2> QED
    BY <2>5, <2>7, <2>8 DEF rest
<1> QED
  BY <1>2, <1>3

Waiting == {"checked", "sending", "storing"}

HasCommunicator == ToSet(Pool) \cap Communicators # {}

\* A turn that waits for a provider has in hand all that are still good for it, and only
\* communicators where there are some; who spoke was among them.
Chosen(t) ==
    /\ pc[t] \in Waiting => /\ todo[t] # <<>> /\ good[t] \subseteq ToSet(todo[t])
                            /\ HasCommunicator =>
                                  ephemeral[t] \/ ToSet(todo[t]) \subseteq Communicators
    /\ speaker[t] # "none" => pc[t] = "answered"
    /\ speaker[t] = "nobody" => good[t] = {}
    /\ speaker[t] \in Providers /\ HasCommunicator => ephemeral[t] \/ speaker[t] \in Communicators

SpeakerTypeOK ==
    /\ todo \in [Turns -> Seq(Providers)]
    /\ pc = [t \in Turns |-> pc[t]] /\ ephemeral = [t \in Turns |-> ephemeral[t]]
    /\ speaker = [t \in Turns |-> speaker[t]] /\ good = [t \in Turns |-> good[t]]

SpeakerInv == SpeakerTypeOK /\ \A t \in Turns : Chosen(t)

\* A turn another one's step does not touch.
LEMMA OthersChosen ==
  ASSUME SpeakerInv, NEW r \in Turns, pc'[r] = pc[r], todo'[r] = todo[r],
         ephemeral'[r] = ephemeral[r], speaker'[r] = speaker[r], good'[r] \subseteq good[r]
  PROVE  Chosen(r)'
  BY DEF SpeakerInv, Chosen, HasCommunicator

LEMMA WatchShrinks ==
  ASSUME SpeakerInv, Watch
  PROVE  good' = [t \in Turns |-> good'[t]] /\ \A r \in Turns : good'[r] \subseteq good[r]
  BY DEF Watch, StillGood

\* Stages that a turn goes through without choosing a provider.
LEMMA MovingKeeps ==
  ASSUME SpeakerInv, NEW t \in Turns, NEW from, NEW to,
         Goto(t, from, to), to \in Waiting => from \in Waiting, from # "answered",
         UNCHANGED <<todo, ephemeral, speaker>>, Watch
  PROVE  SpeakerInv'
<1>1. \A r \in Turns : good'[r] \subseteq good[r]
  BY WatchShrinks
<1>2. pc'[t] = to /\ pc[t] = from /\ \A r \in Turns \ {t} : pc'[r] = pc[r]
  BY DEF Goto, SpeakerInv, SpeakerTypeOK
<1>3. SpeakerTypeOK'
  BY WatchShrinks DEF SpeakerInv, SpeakerTypeOK, Goto
<1>4. Chosen(t)'
  BY <1>1, <1>2 DEF SpeakerInv, Chosen, HasCommunicator
<1>5. \A r \in Turns \ {t} : Chosen(r)'
  BY <1>1, <1>2, OthersChosen
<1> QED
  BY <1>3, <1>4, <1>5 DEF SpeakerInv

LEMMA StayingKeeps ==
  ASSUME SpeakerInv, UNCHANGED <<pc, todo, ephemeral, speaker>>, Watch
  PROVE  SpeakerInv'
<1>1. \A r \in Turns : good'[r] \subseteq good[r]
  BY WatchShrinks
<1>2. SpeakerTypeOK'
  BY WatchShrinks DEF SpeakerInv, SpeakerTypeOK
<1> QED
  BY <1>1, <1>2, OthersChosen DEF SpeakerInv

LEMMA EndingKeeps ==
  ASSUME SpeakerInv, NEW t \in Turns, NEW from, NEW to \in Ended, Goto(t, from, to), Forget(t)
  PROVE  SpeakerInv'
<1>1. pc'[t] = to /\ \A r \in Turns \ {t} : pc'[r] = pc[r]
  BY DEF Goto, SpeakerInv, SpeakerTypeOK
<1>2. SpeakerTypeOK'
  <2>1. <<>> \in Seq(Providers)
    OBVIOUS
  <2> QED
    BY <2>1 DEF SpeakerInv, SpeakerTypeOK, Goto, Forget
<1>3. Chosen(t)'
  BY <1>1, TurnAssumption DEF SpeakerInv, SpeakerTypeOK, Chosen, Forget, Ended, Waiting
<1>4. ASSUME NEW r \in Turns \ {t} PROVE Chosen(r)'
  <2>1. /\ todo'[r] = todo[r] /\ ephemeral'[r] = ephemeral[r] /\ speaker'[r] = speaker[r]
        /\ good'[r] \subseteq good[r]
    BY DEF Forget, SpeakerInv, SpeakerTypeOK, StillGood
  <2> QED
    BY <1>1, <2>1, OthersChosen
<1> QED
  BY <1>2, <1>3, <1>4 DEF SpeakerInv

\* The search for a provider: what it leaves out is not available.
LEMMA OfferKeeps ==
  ASSUME SpeakerInv, NEW t \in Turns, NEW from \in {"ready", "sending", "storing"},
         NEW order \in Seq(Providers), Offer(t, from, order),
         good'[t] \subseteq StillGood(ToSet(order)), good' = [u \in Turns |-> good'[u]],
         \A r \in Turns \ {t} : good'[r] \subseteq good[r] /\ ephemeral'[r] = ephemeral[r],
         ephemeral' = [u \in Turns |-> ephemeral'[u]],
         HasCommunicator => ephemeral'[t] \/ ToSet(order) \subseteq Communicators
  PROVE  SpeakerInv'
<1> DEFINE rest == FirstAvailable(order)
<1>1. /\ rest \in Seq(Providers) /\ ToSet(rest) \subseteq ToSet(order)
      /\ StillGood(ToSet(order)) \subseteq ToSet(rest)
  BY FirstAvailableKeeps
<1> HIDE DEF rest
<1>2. /\ todo' = [todo EXCEPT ![t] = rest] /\ pc[t] = from
      /\ \/ rest # <<>> /\ pc' = [pc EXCEPT ![t] = "checked"] /\ speaker' = speaker
         \/ rest = <<>> /\ pc' = [pc EXCEPT ![t] = "answered"]
                        /\ speaker' = [speaker EXCEPT ![t] = "nobody"]
  BY DEF Offer, Goto, rest
<1>3. SpeakerTypeOK'
  BY <1>1, <1>2 DEF SpeakerInv, SpeakerTypeOK
<1>4. ASSUME NEW r \in Turns \ {t} PROVE Chosen(r)'
  <2>1. pc'[r] = pc[r] /\ todo'[r] = todo[r] /\ speaker'[r] = speaker[r]
    BY <1>2 DEF SpeakerInv, SpeakerTypeOK
  <2> QED
    BY <2>1, OthersChosen
<1>5. Chosen(t)'
  <2>1. speaker[t] = "none"
    BY <1>2 DEF SpeakerInv, Chosen
  <2>2. CASE rest # <<>>
    <3>1. pc'[t] = "checked" /\ todo'[t] = rest /\ speaker'[t] = "none"
      BY <1>2, <2>1, <2>2 DEF SpeakerInv, SpeakerTypeOK
    <3> QED
      BY <1>1, <2>2, <3>1, TurnAssumption DEF Chosen, HasCommunicator
  <2>3. CASE rest = <<>>
    <3>1. pc'[t] = "answered" /\ speaker'[t] = "nobody"
      BY <1>2, <2>3 DEF SpeakerInv, SpeakerTypeOK
    <3>2. ToSet(<<>>) = {}
      BY DEF ToSet
    <3>3. good'[t] = {}
      BY <1>1, <2>3, <3>2
    <3> QED
      BY <3>1, <3>3, TurnAssumption DEF Chosen, Waiting
  <2> QED
    BY <2>2, <2>3
<1> QED
  BY <1>3, <1>4, <1>5 DEF SpeakerInv

LEMMA BeginKeeps ==
  ASSUME SpeakerInv, NEW t \in Turns, Dispatch(t) \/ Synthesize(t)
  PROVE  SpeakerInv'
<1>1. PICK order \in {IF SelectCommunicator # <<>> THEN SelectCommunicator ELSE OrderedPool, OrderedPool} :
         /\ Begin(t, order)
         /\ \/ /\ order = IF SelectCommunicator # <<>> THEN SelectCommunicator ELSE OrderedPool
               /\ ephemeral' = ephemeral
            \/ ephemeral' = [ephemeral EXCEPT ![t] = TRUE]
  BY DEF Dispatch, Synthesize
<1>2. order \in Seq(Providers)
  BY <1>1, PoolKept
<1>3. Offer(t, "ready", order) /\ good' = [u \in Turns |-> StillGood(IF u = t THEN ToSet(order) ELSE good[u])]
  BY <1>1 DEF Begin
<1>4. /\ good' = [u \in Turns |-> good'[u]] /\ good'[t] \subseteq StillGood(ToSet(order))
      /\ \A r \in Turns \ {t} : good'[r] \subseteq good[r] /\ ephemeral'[r] = ephemeral[r]
      /\ ephemeral' = [u \in Turns |-> ephemeral'[u]]
  BY <1>1, <1>3 DEF StillGood, SpeakerInv, SpeakerTypeOK
<1>5. HasCommunicator => ephemeral'[t] \/ ToSet(order) \subseteq Communicators
  <2>1. HasCommunicator => SelectCommunicator # <<>>
    <3>1. ToSet(<<>>) = {}
      BY DEF ToSet
    <3> QED
      BY <3>1, PoolKept DEF HasCommunicator
  <2> QED
    BY <1>1, <2>1, PoolKept DEF SpeakerInv, SpeakerTypeOK
<1> QED
  BY <1>2, <1>3, <1>4, <1>5, OfferKeeps

LEMMA AbandonKeeps ==
  ASSUME SpeakerInv, NEW t \in Turns, NEW from \in {"sending", "storing"}, Abandon(t, from)
  PROVE  SpeakerInv'
<1>1. /\ pc[t] = from /\ Offer(t, from, Tail(todo[t])) /\ ephemeral' = ephemeral
      /\ good' = [u \in Turns |-> StillGood(good[u]) \ (IF u = t THEN {First(t)} ELSE {})]
  BY DEF Abandon, TryNext
<1>2. /\ todo[t] # <<>> /\ good[t] \subseteq ToSet(todo[t]) /\ todo[t] \in Seq(Providers)
      /\ HasCommunicator => ephemeral[t] \/ ToSet(todo[t]) \subseteq Communicators
  BY <1>1 DEF SpeakerInv, SpeakerTypeOK, Chosen, Waiting
<1>3. /\ Tail(todo[t]) \in Seq(Providers)
      /\ ToSet(todo[t]) \subseteq ToSet(Tail(todo[t])) \cup {First(t)}
      /\ ToSet(Tail(todo[t])) \subseteq ToSet(todo[t])
  BY <1>2, TailMembers DEF First
<1>4. /\ good' = [u \in Turns |-> good'[u]] /\ good'[t] \subseteq StillGood(ToSet(Tail(todo[t])))
      /\ \A r \in Turns \ {t} : good'[r] \subseteq good[r] /\ ephemeral'[r] = ephemeral[r]
      /\ ephemeral' = [u \in Turns |-> ephemeral'[u]]
  BY <1>1, <1>2, <1>3 DEF StillGood, SpeakerInv, SpeakerTypeOK
<1>5. HasCommunicator => ephemeral'[t] \/ ToSet(Tail(todo[t])) \subseteq Communicators
  BY <1>1, <1>2, <1>3
<1> QED
  BY <1>1, <1>3, <1>4, <1>5, OfferKeeps

\* An answer: that of the orchestrator, or of the provider that was asked.
LEMMA AnsweredKeeps ==
  ASSUME SpeakerInv, NEW t \in Turns, NEW from \in {"ready", "sending", "storing"}, NEW who,
         Answered(t, from, who), who = "orchestrator" \/ (from \in Waiting /\ who = First(t))
  PROVE  SpeakerInv'
<1>1. /\ pc[t] = from /\ pc' = [pc EXCEPT ![t] = "answered"]
      /\ speaker' = [speaker EXCEPT ![t] = who] /\ UNCHANGED <<todo, ephemeral>> /\ Watch
  BY DEF Answered, Goto
<1>2. good' = [u \in Turns |-> good'[u]] /\ \A r \in Turns : good'[r] \subseteq good[r]
  BY <1>1, WatchShrinks
<1>3. SpeakerTypeOK'
  BY <1>1, <1>2 DEF SpeakerInv, SpeakerTypeOK
<1>4. ASSUME NEW r \in Turns \ {t} PROVE Chosen(r)'
  <2>1. pc'[r] = pc[r] /\ todo'[r] = todo[r] /\ speaker'[r] = speaker[r] /\ ephemeral'[r] = ephemeral[r]
    BY <1>1 DEF SpeakerInv, SpeakerTypeOK
  <2> QED
    BY <1>2, <2>1, OthersChosen
<1>5. Chosen(t)'
  <2>1. pc'[t] = "answered" /\ speaker'[t] = who /\ ephemeral'[t] = ephemeral[t]
    BY <1>1 DEF SpeakerInv, SpeakerTypeOK
  <2>2. CASE who = "orchestrator"
    BY <2>1, <2>2, TurnAssumption DEF Chosen, Waiting
  <2>3. CASE from \in Waiting /\ who = First(t)
    <3>1. todo[t] # <<>> /\ todo[t] \in Seq(Providers)
      BY <1>1, <2>3 DEF SpeakerInv, SpeakerTypeOK, Chosen
    <3>2. who \in Providers /\ who \in ToSet(todo[t])
      BY <2>3, <3>1, TailMembers DEF First
    <3>3. HasCommunicator => ephemeral[t] \/ who \in Communicators
      BY <1>1, <2>3, <3>2 DEF SpeakerInv, Chosen
    <3> QED
      BY <2>1, <3>2, <3>3, TurnAssumption DEF Chosen, Waiting, HasCommunicator
  <2> QED
    BY <2>2, <2>3
<1> QED
  BY <1>3, <1>4, <1>5 DEF SpeakerInv

LEMMA TurnStepChooses ==
  ASSUME SpeakerInv, NEW t \in Turns, TurnStep(t)
  PROVE  SpeakerInv'
<1>1. CASE Reset(t)
  BY <1>1, MovingKeeps DEF Reset, Waiting
<1>2. CASE Reply(t)
  BY <1>2, MovingKeeps DEF Reply, Waiting, seen
<1>3. CASE PostPlaceholder(t) \/ Prepare(t)
  BY <1>3, MovingKeeps DEF PostPlaceholder, Prepare, Waiting, seen
<1>4. CASE CallCLI(t) \/ CallAPI(t) \/ CLIAnswers(t)
  BY <1>4, MovingKeeps DEF CallCLI, CallAPI, CLIAnswers, Waiting, seen
<1>5. CASE SaveEndsTurn(t)
  BY <1>5, MovingKeeps DEF SaveEndsTurn, Waiting, seen
<1>6. CASE Save(t)
  BY <1>6, StayingKeeps DEF Save, seen
<1>7. ASSUME NEW from \in {"preparing", "ready", "answered"}, SurfaceFailure(t, from) PROVE SpeakerInv'
  BY <1>7, EndingKeeps DEF SurfaceFailure, Ended
<1>8. CASE Output(t) \/ RecordResponse(t)
  BY <1>8, EndingKeeps DEF Output, RecordResponse, Ended
<1>9. CASE Dispatch(t) \/ Synthesize(t)
  BY <1>9, BeginKeeps
<1>10. CASE Orchestrated(t)
  BY <1>10, AnsweredKeeps DEF Orchestrated
<1>11. ASSUME NEW from \in {"sending", "storing"}, Succeed(t, from) PROVE SpeakerInv'
  BY <1>11, AnsweredKeeps DEF Succeed, Waiting
<1>12. CASE ProviderFails(t) \/ SaveSpoilsAnswer(t)
  BY <1>12, AbandonKeeps DEF ProviderFails, SaveSpoilsAnswer
<1> QED
  BY <1>1, <1>2, <1>3, <1>4, <1>5, <1>6, <1>7, <1>8, <1>9, <1>10, <1>11, <1>12
     DEF TurnStep, APIAnswers, CLITimesOut, Stored

LEMMA SpeakerStep == SpeakerInv /\ [Next]_vars => SpeakerInv'
<1> SUFFICES ASSUME SpeakerInv, [Next]_vars PROVE SpeakerInv'
  OBVIOUS
<1>1. ASSUME NEW t \in Turns, Drop(t) \/ Accept(t) PROVE SpeakerInv'
  BY <1>1, MovingKeeps DEF Drop, Accept, Waiting, seen
<1>2. ASSUME NEW t \in Turns, HeartbeatPush(t) \/ PushArrives(t) PROVE SpeakerInv'
  BY <1>2, StayingKeeps DEF HeartbeatPush, PushArrives, seen
<1>3. CASE TimePasses
  BY <1>3, StayingKeeps DEF TimePasses, seen
<1>4. CASE Crash
  <2>1. <<>> \in Seq(Providers)
    OBVIOUS
  <2>2. \A t \in Turns : pc'[t] \notin Waiting
    BY <1>4 DEF Crash, Waiting, Ended
  <2>3. SpeakerTypeOK'
    BY <1>4, <2>1 DEF Crash, SpeakerInv, SpeakerTypeOK
  <2>4. \A t \in Turns : speaker'[t] = "none"
    BY <1>4 DEF Crash
  <2>5. \A t \in Turns : Chosen(t)'
    BY <2>2, <2>4, TurnAssumption DEF Chosen
  <2> QED
    BY <2>3, <2>5 DEF SpeakerInv
<1>5. CASE UNCHANGED vars
  BY <1>5, OthersChosen DEF vars, seen, SpeakerInv, SpeakerTypeOK
<1> QED
  BY <1>1, <1>2, <1>3, <1>4, <1>5, TurnStepChooses DEF Next

\* The pool router (pool_router.py, select_communicator and get_ordered_pool) and the bridge's
\* pool loop: whatever limits, cooldowns and failures come while turns share the pool, only a
\* communicator speaks where there is one, and a turn goes unanswered only if each provider it
\* was offered failed it or was not available at some time.
THEOREM SpeakersAreSound == Spec => []SpeakerSound
<1>1. Init => SpeakerInv
  <2> SUFFICES ASSUME Init PROVE SpeakerInv
    OBVIOUS
  <2>1. <<>> \in Seq(Providers)
    OBVIOUS
  <2>2. SpeakerTypeOK
    BY <2>1 DEF Init, SpeakerTypeOK
  <2>3. \A t \in Turns : Chosen(t)
    BY TurnAssumption DEF Init, Chosen, Waiting
  <2> QED
    BY <2>2, <2>3 DEF SpeakerInv
<1>2. SpeakerInv => SpeakerSound
  BY DEF SpeakerInv, Chosen, SpeakerSound, CommunicatorSpeaks, AnsweredIfPossible, HasCommunicator,
     StillGood
<1> QED
  BY <1>1, <1>2, SpeakerStep, PTL DEF Spec
=============================================================================
