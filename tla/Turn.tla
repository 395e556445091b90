---------------------------------- MODULE Turn ----------------------------------
(***************************************************************************)
(* The life of a message: AdapterBase.handle_incoming of                   *)
(* src/adapters/adapter_base.py down through NexusBridge.invoke and its    *)
(* pool path (src/core/bridge.py), with the heartbeat that refreshes the   *)
(* placeholder (src/core/heartbeat.py).  Turns are asyncio tasks: they     *)
(* interleave at every await.                                              *)
(*                                                                         *)
(* Platform adapters swallow the errors of their HTTP calls, so a post or  *)
(* an edit that fails is simply lost.  The gate and the triage are         *)
(* choices; the orchestrator and the swarm answer, fail or step aside.     *)
(***************************************************************************)
EXTENDS RatePool, Conversation

CONSTANTS
    CLI,            \* the providers of type claude_code
    TokenCounts,    \* what a call may cost
    MaxCrashes

ASSUME TurnAssumption ==
    /\ CLI \subseteq Providers /\ TokenCounts \subseteq Nat
    /\ Providers \cap {"none", "nobody", "orchestrator"} = {}
    /\ MaxCrashes \in Nat

VARIABLES
    pc,
    of,             \* the session of each turn
    todo,           \* the providers a turn has not tried yet
    ephemeral,      \* a synthesis of swarm findings: no history, any provider
    resume,         \* provider.config["resume_session"]
    shown,          \* what the user sees of the turn: nothing, the placeholder, its last
                    \* word, or a placeholder the lost last word left behind
    beating,        \* the heartbeat task runs
    push,           \* an edit of the heartbeat is on its way to the platform
    crashes,
    speaker,        \* who answered the turn, "none" so far
    resumed,        \* the conversation the turn's CLI call resumes
    good,           \* history: providers the turn was offered, that were available ever
                    \* since and did not fail it
    own,            \* history: conversations a session started since its last reset
    cut             \* history: sessions that were reset or had their history cut

uiVars == <<shown, beating, push>>
seen == <<speaker, resumed, own, cut>>
vars == <<rateVars, convVars, pc, of, todo, ephemeral, resume, uiVars, crashes, good,
          seen>>

Ended == {"dropped", "done", "died", "unrecorded", "crashed"}

Init ==
    /\ RateInit /\ ConvInit
    /\ pc = [t \in Turns |-> "idle"]
    /\ of \in [Turns -> Sessions]
    /\ todo = [t \in Turns |-> <<>>]
    /\ ephemeral = [t \in Turns |-> FALSE]
    /\ resume = [p \in CLI |-> NoId]
    /\ shown = [t \in Turns |-> "nothing"]
    /\ beating = [t \in Turns |-> FALSE]
    /\ push = [t \in Turns |-> FALSE]
    /\ crashes = 0
    /\ speaker = [t \in Turns |-> "none"]
    /\ resumed = [t \in Turns |-> NoId]
    /\ good = [t \in Turns |-> {}]
    /\ own = [s \in Sessions |-> {}]
    /\ cut = {}

Goto(t, from, to) == pc[t] = from /\ pc' = [pc EXCEPT ![t] = to]

StillGood(P) == {p \in P : IsAvailable(p)}

Watch == good' = [t \in Turns |-> StillGood(good[t])]

Quiet == UNCHANGED <<of, crashes>>

\* The coroutine of a finished turn is gone, and its locals with it.
Forget(t) ==
    /\ todo' = [todo EXCEPT ![t] = <<>>]
    /\ ephemeral' = [ephemeral EXCEPT ![t] = FALSE]
    /\ speaker' = [speaker EXCEPT ![t] = "none"]
    /\ resumed' = [resumed EXCEPT ![t] = NoId]
    /\ good' = [u \in Turns |-> IF u = t THEN {} ELSE StillGood(good[u])]
    /\ UNCHANGED <<own, cut>>

(***************************************************************************)
(* Arrival: the debouncer and the gate drop a message without a word, the  *)
(* others open the session before anything else.                           *)
(***************************************************************************)
Drop(t) ==
    /\ Goto(t, "idle", "dropped")
    /\ UNCHANGED <<rateVars, convVars, todo, ephemeral, resume, uiVars, seen>>
    /\ Quiet /\ Watch

Accept(t) ==
    /\ Goto(t, "idle", "marking")
    /\ MarkActive(t, of[t]) /\ UNCHANGED history
    /\ UNCHANGED <<rateVars, todo, ephemeral, resume, uiVars, seen>>
    /\ Quiet /\ Watch

\* `new` and `reset`.
Reset(t) ==
    /\ save[t] = "none"
    /\ Goto(t, "marking", "clearing")
    /\ ClearSession(t, of[t])
    /\ own' = [own EXCEPT ![of[t]] = {}]
    /\ cut' = cut \cup {of[t]}
    /\ UNCHANGED <<rateVars, todo, ephemeral, resume, uiVars, speaker, resumed>>
    /\ Quiet /\ Watch

\* A liveness ping, another command or the confirmation of a reset: one plain post.
Reply(t) ==
    /\ save[t] = "none"
    /\ Goto(t, "marking", "done") \/ Goto(t, "clearing", "done")
    /\ shown' \in {shown, [shown EXCEPT ![t] = "final"]}
    /\ UNCHANGED <<rateVars, convVars, todo, ephemeral, resume, beating, push, seen>>
    /\ Quiet /\ Watch

PostPlaceholder(t) ==
    /\ save[t] = "none"
    /\ Goto(t, "marking", "preparing")
    /\ shown' \in {shown, [shown EXCEPT ![t] = "thinking"]}
    /\ UNCHANGED <<rateVars, convVars, todo, ephemeral, resume, beating, push, seen>>
    /\ Quiet /\ Watch

(***************************************************************************)
(* The last word of a turn edits the placeholder, or is a post of its own. *)
(* The platform may lose it, or an edit of the heartbeat that is still     *)
(* under way may overtake it: cancelling the task does not recall that.    *)
(***************************************************************************)
LastWord(t) ==
    /\ shown' \in {[shown EXCEPT ![t] = "final"],
                   [shown EXCEPT ![t] = IF @ = "thinking" THEN "left" ELSE @]}
    /\ push' = [push EXCEPT ![t] = FALSE]

StopHeartbeat(t) == beating' = [beating EXCEPT ![t] = FALSE]

SurfaceSilently(t, from) ==
    /\ Goto(t, from, "done")
    /\ UNCHANGED <<shown, push>> /\ StopHeartbeat(t)
    /\ UNCHANGED <<rateVars, convVars, resume>>
    /\ Quiet /\ Forget(t)

SurfaceFailure(t, from) ==
    /\ Goto(t, from, "done")
    /\ LastWord(t) /\ StopHeartbeat(t)
    /\ UNCHANGED <<rateVars, convVars, resume>>
    /\ Quiet /\ Forget(t)

Output(t) ==
    /\ Goto(t, "answered", "done")
    /\ LastWord(t) /\ UNCHANGED beating
    /\ UNCHANGED <<rateVars, convVars, resume>>
    /\ Quiet /\ Forget(t)

\* The triage validator is told of the answer with an argument it does not take, outside
\* every try: the turn of a recorded decision ends there.  A decision is recorded when
\* triage made it (no override was in force) and its row could be written.
RecordResponse(t) ==
    /\ Goto(t, "answered", "unrecorded")
    /\ UNCHANGED <<rateVars, convVars, resume, uiVars>>
    /\ Quiet /\ Forget(t)

\* Triage, routing, session summary; then the heartbeat starts.
Prepare(t) ==
    /\ Goto(t, "preparing", "ready")
    /\ beating' = [beating EXCEPT ![t] = TRUE]
    /\ UNCHANGED <<rateVars, convVars, todo, ephemeral, resume, shown, push, seen>>
    /\ Quiet /\ Watch

\* Every 30 s: of a turn's waits only the one for a provider is that long.
HeartbeatPush(t) ==
    /\ beating[t] /\ shown[t] # "nothing" /\ ~push[t]
    /\ pc[t] \in {"sending"} \cup Ended
    /\ push' = [push EXCEPT ![t] = TRUE]
    /\ UNCHANGED <<rateVars, convVars, pc, todo, ephemeral, resume, shown, beating, seen>>
    /\ Quiet /\ Watch

PushArrives(t) ==
    /\ push[t]
    /\ push' = [push EXCEPT ![t] = FALSE]
    /\ shown' = [shown EXCEPT ![t] = "thinking"]
    /\ UNCHANGED <<rateVars, convVars, pc, todo, ephemeral, resume, beating, seen>>
    /\ Quiet /\ Watch

(***************************************************************************)
(* The invocation.  Pool routing is configured and the pool is not empty.  *)
(***************************************************************************)
Answered(t, from, who) ==
    /\ Goto(t, from, "answered")
    /\ speaker' = [speaker EXCEPT ![t] = who]
    /\ StopHeartbeat(t)
    /\ UNCHANGED <<todo, ephemeral, resume, shown, push, resumed, own,
                   cut>>
    /\ Quiet /\ Watch

Orchestrated(t) ==
    /\ UNCHANGED <<rateVars, convVars>>
    /\ Answered(t, "ready", "orchestrator")

First(t) == Head(todo[t])

FirstAvailable(order) ==
    LET i == SelectInSeq(order, IsAvailable)
    IN  IF i = 0 THEN <<>> ELSE SubSeq(order, i, Len(order))

\* Look for a provider that is available, without an await; the heartbeat is told of it
\* before it is called, which is one.
Offer(t, from, order) ==
    /\ \E rest \in {FirstAvailable(order)} :
         /\ todo' = [todo EXCEPT ![t] = rest]
         /\ IF rest # <<>>
              THEN Goto(t, from, "checked") /\ UNCHANGED <<beating, speaker>>
              ELSE /\ Goto(t, from, "answered")
                   /\ speaker' = [speaker EXCEPT ![t] = "nobody"]
                   /\ StopHeartbeat(t)
    /\ UNCHANGED <<resume, shown, push, resumed, own, cut>>
    /\ Quiet

Begin(t, order) ==
    /\ UNCHANGED <<rateVars, convVars>>
    /\ Offer(t, "ready", order)
    /\ good' = [u \in Turns |-> StillGood(IF u = t THEN ToSet(order) ELSE good[u])]

Dispatch(t) ==
    /\ \E order \in {IF SelectCommunicator # <<>> THEN SelectCommunicator ELSE OrderedPool} :
         Begin(t, order)
    /\ UNCHANGED ephemeral

\* Findings of a swarm are put together by one more call, ephemeral and over the whole
\* pool.
Synthesize(t) ==
    /\ \E order \in {OrderedPool} : Begin(t, order)
    /\ ephemeral' = [ephemeral EXCEPT ![t] = TRUE]

\* Mutant: one provider is passed over.
TryAfterNext(t, from) ==
    /\ pc[t] = from
    /\ Offer(t, from, SubSeq(todo[t], 3, Len(todo[t]))) /\ UNCHANGED ephemeral

TryNext(t, from) ==
    /\ pc[t] = from
    /\ Offer(t, from, Tail(todo[t])) /\ UNCHANGED ephemeral

\* The id to resume is written to the provider's shared configuration, and stays there.
CallCLI(t) ==
    /\ Goto(t, "checked", "sending")
    /\ First(t) \in CLI
    /\ LET id == store.cc[of[t]]
       IN  resume' = IF id = NoId THEN resume ELSE [resume EXCEPT ![First(t)] = id]
    /\ resumed' = [resumed EXCEPT ![t] = resume'[First(t)]]
    /\ own' = IF resumed'[t] = NoId THEN [own EXCEPT ![of[t]] = @ \cup {t}] ELSE own
    /\ UNCHANGED <<rateVars, convVars, todo, ephemeral, uiVars, speaker, cut>>
    /\ Quiet /\ Watch

CallAPI(t) ==
    /\ Goto(t, "checked", "sending")
    /\ First(t) \notin CLI
    /\ IF ephemeral[t] THEN UNCHANGED <<history, cut>>
       ELSE /\ AddPrompt(of[t], t)
            /\ cut' = IF Len(history[of[t]]) < MaxHistory THEN cut ELSE cut \cup {of[t]}
    /\ UNCHANGED <<rateVars, store, disk, save, copy, overlap, todo, ephemeral, resume,
                   uiVars, speaker, resumed, own>>
    /\ Quiet /\ Watch

Succeed(t, from) ==
    /\ pc[t] = from
    /\ \E n \in TokenCounts : RecordRequest(First(t), n)
    /\ Answered(t, from, First(t))

APIAnswers(t) ==
    /\ pc[t] = "sending" /\ First(t) \notin CLI
    /\ Succeed(t, "sending")
    /\ IF ephemeral[t] THEN UNCHANGED history ELSE AddReply(of[t], t)
    /\ UNCHANGED <<store, disk, save, copy, overlap>>

CLIAnswers(t) ==
    /\ pc[t] = "sending" /\ First(t) \in CLI
    /\ Goto(t, "sending", "storing")
    /\ SetCCSession(t, of[t], IF resumed[t] = NoId THEN t ELSE resumed[t])
    /\ UNCHANGED <<rateVars, history, todo, ephemeral, resume, uiVars, seen>>
    /\ Quiet /\ Watch

\* A CLI that times out answers with a text of its own and reports no session.
CLITimesOut(t) ==
    /\ pc[t] = "sending" /\ First(t) \in CLI
    /\ Succeed(t, "sending")
    /\ UNCHANGED convVars

Stored(t) ==
    /\ save[t] = "none"
    /\ Succeed(t, "storing")
    /\ UNCHANGED convVars

Abandon(t, from) ==
    /\ TryNext(t, from)
    /\ good' = [u \in Turns |-> StillGood(good[u]) \ (IF u = t THEN {First(t)} ELSE {})]

ProviderFails(t) ==
    /\ pc[t] = "sending"
    /\ SetCooldown(First(t)) \/ UNCHANGED rateVars
    /\ UNCHANGED convVars
    /\ Abandon(t, "sending")

(***************************************************************************)
(* The saves a turn waits for.  One that raises ends the turn's task; in   *)
(* the invocation it passes for a failure of the provider, whose answer is *)
(* thrown away.                                                            *)
(***************************************************************************)
Save(t) ==
    /\ SaveOpen(t) \/ SaveWrite(t)
    /\ UNCHANGED <<rateVars, pc, todo, ephemeral, resume, uiVars, seen>>
    /\ Quiet /\ Watch

SaveEndsTurn(t) ==
    /\ SaveRaises(t)
    /\ Goto(t, "marking", "died") \/ Goto(t, "clearing", "died")
    /\ UNCHANGED <<rateVars, todo, ephemeral, resume, uiVars, seen>>
    /\ Quiet /\ Watch

SaveSpoilsAnswer(t) ==
    /\ SaveRaises(t)
    /\ UNCHANGED rateVars
    /\ Abandon(t, "storing")

(***************************************************************************)
(* The environment                                                         *)
(***************************************************************************)
TimePasses ==
    /\ Tick
    /\ UNCHANGED <<convVars, pc, todo, ephemeral, resume, uiVars, seen>>
    /\ Quiet /\ Watch

\* The process is killed and started again: only the file survives.
Crash ==
    /\ crashes < MaxCrashes
    /\ crashes' = crashes + 1
    /\ pc' = [t \in Turns |-> IF pc[t] \in Ended \cup {"idle"} THEN pc[t] ELSE "crashed"]
    /\ Reload
    /\ resume' = [p \in CLI |-> NoId]
    /\ calls' = [p \in Providers |-> <<>>]
    /\ cooldownUntil' = [p \in Providers |-> 0]
    /\ beating' = [t \in Turns |-> FALSE]
    /\ push' = [t \in Turns |-> FALSE]
    /\ todo' = [t \in Turns |-> <<>>]
    /\ ephemeral' = [t \in Turns |-> FALSE]
    /\ speaker' = [t \in Turns |-> "none"]
    /\ resumed' = [t \in Turns |-> NoId]
    /\ good' = [t \in Turns |-> {}]
    /\ UNCHANGED <<clock, of, shown, own, cut>>

TurnStep(t) ==
    \/ Reset(t) \/ Reply(t) \/ PostPlaceholder(t)
    \/ Prepare(t) \/ SurfaceFailure(t, "preparing") \/ SurfaceFailure(t, "ready")
    \/ Dispatch(t) \/ Synthesize(t) \/ Orchestrated(t)
    \/ CallCLI(t) \/ CallAPI(t)
    \/ APIAnswers(t) \/ CLIAnswers(t) \/ CLITimesOut(t) \/ Stored(t)
    \/ ProviderFails(t)
    \/ RecordResponse(t) \/ Output(t) \/ SurfaceFailure(t, "answered")
    \/ Save(t) \/ SaveEndsTurn(t) \/ SaveSpoilsAnswer(t)

Next ==
    \/ \E t \in Turns : Drop(t) \/ Accept(t) \/ TurnStep(t)
                          \/ HeartbeatPush(t) \/ PushArrives(t)
    \/ TimePasses
    \/ Crash

Spec == Init /\ [][Next]_vars

(***************************************************************************)
(* Properties                                                              *)
(***************************************************************************)

\* "A crashed turn must never leave 'thinking...' hanging" (turn_failure.py:1): whatever
\* stage a turn fails in, its placeholder ends as the answer or as a notice, unless the
\* platform lost that last edit, the process died, or a heartbeat edit that was already
\* on its way arrived after it.
NoTurnLeftThinking ==
    \A t \in Turns :
        pc[t] \in Ended /\ shown[t] = "thinking" => pc[t] = "crashed"

\* What remains of it: only the call that records the response leaves a turn thinking, and
\* the stages before and after it (adapter_base.py:253, 298, 338) do not.
OnlyRecordingHangs ==
    \A t \in Turns :
        pc[t] \in Ended /\ shown[t] = "thinking" => pc[t] \in {"crashed", "unrecorded"}

\* Turns of one conversation share its history list: it stays within MAX_HISTORY and the
\* replies still to come, and holds no reply without the prompt it answers, until a reset
\* or the limit cuts it.
HistorySound ==
    \A s \in Sessions :
        LET h == history[s]
        IN  /\ Len(h) <= MaxHistory + Cardinality({t \in Turns : of[t] = s})
            /\ s \notin cut =>
                 \A i \in DOMAIN h : h[i][1] = "assistant" =>
                    \E j \in 1..(i - 1) : h[j] = <<"user", h[i][2]>>

\* The session file: when no save is under way, and none ran while another did, a restart
\* reads back exactly what the store holds.
DiskCurrent == Saving = {} /\ ~overlap => Load = store

\* A conversation survives its concurrent turns, its retries and a restart: the history the
\* providers are shown and the session file that is read back are both sound.
ConversationSound == HistorySound /\ DiskCurrent

\* Only a communicator speaks to the user when the pool has one (pool_router.py:119-137);
\* the synthesis of swarm findings is the exception the code makes.
CommunicatorSpeaks ==
    \A t \in Turns :
        speaker[t] \in Providers /\ ToSet(Pool) \cap Communicators # {} =>
            speaker[t] \in Communicators \/ ephemeral[t]

\* A turn goes unanswered only if each provider it was offered failed it, or exceeded
\* its limits at some time, or had its answer thrown away by a failed save; rate
\* windows and cooldowns are shared with the other turns.
AnsweredIfPossible == \A t \in Turns : speaker[t] = "nobody" => StillGood(good[t]) = {}

\* The user is answered by the right provider, and by some provider whenever one could.
SpeakerSound == CommunicatorSpeaks /\ AnsweredIfPossible

\* A CLI call resumes a conversation its own session started since its last reset, or
\* none: "session_id is stored in SessionStore and passed back to the CLI to resume
\* context" (bridge.py:66-67), and `new` clears "history and session ID" (bridge.py:624).
ResumesOwnConversation ==
    [][\A t \in Turns : resumed'[t] # resumed[t] => resumed'[t] \in own[of[t]] \cup {NoId}]_vars

=================================================================================
