-------------------------------- MODULE Backends -------------------------------
(***************************************************************************)
(* The providers: src/providers/*.py.  A backend turns the messages of a   *)
(* conversation, or of an agent's run (AgentLoop), into a request of its   *)
(* API, and what comes back into a response; the one of the Claude CLI     *)
(* does so through a process that prints events.                           *)
(*                                                                         *)
(* A message is the number of its text, with the calls it makes or the one *)
(* it answers.  Usage figures, sampling parameters, addresses and keys are *)
(* left out; a call that raises for any reason is one that fails.          *)
(***************************************************************************)
EXTENDS AgentLoop, SequencesExt, FiniteSetsExt, Filters

CONSTANTS
    CacheTail,      \* cache_history_tail
    MaxTexts,       \* bound: messages of a conversation
    MaxEvents,      \* bound: lines of the CLI's output
    MaxChanges      \* bound: changes of the service

ASSUME BackendAssumption == {CacheTail, MaxTexts, MaxEvents, MaxChanges} \subseteq Nat

VARIABLES
    backend,        \* the provider's class
    instructions,   \* a system prompt is given
    history,        \* the conversation, or the prompt of the agent's run
    inCall,        \* a send of the conversation is under way
    blocks,         \* what the API has returned last
    reply,          \* the response made of it
    cli,            \* the process of the CLI
    endpoint,       \* what the service is like: up, serving the model, listing it
    healthy,        \* the last health_check, and what it saw
    changes

backendVars == <<agentVars, backend, instructions, history, inCall, blocks, reply, cli,
                 endpoint, healthy, changes>>
callVars == <<inCall, blocks, reply, cli>>
serviceVars == <<endpoint, healthy, changes>>
givenVars == <<backend, instructions>>

\* The classes behind the types that load_provider knows.
Backends == {"claude_code", "anthropic", "openai", "ollama", "gemini", "bedrock", "cohere", "vllm"}

Nobody == [by |-> "nobody", text |-> 0, calls |-> {}, answers |-> {}, cached |-> FALSE]
Said(by, n) == [Nobody EXCEPT !.by = by, !.text = n]
NoReply == [texts |-> <<>>, calls |-> 0]
NoProcess == [at |-> "none", runs |-> FALSE, text |-> 0, heard |-> <<>>, ended |-> "none"]

\* A listing shows the model, one with a similar name, only others, or nothing usable.
Services ==
    {s \in [up : BOOLEAN, serves : BOOLEAN, lists : {"it", "similar", "others", "nothing"}] :
        s.serves => s.up}

BackendsInit ==
    /\ AgentInit
    /\ backend \in Backends /\ instructions \in BOOLEAN
    /\ history = <<>> /\ inCall = FALSE
    /\ blocks = <<>> /\ reply = NoReply /\ cli = NoProcess
    /\ endpoint = [up |-> TRUE, serves |-> TRUE, lists |-> "it"]
    /\ healthy = [is |-> FALSE, saw |-> endpoint] /\ changes = 0

--------------------------------------------------------------------------------
(* Requests                                                                     *)

\* The messages of the run: the model's turn with its calls, one message per result.
Message(m) ==
    IF m.kind = "turn" THEN [Nobody EXCEPT !.by = "assistant", !.calls = m.calls]
    ELSE [Nobody EXCEPT !.by = "tool", !.answers = {m.id}]
Messages == history \o [i \in DOMAIN transcript |-> Message(transcript[i])]

Preamble == IF instructions THEN <<Said("system", 0)>> ELSE <<>>
Bare(m) == [m EXCEPT !.calls = {}, !.answers = {}]
Spoken(messages) == Filter(messages, {m \in ToSet(messages) : m.by \in {"user", "assistant"}})

\* The system prompt first; calls and results in the form of the API.
ToOpenAI(messages) == Preamble \o messages

\* Roles and texts only.
ToOllama(messages) == Preamble \o [i \in DOMAIN messages |-> Bare(messages[i])]
ToVllm(messages) == ToOllama(messages)

\* The prompt of Gemini and the system blocks of Bedrock are fields of their own.
ToGemini(messages) ==
    Preamble \o [i \in DOMAIN messages |->
                    Bare([messages[i] EXCEPT !.by = IF @ = "assistant" THEN @ ELSE "user"])]
ToBedrock(messages) == ToOllama(messages)
ToCohere(messages) == ToGemini(messages)

\* Mutant: the breakpoint counts from the end of the request.
BoundaryInTail(spoken) == Len(spoken) - CacheTail + 1

\* The message before the live tail, which is to be cached with all before it.
Boundary(spoken) == Len(spoken) - CacheTail

ToAnthropic(messages) ==
    LET spoken == Spoken(messages)
    IN  Preamble \o [i \in DOMAIN spoken |->
                        [Bare(spoken[i]) EXCEPT
                            !.cached = Len(spoken) > CacheTail + 1 /\ i = Boundary(spoken)]]

\* One text, in which the model's turns are marked.
BuildPrompt(messages) == Preamble \o [i \in DOMAIN Spoken(messages) |-> Bare(Spoken(messages)[i])]

Request(messages) ==
    CASE backend = "openai" -> ToOpenAI(messages)
      [] backend = "ollama" -> ToOllama(messages)
      [] backend = "vllm" -> ToVllm(messages)
      [] backend = "gemini" -> ToGemini(messages)
      [] backend = "bedrock" -> ToBedrock(messages)
      [] backend = "cohere" -> ToCohere(messages)
      [] backend = "anthropic" -> ToAnthropic(messages)
      [] backend = "claude_code" -> BuildPrompt(messages)

--------------------------------------------------------------------------------
(* Responses                                                                    *)

\* What a model returns: texts and calls, which only those make that were given the tools.
Returned(tooled) ==
    {b \in SeqOf({"text", "call"}, MaxCalls) : ~tooled => "call" \notin ToSet(b)}

TextsIn(b) == Filter([i \in DOMAIN b |-> i], {i \in DOMAIN b : b[i] = "text"})
Calls(b) == Cardinality({i \in DOMAIN b : b[i] = "call"})

\* The texts put together and the calls in order.
FromOpenAI(b) == [texts |-> TextsIn(b), calls |-> Calls(b)]
FromVllm(b) == FromOpenAI(b)
FromGemini(b) == FromOpenAI(b)
FromBedrock(b) == FromOpenAI(b)
FromCohere(b) == FromOpenAI(b)
FromOllama(b) == [texts |-> TextsIn(b), calls |-> 0]

\* Each text block replaces the one before it.
FromAnthropic(b) ==
    [texts |-> IF TextsIn(b) = <<>> THEN <<>> ELSE <<Last(TextsIn(b))>>, calls |-> Calls(b)]

Response(b) ==
    CASE backend = "openai" -> FromOpenAI(b)
      [] backend = "vllm" -> FromVllm(b)
      [] backend = "gemini" -> FromGemini(b)
      [] backend = "bedrock" -> FromBedrock(b)
      [] backend = "cohere" -> FromCohere(b)
      [] backend = "ollama" -> FromOllama(b)
      [] backend = "anthropic" -> FromAnthropic(b)
      [] OTHER -> FromOpenAI(b)

\* Only the OpenAI class passes tools on; all but Ollama say they can.
Tooled == backend = "openai"
SupportsTools == backend # "ollama"

--------------------------------------------------------------------------------
(* Conversations                                                                *)

\* A text that is not empty is remembered as the model's.
Remembered(texts) == IF texts = <<>> THEN history ELSE Append(history, Said("assistant", Len(history) + 1))

\* A process of its own for each call, resuming the conversation the CLI keeps.
Started == [NoProcess EXCEPT !.at = "writing", !.runs = TRUE]

\* The bridge appends the user's message and sends; an attempt before may have failed and
\* left one.  The CLI is sent this message only.
UserAsks ==
    /\ phase = "new" /\ ~inCall /\ Len(history) < MaxTexts
    /\ history' = IF backend = "claude_code" THEN <<Said("user", 1)>>
                  ELSE Append(history, Said("user", Len(history) + 1))
    /\ inCall' = TRUE
    /\ cli' = IF backend = "claude_code" THEN Started ELSE NoProcess
    /\ UNCHANGED <<agentVars, givenVars, blocks, reply, serviceVars>>

Answers ==
    /\ inCall /\ backend # "claude_code" /\ endpoint.serves
    /\ blocks' \in Returned(FALSE)
    /\ reply' = Response(blocks')
    /\ history' = Remembered(reply'.texts)
    /\ inCall' = FALSE
    /\ UNCHANGED <<agentVars, givenVars, cli, serviceVars>>

AttemptFails ==
    /\ inCall /\ backend # "claude_code"
    /\ inCall' = FALSE
    /\ UNCHANGED <<agentVars, givenVars, history, blocks, reply, cli, serviceVars>>

--------------------------------------------------------------------------------
(* The CLI                                                                      *)

\* The prompt is written before the clock starts; that it cannot be written is ignored.
PromptWritten ==
    /\ cli.at = "writing"
    /\ cli' = [cli EXCEPT !.at = "reading"]
    /\ UNCHANGED <<agentVars, givenVars, history, inCall, blocks, reply, serviceVars>>

\* Mutant: the result is only taken if no text was heard before.
TextUnlessHeard(event) ==
    IF event = "text" \/ (event = "result" /\ cli.text = 0) THEN Len(cli.heard) + 1 ELSE cli.text

\* Every text replaces the one before it, the result too unless it has none.
TextAfter(event) ==
    IF event \in {"text", "result"} THEN Len(cli.heard) + 1 ELSE cli.text

\* A line: an event with or without text, or nothing that parses, which is skipped.
ReadEvent ==
    /\ cli.at = "reading" /\ Len(cli.heard) < MaxEvents
    /\ \E event \in {"text", "silent", "result", "bare result", "garbage"} :
          cli' = [cli EXCEPT !.text = TextAfter(event), !.heard = Append(@, event)]
    /\ UNCHANGED <<agentVars, givenVars, history, inCall, blocks, reply, serviceVars>>

EndOfOutput ==
    /\ cli.at = "reading"
    /\ cli' = [cli EXCEPT !.at = "ending"]
    /\ UNCHANGED <<agentVars, givenVars, history, inCall, blocks, reply, serviceVars>>

CliReturns(texts, how) ==
    /\ reply' = [texts |-> texts, calls |-> 0]
    /\ inCall' = FALSE
    /\ cli' = [cli EXCEPT !.at = "none", !.runs = FALSE, !.ended = how]
    /\ UNCHANGED <<agentVars, givenVars, history, blocks, serviceVars>>

\* The status counts only when there was no text; text 0 is the provider's own message.
Exits(status) ==
    /\ cli.at = "ending"
    /\ CliReturns(IF cli.text # 0 THEN <<cli.text>> ELSE IF status # 0 THEN <<0>> ELSE <<>>,
                  IF status # 0 /\ cli.text = 0 THEN "error" ELSE "exit")

\* wait_for: the process is killed and what it said is dropped.  It may have been inCall
\* itself, since its stderr is not read before it ends.
TimesOut ==
    /\ cli.at \in {"reading", "ending"}
    /\ CliReturns(<<0>>, "timeout")

\* A line that is no event, or longer than the buffer, raises; or the send is cancelled.
\* The process is left to itself.
CliAbandoned ==
    /\ cli.at # "none"
    /\ inCall' = FALSE
    /\ \E how \in {"raised", "cancelled"} :
          /\ how = "raised" => cli.at = "reading"
          /\ cli' = [cli EXCEPT !.at = "none", !.ended = how]
    /\ UNCHANGED <<agentVars, givenVars, history, blocks, reply, serviceVars>>

--------------------------------------------------------------------------------
(* Agents                                                                       *)

\* A provider without tools is refused; the prompt is the first message.
RunBegins ==
    /\ history = <<>> /\ ~inCall
    /\ BeginAgent
    /\ (phase' = "checking") <=> SupportsTools
    /\ history' = <<Said("user", 1)>>
    /\ UNCHANGED <<givenVars, callVars, serviceVars>>

\* The model calls tools or concludes, by what its response holds.
ModelAnswers ==
    /\ phase = "sending" /\ endpoint.serves
    /\ blocks' \in Returned(Tooled)
    /\ reply' = Response(blocks')
    /\ IF reply'.calls > 0 THEN CallsTools /\ Len(calls') = reply'.calls
       ELSE Concludes /\ outcome' = IF reply'.texts = <<>> THEN "error" ELSE "done"
    /\ UNCHANGED <<givenVars, history, inCall, cli, serviceVars>>

ModelFails ==
    /\ phase = "sending"
    /\ Concludes /\ outcome' = "error"
    /\ UNCHANGED <<givenVars, history, callVars, serviceVars>>

RunGoesOn ==
    /\ NextIteration \/ IterationsSpent \/ Blocked \/ Refused \/ Executed \/ Summarize
    /\ UNCHANGED <<givenVars, history, callVars, serviceVars>>

--------------------------------------------------------------------------------
(* Health                                                                       *)

ServiceChanges ==
    /\ changes < MaxChanges
    /\ changes' = changes + 1
    /\ endpoint' \in Services \ {endpoint}
    /\ UNCHANGED <<agentVars, givenVars, history, callVars, healthy>>

\* By class: a real call, whose answer must not be empty for some; the listing of models;
\* the catalogue; the server; the CLI's own version.
CheckAnthropic == {endpoint.serves}
CheckByPing == IF endpoint.serves THEN BOOLEAN ELSE {FALSE}
CheckOpenAI == {endpoint.up /\ endpoint.lists # "others"}
CheckOllama == {endpoint.up /\ endpoint.lists \in {"it", "similar"}}
CheckBedrock == {endpoint.up /\ endpoint.lists = "it"}
CheckVllm == {endpoint.up}
CheckClaude == {endpoint.up}

HealthCheck ==
    /\ \E passes \in CASE backend = "anthropic" -> CheckAnthropic
                       [] backend \in {"gemini", "cohere"} -> CheckByPing
                       [] backend = "openai" -> CheckOpenAI
                       [] backend = "ollama" -> CheckOllama
                       [] backend = "bedrock" -> CheckBedrock
                       [] backend = "vllm" -> CheckVllm
                       [] OTHER -> CheckClaude :
          healthy' = [is |-> passes, saw |-> endpoint]
    /\ UNCHANGED <<agentVars, givenVars, history, callVars, endpoint, changes>>

BackendsNext ==
    \/ UserAsks \/ Answers \/ AttemptFails
    \/ PromptWritten \/ ReadEvent \/ EndOfOutput \/ TimesOut \/ CliAbandoned
    \/ \E status \in {0, 1} : Exits(status)
    \/ RunBegins \/ ModelAnswers \/ ModelFails \/ RunGoesOn
    \/ ServiceChanges \/ HealthCheck
--------------------------------------------------------------------------------
(* Properties                                                                   *)

\* What is sent now, if anything is; the summary asks for itself with one more message.
Sent ==
    IF inCall \/ phase = "sending" THEN Messages
    ELSE IF phase = "summarizing" THEN Append(Messages, Said("user", 2))
    ELSE <<>>

Words(messages) ==
    LET worded == Filter(messages, {m \in ToSet(messages) : m.text # 0})
    IN  [i \in DOMAIN worded |-> <<worded[i].by, worded[i].text>>]

\* A request holds the system prompt once and first, and all that was said, in order.
RequestWhole ==
    Sent # <<>> =>
        LET request == Request(Sent)
            system == {i \in DOMAIN request : request[i].by = "system"}
        IN  /\ system = IF instructions THEN {1} ELSE {}
            /\ Words(request) = Words(Sent)

\* Each turn that calls tools is followed by one result for each of its calls, blocked and
\* refused ones included, and there are no other results: the API rejects anything else.
ToolsPaired ==
    Sent # <<>> =>
        LET request == Request(Sent)
            results == {i \in DOMAIN request : request[i].by = "tool"}
            After(i) == {r \in results : r > i /\ i + 1 .. r \subseteq results}
            turns == {i \in DOMAIN request : request[i].calls # {}}
        IN  /\ results = UNION {After(i) : i \in turns}
            /\ \A i \in turns :
                  /\ UNION {request[r].answers : r \in After(i)} = request[i].calls
                  /\ Cardinality(After(i)) = Cardinality(request[i].calls)

\* "Everything before the tail gets a cache breakpoint" (anthropic.py:34-36): one message at
\* most is marked, CacheTail messages come after it, and the mark never moves back.
CacheStable ==
    LET Marked(messages) == {i \in DOMAIN Request(messages) : Request(messages)[i].cached}
    IN  \A n \in DOMAIN Sent :
            LET now == Marked(Sent)
                then == Marked(SubSeq(Sent, 1, n))
            IN  /\ now # {} => now = {Len(Request(Sent)) - CacheTail}
                /\ then # {} => now # {} /\ Max(then) <= Max(now)

\* A response holds all that was returned; of several texts the Anthropic class keeps the
\* last.  The CLI's is the last text it printed, whatever came between; it is an error only
\* if there was none, and the process is gone unless the call was cancelled or raised.
ReplyWhole ==
    /\ blocks # <<>> =>
          /\ reply.calls = Calls(blocks)
          /\ reply.texts # <<>> <=> "text" \in ToSet(blocks)
          /\ backend # "anthropic" => reply.texts = TextsIn(blocks)
    /\ cli.ended \in {"exit", "error"} =>
          LET said == {k \in DOMAIN cli.heard : cli.heard[k] \in {"text", "result"}}
          IN  IF said # {} THEN reply.texts = <<Max(said)>> /\ cli.ended = "exit"
              ELSE reply.texts \in {<<>>, <<0>>}
    /\ cli.runs /\ ~inCall => cli.ended \in {"raised", "cancelled"}

\* A check that passes means that a call can be answered as long as nothing changes
\* (openai.py:124-131), but for the classes that do not look at the model, and for listings
\* that show it, or a similar one, or nothing.
CheckTruthful ==
    healthy.is /\ healthy.saw = endpoint =>
        endpoint.serves \/ backend \in {"claude_code", "vllm"}
                        \/ (backend \in {"openai", "ollama", "bedrock"} /\ endpoint.lists # "others")

\* A call means the same on both sides of every provider.
ExchangeSound == RequestWhole /\ ToolsPaired /\ CacheStable /\ ReplyWhole /\ CheckTruthful
================================================================================
