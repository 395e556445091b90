------------------------------- MODULE MCRecords -------------------------------
(***************************************************************************)
(* Four messages in pages of two, one of a bot, one a command, two with    *)
(* the same text; two dispatches of one session, three specialists of whom *)
(* one has no profile; three turns of a model with a plain and a guarded   *)
(* tool, over each of the backends; a job of the crontab that is due twice *)
(* and a unit of systemd; a nano model that is also the local one and has  *)
(* failed as a skeptic before, and one whose benchmark result is above the *)
(* bar, graded once; two channels and one decision; a note that shrinks    *)
(* and grows; one tracked model, two candidates; two queries whose names   *)
(* are one directory; two turns of two processes; two entries of one type  *)
(* with a limit of one call; a council of three on two findings; an        *)
(* installation, two boots; three types of provider and two set-ups.       *)
(***************************************************************************)
EXTENDS Records

CONSTANTS d1, d2, law, tax, nobody, job, nano, tested,
    dev, chat, note, llama, qwen, gemma, cpp, csharp, council, member, f1, f2,
    groq, groq_2, service, monitor, findingA, findingB, speed,
    gemini, claude_code, ollama

Texts == <<"hello", "a", "hello", "b">>

OneSession == [d \in {d1, d2} |-> "session"]
Figures == [c \in {d1, d2} \X {law, tax, nobody} |-> IF c[1] = d1 \/ c[2] = law THEN 1 ELSE 2]

Due == [j \in {job} |-> {1, 3}]
Ages == [j \in {job} |-> 2]

AllDomains == {"coding", "council_skeptic", "council_advocate", "council_verifier"}
Findings == (<<"coding", tested>> :> 7400)
NoBaseline == {}
\* What verdicts of 10000 and 0 have made of them, written out.
PassedOnce == [score |-> 6000, grades |-> 1, latch |-> "below", streak |-> 1, last |-> <<6000>>]
FailedTwice == [score |-> 3200, grades |-> 2, latch |-> "below", streak |-> 0, last |-> <<4000, 3200>>]
Recovered == [score |-> 6352, grades |-> 4, latch |-> "above", streak |-> 0, last |-> <<5440, 6352>>]
FailedSkeptic ==
    [FreshMap EXCEPT ![<<"coding", tested>>] = PassedOnce, ![<<"council_skeptic", nano>>] = FailedTwice]
FailedOnce == [FreshMap EXCEPT ![<<"coding", tested>>] = Recovered]
GradedBefore == {FailedSkeptic, FailedOnce}
JudgeOrder == <<tested, nano>>

OneDirectory(q) == "c__"
TwoProcesses == [t \in {f1, f2} |-> IF t = f1 THEN "service" ELSE "script"]
SameType == [p \in {groq, groq_2} |-> groq]
Allowances ==
    [p \in {groq, groq_2} |-> [access |-> "free", rpm |-> 1, rpd |-> 2, tpm |-> 3, tpd |-> 0]]

Line(fields) == fields @@ Blank
Sayable ==
    {Line([head |-> findingA, verdicts |-> {"CONFIRM"}, meta |-> TRUE]),
     Line([verdicts |-> {"CONFIRM"}, topic |-> speed]),
     Line([head |-> findingA, verdicts |-> {"FLAG"}]),
     Line([mentions |-> {findingB}, verdicts |-> {"DENY"}, topic |-> speed, tagged |-> TRUE]),
     Line([head |-> findingB, mentions |-> {findingA}, verdicts |-> {"CONFIRM"}]),
     Line([mentions |-> {findingA, findingB}, verdicts |-> {"DENY"}]),
     Line([head |-> findingB, verdicts |-> {"CONFIRM"}, builder |-> TRUE]),
     Line([claim |-> speed, figure |-> 1]),
     Line([claim |-> speed, figure |-> 2, denied |-> TRUE])}
LookedUp == {Line([head |-> findingB, verdicts |-> {"CONFIRM"}])}
SkepticSaysMore == [r \in CouncilRoles |-> IF r = "skeptic" THEN 2 ELSE 1]

Modes == (gemini :> "key") @@ (claude_code :> "cli") @@ (ollama :> "local")

SlotSymmetry == Permutations(Slots)
================================================================================
