------------------------------- MODULE FlightLog -------------------------------
(***************************************************************************)
(* The journal of turns: src/core/flight_recorder.py, written by           *)
(* ProviderChain.try_with_fallback (the control of which is in             *)
(* ProviderChain.tla), and read after a crash by scripts/flight_recover.py. *)
(*                                                                         *)
(* Every process that runs the chain appends lines to the file of the UTC  *)
(* day.  A write that fails is swallowed.  A process that dies in a write  *)
(* leaves a line without an end, and the next line, of whatever process,   *)
(* goes on in it: neither can be read then.  Old files are removed.        *)
(***************************************************************************)
EXTENDS Naturals, Sequences

CONSTANTS
    Flights,                    \* turns, in the order they may begin
    ProcessOf,                  \* the process that runs each of them
    MaxFlightDays, MaxTries, MaxFlightDeaths, Retention, Window     \* bounds

ASSUME FlightLogAssumption ==
    /\ {MaxTries, MaxFlightDeaths, Retention} \subseteq Nat
    /\ {MaxFlightDays, Window} \subseteq Nat \ {0}

VARIABLES
    journal,        \* the lines of each day, oldest first
    brokenLine,         \* the days whose last line has no end
    flight,         \* how far each turn is
    flightDay, flightDeaths,
    missing         \* history: the turns whose last line was not written, or cannot be read

flightVars == <<journal, brokenLine, flight, flightDay, flightDeaths, missing>>

Days == 1..MaxFlightDays

FlightInit ==
    /\ journal = [d \in Days |-> <<>>] /\ brokenLine = {}
    /\ flight = [t \in Flights |-> [at |-> "none", tries |-> 0]]
    /\ flightDay = 1 /\ flightDeaths = 0 /\ missing = {}

\* _write: a line for today's file, or none.  What follows a line without an end is lost
\* with it, and ends it.
Write(t, ev, ok) ==
    \/ UNCHANGED <<journal, brokenLine>> /\ missing' = IF ev = "end" THEN missing \cup {t} ELSE missing
    \/ IF flightDay \in brokenLine
       THEN /\ brokenLine' = brokenLine \ {flightDay} /\ UNCHANGED journal
            /\ missing' = IF ev = "end" THEN missing \cup {t} ELSE missing
       ELSE /\ journal' = [journal EXCEPT ![flightDay] = Append(@, [turn |-> t, ev |-> ev, ok |-> ok])]
            /\ UNCHANGED <<brokenLine, missing>>

\* turn_start
TurnStart(t) ==
    /\ flight[t].at = "none"
    /\ flight' = [flight EXCEPT ![t].at = "between"]
    /\ Write(t, "start", TRUE)
    /\ UNCHANGED <<flightDay, flightDeaths>>

\* attempt_start
AttemptStart(t) ==
    /\ flight[t].at = "between" /\ flight[t].tries < MaxTries
    /\ flight' = [flight EXCEPT ![t] = [at |-> "attempt", tries |-> @.tries + 1]]
    /\ Write(t, "attempt", TRUE)
    /\ UNCHANGED <<flightDay, flightDeaths>>

\* attempt_end
AttemptEnd(t) ==
    /\ flight[t].at = "attempt"
    /\ \E ok \in BOOLEAN :
          /\ flight' = [flight EXCEPT ![t].at = IF ok THEN "answered" ELSE "between"]
          /\ Write(t, "attempted", ok)
    /\ UNCHANGED <<flightDay, flightDeaths>>

\* Mutant: the end is written as that of the attempt: fine, as long as something came.
TurnEndLastTry(t) ==
    /\ flight[t].at \in {"between", "answered"}
    /\ flight' = [flight EXCEPT ![t].at = IF @ = "answered" THEN "ok" ELSE "failed"]
    /\ Write(t, "end", flight[t].tries > 0)
    /\ UNCHANGED <<flightDay, flightDeaths>>

\* turn_end, at every exit of the chain: with an answer, without a provider, after an
\* error that is not retried, after the last attempt.
TurnEnd(t) ==
    /\ flight[t].at \in {"between", "answered"}
    /\ flight' = [flight EXCEPT ![t].at = IF @ = "answered" THEN "ok" ELSE "failed"]
    /\ Write(t, "end", flight[t].at = "answered")
    /\ UNCHANGED <<flightDay, flightDeaths>>

\* A process dies with its turns, perhaps in a write.
ProcessDies(p) ==
    /\ flightDeaths < MaxFlightDeaths
    /\ \E t \in Flights : ProcessOf[t] = p /\ flight[t].at \in {"between", "attempt", "answered"}
    /\ flightDeaths' = flightDeaths + 1
    /\ flight' = [t \in Flights |->
                    IF ProcessOf[t] = p /\ flight[t].at \in {"between", "attempt", "answered"}
                    THEN [flight[t] EXCEPT !.at = "died"] ELSE flight[t]]
    /\ brokenLine' \in {brokenLine, brokenLine \cup {flightDay}}
    /\ UNCHANGED <<journal, flightDay, missing>>

\* UTC midnight: _fh opens the new file with the first line, and _prune removes the old.
Midnight ==
    /\ flightDay < MaxFlightDays
    /\ flightDay' = flightDay + 1
    /\ \E pruned \in BOOLEAN :
          journal' = [d \in Days |-> IF pruned /\ d + Retention < flightDay' THEN <<>> ELSE journal[d]]
    /\ UNCHANGED <<brokenLine, flight, flightDeaths, missing>>

FlightNext ==
    \/ Midnight
    \/ \E t \in Flights : TurnStart(t) \/ AttemptStart(t) \/ AttemptEnd(t) \/ TurnEnd(t) \/ ProcessDies(ProcessOf[t])

--------------------------------------------------------------------------------
\* _load: the files of the last days; a line is named by its day and its place there.
RecentDays == {d \in Days : d <= flightDay /\ flightDay - d < Window}
LinesOf(t) ==
    UNION {{<<d, k>> : k \in {i \in DOMAIN journal[d] : journal[d][i].turn = t}} : d \in RecentDays}

\* The newest file is read first.
ReadBefore(x, y) == x[1] > y[1] \/ (x[1] = y[1] /\ x[2] < y[2])

\* list_turns: what the first turn_end among a turn's lines says.
Status(t) ==
    LET ends == {x \in LinesOf(t) : journal[x[1]][x[2]].ev = "end"}
        first == {x \in ends : \A y \in ends : x = y \/ ReadBefore(x, y)}
    IN  CASE ends = {} -> "NO-END"
          [] \E x \in first : journal[x[1]][x[2]].ok -> "OK"
          [] OTHER -> "FAILED"

Listed == {t \in Flights : LinesOf(t) # {}}

\* What the recovery tool says of a turn is true: OK and FAILED are how it ended, and
\* "NO-END (crash?)" means that it runs, that its process died, or that its last line could
\* not be written or was appended to the broken line of a process that died
\* (flight_recorder.py:108; its docstring, :16, allows only for the line in transit).
LogTruthful ==
    \A t \in Listed :
        CASE Status(t) = "OK" -> flight[t].at = "ok"
          [] Status(t) = "FAILED" -> flight[t].at = "failed"
          [] OTHER -> flight[t].at \in {"ok", "failed"} => t \in missing
================================================================================
