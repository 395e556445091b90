--------------------------------- MODULE Engine ---------------------------------
(***************************************************************************)
(* The hybrid loop of src/core/engine.py: it waits in STANDBY for a wake   *)
(* event or a queued message and works in ACTIVE, tick by tick, until it   *)
(* has been idle for a while.  enqueue() and stop() are called by other    *)
(* coroutines, which run only where the loop awaits, so never inside a     *)
(* read of the trigger file.                                               *)
(*                                                                         *)
(* The wake trigger file is that of src/core/watchers.py.  Watchers are    *)
(* processes of their own: each opens the file, appends its event and      *)
(* closes it (write_wake_event, or echo in a shell).  The engine takes the *)
(* file away by renaming it, reads it and unlinks it (read_events); its    *)
(* steps run without an await, but the watchers do not wait for them.  A   *)
(* file is named by where it can be found: under the trigger path, under   *)
(* the path it is read from, or nowhere any more.                          *)
(*                                                                         *)
(* Clocks are abstract: a time-out or the idle limit may be reached at any *)
(* check of it.  A message is processed by the orchestrator or a provider, *)
(* which answer, or raise, or have nothing to say.                         *)
(***************************************************************************)
EXTENDS Naturals, Sequences

CONSTANTS
    Events,         \* one watcher process for each
    Messages,       \* each enqueued once
    MaxCrashes

ASSUME EngineAssumption == MaxCrashes \in Nat

Places == {"trigger", "reading"}

VARIABLES
    lines,      \* the events in the two files
    handle,     \* the file each watcher has open
    written,    \* history: the watchers that have appended
    reader,     \* how far read_events is
    batch,      \* the events it has read
    heard,      \* history: the events it has returned
    again,      \* history: the events it has returned a second time
    exposed,    \* history: the events that were lost, or may be
    mode,
    running,    \* self._running
    queue,
    at,         \* where the loop's coroutine is
    worked,     \* a reply was sent in this tick
    fate,       \* what became of each message
    stops,      \* stop() was called
    engineDeaths

triggerVars == <<lines, handle, written, reader, batch, heard, again, exposed>>
engineOnly == <<mode, running, queue, at, worked, fate, stops, engineDeaths>>
engineVars == <<triggerVars, engineOnly>>

--------------------------------------------------------------------------------
\* The trigger file.
TriggerInit ==
    /\ lines = [f \in Places |-> {}]
    /\ handle = [e \in Events |-> "none"]
    /\ written = {} /\ batch = {} /\ heard = {} /\ again = {} /\ exposed = {}
    /\ reader = "no"

\* The handles stay with the file when it gets another name.
Renamed(f, g) == [e \in Events |-> IF handle[e] = f THEN g ELSE handle[e]]

\* open(path, "a"), which creates the file if it is away.
OpenFile(e) ==
    /\ e \notin written /\ handle[e] = "none"
    /\ handle' = [handle EXCEPT ![e] = "trigger"]
    /\ UNCHANGED <<lines, written, reader, batch, heard, again, exposed>>

\* The line is flushed and the file closed.
AppendLine(e) ==
    /\ handle[e] # "none"
    /\ lines' = IF handle[e] \in Places THEN [lines EXCEPT ![handle[e]] = @ \cup {e}] ELSE lines
    /\ handle' = [handle EXCEPT ![e] = "none"]
    /\ written' = written \cup {e}
    /\ UNCHANGED <<reader, batch, heard, again, exposed>>

\* Mutant: the file is copied and read, and stays where it is.
ClaimCopy ==
    /\ lines' = [lines EXCEPT !["reading"] = lines["trigger"]]
    /\ UNCHANGED handle

\* rename() replaces what an earlier read has left behind; a new trigger file is made.
Claim ==
    /\ lines' = [trigger |-> {}, reading |-> lines["trigger"]]
    /\ handle' = [e \in Events |->
                    CASE handle[e] = "trigger" -> "reading" [] handle[e] = "reading" -> "gone"
                      [] OTHER -> handle[e]]

\* read_events begins.
BeginRead ==
    /\ reader = "no"
    /\ Claim
    /\ reader' = "renamed"
    /\ exposed' = exposed \cup {e \in Events : handle[e] = "trigger"}
    /\ UNCHANGED <<written, batch, heard, again>>

\* The rename has failed: the file is read where it is.
BeginReadInPlace ==
    /\ reader = "no"
    /\ reader' = "inplace"
    /\ batch' = lines["trigger"]
    /\ UNCHANGED <<lines, handle, written, heard, again, exposed>>

Read ==
    /\ reader = "renamed"
    /\ reader' = "read"
    /\ batch' = lines["reading"]
    /\ UNCHANGED <<lines, handle, written, heard, again, exposed>>

Returned ==
    /\ again' = again \cup (batch \cap heard)
    /\ heard' = heard \cup batch
    /\ batch' = {}
    /\ reader' = "no"

\* The file is unlinked, or truncated if it was read in place, and the events returned.
EndRead ==
    /\ \/ /\ reader = "read"
          /\ lines' = [lines EXCEPT !["reading"] = {}]
          /\ handle' = Renamed("reading", "gone")
          /\ UNCHANGED exposed
       \/ /\ reader = "inplace"
          /\ lines' = [lines EXCEPT !["trigger"] = {}]
          /\ exposed' = exposed \cup (lines["trigger"] \ batch)
          /\ UNCHANGED handle
    /\ Returned
    /\ UNCHANGED written

\* read_text raises: the file is not text.  It stays behind, to be replaced next time.
ReadRaises ==
    /\ reader = "renamed" /\ lines["reading"] # {}
    /\ reader' = "no"
    /\ exposed' = exposed \cup lines["reading"]
    /\ UNCHANGED <<lines, handle, written, batch, heard, again>>

\* The engine's process dies, in the middle of a read perhaps.
ReaderDies ==
    /\ reader' = "no" /\ batch' = {}
    /\ exposed' = exposed \cup batch \cup lines["reading"]
    /\ UNCHANGED <<lines, handle, written, heard, again>>
--------------------------------------------------------------------------------
\* The loop.
EngineInit ==
    /\ TriggerInit
    /\ mode = "starting" /\ running = FALSE /\ queue = <<>> /\ worked = FALSE
    /\ at = "created" /\ stops = FALSE /\ engineDeaths = 0
    /\ fate = [m \in Messages |-> "none"]

\* Mutant: one message does not wake the engine, nor keep a tick going.
WaitingPlural(q) == Len(q) > 1

\* not self._queue.empty()
Waiting(q) == q # <<>>

\* enqueue(), from another coroutine.
Enqueue(m) ==
    /\ fate[m] = "none" /\ reader = "no"
    /\ queue' = Append(queue, m)
    /\ fate' = [fate EXCEPT ![m] = "queued"]
    /\ mode' = IF mode = "standby" THEN "active" ELSE mode
    /\ UNCHANGED <<triggerVars, running, at, worked, stops, engineDeaths>>

StartEngine ==
    /\ at = "created"
    /\ running' = TRUE /\ mode' = "standby" /\ at' = "loop"
    /\ UNCHANGED <<triggerVars, queue, worked, fate, stops, engineDeaths>>

\* stop(), at shutdown; the loop sees it when it comes round.
Stop ==
    /\ ~stops /\ reader = "no"
    /\ stops' = TRUE
    /\ mode' = "stopping" /\ running' = FALSE
    /\ UNCHANGED <<triggerVars, queue, at, worked, fate, engineDeaths>>

\* main() cancels the loop after stop().
Cancel ==
    /\ stops /\ reader = "no" /\ at # "ended"
    /\ at' = "ended"
    /\ UNCHANGED <<triggerVars, mode, running, queue, worked, fate, stops, engineDeaths>>

LoopEnds ==
    /\ at = "loop" /\ ~running
    /\ at' = "ended"
    /\ UNCHANGED <<triggerVars, mode, running, queue, worked, fate, stops, engineDeaths>>

\* _standby_loop: a message is there, or the trigger file is polled.
EnterStandby ==
    /\ at = "loop" /\ running /\ mode = "standby"
    /\ IF Waiting(queue) THEN mode' = "active" /\ UNCHANGED at
       ELSE at' = "poll" /\ UNCHANGED mode
    /\ UNCHANGED <<triggerVars, running, queue, worked, fate, stops, engineDeaths>>

\* _active_loop begins a tick.
EnterActive ==
    /\ at = "loop" /\ running /\ mode = "active"
    /\ at' = "drain" /\ worked' = FALSE
    /\ UNCHANGED <<triggerVars, mode, running, queue, fate, stops, engineDeaths>>

\* _tick takes the next message ...
Take ==
    /\ at = "drain" /\ Waiting(queue)
    /\ at' = "process"
    /\ fate' = [fate EXCEPT ![Head(queue)] = "taken"]
    /\ queue' = Tail(queue)
    /\ UNCHANGED <<triggerVars, mode, running, worked, stops, engineDeaths>>

Taken == {m \in Messages : fate[m] = "taken"}

\* ... and _process returns: with a reply, or without one after any exception.
Process ==
    /\ at = "process"
    /\ \/ at' = "deliver" /\ UNCHANGED fate
       \/ at' = "drain" /\ fate' = [m \in Messages |-> IF m \in Taken THEN "dropped" ELSE fate[m]]
    /\ UNCHANGED <<triggerVars, mode, running, queue, worked, stops, engineDeaths>>

\* _deliver swallows what the adapter's handler raises.
Deliver ==
    /\ at = "deliver"
    /\ at' = "drain" /\ worked' = TRUE
    /\ \E f \in {"delivered", "undelivered"} :
          fate' = [m \in Messages |-> IF m \in Taken THEN f ELSE fate[m]]
    /\ UNCHANGED <<triggerVars, mode, running, queue, stops, engineDeaths>>

\* The poll of the trigger file in STANDBY, and the one at the end of a tick.
StartRead ==
    /\ at = "poll" \/ (at = "drain" /\ ~Waiting(queue))
    /\ BeginRead \/ BeginReadInPlace
    /\ at' = IF at = "poll" THEN "polling" ELSE "ticking"
    /\ UNCHANGED <<mode, running, queue, worked, fate, stops, engineDeaths>>

KeepReading ==
    /\ Read
    /\ UNCHANGED engineOnly

\* The exception ends the pass; start() logs it and sleeps for a second.
ReadFails ==
    /\ ReadRaises
    /\ at' = "sleep"
    /\ UNCHANGED <<mode, running, queue, worked, fate, stops, engineDeaths>>

\* wait_for_event returns with the events, ...
PollWakes ==
    /\ at = "polling" /\ batch # {}
    /\ EndRead
    /\ mode' = "active" /\ at' = "loop"
    /\ UNCHANGED <<running, queue, worked, fate, stops, engineDeaths>>

\* ... or sleeps before the next poll, ...
PollWaits ==
    /\ at = "polling" /\ batch = {}
    /\ EndRead
    /\ at' = "wait"
    /\ UNCHANGED <<mode, running, queue, worked, fate, stops, engineDeaths>>

\* ... or is at its deadline: _standby_loop looks at the queue once more.
PollTimesOut ==
    /\ at = "polling" /\ batch = {}
    /\ EndRead
    /\ mode' = (IF Waiting(queue) THEN "active" ELSE mode) /\ at' = "loop"
    /\ UNCHANGED <<running, queue, worked, fate, stops, engineDeaths>>

PollAgain ==
    /\ at = "wait"
    /\ at' = "poll"
    /\ UNCHANGED <<triggerVars, mode, running, queue, worked, fate, stops, engineDeaths>>

\* A tick that did nothing may find the idle limit reached.
TickEnds ==
    /\ at = "ticking"
    /\ EndRead
    /\ \/ at' = "sleep" /\ UNCHANGED mode
       \/ batch = {} /\ ~worked /\ mode' = "standby" /\ at' = "loop"
    /\ UNCHANGED <<running, queue, worked, fate, stops, engineDeaths>>

SleepEnds ==
    /\ at = "sleep"
    /\ at' = "loop"
    /\ UNCHANGED <<triggerVars, mode, running, queue, worked, fate, stops, engineDeaths>>

\* The process dies with its queue and is started again.
EngineDies ==
    /\ engineDeaths < MaxCrashes
    /\ engineDeaths' = engineDeaths + 1
    /\ ReaderDies
    /\ mode' = "starting" /\ running' = FALSE /\ queue' = <<>> /\ worked' = FALSE
    /\ at' = "created" /\ stops' = FALSE
    /\ fate' = [m \in Messages |-> IF fate[m] \in {"queued", "taken"} THEN "lost" ELSE fate[m]]

Loop ==
    \/ StartEngine \/ LoopEnds \/ EnterStandby \/ EnterActive \/ Take \/ Process \/ Deliver
    \/ StartRead \/ KeepReading \/ ReadFails \/ PollWakes \/ PollWaits \/ PollTimesOut
    \/ PollAgain \/ TickEnds \/ SleepEnds

EngineNext ==
    \/ Loop \/ Stop \/ Cancel \/ EngineDies
    \/ \E m \in Messages : Enqueue(m)
    \/ \E e \in Events : (OpenFile(e) \/ AppendLine(e)) /\ UNCHANGED engineOnly
--------------------------------------------------------------------------------
\* Rename before read (watchers.py:112-113): an event is returned at most once, and one
\* that was appended is either returned, or still in a file that will be read, or its
\* watcher had the file open when it was renamed, or the read itself broke down (an
\* exception, a crash, a rename that failed).
WakeHeard ==
    /\ again = {}
    /\ written \subseteq heard \cup batch \cup lines["trigger"] \cup exposed
                        \cup (IF reader = "renamed" THEN lines["reading"] ELSE {})

\* A queued message is processed, whatever state the engine was in when it came, and
\* whatever becomes of the trigger file: only a stop or a crash can leave it behind.
QueueServed ==
    \A m \in Messages :
        fate[m] = "queued" ~> fate[m] \in {"delivered", "undelivered", "dropped", "lost"} \/ stops
================================================================================
