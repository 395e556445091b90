------------------------------ MODULE Conversation ------------------------------
(***************************************************************************)
(* What a conversation leaves behind between turns: the message history    *)
(* the bridge keeps per session (src/core/bridge.py) and the session store *)
(* (src/core/session.py) with the file it is saved to.                     *)
(*                                                                         *)
(* A save runs in a worker thread: it copies the dictionary, truncates the *)
(* file and writes it, without a lock against the loop or another save.    *)
(***************************************************************************)
EXTENDS Naturals, Sequences, SequencesExt, FiniteSets

CONSTANTS
    Turns,
    Sessions,
    NoId,           \* no Claude Code session id
    Torn,           \* a file that holds no whole store
    MaxHistory      \* MAX_HISTORY

\* A CLI session is identified with the turn that started it.
Ids == Turns \cup {NoId}
Stores == [open : SUBSET Sessions, cc : [Sessions -> Ids]]
Empty == [open |-> {}, cc |-> [s \in Sessions |-> NoId]]
Messages == {"user", "assistant"} \X Turns

ASSUME ConversationAssumption ==
    /\ IsFiniteSet(Turns)
    /\ NoId \notin Turns /\ Torn \notin Stores
    /\ MaxHistory \in Nat \ {0}

VARIABLES
    history,        \* messages kept for each session
    store,          \* the session store in memory
    disk,           \* what the file holds
    save,           \* each turn's save: copying the dictionary (disturbed when a key
                    \* came or went meanwhile), then writing the copy
    copy,
    overlap         \* history: two saves ran at the same time

convVars == <<history, store, disk, save, copy, overlap>>

ConvInit ==
    /\ history = [s \in Sessions |-> <<>>]
    /\ store = Empty
    /\ disk = Empty
    /\ save = [t \in Turns |-> "none"]
    /\ copy = [t \in Turns |-> Empty]
    /\ overlap = FALSE

Saving == {t \in Turns : save[t] # "none"}

\* history = history[-MAX_HISTORY:], when a prompt made it too long.
AddPrompt(s, t) ==
    history' = [history EXCEPT ![s] =
                  LET h == Append(@, <<"user", t>>)
                  IN  IF Len(h) > MaxHistory
                        THEN SubSeq(h, Len(h) - MaxHistory + 1, Len(h)) ELSE h]

\* The reply of a turn whose session was cleared meanwhile goes to a list nobody keeps.
AddReply(s, t) ==
    history' = [history EXCEPT ![s] =
                  IF @ = <<>> THEN <<>> ELSE Append(@, <<"assistant", t>>)]

Keys(st) == <<st.open, {s \in Sessions : st.cc[s] # NoId}>>

\* A new or removed key disturbs the threads that are iterating over the dictionary.
Write(t, st) ==
    /\ save[t] = "none"
    /\ store' = st
    /\ save' = [u \in Turns |->
                  IF u = t THEN "copying"
                  ELSE IF save[u] = "copying" /\ Keys(st) # Keys(store)
                       THEN "disturbed" ELSE save[u]]
    /\ overlap' = (overlap \/ Saving # {})
    /\ UNCHANGED <<disk, copy>>

\* Mutant: the change is not saved.
MarkActiveUnsaved(t, s) ==
    /\ store' = [store EXCEPT !.open = @ \cup {s}]
    /\ UNCHANGED <<disk, save, copy, overlap>>

MarkActive(t, s) == Write(t, [store EXCEPT !.open = @ \cup {s}])

SetCCSession(t, s, id) == Write(t, [store EXCEPT !.cc[s] = id])

\* Commands clear the session key; the Claude Code id lives under another key.
ClearSession(t, s) ==
    /\ history' = [history EXCEPT ![s] = <<>>]
    /\ Write(t, [store EXCEPT !.open = @ \ {s}])

SaveOpen(t) ==
    /\ save[t] \in {"copying", "disturbed"}
    /\ save' = [save EXCEPT ![t] = "writing"]
    /\ copy' = [copy EXCEPT ![t] = store]
    /\ disk' = Torn
    /\ UNCHANGED <<history, store, overlap>>

\* Two files open for writing at once may overlay each other.
SaveWrite(t) ==
    /\ save[t] = "writing"
    /\ save' = [save EXCEPT ![t] = "none"]
    /\ disk' \in {copy[t]} \cup (IF overlap THEN {Torn} ELSE {})
    /\ copy' = [copy EXCEPT ![t] = Empty]
    /\ UNCHANGED <<history, store, overlap>>

\* RuntimeError: dictionary changed size during iteration.
SaveRaises(t) ==
    /\ save[t] = "disturbed"
    /\ save' = [save EXCEPT ![t] = "none"]
    /\ UNCHANGED <<history, store, disk, copy, overlap>>

\* A malformed file is read as an empty store.
Load == IF disk = Torn THEN Empty ELSE disk

Reload ==
    /\ history' = [s \in Sessions |-> <<>>]
    /\ store' = Load
    /\ save' = [t \in Turns |-> "none"]
    /\ copy' = [t \in Turns |-> Empty]
    /\ overlap' = FALSE
    /\ UNCHANGED disk
=================================================================================
