--------------------------------- MODULE Recall ---------------------------------
(***************************************************************************)
(* What a turn is told from memory: src/core/memory_loader.py (the notes   *)
(* of the channel's project), rag_store.py and scripts/rag_ingest.py (the  *)
(* index of all notes), memory_utils.py (edits proposed by the program)    *)
(* and memory_injector.py, which puts them together for Bridge.invoke.     *)
(*                                                                         *)
(* The notes are files that the operator edits at any time, while the      *)
(* program reads them, dates them, changes them and indexes them, in       *)
(* threads and processes of their own, without a lock.  A file is the      *)
(* revision of its text, the chunks that make it up, and whether it bears  *)
(* today's date.  The index keeps the text of a chunk under the name of    *)
(* its file and its number.                                                *)
(***************************************************************************)
EXTENDS Naturals, Functions, FiniteSets

CONSTANTS
    Notes,                  \* the files of the memory directory
    Gone, Idle,
    MaxChunks, MaxRevisions, MaxIngests, MaxHalts      \* bounds

ASSUME RecallAssumption ==
    /\ {MaxChunks, MaxRevisions, MaxIngests, MaxHalts} \subseteq Nat
    /\ MaxChunks > 0

Empty == [rev |-> 0, size |-> 0, touched |-> FALSE]     \* what a write cut short leaves

VARIABLES
    notes,          \* the files
    index,          \* the collection: the revision of the text kept for each chunk
    ingest,         \* the ingest that runs: the files not read yet, the chunks it has read
    loader,         \* the load that runs: what it has read
    update,         \* the update that is applied: what it has read, and whether it has written
    injected,       \* what the last turn was given: standing text and a hit
    revisions, ingests, halts,
    settled         \* history: the files not changed since an ingest read all of them

recallVars == <<notes, index, ingest, loader, update, injected, revisions, ingests,
                halts, settled>>

RecallInit ==
    /\ notes \in [Notes -> {[rev |-> 1, size |-> n, touched |-> today] : n \in 1..MaxChunks, today \in BOOLEAN}]
    /\ index = <<>> /\ settled = {} /\ injected = [standing |-> 0, hit |-> <<>>]
    /\ ingest = Idle /\ loader = Idle /\ update = Idle
    /\ revisions = 1 /\ ingests = 0 /\ halts = 0

Text(content) == <<content.rev, content.size>>

\* A file is written: with another text it is no longer as the index has it.
Written(f, content) ==
    /\ notes' = [notes EXCEPT ![f] = content]
    /\ settled' = IF notes[f] # Gone /\ Text(notes[f]) = Text(content) THEN settled ELSE settled \ {f}

\* The operator changes a file, or creates it; or deletes it.
EditNote(f) ==
    /\ revisions < MaxRevisions
    /\ revisions' = revisions + 1
    /\ \/ \E n \in 1..MaxChunks : Written(f, [rev |-> revisions', size |-> n, touched |-> FALSE])
       \/ notes[f] # Gone /\ notes' = [notes EXCEPT ![f] = Gone] /\ settled' = settled \ {f}
    /\ UNCHANGED <<index, ingest, loader, update, injected, ingests, halts>>

--------------------------------------------------------------------------------
(* The notes of a channel: load() in a thread. *)

\* _load_project_scoped reads the file of the channel's project; a channel without one, or
\* whose file is missing, has no standing text.
ReadProject(f) ==
    /\ loader = Idle
    /\ IF notes[f] = Gone
       THEN loader' = Idle /\ injected' = [injected EXCEPT !.standing = 0]
       ELSE loader' = [file |-> f, content |-> notes[f]] /\ UNCHANGED injected
    /\ UNCHANGED <<notes, index, ingest, update, revisions, ingests, halts, settled>>

\* _touch_last_accessed writes back what was read, with today's date, unless it had it; the
\* write may fail, which is logged.
TouchLastAccessed ==
    /\ loader # Idle
    /\ \/ UNCHANGED <<notes, settled>>
       \/ /\ ~loader.content.touched
          /\ Written(loader.file, [loader.content EXCEPT !.touched = TRUE])
    /\ injected' = [injected EXCEPT !.standing = loader.content.rev]
    /\ loader' = Idle
    /\ UNCHANGED <<index, ingest, update, revisions, ingests, halts>>

(* recall(): the index is asked in another thread.  The nearest chunks may be none, and    *)
(* without the embedding service, or for a trivial message, there are none.                *)
Recalled ==
    /\ \/ injected' = [injected EXCEPT !.hit = <<>>]
       \/ \E id \in DOMAIN index : injected' = [injected EXCEPT !.hit = <<id[1], id[2], index[id]>>]
    /\ UNCHANGED <<notes, index, ingest, loader, update, revisions, ingests, halts, settled>>

--------------------------------------------------------------------------------
(* apply_pending_update: reads, saves a copy, writes, then appends to the history. *)

ReadForUpdate(f) ==
    /\ update = Idle /\ notes[f] # Gone /\ revisions < MaxRevisions
    /\ update' = [file |-> f, content |-> notes[f], written |-> FALSE]
    /\ UNCHANGED <<notes, index, ingest, loader, injected, revisions, ingests, halts, settled>>

WriteUpdate ==
    /\ update # Idle /\ ~update.written
    /\ IF revisions < MaxRevisions
       THEN /\ revisions' = revisions + 1
            /\ Written(update.file, [update.content EXCEPT !.rev = revisions'])
            /\ update' = [update EXCEPT !.written = TRUE]
       ELSE update' = Idle /\ UNCHANGED <<notes, revisions, settled>>
    /\ UNCHANGED <<index, ingest, loader, injected, ingests, halts>>

\* append_history reads the file once more; a line makes it longer by a chunk at most, and
\* when it fails (the file is gone again) the update has succeeded all the same.
AppendHistory ==
    /\ update # Idle /\ update.written
    /\ update' = Idle
    /\ \/ UNCHANGED <<notes, revisions, settled>>
       \/ /\ notes[update.file] # Gone /\ revisions < MaxRevisions
          /\ revisions' = revisions + 1
          /\ \E n \in {notes[update.file].size, notes[update.file].size + 1} :
                /\ n <= MaxChunks
                /\ Written(update.file, [notes[update.file] EXCEPT !.rev = revisions', !.size = n])
    /\ UNCHANGED <<index, ingest, loader, injected, ingests, halts>>

--------------------------------------------------------------------------------
(* The ingest, a process of its own; one at a time. *)

StartIngest ==
    /\ ingest = Idle /\ ingests < MaxIngests
    /\ ingests' = ingests + 1
    /\ ingest' = [left |-> {f \in Notes : notes[f] # Gone}, read |-> <<>>]
    /\ UNCHANGED <<notes, index, loader, update, injected, revisions, halts, settled>>

\* ingest_files: a file that cannot be read any more, or is empty, is skipped.
ReadNote(f) ==
    /\ ingest # Idle /\ f \in ingest.left
    /\ ingest' = [left |-> ingest.left \ {f},
                  read |-> IF notes[f] \in {Gone, Empty} THEN ingest.read
                           ELSE [g \in DOMAIN ingest.read \cup {f} |->
                                    IF g = f THEN notes[f] ELSE ingest.read[g]]]
    /\ UNCHANGED <<notes, index, loader, update, injected, revisions, ingests, halts, settled>>

\* The chunks that were read: chunk_text numbers them from 0.
Docs(read) == {id \in (DOMAIN read) \X (0..(MaxChunks - 1)) : id[2] < read[id[1]].size}

\* Mutant: the collection keeps what it has under an id (add for upsert).
Added(embedded, read) ==
    [id \in DOMAIN index \cup embedded |-> IF id \in DOMAIN index THEN index[id] ELSE read[id[1]].rev]

\* col.upsert(): chunks that have an id of the collection replace them; the others stay.
Upserted(embedded, read) ==
    [id \in DOMAIN index \cup embedded |-> IF id \in embedded THEN read[id[1]].rev ELSE index[id]]

\* RagStore.ingest: each chunk is embedded on its own, and one that cannot be is left out.
Upsert ==
    /\ ingest # Idle /\ ingest.left = {}
    /\ \E embedded \in SUBSET Docs(ingest.read) :
          /\ index' = Upserted(embedded, ingest.read)
          /\ settled' = {f \in settled \cup DOMAIN ingest.read :
                            /\ f \in DOMAIN ingest.read => notes[f] # Gone /\ Text(notes[f]) = Text(ingest.read[f])
                            /\ f \in settled \/ {f} \X (0..(ingest.read[f].size - 1)) \subseteq embedded}
    /\ ingest' = Idle
    /\ UNCHANGED <<notes, loader, update, injected, revisions, ingests, halts>>

\* The ingest is killed, or the service is, perhaps while it writes a file.
Halt ==
    /\ halts < MaxHalts
    /\ halts' = halts + 1
    /\ \/ ingest # Idle /\ ingest' = Idle /\ UNCHANGED <<notes, loader, update, settled>>
       \/ /\ loader' = Idle /\ update' = Idle /\ UNCHANGED ingest
          /\ \/ UNCHANGED <<notes, settled>>
             \/ \E writer \in {loader, update} \ {Idle} : Written(writer.file, Empty)
    /\ UNCHANGED <<index, injected, revisions, ingests>>

RecallNext ==
    \/ TouchLastAccessed \/ Recalled \/ WriteUpdate \/ AppendHistory
    \/ StartIngest \/ Upsert \/ Halt
    \/ \E f \in Notes : EditNote(f) \/ ReadProject(f) \/ ReadForUpdate(f) \/ ReadNote(f)

--------------------------------------------------------------------------------
\* However edits, loads, updates and ingests interleave, a file that an ingest has read
\* and embedded in full, and whose text was not written since, is in the index with its
\* present text, chunk by chunk (rag_store.py:95 upserts by the id that rag_ingest.py:81
\* makes of path and number): a recall quotes an older text only for a file written since,
\* a chunk past its end, or a chunk that could not be embedded.
IndexFresh ==
    \A f \in settled : \A i \in 0..(notes[f].size - 1) :
        <<f, i>> \in DOMAIN index /\ index[<<f, i>>] = notes[f].rev
================================================================================
