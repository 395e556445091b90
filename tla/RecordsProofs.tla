----------------------------- MODULE RecordsProofs -----------------------------
(***************************************************************************)
(* What is kept is what it should be, part by part, for every value of the *)
(* constants.  The parts share no state and a behaviour is one of one of   *)
(* them, so each part has an inductive invariant of its own: a step of     *)
(* Records is a step of the part or leaves its variables alone.            *)
(***************************************************************************)
EXTENDS Records, FiniteSetTheorems, TLAPS

--------------------------------------------------------------------------------
(* Claims of a session                                                     *)

SessionStates == [claims : SUBSET Claims, conflicts : SUBSET (SUBSET Claims), consensus : BOOLEAN]

PoolTypeOK ==
    /\ withStore \in BOOLEAN
    /\ stage = [d \in Dispatches |-> stage[d]]
    /\ state \in [Dispatches -> SessionStates]
    /\ pool \in [Sessions -> SessionStates]
    /\ seen = [d \in Dispatches |-> seen[d]]
    /\ restarts \in Nat

\* The file is the table, or is torn; without a store nothing is ever kept; and a dispatch
\* under way still has in its own copy what was in the store when it began.
PoolInv ==
    /\ PoolTypeOK
    /\ disk \in {pool, TornStore}
    /\ ~withStore => \A k \in Sessions : pool[k].claims = {}
    /\ \A d \in Dispatches : stage[d] \in {"routing", "asking"} => seen[d] \subseteq state[d].claims

\* A claim leaves the store only for a cause that ClaimsKept names.
NoClaimLost ==
    \A k \in Sessions : \A c \in pool[k].claims \ pool'[k].claims :
        \/ disk' = TornStore /\ restarts' # restarts
        \/ \E d \in Dispatches : /\ stage[d] = "asking" /\ stage'[d] # "asking"
                                 /\ SessionOf[d] = k /\ c \notin seen[d]

\* The answers only add claims.
LEMMA AnswersAdd ==
  ASSUME PoolTypeOK, NEW d \in Dispatches
  PROVE  WithAnswers(d) \in SessionStates /\ state[d].claims \subseteq WithAnswers(d).claims
<1> DEFINE claims == state[d].claims \cup {<<d, s>> : s \in {t \in Specialists : answer[d][t] = "claim"}}
<1>1. state[d] \in SessionStates
  BY DEF PoolTypeOK
<1>2. claims \subseteq Claims
  BY <1>1 DEF SessionStates, Claims
<1>3. state[d].claims \subseteq claims
  OBVIOUS
<1> HIDE DEF claims
<1>4. [state[d] EXCEPT !.claims = claims] \in SessionStates
      /\ [state[d] EXCEPT !.claims = claims].claims = claims
  BY <1>1, <1>2 DEF SessionStates
<1>5. DetectConflicts(claims) \in SessionStates /\ DetectConflicts(claims).claims = claims
  BY <1>2 DEF DetectConflicts, SessionStates
<1>6. WithAnswers(d) \in {[state[d] EXCEPT !.claims = claims], DetectConflicts(claims)}
  BY DEF WithAnswers, claims
<1> QED
  BY <1>3, <1>4, <1>5, <1>6

\* Steps of a dispatch that touch neither its claims nor the store.
LEMMA DispatchGoesOnKeeps ==
  ASSUME PoolInv, UNCHANGED withStore, NEW d \in Dispatches,
         \/ Bypass(d) \/ Route(d) \/ RouteFails(d) \/ Reply(d) \/ SynthesisFails(d)
         \/ \E s \in Specialists : Answer(d, s)
  PROVE  PoolInv'
<1> USE DEF PoolInv
<1>1. UNCHANGED <<withStore, state, pool, disk, restarts, seen>>
  BY DEF Bypass, Route, RouteFails, Reply, SynthesisFails, Answer
<1>2. /\ stage' = [e \in Dispatches |-> stage'[e]]
      /\ \A e \in Dispatches : stage'[e] \in {"routing", "asking"} => stage[e] \in {"routing", "asking"}
  BY DEF Bypass, Route, RouteFails, Reply, SynthesisFails, Answer, Proceed, PoolTypeOK
<1> QED
  BY <1>1, <1>2 DEF PoolTypeOK

LEMMA DispatchKeeps ==
  ASSUME PoolInv, UNCHANGED withStore, NEW d \in Dispatches, Dispatch(d)
  PROVE  PoolInv'
<1> USE DEF PoolInv, Dispatch, Proceed
<1>1. SessionOf[d] \in Sessions
  BY DEF Sessions
<1>2. LoadState(SessionOf[d]) \in SessionStates
      /\ pool[SessionOf[d]].claims \subseteq LoadState(SessionOf[d]).claims
  BY <1>1 DEF LoadState, NoClaims, SessionStates, PoolTypeOK
<1>3. PoolTypeOK'
  BY <1>2 DEF PoolTypeOK
<1>4. \A e \in Dispatches : stage'[e] \in {"routing", "asking"} => seen'[e] \subseteq state'[e].claims
  BY <1>2 DEF PoolTypeOK
<1> QED
  BY <1>3, <1>4

LEMMA CollectKeeps ==
  ASSUME PoolInv, UNCHANGED withStore, NEW d \in Dispatches, Collect(d)
  PROVE  PoolInv'
<1> USE DEF PoolInv
<1>1. SessionOf[d] \in Sessions
  BY DEF Sessions
<1>2. UNCHANGED <<restarts, seen>> /\ stage' = [e \in Dispatches |-> stage'[e]]
      /\ \A e \in Dispatches : stage'[e] \in {"routing", "asking"} => e # d /\ stage'[e] = stage[e]
  BY DEF Collect, Proceed, PoolTypeOK
<1>3. CASE UNCHANGED <<state, pool, disk>>
  BY <1>2, <1>3 DEF PoolTypeOK
<1>4. CASE /\ state' = [state EXCEPT ![d] = WithAnswers(d)]
           /\ IF withStore THEN SetState(SessionOf[d], state'[d]) ELSE UNCHANGED <<pool, disk>>
  <2>1. state' \in [Dispatches -> SessionStates] /\ \A e \in Dispatches \ {d} : state'[e] = state[e]
    BY <1>4, AnswersAdd DEF PoolTypeOK
  <2>2. pool' \in [Sessions -> SessionStates] /\ disk' \in {pool', TornStore}
        /\ (~withStore => pool' = pool)
    BY <1>1, <1>4, <2>1 DEF SetState, PoolTypeOK
  <2> QED
    BY <1>2, <2>1, <2>2 DEF PoolTypeOK
<1> QED
  BY <1>3, <1>4 DEF Collect

LEMMA RestartKeeps == ASSUME PoolInv, UNCHANGED withStore, Restart PROVE PoolInv'
<1> USE DEF PoolInv, Restart
<1>1. restarts' \in Nat /\ UNCHANGED <<state, seen>> /\ disk' \in {disk, TornStore}
  BY DEF PoolTypeOK
<1>2. pool' \in {pool, [k \in Sessions |-> NoClaims]} /\ disk' \in {pool', TornStore}
  BY <1>1
<1>3. NoClaims \in SessionStates /\ NoClaims.claims = {}
  BY DEF NoClaims, SessionStates
<1>4. pool' \in [Sessions -> SessionStates] /\ (~withStore => \A k \in Sessions : pool'[k].claims = {})
  BY <1>2, <1>3 DEF PoolTypeOK
<1>5. stage' = [d \in Dispatches |-> stage'[d]]
      /\ \A d \in Dispatches : stage'[d] \notin {"routing", "asking"}
  OBVIOUS
<1> QED
  BY <1>1, <1>2, <1>4, <1>5 DEF PoolTypeOK

LEMMA OrchestratorStep == PoolInv /\ [OrchestratorNext]_orchestratorVars => PoolInv'
<1> SUFFICES ASSUME PoolInv, [OrchestratorNext]_orchestratorVars PROVE PoolInv'
  OBVIOUS
<1>1. CASE UNCHANGED orchestratorVars
  BY <1>1 DEF orchestratorVars, PoolInv, PoolTypeOK
<1> QED
  BY <1>1, DispatchGoesOnKeeps, DispatchKeeps, CollectKeeps, RestartKeeps DEF OrchestratorNext

LEMMA OrchestratorBegins == OrchestratorInit => PoolInv
  BY DEF OrchestratorInit, PoolInv, PoolTypeOK, NoClaims, SessionStates

\* A dispatch puts its own state over that of the store: what it had seen there it still has.
LEMMA ClaimsLeave ==
  ASSUME PoolInv, OrchestratorNext, NEW k \in Sessions, NEW c \in pool[k].claims \ pool'[k].claims
  PROVE  \/ disk' = TornStore /\ restarts' # restarts
         \/ \E d \in Dispatches : /\ stage[d] = "asking" /\ stage'[d] # "asking"
                                  /\ SessionOf[d] = k /\ c \notin seen[d]
<1> USE DEF PoolInv
<1>1. pool' # pool
  OBVIOUS
<1>2. CASE Restart
  BY <1>1, <1>2 DEF Restart, PoolTypeOK
<1>3. ASSUME NEW d \in Dispatches, Collect(d)
      PROVE  \E e \in Dispatches : /\ stage[e] = "asking" /\ stage'[e] # "asking"
                                   /\ SessionOf[e] = k /\ c \notin seen[e]
  <2>1. SetState(SessionOf[d], state'[d]) /\ state' = [state EXCEPT ![d] = WithAnswers(d)]
    BY <1>1, <1>3 DEF Collect
  <2>2. SessionOf[d] = k /\ pool'[k] = WithAnswers(d)
    BY <2>1 DEF SetState, PoolTypeOK
  <2>3. c \notin state[d].claims
    BY <2>2, AnswersAdd
  <2>4. stage[d] = "asking" /\ stage'[d] # "asking"
    BY <1>3 DEF Collect, AllIn, Proceed, PoolTypeOK
  <2> QED
    BY <2>2, <2>3, <2>4
<1>4. ASSUME NEW d \in Dispatches,
             \/ Bypass(d) \/ Dispatch(d) \/ Route(d) \/ RouteFails(d) \/ Reply(d) \/ SynthesisFails(d)
             \/ \E s \in Specialists : Answer(d, s)
      PROVE  pool' = pool
  BY <1>4 DEF Bypass, Dispatch, Route, RouteFails, Reply, SynthesisFails, Answer
<1> QED
  BY <1>1, <1>2, <1>3, <1>4 DEF OrchestratorNext

\* A step that takes a claim out of the store is a restart with a torn file, or the end of a
\* dispatch of the session that had not seen it when it began (the store has no merge).
THEOREM ClaimsAreKept == RecordsSpec => ClaimsKept
<1>1. RecordsInit => PoolInv
  BY OrchestratorBegins DEF RecordsInit
<1>2. ASSUME PoolInv, [RecordsNext]_recordVars
      PROVE  PoolInv' /\ [OrchestratorNext]_orchestratorVars
  <2>1. [OrchestratorNext]_orchestratorVars
    BY <1>2 DEF RecordsNext, recordVars, Still
  <2> QED
    BY <1>2, <2>1, OrchestratorStep
<1>3. PoolInv /\ [RecordsNext]_recordVars => PoolInv'
  BY <1>2
<1>4. PoolInv /\ [RecordsNext]_recordVars => [NoClaimLost]_orchestratorVars
  BY <1>2, ClaimsLeave DEF NoClaimLost
<1> QED
  BY <1>1, <1>3, <1>4, PTL DEF RecordsSpec, ClaimsKept, NoClaimLost

--------------------------------------------------------------------------------
(* The index of the notes                                                  *)

Contents == [rev : Nat, size : Nat, touched : BOOLEAN]

\* A load and an update have read a file; an ingest holds what it has read of each.
RecallTypeOK ==
    /\ revisions \in Nat
    /\ notes \in [Notes -> Contents \cup {Gone}]
    /\ loader # Idle => loader.file \in Notes /\ loader.content \in Contents
    /\ update # Idle => update \in [file : Notes, content : Contents, written : BOOLEAN]
    /\ ingest # Idle =>
          /\ ingest.left \subseteq Notes /\ DOMAIN ingest.read \subseteq Notes
          /\ ingest.read = [f \in DOMAIN ingest.read |-> ingest.read[f]]
          /\ \A f \in DOMAIN ingest.read : ingest.read[f] \in Contents
    /\ index = [id \in DOMAIN index |-> index[id]]
    /\ settled \subseteq Notes

\* The chunks of a text that is settled are those of the index.
Indexed(f, content) ==
    \A i \in 0 .. (content.size - 1) : <<f, i>> \in DOMAIN index /\ index[<<f, i>>] = content.rev

RecallInv == RecallTypeOK /\ \A f \in settled : Indexed(f, notes[f])

\* A file that is written is settled only if its text is what it was.
LEMMA WrittenKeeps ==
  ASSUME RecallInv, NEW f \in Notes, NEW content \in Contents, Written(f, content), index' = index
  PROVE  /\ notes' \in [Notes -> Contents \cup {Gone}]
         /\ settled' \subseteq Notes
         /\ \A g \in settled' : Indexed(g, notes[g])'
<1> USE DEF RecallInv, RecallTypeOK, Written
<1>1. notes' \in [Notes -> Contents \cup {Gone}] /\ settled' \subseteq settled
  OBVIOUS
<1>2. ASSUME NEW g \in settled' PROVE Indexed(g, notes[g])'
  <2>1. CASE g = f
    <3>1. Text(notes[g]) = Text(content)
      BY <1>2, <2>1
    <3>2. notes'[g] = content /\ content.size = notes[g].size /\ content.rev = notes[g].rev
      BY <2>1, <3>1 DEF Text
    <3> QED
      BY <1>1, <1>2, <3>1, <3>2 DEF Indexed
  <2>2. CASE g # f
    <3>1. notes'[g] = notes[g] /\ g \in settled
      BY <1>1, <1>2, <2>2
    <3> QED
      BY <3>1 DEF Indexed
  <2> QED
    BY <2>1, <2>2
<1> QED
  BY <1>1, <1>2

\* What a step that writes no file leaves alone.
LEMMA UnwrittenKeeps ==
  ASSUME RecallInv, UNCHANGED <<notes, index, settled>>
  PROVE  \A f \in settled' : Indexed(f, notes[f])'
  BY DEF RecallInv, Indexed

\* The operator and the update make new texts.
LEMMA EditNoteKeeps == ASSUME RecallInv, NEW f \in Notes, EditNote(f) PROVE RecallInv'
<1> USE DEF RecallInv, RecallTypeOK, EditNote
<1>1. CASE \E n \in 1 .. MaxChunks : Written(f, [rev |-> revisions', size |-> n, touched |-> FALSE])
  <2>1. PICK n \in 1 .. MaxChunks : Written(f, [rev |-> revisions', size |-> n, touched |-> FALSE])
    BY <1>1
  <2>2. [rev |-> revisions', size |-> n, touched |-> FALSE] \in Contents
    BY RecallAssumption DEF Contents
  <2>3. RecallTypeOK'
    BY <2>1, <2>2, WrittenKeeps
  <2>4. \A g \in settled' : Indexed(g, notes[g])'
    BY <2>1, <2>2, WrittenKeeps
  <2> QED
    BY <2>3, <2>4
<1>2. CASE notes' = [notes EXCEPT ![f] = Gone] /\ settled' = settled \ {f}
  <2>1. RecallTypeOK'
    BY <1>2
  <2>2. \A g \in settled' : Indexed(g, notes[g])'
    BY <1>2 DEF Indexed
  <2> QED
    BY <2>1, <2>2
<1> QED
  BY <1>1, <1>2

LEMMA LoadKeeps ==
  ASSUME RecallInv, TouchLastAccessed \/ \E f \in Notes : ReadProject(f)
  PROVE  RecallInv'
<1> USE DEF RecallInv, RecallTypeOK
<1>1. CASE TouchLastAccessed
  <2>1. CASE UNCHANGED <<notes, settled>>
    BY <1>1, <2>1, UnwrittenKeeps DEF TouchLastAccessed
  <2>2. CASE Written(loader.file, [loader.content EXCEPT !.touched = TRUE])
    <3>1. [loader.content EXCEPT !.touched = TRUE] \in Contents /\ loader.file \in Notes /\ index' = index
      BY <1>1 DEF TouchLastAccessed, Contents
    <3>2. RecallTypeOK'
      BY <1>1, <2>2, <3>1, WrittenKeeps DEF TouchLastAccessed
    <3>3. \A g \in settled' : Indexed(g, notes[g])'
      BY <2>2, <3>1, WrittenKeeps
    <3> QED
      BY <3>2, <3>3
  <2> QED
    BY <1>1, <2>1, <2>2 DEF TouchLastAccessed
<1>2. ASSUME NEW f \in Notes, ReadProject(f) PROVE RecallInv'
  <2>1. RecallTypeOK'
    BY <1>2 DEF ReadProject
  <2> QED
    BY <1>2, <2>1, UnwrittenKeeps DEF ReadProject
<1> QED
  BY <1>1, <1>2

LEMMA UpdateKeeps ==
  ASSUME RecallInv, WriteUpdate \/ AppendHistory \/ \E f \in Notes : ReadForUpdate(f)
  PROVE  RecallInv'
<1> USE DEF RecallInv, RecallTypeOK
<1>1. CASE WriteUpdate
  <2> USE <1>1 DEF WriteUpdate
  <2>1. CASE revisions < MaxRevisions
    <3>1. /\ [update.content EXCEPT !.rev = revisions'] \in Contents
          /\ update.file \in Notes /\ index' = index
          /\ Written(update.file, [update.content EXCEPT !.rev = revisions'])
      BY <2>1 DEF Contents
    <3>2. update' \in [file : Notes, content : Contents, written : BOOLEAN]
      BY <2>1
    <3>3. RecallTypeOK'
      BY <2>1, <3>1, <3>2, WrittenKeeps
    <3>4. \A g \in settled' : Indexed(g, notes[g])'
      BY <3>1, WrittenKeeps
    <3> QED
      BY <3>3, <3>4
  <2>2. CASE ~(revisions < MaxRevisions)
    BY <2>2, UnwrittenKeeps
  <2> QED
    BY <2>1, <2>2
<1>2. CASE AppendHistory
  <2> USE <1>2 DEF AppendHistory
  <2>1. CASE UNCHANGED <<notes, revisions, settled>>
    BY <2>1, UnwrittenKeeps
  <2>2. CASE ~UNCHANGED <<notes, revisions, settled>>
    <3>1. PICK n \in {notes[update.file].size, notes[update.file].size + 1} :
             Written(update.file, [notes[update.file] EXCEPT !.rev = revisions', !.size = n])
      BY <2>2
    <3>2. /\ [notes[update.file] EXCEPT !.rev = revisions', !.size = n] \in Contents
          /\ update.file \in Notes /\ index' = index
      <4>1. notes[update.file] \in Contents /\ revisions' \in Nat /\ index' = index
        BY <2>2
      <4>2. n \in Nat
        BY <4>1 DEF Contents
      <4> QED
        BY <4>1, <4>2 DEF Contents
    <3>3. RecallTypeOK'
      BY <2>2, <3>1, <3>2, WrittenKeeps
    <3>4. \A g \in settled' : Indexed(g, notes[g])'
      BY <3>1, <3>2, WrittenKeeps
    <3> QED
      BY <3>3, <3>4
  <2> QED
    BY <2>1, <2>2
<1>3. ASSUME NEW f \in Notes, ReadForUpdate(f) PROVE RecallInv'
  <2>1. RecallTypeOK'
    BY <1>3 DEF ReadForUpdate
  <2> QED
    BY <1>3, <2>1, UnwrittenKeeps DEF ReadForUpdate
<1> QED
  BY <1>1, <1>2, <1>3

LEMMA IngestReadsKeeps ==
  ASSUME RecallInv, StartIngest \/ \E f \in Notes : ReadNote(f)
  PROVE  RecallInv'
<1> USE DEF RecallInv, RecallTypeOK
<1>1. CASE StartIngest
  <2>1. RecallTypeOK'
    BY <1>1 DEF StartIngest
  <2> QED
    BY <1>1, <2>1, UnwrittenKeeps DEF StartIngest
<1>2. ASSUME NEW f \in Notes, ReadNote(f) PROVE RecallInv'
  <2>1. CASE notes[f] \in {Gone, Empty}
    <3>1. RecallTypeOK'
      BY <1>2, <2>1 DEF ReadNote
    <3> QED
      BY <1>2, <3>1, UnwrittenKeeps DEF ReadNote
  <2>2. CASE notes[f] \notin {Gone, Empty}
    <3>1. /\ ingest' = [left |-> ingest.left \ {f},
                        read |-> [g \in DOMAIN ingest.read \cup {f} |->
                                    IF g = f THEN notes[f] ELSE ingest.read[g]]]
          /\ notes[f] \in Contents /\ ingest # Idle
      BY <1>2, <2>2 DEF ReadNote
    <3>2. RecallTypeOK'
      BY <1>2, <3>1 DEF ReadNote
    <3> QED
      BY <1>2, <3>2, UnwrittenKeeps DEF ReadNote
  <2> QED
    BY <2>1, <2>2
<1> QED
  BY <1>1, <1>2

\* A file is settled by an upsert if the text that was read is its present one and all of
\* its chunks are replaced; a settled one keeps its chunks, or gets the same text again.
LEMMA UpsertKeeps == ASSUME RecallInv, Upsert PROVE RecallInv'
<1> USE DEF RecallInv, RecallTypeOK
<1>1. PICK embedded \in SUBSET Docs(ingest.read) :
         /\ index' = Upserted(embedded, ingest.read)
         /\ settled' = {f \in settled \cup DOMAIN ingest.read :
                 /\ f \in DOMAIN ingest.read => notes[f] # Gone /\ Text(notes[f]) = Text(ingest.read[f])
                 /\ f \in settled \/ {f} \X (0 .. (ingest.read[f].size - 1)) \subseteq embedded}
  BY DEF Upsert
<1>2. \A id \in embedded : id[1] \in DOMAIN ingest.read /\ id = <<id[1], id[2]>>
  BY DEF Docs
<1>3. RecallTypeOK'
  BY <1>1 DEF Upsert, Upserted
<1>4. ASSUME NEW f \in settled' PROVE Indexed(f, notes[f])'
  <2>1. notes' = notes
    BY DEF Upsert
  <2>2. ASSUME NEW i \in 0 .. (notes[f].size - 1)
        PROVE  <<f, i>> \in DOMAIN index' /\ index'[<<f, i>>] = notes[f].rev
    <3>1. CASE <<f, i>> \in embedded
      <4>1. f \in DOMAIN ingest.read
        BY <1>2, <3>1
      <4>2. Text(notes[f]) = Text(ingest.read[f])
        BY <1>1, <4>1
      <4> QED
        BY <1>1, <3>1, <4>2 DEF Upserted, Text
    <3>2. CASE <<f, i>> \notin embedded
      <4>1. f \in settled
        <5>1. f \notin settled => f \in DOMAIN ingest.read
          BY <1>1
        <5>2. f \notin settled => ingest.read[f].size = notes[f].size
          BY <1>1, <5>1 DEF Text
        <5> QED
          BY <1>1, <3>2, <5>2
      <4>2. <<f, i>> \in DOMAIN index /\ index[<<f, i>>] = notes[f].rev
        BY <4>1 DEF Indexed
      <4> QED
        BY <1>1, <3>2, <4>2 DEF Upserted
    <3> QED
      BY <3>1, <3>2
  <2> QED
    BY <2>1, <2>2 DEF Indexed
<1> QED
  BY <1>3, <1>4

LEMMA HaltKeeps == ASSUME RecallInv, Halt PROVE RecallInv'
<1> USE DEF RecallInv, RecallTypeOK
<1>1. CASE UNCHANGED <<notes, settled>>
  <2>1. RecallTypeOK'
    BY <1>1 DEF Halt
  <2> QED
    BY <1>1, <2>1, UnwrittenKeeps DEF Halt
<1>2. CASE \E writer \in {loader, update} \ {Idle} : loader' = Idle /\ update' = Idle /\ Written(writer.file, Empty)
  <2>1. PICK writer \in {loader, update} \ {Idle} : loader' = Idle /\ update' = Idle /\ Written(writer.file, Empty)
    BY <1>2
  <2>2. writer.file \in Notes /\ Empty \in Contents /\ index' = index
    BY <2>1 DEF Halt, Empty, Contents
  <2>3. RecallTypeOK'
    BY <2>1, <2>2, WrittenKeeps DEF Halt
  <2>4. \A g \in settled' : Indexed(g, notes[g])'
    BY <2>1, <2>2, WrittenKeeps
  <2> QED
    BY <2>3, <2>4
<1> QED
  BY <1>1, <1>2 DEF Halt

LEMMA RecallStep == RecallInv /\ [RecallNext]_recallVars => RecallInv'
<1> SUFFICES ASSUME RecallInv, [RecallNext]_recallVars PROVE RecallInv'
  OBVIOUS
<1>1. CASE UNCHANGED recallVars \/ Recalled
  <2>1. UNCHANGED <<notes, index, ingest, loader, update, revisions, settled>>
    BY <1>1 DEF recallVars, Recalled
  <2> QED
    BY <2>1, UnwrittenKeeps DEF RecallInv, RecallTypeOK
<1> QED
  BY <1>1, EditNoteKeeps, LoadKeeps, UpdateKeeps, IngestReadsKeeps, UpsertKeeps, HaltKeeps DEF RecallNext

LEMMA RecallBegins == RecallInit => RecallInv
<1> SUFFICES ASSUME RecallInit PROVE RecallInv
  OBVIOUS
<1>1. notes \in [Notes -> Contents \cup {Gone}] /\ settled = {}
  BY RecallAssumption DEF RecallInit, Contents
<1> QED
  BY <1>1 DEF RecallInit, RecallInv, RecallTypeOK, Indexed

\* A note that is settled (no writer has touched it since the last complete pass over it) is
\* in the index as it is on disk, chunk by chunk.
THEOREM IndexIsFresh == RecordsSpec => []IndexFresh
<1>1. RecordsInit => RecallInv
  BY RecallBegins DEF RecordsInit
<1>2. RecallInv /\ [RecordsNext]_recordVars => RecallInv'
  <2> SUFFICES ASSUME RecallInv, [RecordsNext]_recordVars PROVE RecallInv'
    OBVIOUS
  <2>1. [RecallNext]_recallVars
    BY DEF RecordsNext, recordVars, Still
  <2> QED
    BY <2>1, RecallStep
<1>3. RecallInv => IndexFresh
  BY DEF RecallInv, Indexed, IndexFresh
<1> QED
  BY <1>1, <1>2, <1>3, PTL DEF RecordsSpec

--------------------------------------------------------------------------------
(* What was said of new models                                             *)

CheckStates == [models : [Models -> Nat], checked : Nat]
FitStates == [last : Candidates \cup {NoCandidate}, checked : Nat]
FitRuns == [state : FitStates, new : Candidates \cup {NoCandidate}, dry : BOOLEAN,
            step : {"ask", "tell", "save"}]

WatchTypeOK ==
    /\ version \in [Models -> Nat] /\ period \in Nat
    /\ checkFile \in CheckStates \cup {CutShort}
    /\ check \in [Runners -> CheckRuns \cup {NoRun}]
    /\ fitFile \in FitStates \cup {CutShort}
    /\ fit = [r \in Runners |-> fit[r]]
    /\ \A r \in Runners : fit[r] # NoRun => fit[r] \in FitRuns

\* A digest that the operator has been told of, that was the first of its model, or that a
\* run has saved and has still to tell, or could not tell any more.
Known(x) ==
    \/ x \in announced \cup seenFirst \cup cutOff
    \/ \E r \in Runners : check[r] # NoRun /\ check[r].saved /\ x \in check[r].updates

\* All that a state knows is known, but for what the run that holds it has found itself.
StateKnown(was, found) ==
    \A m \in Models : LET x == <<m, was.models[m]>> IN
        was.models[m] = 0 \/ Known(x) \/ x \in found

CheckSound ==
    /\ checkFile # CutShort => StateKnown(checkFile, {})
    /\ \A r \in Runners : check[r] # NoRun /\ ~check[r].saved =>
          StateKnown(check[r].state, check[r].updates \cup check[r].first)

\* The fit check remembers and is about to remember what it has told only.
FitSound ==
    /\ fitFile # CutShort => fitFile.last \in announced \cup {NoCandidate}
    /\ \A r \in Runners : fit[r] # NoRun =>
          /\ fit[r].state.last \in announced \cup {NoCandidate}
          /\ fit[r].step = "save" => fit[r].new \in announced \cup {NoCandidate}

WatchInv == WatchTypeOK /\ CheckSound /\ FitSound

\* What is known stays known, unless a run forgets it; the fit check only adds to it.
LEMMA ToldKeeps ==
  ASSUME CheckSound, UNCHANGED <<checkFile, check, seenFirst, cutOff>>, announced \subseteq announced'
  PROVE  CheckSound'
<1>1. ASSUME NEW x, Known(x) PROVE Known(x)'
  BY <1>1 DEF Known
<1>2. ASSUME checkFile' # CutShort PROVE StateKnown(checkFile, {})'
  BY <1>1, <1>2 DEF CheckSound, StateKnown
<1>3. ASSUME NEW r \in Runners, check'[r] # NoRun, ~check'[r].saved
      PROVE  StateKnown(check[r].state, check[r].updates \cup check[r].first)'
  BY <1>1, <1>3 DEF CheckSound, StateKnown
<1> QED
  BY <1>2, <1>3 DEF CheckSound

LEMMA OutsideKeeps ==
  ASSUME WatchInv, NextPeriod \/ (\E m \in Models : NewVersion(m)) \/ UNCHANGED watchVars
  PROVE  WatchInv'
<1> USE DEF WatchInv
<1>1. UNCHANGED <<checkFile, check, fitFile, fit, announced, seenFirst, cutOff>>
  BY DEF NextPeriod, NewVersion, watchVars
<1>2. WatchTypeOK'
  BY <1>1, ModelWatchAssumption DEF WatchTypeOK, NextPeriod, NewVersion, watchVars
<1>3. CheckSound' /\ FitSound'
  BY <1>1, ToldKeeps DEF FitSound
<1> QED
  BY <1>2, <1>3

\* A run begins with what is known, or with nothing.
LEMMA StartCheckKeeps == ASSUME WatchInv, NEW r \in Runners, StartCheck(r) PROVE WatchInv'
<1> USE DEF WatchInv
<1>1. PICK force \in BOOLEAN, dry \in BOOLEAN :
         LET was == Loaded(checkFile, NeverChecked) IN
         check' = IF ~force /\ was.checked = period THEN check
                  ELSE [check EXCEPT ![r] = [state |-> was, left |-> Models, updates |-> {},
                                             first |-> {}, dry |-> dry, saved |-> FALSE]]
  BY DEF StartCheck
<1> DEFINE begun == [state |-> Loaded(checkFile, NeverChecked), left |-> Models, updates |-> {},
                     first |-> {}, dry |-> dry, saved |-> FALSE]
<1>2. UNCHANGED <<version, checkFile, fitFile, fit, period, announced, seenFirst, cutOff>> /\ check[r] = NoRun
  BY DEF StartCheck
<1>3. begun \in CheckRuns
  BY DEF WatchTypeOK, CheckStates, CheckRuns, Loaded, NeverChecked
<1>4. WatchTypeOK'
  BY <1>1, <1>2, <1>3 DEF WatchTypeOK
<1>5. FitSound'
  BY <1>2 DEF FitSound
<1>6. CASE check' = check
  BY <1>2, <1>4, <1>5, <1>6, ToldKeeps
<1>7. CASE check' = [check EXCEPT ![r] = begun]
  <2>1. check'[r] = begun /\ \A q \in Runners \ {r} : check'[q] = check[q]
    BY <1>7 DEF WatchTypeOK
  <2>2. ASSUME NEW x, Known(x) PROVE Known(x)'
    BY <1>2, <2>1, <2>2 DEF Known
  <2>3. ASSUME checkFile' # CutShort PROVE StateKnown(checkFile, {})'
    BY <1>2, <2>2, <2>3 DEF CheckSound, StateKnown
  <2>4. ASSUME NEW q \in Runners \ {r}, check'[q] # NoRun, ~check'[q].saved
        PROVE  StateKnown(check[q].state, check[q].updates \cup check[q].first)'
    BY <2>1, <2>2, <2>4 DEF CheckSound, StateKnown
  <2>5. StateKnown(check[r].state, check[r].updates \cup check[r].first)'
    <3>1. CASE checkFile = CutShort
      BY <2>1, <3>1 DEF StateKnown, Loaded, NeverChecked
    <3>2. CASE checkFile # CutShort
      <4>1. check'[r].state = checkFile
        BY <2>1, <3>2 DEF Loaded
      <4> QED
        BY <2>2, <3>2, <4>1 DEF CheckSound, StateKnown
    <3> QED
      BY <3>1, <3>2
  <2> QED
    BY <1>4, <1>5, <2>3, <2>4, <2>5 DEF CheckSound
<1> QED
  BY <1>1, <1>6, <1>7

LEMMA FetchKeeps ==
  ASSUME WatchInv, NEW r \in Runners, NEW m \in Models, FetchVersion(r, m)
  PROVE  WatchInv'
<1> USE DEF WatchInv
<1> DEFINE run == [check[r] EXCEPT !.left = @ \ {m}]
           known == check[r].state.models[m]
           found == [run EXCEPT !.state.models[m] = version[m]]
           noted == [found EXCEPT !.first = @ \cup {<<m, version[m]>>}]
           reported == [found EXCEPT !.updates = @ \cup {<<m, version[m]>>}]
<1>1. UNCHANGED <<version, checkFile, fitFile, fit, period, announced, seenFirst, cutOff>>
  BY DEF FetchVersion
<1>2. check[r] \in CheckRuns /\ version[m] \in Nat
  BY DEF FetchVersion, WatchTypeOK
<1>3. PICK after \in {run, noted, reported} : check' = [check EXCEPT ![r] = after]
  BY <1>2 DEF FetchVersion, CheckRuns, CheckStates
<1>4. /\ after \in CheckRuns /\ after.saved = check[r].saved
      /\ check[r].updates \subseteq after.updates /\ check[r].first \subseteq after.first
      /\ \/ after.state = check[r].state
         \/ /\ after.state = found.state
            /\ <<m, version[m]>> \in after.updates \cup after.first
  <2>1. run \in CheckRuns /\ run.saved = check[r].saved /\ run.updates = check[r].updates
        /\ run.first = check[r].first /\ run.state = check[r].state
    BY <1>2 DEF CheckRuns
  <2>2. found \in CheckRuns /\ found.saved = check[r].saved /\ found.updates = check[r].updates
        /\ found.first = check[r].first
    BY <1>2, <2>1 DEF CheckRuns
  <2> HIDE DEF run, found
  <2>3. noted \in CheckRuns /\ noted.saved = check[r].saved /\ noted.updates = check[r].updates
        /\ noted.first = check[r].first \cup {<<m, version[m]>>} /\ noted.state = found.state
    BY <1>2, <2>2 DEF CheckRuns
  <2>4. reported \in CheckRuns /\ reported.saved = check[r].saved /\ reported.first = check[r].first
        /\ reported.updates = check[r].updates \cup {<<m, version[m]>>} /\ reported.state = found.state
    BY <1>2, <2>2 DEF CheckRuns
  <2> QED
    BY <2>1, <2>3, <2>4
<1>5. check'[r] = after /\ \A q \in Runners \ {r} : check'[q] = check[q]
  BY <1>3 DEF WatchTypeOK
<1>6. WatchTypeOK' /\ FitSound'
  BY <1>1, <1>3, <1>4 DEF WatchTypeOK, FitSound
<1>7. ASSUME NEW x, Known(x) PROVE Known(x)'
  BY <1>1, <1>4, <1>5, <1>7, ModelWatchAssumption DEF Known, WatchTypeOK
<1>8. ASSUME checkFile' # CutShort PROVE StateKnown(checkFile, {})'
  BY <1>1, <1>7, <1>8 DEF CheckSound, StateKnown
<1>9. ASSUME NEW q \in Runners \ {r}, check'[q] # NoRun, ~check'[q].saved
      PROVE  StateKnown(check[q].state, check[q].updates \cup check[q].first)'
  BY <1>5, <1>7, <1>9 DEF CheckSound, StateKnown
<1>10. ASSUME ~check'[r].saved
       PROVE  StateKnown(check[r].state, check[r].updates \cup check[r].first)'
  <2>1. ~check[r].saved /\ check[r] # NoRun
    BY <1>4, <1>5, <1>10 DEF FetchVersion
  <2>2. ASSUME NEW n \in Models
        PROVE  \/ after.state.models[n] = 0 \/ Known(<<n, after.state.models[n]>>)'
               \/ <<n, after.state.models[n]>> \in after.updates \cup after.first
    <3>1. CASE after.state.models[n] = check[r].state.models[n]
      BY <1>4, <1>7, <2>1, <3>1 DEF CheckSound, StateKnown
    <3>2. CASE after.state.models[n] # check[r].state.models[n]
      <4>1. found.state.models[m] = version[m]
            /\ \A k \in Models \ {m} : found.state.models[k] = check[r].state.models[k]
        BY <1>2 DEF CheckRuns
      <4>2. n = m /\ after.state.models[n] = version[m]
        BY <1>4, <3>2, <4>1
      <4>3. <<m, version[m]>> \in after.updates \cup after.first
        BY <1>4, <3>2
      <4> QED
        BY <4>2, <4>3
    <3> QED
      BY <3>1, <3>2
  <2> QED
    BY <1>5, <2>2 DEF StateKnown
<1> QED
  BY <1>6, <1>8, <1>9, <1>10 DEF CheckSound

\* A state that is saved is known: what the run has found is noted, or is what it has
\* still to tell.
LEMMA SaveCheckKeeps == ASSUME WatchInv, NEW r \in Runners, SaveCheck(r) PROVE WatchInv'
<1> USE DEF WatchInv
<1>1. UNCHANGED <<version, fitFile, fit, period, announced, cutOff>> /\ check[r] \in CheckRuns
      /\ ~check[r].saved /\ check[r] # NoRun
  BY DEF SaveCheck, WatchTypeOK
<1>2. FitSound'
  BY <1>1 DEF FitSound
<1>3. CASE check[r].dry
  <2>1. check' = [check EXCEPT ![r] = NoRun] /\ checkFile' = checkFile /\ seenFirst' = seenFirst
    BY <1>3 DEF SaveCheck
  <2>2. check'[r] = NoRun /\ \A q \in Runners \ {r} : check'[q] = check[q]
    BY <2>1 DEF WatchTypeOK
  <2>3. ASSUME NEW x, Known(x) PROVE Known(x)'
    BY <1>1, <2>1, <2>2, <2>3 DEF Known
  <2>4. WatchTypeOK'
    BY <1>1, <2>1 DEF WatchTypeOK
  <2>5. CheckSound'
    BY <1>1, <2>1, <2>2, <2>3 DEF CheckSound, StateKnown
  <2> QED
    BY <1>2, <2>4, <2>5
<1>4. CASE ~check[r].dry
  <2>1. /\ checkFile' = [check[r].state EXCEPT !.checked = period]
        /\ seenFirst' = seenFirst \cup check[r].first
        /\ check' = [check EXCEPT ![r].saved = TRUE]
    BY <1>4 DEF SaveCheck
  <2>2. /\ check'[r] \in CheckRuns /\ check'[r].saved /\ check'[r].updates = check[r].updates
        /\ \A q \in Runners \ {r} : check'[q] = check[q]
    BY <1>1, <2>1 DEF WatchTypeOK, CheckRuns
  <2>3. ASSUME NEW x, Known(x) PROVE Known(x)'
    BY <1>1, <2>1, <2>2, <2>3 DEF Known
  <2>4. checkFile' \in CheckStates /\ checkFile'.models = check[r].state.models
    BY <1>1, <2>1 DEF CheckRuns, CheckStates, WatchTypeOK
  <2>5. WatchTypeOK'
    BY <1>1, <2>1, <2>2, <2>4 DEF WatchTypeOK
  <2>6. ASSUME NEW x \in check[r].updates \cup check[r].first PROVE Known(x)'
    BY <1>1, <2>1, <2>2, ModelWatchAssumption DEF Known
  <2>7. StateKnown(checkFile, {})'
    BY <1>1, <2>3, <2>4, <2>6 DEF CheckSound, StateKnown
  <2>8. CheckSound'
    BY <2>2, <2>3, <2>7 DEF CheckSound, StateKnown
  <2> QED
    BY <1>2, <2>5, <2>8
<1> QED
  BY <1>3, <1>4

LEMMA NotifyCheckKeeps == ASSUME WatchInv, NEW r \in Runners, NotifyCheck(r) PROVE WatchInv'
<1> USE DEF WatchInv
<1>1. /\ UNCHANGED <<version, checkFile, fitFile, fit, period, seenFirst, cutOff>>
      /\ announced' = announced \cup check[r].updates
      /\ check' = [check EXCEPT ![r] = NoRun]
  BY DEF NotifyCheck
<1>2. check'[r] = NoRun /\ \A q \in Runners \ {r} : check'[q] = check[q]
  BY <1>1 DEF WatchTypeOK
<1>3. ASSUME NEW x, Known(x) PROVE Known(x)'
  BY <1>1, <1>2, <1>3 DEF Known
<1>4. WatchTypeOK' /\ FitSound'
  BY <1>1 DEF WatchTypeOK, FitSound
<1>5. CheckSound'
  BY <1>1, <1>2, <1>3 DEF CheckSound, StateKnown
<1> QED
  BY <1>4, <1>5

\* A run that is killed has not saved yet, or leaves what it had to tell in cutOff.
LEMMA CutKeeps == ASSUME WatchInv, NEW r \in Runners, Cut(r) PROVE WatchInv'
<1> USE DEF WatchInv
<1>1. UNCHANGED <<version, period, announced, seenFirst>>
  BY DEF Cut
<1>2. CASE fit' = [fit EXCEPT ![r] = NoRun] /\ UNCHANGED <<checkFile, check, cutOff>>
           /\ fitFile' \in {fitFile, CutShort}
  <2>1. WatchTypeOK' /\ FitSound'
    BY <1>1, <1>2 DEF WatchTypeOK, FitSound
  <2> QED
    BY <1>1, <1>2, <2>1, ToldKeeps
<1>3. CASE /\ check' = [check EXCEPT ![r] = NoRun] /\ UNCHANGED <<fitFile, fit>>
           /\ checkFile' \in {checkFile, CutShort}
           /\ cutOff' = IF check[r].saved THEN cutOff \cup check[r].updates ELSE cutOff
  <2>1. check'[r] = NoRun /\ \A q \in Runners \ {r} : check'[q] = check[q]
    BY <1>3 DEF WatchTypeOK
  <2>2. ASSUME NEW x, Known(x) PROVE Known(x)'
    BY <1>1, <1>3, <2>1, <2>2 DEF Known
  <2>3. WatchTypeOK' /\ FitSound'
    BY <1>1, <1>3 DEF WatchTypeOK, FitSound
  <2>4. CheckSound'
    BY <1>1, <1>3, <2>1, <2>2 DEF CheckSound, StateKnown
  <2> QED
    BY <2>3, <2>4
<1>4. \/ /\ check' = [check EXCEPT ![r] = NoRun] /\ UNCHANGED <<fitFile, fit>>
         /\ checkFile' \in {checkFile, CutShort}
         /\ cutOff' = IF check[r].saved THEN cutOff \cup check[r].updates ELSE cutOff
      \/ fit' = [fit EXCEPT ![r] = NoRun] /\ UNCHANGED <<checkFile, check, cutOff>>
         /\ fitFile' \in {fitFile, CutShort}
  BY DEF Cut
<1> QED
  BY <1>2, <1>3, <1>4

\* The fit check tells before it saves.
LEMMA FitKeeps ==
  ASSUME WatchInv, NEW r \in Runners, StartFit(r) \/ Recommend(r) \/ NotifyFit(r) \/ SaveFit(r)
  PROVE  WatchInv'
<1> USE DEF WatchInv
<1>1. UNCHANGED <<version, checkFile, check, period, seenFirst, cutOff>> /\ announced \subseteq announced'
  BY DEF StartFit, Recommend, NotifyFit, SaveFit
<1>2. CheckSound'
  BY <1>1, ToldKeeps
<1>3. CASE StartFit(r)
  <2>1. PICK dry \in BOOLEAN :
           fit' \in {fit, [fit EXCEPT ![r] = [state |-> Loaded(fitFile, NeverFitted), new |-> NoCandidate,
                                              dry |-> dry, step |-> "ask"]]}
    BY <1>3 DEF StartFit
  <2> DEFINE was == Loaded(fitFile, NeverFitted)
             begun == [state |-> was, new |-> NoCandidate, dry |-> dry, step |-> "ask"]
  <2>2. UNCHANGED <<fitFile, announced>>
    BY <1>3 DEF StartFit
  <2>3. was \in FitStates /\ was.last \in announced \cup {NoCandidate}
    BY DEF WatchTypeOK, FitSound, FitStates, Loaded, NeverFitted
  <2> HIDE DEF was
  <2>4. begun \in FitRuns /\ begun.state = was /\ begun.step = "ask"
    BY <2>3 DEF FitRuns
  <2>5. \A q \in Runners : fit'[q] \in {fit[q], begun}
    BY <2>1 DEF WatchTypeOK, was
  <2>6. WatchTypeOK'
    BY <1>1, <2>1, <2>2, <2>4, <2>5 DEF WatchTypeOK
  <2>7. FitSound'
    BY <2>2, <2>3, <2>4, <2>5 DEF FitSound
  <2> QED
    BY <1>2, <2>6, <2>7
<1>4. CASE Recommend(r)
  <2>1. UNCHANGED <<fitFile, announced>> /\ fit[r] \in FitRuns
    BY <1>4 DEF Recommend, WatchTypeOK
  <2>2. CASE fit' = [fit EXCEPT ![r] = NoRun]
    BY <1>1, <1>2, <2>1, <2>2 DEF WatchTypeOK, FitSound
  <2>3. CASE \E c \in Candidates \cup {NoCandidate} : fit' = [fit EXCEPT ![r].new = c, ![r].step = "tell"]
    <3>1. PICK c \in Candidates \cup {NoCandidate} : fit' = [fit EXCEPT ![r].new = c, ![r].step = "tell"]
      BY <2>3
    <3>2. fit'[r] \in FitRuns /\ fit'[r].state = fit[r].state /\ fit'[r].step = "tell"
          /\ \A q \in Runners \ {r} : fit'[q] = fit[q]
      BY <2>1, <3>1 DEF WatchTypeOK, FitRuns
    <3>3. fit[r] # NoRun
      BY <1>4 DEF Recommend
    <3> QED
      BY <1>1, <1>2, <2>1, <3>1, <3>2, <3>3 DEF WatchTypeOK, FitSound
  <2>4. fit' = [fit EXCEPT ![r] = NoRun]
        \/ \E c \in Candidates \cup {NoCandidate} : fit' = [fit EXCEPT ![r].new = c, ![r].step = "tell"]
    BY <1>4 DEF Recommend
  <2> QED
    BY <2>2, <2>3, <2>4
<1>5. CASE NotifyFit(r)
  <2>1. WatchTypeOK'
    BY <1>1, <1>5 DEF WatchTypeOK, NotifyFit, FitRuns
  <2>2. FitSound'
    BY <1>5 DEF WatchTypeOK, FitRuns, FitSound, NotifyFit
  <2> QED
    BY <1>2, <2>1, <2>2
<1>6. CASE SaveFit(r)
  <2>1. WatchTypeOK'
    BY <1>1, <1>6 DEF WatchTypeOK, SaveFit, FitRuns, FitStates
  <2>2. FitSound'
    BY <1>6 DEF WatchTypeOK, FitRuns, FitStates, FitSound, SaveFit
  <2> QED
    BY <1>2, <2>1, <2>2
<1> QED
  BY <1>3, <1>4, <1>5, <1>6

LEMMA WatchStep == WatchInv /\ [ModelWatchNext]_watchVars => WatchInv'
  BY OutsideKeeps, StartCheckKeeps, FetchKeeps, SaveCheckKeeps, NotifyCheckKeeps, CutKeeps, FitKeeps
     DEF ModelWatchNext

LEMMA WatchBegins == ModelWatchInit => WatchInv
  BY ModelWatchAssumption DEF ModelWatchInit, WatchInv, WatchTypeOK, CheckSound, FitSound, StateKnown,
     NeverChecked, NeverFitted, CheckStates, FitStates

LEMMA WatchSound == WatchInv => NewsTold
  BY DEF WatchInv, CheckSound, FitSound, StateKnown, Known, NewsTold

\* A version of a model that the file says was seen was announced to the operator, unless it
\* was the first, or the message about it failed.
THEOREM NewsIsTold == RecordsSpec => []NewsTold
<1>1. RecordsInit => WatchInv
  BY WatchBegins DEF RecordsInit
<1>2. WatchInv /\ [RecordsNext]_recordVars => WatchInv'
  <2> SUFFICES ASSUME WatchInv, [RecordsNext]_recordVars PROVE WatchInv'
    OBVIOUS
  <2>1. [ModelWatchNext]_watchVars
    BY DEF RecordsNext, recordVars, Still
  <2> QED
    BY <2>1, WatchStep
<1>3. WatchInv => NewsTold
  BY WatchSound
<1> QED
  BY <1>1, <1>2, <1>3, PTL DEF RecordsSpec

--------------------------------------------------------------------------------
(* The cache of research                                                   *)

Summaries == {NoFile, CutFile} \cup [of : Queries, made : Nat]
Dates == {NoFile, CutFile} \cup Nat

\* Who has found nothing in the cache yet, or has left it, has no query.
CacheTypeOK ==
    /\ researchDay \in Nat
    /\ cache \in [Directories -> [summary : Summaries, meta : Dates]]
    /\ asker \in [Askers -> [query : Queries \cup {NoFile},
                             step : {"none", "search", "summary", "metadata"}]]
    /\ \A a \in Askers : asker[a].step # "none" => asker[a].query \in Queries

Proper(f) == f \notin {NoFile, CutFile}

\* A summary is of its directory, and its date, if it has one, is no later than the day it
\* was made; while one that is dated is being saved, it is of today.
EntrySound(d) ==
    /\ Proper(cache[d].meta) => cache[d].meta <= researchDay
    /\ Proper(cache[d].summary) =>
          /\ Directory(cache[d].summary.of) = d
          /\ cache[d].summary.made <= researchDay
          /\ Proper(cache[d].meta) => cache[d].meta <= cache[d].summary.made
          /\ \A a \in Askers : asker[a].step = "metadata" /\ Directory(asker[a].query) = d =>
                cache[d].summary.made = researchDay

CacheInv == CacheTypeOK /\ (\A d \in Directories : EntrySound(d)) /\ ServedFresh

LEMMA AskKeeps == ASSUME CacheInv, NEW a \in Askers, NEW q \in Queries, Ask(a, q) PROVE CacheInv'
<1> USE ResearchCacheAssumption DEF CacheInv, CacheTypeOK, EntrySound, Proper, Ask, NotAsking, Summaries, Dates
<1>1. Directory(q) \in Directories
  BY DEF Directories
<1>2. CacheTypeOK'
  OBVIOUS
<1>3. \A d \in Directories : EntrySound(d)'
  OBVIOUS
<1>4. ServedFresh'
  BY <1>1 DEF ServedFresh, Valid
<1> QED
  BY <1>2, <1>3, <1>4

LEMMA ResearchGoesOnKeeps ==
  ASSUME CacheInv, NEW a \in Askers, NothingFound(a) \/ Synthesize(a)
  PROVE  CacheInv'
<1> USE DEF CacheInv, CacheTypeOK, NothingFound, Synthesize, NotAsking
<1>1. CacheTypeOK'
  OBVIOUS
<1>2. ASSUME NEW b \in Askers, asker'[b].step = "metadata" PROVE asker[b] = asker'[b]
  BY <1>2
<1>3. \A d \in Directories : EntrySound(d)'
  BY <1>2 DEF EntrySound, Proper
<1>4. ServedFresh'
  BY DEF ServedFresh
<1> QED
  BY <1>1, <1>3, <1>4

LEMMA SaveSummaryKeeps == ASSUME CacheInv, NEW a \in Askers, SaveSummary(a) PROVE CacheInv'
<1> USE DEF CacheInv, CacheTypeOK, SaveSummary
<1>1. Directory(asker[a].query) \in Directories /\ Research(a) \in Summaries
  BY DEF Directories, Summaries, Research
<1>2. CacheTypeOK'
  BY <1>1
<1>3. ASSUME NEW d \in Directories PROVE EntrySound(d)'
  <2>1. CASE d = Directory(asker[a].query)
    <3>1. cache'[d].summary = Research(a) /\ cache'[d].meta = cache[d].meta
      BY <1>1, <2>1
    <3> QED
      BY <2>1, <3>1 DEF EntrySound, Proper, Research, Dates
  <2>2. CASE d # Directory(asker[a].query)
    <3>1. cache'[d] = cache[d] /\ \A b \in Askers : Directory(asker'[b].query) = d => asker'[b] = asker[b]
      BY <1>1, <2>2
    <3> QED
      BY <3>1 DEF EntrySound, Proper
  <2> QED
    BY <2>1, <2>2
<1>4. ServedFresh'
  BY DEF ServedFresh
<1> QED
  BY <1>2, <1>3, <1>4

LEMMA SaveMetadataKeeps == ASSUME CacheInv, NEW a \in Askers, SaveMetadata(a) PROVE CacheInv'
<1> USE DEF CacheInv, CacheTypeOK, SaveMetadata, NotAsking
<1>1. Directory(asker[a].query) \in Directories /\ researchDay \in Dates
  BY DEF Directories, Dates
<1>2. CacheTypeOK'
  BY <1>1
<1>3. ASSUME NEW d \in Directories PROVE EntrySound(d)'
  <2>1. cache'[d].summary = cache[d].summary
    BY <1>1
  <2>2. cache'[d].meta = cache[d].meta \/ (d = Directory(asker[a].query) /\ cache'[d].meta = researchDay)
    BY <1>1
  <2> QED
    BY <2>1, <2>2 DEF EntrySound, Proper, Summaries
<1>4. ServedFresh'
  BY ResearchCacheAssumption DEF ServedFresh, Research
<1> QED
  BY <1>2, <1>3, <1>4

LEMMA InvalidateKeeps ==
  ASSUME CacheInv, NEW ds \in {{d} : d \in Directories} \cup {Directories}, Invalidate(ds)
  PROVE  CacheInv'
<1> USE DEF CacheInv, CacheTypeOK, Invalidate
<1>1. CacheTypeOK'
  BY DEF NoEntry, Summaries, Dates
<1>2. \A d \in Directories : EntrySound(d)'
  BY DEF EntrySound, Proper, NoEntry
<1>3. ServedFresh'
  BY DEF ServedFresh
<1> QED
  BY <1>1, <1>2, <1>3

LEMMA AskerDiesKeeps == ASSUME CacheInv, NEW a \in Askers, AskerDies(a) PROVE CacheInv'
<1> USE DEF CacheInv, CacheTypeOK, AskerDies, NotAsking
<1>1. asker[a].step # "none" => Directory(asker[a].query) \in Directories
  BY DEF Directories
<1>2. CacheTypeOK'
  BY <1>1 DEF Summaries, Dates
<1>3. ASSUME NEW d \in Directories PROVE EntrySound(d)'
  <2>1. cache'[d] = cache[d] \/ cache'[d].summary = CutFile \/ cache'[d] = [cache[d] EXCEPT !.meta = CutFile]
    BY <1>1
  <2>2. ASSUME NEW b \in Askers, asker'[b].step = "metadata" PROVE asker[b] = asker'[b]
    BY <2>2
  <2> QED
    BY <2>1, <2>2 DEF EntrySound, Proper
<1>4. ServedFresh'
  BY DEF ServedFresh
<1> QED
  BY <1>2, <1>3, <1>4

LEMMA DayPassesKeeps == ASSUME CacheInv, DayPasses PROVE CacheInv'
<1> USE DEF CacheInv, CacheTypeOK, DayPasses
<1>1. CacheTypeOK'
  OBVIOUS
<1>2. \A d \in Directories : EntrySound(d)'
  BY DEF EntrySound, Proper, Summaries, Dates
<1>3. ServedFresh'
  BY DEF ServedFresh
<1> QED
  BY <1>1, <1>2, <1>3

LEMMA ResearchStep == CacheInv /\ [ResearchNext]_researchVars => CacheInv'
<1> SUFFICES ASSUME CacheInv, [ResearchNext]_researchVars PROVE CacheInv'
  OBVIOUS
<1>1. CASE UNCHANGED researchVars
  BY <1>1 DEF researchVars, CacheInv, CacheTypeOK, EntrySound, ServedFresh
<1> QED
  BY <1>1, AskKeeps, ResearchGoesOnKeeps, SaveSummaryKeeps, SaveMetadataKeeps, InvalidateKeeps, AskerDiesKeeps,
     DayPassesKeeps DEF ResearchNext

LEMMA ResearchBegins == ResearchInit => CacheInv
  BY DEF ResearchInit, CacheInv, CacheTypeOK, EntrySound, Proper, ServedFresh, Summaries, Dates, NoEntry,
     NotAsking

\* What is served was researched for a query of the same directory, within its time to live.
THEOREM CacheIsFresh == RecordsSpec => []ServedFresh
<1>1. RecordsInit => CacheInv
  BY ResearchBegins DEF RecordsInit
<1>2. CacheInv /\ [RecordsNext]_recordVars => CacheInv'
  <2> SUFFICES ASSUME CacheInv, [RecordsNext]_recordVars PROVE CacheInv'
    OBVIOUS
  <2>1. [ResearchNext]_researchVars
    BY DEF RecordsNext, recordVars, Still
  <2> QED
    BY <2>1, ResearchStep
<1>3. CacheInv => ServedFresh
  BY DEF CacheInv
<1> QED
  BY <1>1, <1>2, <1>3, PTL DEF RecordsSpec

--------------------------------------------------------------------------------
(* An installation                                                         *)

SetupTypeOK ==
    /\ root \in 0 .. 7 /\ boot \in 0 .. 13
    /\ upstream \in Nat \ {0}

\* Root's steps come in order, so that the script is there only with what it needs.
RootOrder ==
    /\ root > 2 => "user" \in made
    /\ root > 3 => "sudoers" \in made
    /\ "script" \in made => {"user", "sudoers"} \subseteq made

\* What the bootstrap script has behind it was done in this very run of it, or is there.
BootOrder ==
    /\ boot > 0 => "script" \in made
    /\ boot > 1 => code # 0
    /\ boot > 4 => venv = "made"
    /\ boot > 5 => deps = code
    /\ boot > 6 => "defaults" \in made
    /\ boot > 7 => "wizard" \in made
    /\ boot = 11 => "unit" \in made

SetupInv == SetupTypeOK /\ RootOrder /\ BootOrder

\* The steps by their numbers.
LEMMA StepNumbers ==
  ASSUME boot \in 0 .. 13
  PROVE  /\ At("code") => boot = 1
         /\ At("scaffold") => boot = 2
         /\ At("templates") => boot = 3
         /\ At("venv") => boot = 4
         /\ At("pip") => boot = 5
         /\ At("defaults") => boot = 6
         /\ At("wizard") => boot = 7
         /\ At("shims") => boot = 8
         /\ At("unit") => boot = 9
         /\ At("service") => boot = 10
         /\ At("start") => boot = 11
         /\ At("timer") => boot = 12
  BY DEF At, BootSteps, BootDone

LEMMA RootKeeps ==
  ASSUME SetupInv, Release \/ RootStarts \/ RootStep \/ RootStops
  PROVE  SetupInv'
<1> USE DEF SetupInv, SetupTypeOK, RootOrder, BootOrder, bootVars, treeVars, rootVars
<1>1. CASE Release
  BY <1>1 DEF Release
<1>2. CASE RootStarts
  BY <1>2 DEF RootStarts
<1>3. CASE RootStep
  <2>1. /\ root \in 1 .. 6 /\ root' = root + 1 /\ made \subseteq made'
        /\ root = 2 => "user" \in made'
        /\ root = 3 => "sudoers" \in made'
        /\ "script" \in made' => "script" \in made \/ root = 5
    BY <1>3 DEF RootStep, RootSteps
  <2> QED
    BY <1>3, <2>1 DEF RootStep
<1>4. CASE RootStops
  BY <1>4 DEF RootStops
<1> QED
  BY <1>1, <1>2, <1>3, <1>4

LEMMA BootStartsKeeps == ASSUME SetupInv, NEW hook \in BOOLEAN, BootStarts(hook) PROVE SetupInv'
  BY DEF SetupInv, SetupTypeOK, RootOrder, BootOrder, BootStarts, RootDone, RootSteps, treeVars

LEMMA BootGoesOnKeeps ==
  ASSUME SetupInv,
         \/ CheckOut \/ Scaffold \/ Templates \/ MakeVenv \/ Pip \/ DefaultFiles \/ Shims
         \/ GenerateUnit \/ InstallService \/ NoService \/ StartService \/ Timer
  PROVE  SetupInv'
<1> USE StepNumbers DEF SetupInv, SetupTypeOK, RootOrder, BootOrder, bootVars, treeVars, rootVars, Advance
<1>1. CASE CheckOut
  <2>1. boot = 1 /\ boot' = 2 /\ code' = upstream /\ UNCHANGED <<root, made, upstream>>
    BY <1>1 DEF CheckOut
  <2> QED
    BY <2>1
<1>2. CASE MakeVenv
  BY <1>2 DEF MakeVenv
<1>3. CASE Pip
  BY <1>3 DEF Pip, PipInstall
<1>4. CASE Scaffold \/ Templates \/ DefaultFiles \/ Shims \/ Timer
  BY <1>4 DEF Scaffold, Templates, DefaultFiles, Shims, Timer, Make
<1>5. CASE GenerateUnit
  BY <1>5 DEF GenerateUnit, Make
<1>6. CASE InstallService
  BY <1>6 DEF InstallService
<1>7. CASE NoService
  BY <1>7 DEF NoService
<1>8. CASE StartService
  BY <1>8 DEF StartService
<1> QED
  BY <1>1, <1>2, <1>3, <1>4, <1>5, <1>6, <1>7, <1>8

LEMMA BootEndsKeeps ==
  ASSUME SetupInv, BootStops \/ WizardStarts \/ WizardEnds \/ WizardDies
  PROVE  SetupInv'
<1> USE StepNumbers DEF SetupInv, SetupTypeOK, RootOrder, BootOrder, bootVars, treeVars, rootVars, Advance
<1>1. CASE BootStops
  <2>1. boot' = 0 /\ made' \subseteq made \cup {"partial_clone", "done"} /\ made \subseteq made'
    BY <1>1 DEF BootStops
  <2>2. UNCHANGED <<root, upstream>>
    BY <1>1 DEF BootStops
  <2> QED
    BY <2>1, <2>2
<1>2. CASE WizardStarts
  BY <1>2 DEF WizardStarts
<1>3. CASE WizardEnds
  BY <1>3 DEF WizardEnds
<1>4. CASE WizardDies
  BY <1>4 DEF WizardDies
<1> QED
  BY <1>1, <1>2, <1>3, <1>4

LEMMA SetupStep == SetupInv /\ [SetupNext]_setupVars => SetupInv'
<1> SUFFICES ASSUME SetupInv, [SetupNext]_setupVars PROVE SetupInv'
  OBVIOUS
<1>1. CASE UNCHANGED setupVars
  BY <1>1 DEF setupVars, SetupInv, SetupTypeOK, RootOrder, BootOrder
<1> QED
  BY <1>1, RootKeeps, BootStartsKeeps, BootGoesOnKeeps, BootEndsKeeps DEF SetupNext

LEMMA SetupBegins == SetupInit => SetupInv
  BY DEF SetupInit, SetupInv, SetupTypeOK, RootOrder, BootOrder

\* Both steps find all that is behind them, and InstallService looks for the unit.
LEMMA ServiceFindsAll ==
  ASSUME SetupInv, InstallService \/ StartService
  PROVE  /\ code # 0 /\ venv = "made" /\ deps = code
         /\ {"user", "sudoers", "defaults", "wizard", "unit"} \subseteq made
<1> USE StepNumbers DEF SetupInv, SetupTypeOK, RootOrder, BootOrder
<1>1. CASE InstallService
  BY <1>1 DEF InstallService
<1>2. CASE StartService
  BY <1>2 DEF StartService
<1> QED
  BY <1>1, <1>2

\* The service is enabled and started only with what it needs in place, however often the
\* scripts were cut short, and run again, before.
THEOREM ServiceIsReady == RecordsSpec => ServiceReady
<1>1. RecordsInit => SetupInv
  BY SetupBegins DEF RecordsInit
<1>2. ASSUME SetupInv, [RecordsNext]_recordVars PROVE SetupInv'
  <2>1. [SetupNext]_setupVars
    BY <1>2 DEF RecordsNext, recordVars, Still
  <2> QED
    BY <1>2, <2>1, SetupStep
<1>3. SetupInv =>
        [InstallService \/ StartService =>
            /\ code # 0 /\ venv = "made" /\ deps = code
            /\ {"user", "sudoers", "defaults", "wizard", "unit"} \subseteq made]_setupVars
  BY ServiceFindsAll
<1> QED
  BY <1>1, <1>2, <1>3, PTL DEF RecordsSpec, ServiceReady

--------------------------------------------------------------------------------
(* The journal of turns                                                    *)

Entries == [turn : Flights, ev : {"start", "attempt", "attempted", "end"}, ok : BOOLEAN]
FlightStates == [at : {"none", "between", "attempt", "answered", "ok", "failed", "died"}, tries : Nat]

\* Nobody writes to the file of a day to come.
FlightTypeOK ==
    /\ flightDay \in Days
    /\ journal \in [Days -> Seq(Entries)]
    /\ \A d \in Days : d > flightDay => journal[d] = <<>>
    /\ flight \in [Flights -> FlightStates]

IsEnd(d, k, t) == d \in Days /\ k \in DOMAIN journal[d] /\ journal[d][k].turn = t /\ journal[d][k].ev = "end"
IsOver(t) == flight[t].at \in {"ok", "failed"}

\* An end line says how the turn ended, and there is one at most; there is one, and no line
\* of the turn in a younger file, when a turn is over and its last line was not lost.
EndsTrue ==
    \A t \in Flights, d \in Days, k \in Nat :
        IsEnd(d, k, t) => flight[t].at = IF journal[d][k].ok THEN "ok" ELSE "failed"
EndsOnce ==
    \A t \in Flights, d, e \in Days, j, k \in Nat : IsEnd(d, k, t) /\ IsEnd(e, j, t) => d = e /\ j = k
EndsKept ==
    \A t \in Flights \ missing : IsOver(t) =>
        \A d \in Days, k \in Nat : k \in DOMAIN journal[d] /\ journal[d][k].turn = t =>
            \E e \in Days, j \in Nat : IsEnd(e, j, t) /\ e >= d

FlightInv == FlightTypeOK /\ EndsTrue /\ EndsOnce /\ EndsKept

\* A line goes behind the others of today, or nowhere.
LEMMA LineAdded ==
  ASSUME FlightTypeOK, NEW t \in Flights, NEW ev \in {"start", "attempt", "attempted", "end"},
         NEW ok \in BOOLEAN, Write(t, ev, ok), UNCHANGED flightDay
  PROVE  /\ journal' \in [Days -> Seq(Entries)]
         /\ \A d \in Days : d > flightDay => journal'[d] = <<>>
         /\ \/ journal' = journal /\ missing' = IF ev = "end" THEN missing \cup {t} ELSE missing
            \/ /\ missing' = missing
               /\ Len(journal'[flightDay]) = Len(journal[flightDay]) + 1
               /\ journal'[flightDay][Len(journal'[flightDay])] = [turn |-> t, ev |-> ev, ok |-> ok]
               /\ \A k \in DOMAIN journal[flightDay] : /\ k \in DOMAIN journal'[flightDay]
                                                       /\ journal'[flightDay][k] = journal[flightDay][k]
               /\ \A k \in DOMAIN journal'[flightDay] :
                     k \in DOMAIN journal[flightDay] \/ k = Len(journal'[flightDay])
               /\ \A d \in Days \ {flightDay} : journal'[d] = journal[d]
<1> DEFINE line == [turn |-> t, ev |-> ev, ok |-> ok]
<1>1. line \in Entries
  BY DEF Entries
<1>2. CASE journal' = journal /\ missing' = IF ev = "end" THEN missing \cup {t} ELSE missing
  BY <1>2 DEF FlightTypeOK
<1>3. CASE journal' = [journal EXCEPT ![flightDay] = Append(@, line)] /\ UNCHANGED missing
  <2> HIDE DEF line
  <2>1. journal[flightDay] \in Seq(Entries) /\ journal'[flightDay] = Append(journal[flightDay], line)
    BY <1>3 DEF FlightTypeOK
  <2>2. /\ Len(journal'[flightDay]) = Len(journal[flightDay]) + 1
        /\ journal'[flightDay][Len(journal'[flightDay])] = line
        /\ DOMAIN journal[flightDay] = 1 .. Len(journal[flightDay])
        /\ DOMAIN journal'[flightDay] = 1 .. Len(journal[flightDay]) + 1
        /\ Len(journal[flightDay]) \in Nat
        /\ \A k \in 1 .. Len(journal[flightDay]) : journal'[flightDay][k] = journal[flightDay][k]
    BY <2>1, <1>1
  <2>3. journal' \in [Days -> Seq(Entries)] /\ \A d \in Days \ {flightDay} : journal'[d] = journal[d]
    BY <1>1, <1>3 DEF FlightTypeOK
  <2>4. \A d \in Days : d > flightDay => journal'[d] = <<>>
    BY <2>3 DEF FlightTypeOK, Days
  <2>5. \A k \in DOMAIN journal[flightDay] : /\ k \in DOMAIN journal'[flightDay]
                                             /\ journal'[flightDay][k] = journal[flightDay][k]
    BY <2>2
  <2>6. \A k \in DOMAIN journal'[flightDay] : k \in DOMAIN journal[flightDay] \/ k = Len(journal'[flightDay])
    BY <2>2
  <2>7. journal'[flightDay][Len(journal'[flightDay])] = [turn |-> t, ev |-> ev, ok |-> ok]
    BY <2>2 DEF line
  <2> QED
    BY <1>3, <2>2, <2>3, <2>4, <2>5, <2>6, <2>7
<1> QED
  BY <1>2, <1>3 DEF Write

\* A turn that is not over has no end line; a line that is not an end changes nothing.
LEMMA TurnGoesOnKeeps ==
  ASSUME FlightInv, NEW t \in Flights, TurnStart(t) \/ AttemptStart(t) \/ AttemptEnd(t)
  PROVE  FlightInv'
<1> USE DEF FlightInv
<1>1. PICK ev \in {"start", "attempt", "attempted"}, ok \in BOOLEAN : Write(t, ev, ok)
  BY DEF TurnStart, AttemptStart, AttemptEnd
<1>2. UNCHANGED flightDay
  BY DEF TurnStart, AttemptStart, AttemptEnd
<1>3. flight[t] \in FlightStates /\ ~IsOver(t)
  BY DEF TurnStart, AttemptStart, AttemptEnd, FlightTypeOK, IsOver
<1>4. /\ DOMAIN flight' = Flights /\ flight' = [s \in Flights |-> flight'[s]]
      /\ \A s \in Flights \ {t} : flight'[s] = flight[s]
  BY DEF TurnStart, AttemptStart, AttemptEnd, FlightTypeOK
<1>5. flight'[t] \in FlightStates /\ flight'[t].at \in {"between", "attempt", "answered"}
  <2>1. CASE TurnStart(t)
    <3>1. flight'[t] = [flight[t] EXCEPT !.at = "between"]
      BY <2>1 DEF TurnStart, FlightTypeOK
    <3> QED
      BY <1>3, <3>1 DEF FlightStates
  <2>2. CASE AttemptStart(t)
    <3>1. flight'[t] = [at |-> "attempt", tries |-> flight[t].tries + 1]
      BY <2>2 DEF AttemptStart, FlightTypeOK
    <3> QED
      BY <1>3, <3>1 DEF FlightStates
  <2>3. CASE AttemptEnd(t)
    <3>1. PICK at \in {"between", "answered"} : flight'[t] = [flight[t] EXCEPT !.at = at]
      BY <2>3 DEF AttemptEnd, FlightTypeOK
    <3> QED
      BY <1>3, <3>1 DEF FlightStates
  <2> QED
    BY <2>1, <2>2, <2>3
<1>6. FlightTypeOK'
  BY <1>1, <1>2, <1>4, <1>5, LineAdded DEF FlightTypeOK
<1>7. missing' = missing /\ \A d \in Days : \A k \in DOMAIN journal[d] : journal'[d][k] = journal[d][k]
  BY <1>1, <1>2, LineAdded DEF FlightTypeOK
<1>8. ASSUME NEW d \in Days, NEW k \in DOMAIN journal'[d]
      PROVE  k \in DOMAIN journal[d] \/ journal'[d][k].turn = t
  <2>1. CASE journal' = journal
    BY <2>1
  <2>2. CASE /\ journal'[flightDay][Len(journal'[flightDay])] = [turn |-> t, ev |-> ev, ok |-> ok]
             /\ \A i \in DOMAIN journal'[flightDay] : i \in DOMAIN journal[flightDay] \/ i = Len(journal'[flightDay])
             /\ \A e \in Days \ {flightDay} : journal'[e] = journal[e]
    BY <2>2
  <2> QED
    BY <1>1, <1>2, <2>1, <2>2, LineAdded
<1>9. ASSUME NEW d \in Days, NEW k \in Nat, NEW s \in Flights PROVE IsEnd(d, k, s)' <=> IsEnd(d, k, s)
  <2>1. CASE journal' = journal
    BY <2>1 DEF IsEnd
  <2>2. CASE /\ journal'[flightDay][Len(journal'[flightDay])] = [turn |-> t, ev |-> ev, ok |-> ok]
             /\ \A i \in DOMAIN journal[flightDay] : /\ i \in DOMAIN journal'[flightDay]
                                                     /\ journal'[flightDay][i] = journal[flightDay][i]
             /\ \A i \in DOMAIN journal'[flightDay] : i \in DOMAIN journal[flightDay] \/ i = Len(journal'[flightDay])
             /\ \A e \in Days \ {flightDay} : journal'[e] = journal[e]
    <3>1. CASE d # flightDay
      BY <2>2, <3>1 DEF IsEnd
    <3>2. CASE d = flightDay
      BY <1>1, <2>2, <3>2 DEF IsEnd
    <3> QED
      BY <3>1, <3>2
  <2> QED
    BY <1>1, <1>2, <2>1, <2>2, LineAdded
<1>10. \A d \in Days, k \in Nat : ~IsEnd(d, k, t)
  BY <1>3 DEF EndsTrue, IsOver
<1>11. EndsTrue'
  BY <1>4, <1>5, <1>9, <1>7, <1>10 DEF EndsTrue, IsEnd
<1>12. EndsOnce'
  BY <1>9 DEF EndsOnce
<1>13. EndsKept'
  BY <1>4, <1>5, <1>9, <1>7, <1>8 DEF EndsKept, IsOver
<1> QED
  BY <1>6, <1>11, <1>12, <1>13

\* The end line goes into today's file, and no younger one has a line.
LEMMA TurnEndKeeps == ASSUME FlightInv, NEW t \in Flights, TurnEnd(t) PROVE FlightInv'
<1> USE DEF FlightInv
<1> DEFINE ok == flight[t].at = "answered"
           at == IF ok THEN "ok" ELSE "failed"
<1>1. Write(t, "end", ok) /\ UNCHANGED flightDay /\ ok \in BOOLEAN
  BY DEF TurnEnd
<1>2. /\ flight' \in [Flights -> FlightStates] /\ flight'[t].at = at
      /\ ~IsOver(t) /\ \A s \in Flights \ {t} : flight'[s] = flight[s]
  BY DEF TurnEnd, FlightTypeOK, FlightStates, IsOver
<1>3. \A d \in Days, k \in Nat : ~IsEnd(d, k, t)
  BY <1>2 DEF EndsTrue, IsOver
<1> HIDE DEF ok
<1>4. FlightTypeOK'
  BY <1>1, <1>2, LineAdded DEF FlightTypeOK
<1>5. CASE journal' = journal /\ missing' = missing \cup {t}
  BY <1>2, <1>3, <1>4, <1>5 DEF EndsTrue, EndsOnce, EndsKept, IsEnd, IsOver
<1>6. CASE /\ missing' = missing
           /\ Len(journal'[flightDay]) = Len(journal[flightDay]) + 1
           /\ journal'[flightDay][Len(journal'[flightDay])] = [turn |-> t, ev |-> "end", ok |-> ok]
           /\ \A k \in DOMAIN journal[flightDay] : /\ k \in DOMAIN journal'[flightDay]
                                                   /\ journal'[flightDay][k] = journal[flightDay][k]
           /\ \A k \in DOMAIN journal'[flightDay] :
                 k \in DOMAIN journal[flightDay] \/ k = Len(journal'[flightDay])
           /\ \A d \in Days \ {flightDay} : journal'[d] = journal[d]
  <2> DEFINE last == Len(journal'[flightDay])
  <2>1. flightDay \in Days /\ last \in Nat /\ last \in DOMAIN journal'[flightDay] /\ last \notin DOMAIN journal[flightDay]
    BY <1>4, <1>6 DEF FlightTypeOK
  <2>2. \A d \in Days, k \in Nat : /\ IsEnd(d, k, t)' <=> d = flightDay /\ k = last
                                   /\ \A s \in Flights \ {t} : IsEnd(d, k, s)' <=> IsEnd(d, k, s)
    BY <1>3, <1>6, <2>1 DEF IsEnd
  <2>3. \A d \in Days, k \in Nat, s \in Flights \ {t} : IsEnd(d, k, s) => journal'[d][k] = journal[d][k]
    BY <1>6, <2>1 DEF IsEnd
  <2>4. EndsTrue'
    BY <1>2, <1>6, <2>2, <2>3 DEF EndsTrue
  <2>5. EndsOnce'
    BY <2>2 DEF EndsOnce
  <2>6. \A d \in Days, k \in Nat : k \in DOMAIN journal'[d] => d <= flightDay
    BY <1>1, <1>4 DEF FlightTypeOK, Days
  <2>7. EndsKept'
    <3> SUFFICES ASSUME NEW s \in Flights, s \notin missing, IsOver(s)', NEW d \in Days, NEW k \in Nat,
                        k \in DOMAIN journal'[d], journal'[d][k].turn = s
                 PROVE  \E e \in Days, j \in Nat : IsEnd(e, j, s)' /\ e >= d
      BY <1>6 DEF EndsKept
    <3>1. CASE s = t
      BY <2>1, <2>2, <2>6, <3>1 DEF Days
    <3>2. CASE s # t
      <4>1. IsOver(s) /\ k \in DOMAIN journal[d] /\ journal[d][k].turn = s
        BY <1>2, <1>6, <2>1, <3>2 DEF IsOver
      <4> QED
        BY <2>2, <3>2, <4>1 DEF EndsKept
    <3> QED
      BY <3>1, <3>2
  <2> QED
    BY <1>4, <2>4, <2>5, <2>7
<1> QED
  BY <1>1, <1>5, <1>6, LineAdded

\* Who dies was not over.
LEMMA ProcessDiesKeeps == ASSUME FlightInv, NEW p, ProcessDies(p) PROVE FlightInv'
<1> USE DEF FlightInv, ProcessDies
<1>1. FlightTypeOK'
  BY DEF FlightTypeOK, FlightStates
<1>2. \A t \in Flights : /\ IsOver(t) => flight'[t] = flight[t]
                         /\ IsOver(t)' => IsOver(t)
  BY DEF IsOver, FlightTypeOK, FlightStates
<1>3. EndsTrue' /\ EndsOnce'
  BY <1>2 DEF EndsTrue, EndsOnce, IsEnd, IsOver
<1>4. EndsKept'
  BY <1>2 DEF EndsKept, IsEnd
<1> QED
  BY <1>1, <1>3, <1>4

\* What is removed is older than what is left: a turn with a line left keeps its end.
LEMMA MidnightKeeps == ASSUME FlightInv, Midnight PROVE FlightInv'
<1> USE FlightLogAssumption DEF FlightInv, Midnight
<1>1. \A d \in Days : journal'[d] \in {journal[d], <<>>}
  OBVIOUS
<1>2. \A d, e \in Days : e >= d /\ journal'[d] # <<>> => journal'[e] = journal[e]
  BY DEF Days, FlightTypeOK
<1>3. FlightTypeOK'
  BY <1>1 DEF FlightTypeOK, Days
<1>4. \A d \in Days, k \in Nat : k \in DOMAIN journal'[d] => /\ journal'[d] # <<>> /\ journal'[d] = journal[d]
                                                           /\ k \in DOMAIN journal[d]
  BY <1>1
<1>5. EndsTrue' /\ EndsOnce'
  BY <1>4 DEF EndsTrue, EndsOnce, IsEnd
<1>6. EndsKept'
  BY <1>2, <1>4 DEF EndsKept, IsOver, IsEnd
<1> QED
  BY <1>3, <1>5, <1>6

LEMMA FlightStep == FlightInv /\ [FlightNext]_flightVars => FlightInv'
<1> SUFFICES ASSUME FlightInv, [FlightNext]_flightVars PROVE FlightInv'
  OBVIOUS
<1>1. CASE UNCHANGED flightVars
  BY <1>1 DEF flightVars, FlightInv, FlightTypeOK, EndsTrue, EndsOnce, EndsKept, IsEnd, IsOver
<1> QED
  BY <1>1, TurnGoesOnKeeps, TurnEndKeeps, ProcessDiesKeeps, MidnightKeeps DEF FlightNext

LEMMA FlightBegins == FlightInit => FlightInv
<1> SUFFICES ASSUME FlightInit PROVE FlightInv
  OBVIOUS
<1>1. \A d \in Days : journal[d] = <<>>
  BY DEF FlightInit
<1>2. FlightTypeOK
  BY <1>1, FlightLogAssumption DEF FlightInit, FlightTypeOK, FlightStates, Days
<1> QED
  BY <1>1, <1>2 DEF FlightInv, EndsTrue, EndsOnce, EndsKept, IsEnd

\* The one end line is the first; if it is not among the lines read, no line of the turn is.
LEMMA LogIsTrue == FlightInv => LogTruthful
<1> SUFFICES ASSUME FlightInv, NEW t \in Listed
             PROVE  CASE Status(t) = "OK" -> flight[t].at = "ok"
                      [] Status(t) = "FAILED" -> flight[t].at = "failed"
                      [] OTHER -> flight[t].at \in {"ok", "failed"} => t \in missing
  BY DEF LogTruthful
<1> USE FlightLogAssumption DEF FlightInv
<1> DEFINE endLines == {x \in LinesOf(t) : journal[x[1]][x[2]].ev = "end"}
           first == {x \in endLines : \A y \in endLines : x = y \/ ReadBefore(x, y)}
<1>1. t \in Flights
  BY DEF Listed
<1>2. ASSUME NEW x \in LinesOf(t)
      PROVE  /\ x = <<x[1], x[2]>> /\ x[1] \in RecentDays /\ x[1] \in Days /\ x[2] \in Nat
             /\ x[2] \in DOMAIN journal[x[1]] /\ journal[x[1]][x[2]].turn = t
  BY DEF LinesOf, RecentDays, FlightTypeOK
<1>3. \A x \in endLines : IsEnd(x[1], x[2], t)
  BY <1>2 DEF IsEnd
<1>4. \A x, y \in endLines : x = y
  <2> SUFFICES ASSUME NEW x \in endLines, NEW y \in endLines PROVE x = y
    OBVIOUS
  <2>1. x[1] = y[1] /\ x[2] = y[2]
    BY <1>1, <1>2, <1>3 DEF EndsOnce
  <2> QED
    BY <1>2, <2>1
<1>5. CASE endLines = {}
  <2>1. Status(t) = "NO-END"
    BY <1>5 DEF Status
  <2>2. ASSUME IsOver(t), t \notin missing PROVE FALSE
    <3>1. PICK x \in LinesOf(t) : TRUE
      BY DEF Listed
    <3>2. PICK e \in Days, j \in Nat : IsEnd(e, j, t) /\ e >= x[1]
      BY <1>1, <1>2, <2>2 DEF EndsKept
    <3>3. e <= flightDay
      BY <3>2 DEF FlightTypeOK, IsEnd, Days
    <3>4. e \in RecentDays
      BY <1>2, <3>2, <3>3 DEF RecentDays, FlightTypeOK, Days
    <3>5. <<e, j>> \in LinesOf(t)
      BY <3>2, <3>4 DEF LinesOf, IsEnd
    <3> QED
      BY <1>5, <3>2, <3>5 DEF IsEnd
  <2> QED
    BY <2>1, <2>2 DEF IsOver
<1>6. CASE endLines # {}
  <2>1. PICK x \in endLines : TRUE
    BY <1>6
  <2>2. first = {x}
    BY <1>4, <2>1
  <2>3. Status(t) = IF journal[x[1]][x[2]].ok THEN "OK" ELSE "FAILED"
    BY <1>6, <2>2 DEF Status
  <2>4. flight[t].at = IF journal[x[1]][x[2]].ok THEN "ok" ELSE "failed"
    BY <1>1, <1>2, <1>3, <2>1 DEF EndsTrue
  <2> QED
    BY <2>3, <2>4
<1> QED
  BY <1>5, <1>6

\* What the recovery tool lists as OK or FAILED ended so; what it lists without an end is not
\* over, or its last line was lost.
THEOREM LogIsTruthful == RecordsSpec => []LogTruthful
<1>1. RecordsInit => FlightInv
  BY FlightBegins DEF RecordsInit
<1>2. FlightInv /\ [RecordsNext]_recordVars => FlightInv'
  <2> SUFFICES ASSUME FlightInv, [RecordsNext]_recordVars PROVE FlightInv'
    OBVIOUS
  <2>1. [FlightNext]_flightVars
    BY DEF RecordsNext, recordVars, Still
  <2> QED
    BY <2>1, FlightStep
<1>3. FlightInv => LogTruthful
  BY LogIsTrue
<1> QED
  BY <1>1, <1>2, <1>3, PTL DEF RecordsSpec

--------------------------------------------------------------------------------
(* The error inbox                                                         *)

Runs == [start : Nat, status : Outcomes]

InboxTypeOK ==
    /\ clock \in Nat
    /\ listed \subseteq Jobs
    /\ running \in [Jobs -> SUBSET Nat]
    /\ marker \in [Jobs -> Nat \cup {Never}]
    /\ record \in [Jobs -> Runs \cup {Nothing}]
    /\ latest \in [Jobs -> [start : Nat, status : Outcomes \cup {"running"}] \cup {Nothing}]
    /\ misses \in [Jobs -> SUBSET [at : Nat, known : BOOLEAN]]
    /\ since \in Nat \cup {Never}
    /\ firstSeen \in [Jobs -> Nat \cup {Never}]
    /\ inbox = [x \in Jobs \cup Units |-> inbox[x]]

\* The marker is the start of the latest run; no record is of a later one.
RunsKnown(j) ==
    /\ marker[j] = Never <=> latest[j] = Nothing
    /\ marker[j] # Never => marker[j] = latest[j].start /\ marker[j] <= clock
    /\ \A s \in running[j] : marker[j] # Never /\ s <= marker[j]
    /\ record[j] # Nothing => marker[j] # Never /\ record[j].start <= marker[j]

\* The files of a job that tell all: the record is that of the latest run, if that is over,
\* and of an earlier one, if there is any, while it is not.
RecordTells(j) ==
    latest[j] # Nothing =>
        IF latest[j].status = "running" THEN record[j] = Nothing \/ record[j].start < marker[j]
        ELSE record[j] = latest[j]

\* The misses are those since the latest run, and since the job was known all are there.
MissesTell(j) ==
    /\ \A m \in misses[j] : /\ m.at \in DueAt[j] /\ m.at <= clock
                            /\ marker[j] # Never => m.at > marker[j]
                            /\ m.known => firstSeen[j] # Never /\ firstSeen[j] < m.at
    /\ \A t \in DueAt[j] :
          /\ t <= clock
          /\ IF marker[j] # Never THEN marker[j] < t ELSE firstSeen[j] # Never /\ firstSeen[j] < t
          => \E m \in misses[j] : m.at = t

\* Tracking began before any job was first seen; no entry is older than that.
TrackingKnown(j) ==
    /\ since # Never => since <= clock
    /\ firstSeen[j] # Never => since # Never /\ since <= firstSeen[j] /\ firstSeen[j] <= clock
    /\ firstSeen[j] = Never => inbox[j] \notin Problems

\* An entry that is open without a run is so for a fire time that was missed.
OpenForCause(j) == inbox[j] \in Problems /\ marker[j] = Never => \E m \in misses[j] : m.at < clock

InboxInv ==
    /\ InboxTypeOK
    /\ \A j \in Jobs : RunsKnown(j) /\ TrackingKnown(j)
    /\ \A j \in listed \ blurred : RecordTells(j) /\ MissesTell(j) /\ OpenForCause(j)

\* What the history says of a job does not depend on the entries, nor on other jobs.
LEMMA JobUntouched ==
  ASSUME InboxInv, NEW j \in Jobs,
         UNCHANGED <<clock, listed, since>>,
         marker'[j] = marker[j], latest'[j] = latest[j], record'[j] = record[j], running'[j] \subseteq running[j],
         misses'[j] = misses[j], firstSeen'[j] = firstSeen[j], inbox'[j] \in {inbox[j], "none"},
         j \in blurred => j \in blurred'
  PROVE  /\ RunsKnown(j)' /\ TrackingKnown(j)'
         /\ j \in (listed \ blurred)' => RecordTells(j)' /\ MissesTell(j)' /\ OpenForCause(j)'
<1>1. RunsKnown(j)'
  BY DEF InboxInv, RunsKnown
<1>2. TrackingKnown(j)'
  BY DEF InboxInv, TrackingKnown, Problems
<1>3. ASSUME j \in (listed \ blurred)' PROVE RecordTells(j)' /\ MissesTell(j)' /\ OpenForCause(j)'
  <2>1. j \in listed \ blurred
    BY <1>3
  <2>2. RecordTells(j)'
    BY <2>1 DEF InboxInv, RecordTells
  <2>3. MissesTell(j)'
    BY <2>1 DEF InboxInv, MissesTell
  <2>4. OpenForCause(j)'
    BY <2>1 DEF InboxInv, OpenForCause, Problems
  <2> QED
    BY <2>2, <2>3, <2>4
<1> QED
  BY <1>1, <1>2, <1>3

\* A job that is taken out of the crontab or put into it counts only if nothing is known of it.
LEMMA CrontabEditedKeeps == ASSUME InboxInv, NEW j \in Jobs, CrontabEdited(j) PROVE InboxInv'
<1> USE DEF CrontabEdited, sweepVars, turnVars
<1>1. InboxTypeOK'
  BY DEF InboxInv, InboxTypeOK
<1>2. \A i \in Jobs : RunsKnown(i)' /\ TrackingKnown(i)'
  BY DEF InboxInv, RunsKnown, TrackingKnown
<1>3. ASSUME NEW i \in (listed \ blurred)', i # j
      PROVE  RecordTells(i)' /\ MissesTell(i)' /\ OpenForCause(i)'
  <2>1. i \in listed \ blurred /\ misses'[i] = misses[i]
    BY <1>3 DEF InboxInv, InboxTypeOK
  <2> QED
    BY <2>1 DEF InboxInv, RecordTells, MissesTell, OpenForCause
<1>4. ASSUME j \in (listed \ blurred)'
      PROVE  RecordTells(j)' /\ MissesTell(j)' /\ OpenForCause(j)'
  <2>1. firstSeen[j] = Never /\ marker[j] = Never /\ misses'[j] = {}
    BY <1>4 DEF InboxInv, InboxTypeOK
  <2>2. latest[j] = Nothing /\ inbox[j] \notin Problems
    BY <2>1 DEF InboxInv, RunsKnown, TrackingKnown
  <2> QED
    BY <2>1, <2>2 DEF RecordTells, MissesTell, OpenForCause
<1> QED
  BY <1>1, <1>2, <1>3, <1>4 DEF InboxInv, InboxTypeOK

\* A run that starts is the latest and unblurs the job; a fire time without one is missed.
LEMMA TickKeeps == ASSUME InboxInv, Tick PROVE InboxInv'
<1> USE InboxAssumption DEF sweepVars, turnVars
<1>1. PICK started \in SUBSET {j \in listed : clock' \in DueAt[j]} :
          /\ marker' = [j \in Jobs |-> IF j \in started THEN clock' ELSE marker[j]]
          /\ running' = [j \in Jobs |-> IF j \in started THEN running[j] \cup {clock'} ELSE running[j]]
          /\ latest' = [j \in Jobs |-> IF j \in started THEN [start |-> clock', status |-> "running"]
                                       ELSE latest[j]]
          /\ blurred' = blurred \ started
          /\ misses' = [j \in Jobs |->
                IF j \in started THEN {}
                ELSE IF j \notin listed \/ clock' \notin DueAt[j] THEN misses[j]
                ELSE misses[j] \cup {[at |-> clock', known |-> firstSeen[j] # Never]}]
  BY DEF Tick
<1>2. clock \in Nat /\ clock' = clock + 1 /\ UNCHANGED <<listed, record, since, firstSeen, inbox>>
  BY DEF Tick, InboxInv, InboxTypeOK
<1>3. ASSUME NEW j \in Jobs
      PROVE  /\ marker'[j] \in Nat \cup {Never} /\ running'[j] \subseteq Nat
             /\ latest'[j] \in [start : Nat, status : Outcomes \cup {"running"}] \cup {Nothing}
             /\ misses'[j] \subseteq [at : Nat, known : BOOLEAN]
             /\ RunsKnown(j)' /\ TrackingKnown(j)'
             /\ j \in (listed \ blurred)' => RecordTells(j)' /\ MissesTell(j)' /\ OpenForCause(j)'
  <2> DEFINE run == [start |-> clock', status |-> "running"]
  <2>1. CASE j \in started
    <3>1. /\ marker'[j] = clock' /\ running'[j] = running[j] \cup {clock'} /\ misses'[j] = {}
          /\ latest'[j] = run
      BY <1>1, <2>1
    <3>2. run.start = clock' /\ run.status = "running" /\ run # Nothing
          /\ run \in [start : Nat, status : Outcomes \cup {"running"}]
      BY <1>2 DEF Nothing
    <3> HIDE DEF run
    <3>3. /\ running[j] \subseteq Nat /\ marker[j] \in Nat \cup {Never}
          /\ record[j] \in Runs \cup {Nothing}
      BY DEF InboxInv, InboxTypeOK
    <3>4. /\ \A s \in running[j] : s < clock'
          /\ record[j] # Nothing => record[j].start < clock'
      BY <1>2, <3>3 DEF InboxInv, RunsKnown, Runs
    <3>5. RunsKnown(j)'
      <4>1. marker'[j] # Never /\ latest'[j] # Nothing /\ latest'[j].start = clock'
        BY <1>2, <3>1, <3>2
      <4>2. \A s \in running'[j] : s <= clock'
        BY <1>2, <3>1, <3>3, <3>4
      <4>3. record'[j] # Nothing => record'[j].start <= clock'
        BY <1>2, <3>3, <3>4 DEF Runs
      <4> QED
        BY <1>2, <3>1, <4>1, <4>2, <4>3 DEF RunsKnown
    <3>6. TrackingKnown(j)'
      BY <1>2 DEF TrackingKnown, InboxInv, InboxTypeOK
    <3>7. RecordTells(j)' /\ OpenForCause(j)'
      BY <1>2, <3>1, <3>2, <3>4 DEF RecordTells, OpenForCause
    <3>8. MissesTell(j)'
      BY <1>2, <3>1 DEF MissesTell
    <3> QED
      BY <1>2, <3>1, <3>2, <3>3, <3>5, <3>6, <3>7, <3>8
  <2>2. CASE j \notin started
    <3>1. marker'[j] = marker[j] /\ running'[j] = running[j] /\ latest'[j] = latest[j]
      BY <1>1, <2>2
    <3>2. RunsKnown(j)' /\ TrackingKnown(j)'
      BY <1>2, <3>1 DEF RunsKnown, TrackingKnown, InboxInv, InboxTypeOK
    <3>3. ASSUME j \in (listed \ blurred)' PROVE RecordTells(j)'
      BY <1>1, <1>2, <2>2, <3>1, <3>3 DEF RecordTells, InboxInv
    <3>4. ASSUME j \in (listed \ blurred)' PROVE OpenForCause(j)' /\ MissesTell(j)'
      <4> DEFINE miss == [at |-> clock', known |-> firstSeen[j] # Never]
      <4>1. j \in listed \ blurred
        BY <1>1, <1>2, <2>2, <3>4
      <4>2. miss.at = clock' /\ (miss.known => firstSeen[j] # Never)
        OBVIOUS
      <4> HIDE DEF miss
      <4>3. misses'[j] = IF clock' \in DueAt[j] THEN misses[j] \cup {miss} ELSE misses[j]
        BY <1>1, <2>2, <4>1 DEF miss
      <4>4. OpenForCause(j)'
        <5>1. \A m \in misses[j] : m.at < clock => m.at < clock'
          BY <1>2 DEF InboxInv, InboxTypeOK
        <5> QED
          BY <1>2, <3>1, <4>1, <4>3, <5>1 DEF OpenForCause, InboxInv
      <4>5. \A m \in misses'[j] : /\ m.at \in DueAt[j] /\ m.at <= clock'
                                  /\ marker[j] # Never => m.at > marker[j]
                                  /\ m.known => firstSeen[j] # Never /\ firstSeen[j] < m.at
        <5>1. \A m \in misses[j] : /\ m.at \in DueAt[j] /\ m.at <= clock /\ m.at \in Nat
                                   /\ marker[j] # Never => m.at > marker[j]
                                   /\ m.known => firstSeen[j] # Never /\ firstSeen[j] < m.at
          BY <4>1 DEF MissesTell, InboxInv, InboxTypeOK
        <5>2. marker[j] # Never => clock' > marker[j]
          BY <1>2 DEF RunsKnown, InboxInv, InboxTypeOK
        <5>3. firstSeen[j] # Never => firstSeen[j] < clock'
          BY <1>2 DEF TrackingKnown, InboxInv, InboxTypeOK
        <5> QED
          BY <1>2, <4>2, <4>3, <5>1, <5>2, <5>3
      <4>6. ASSUME NEW t \in DueAt[j], t <= clock',
                   IF marker[j] # Never THEN marker[j] < t ELSE firstSeen[j] # Never /\ firstSeen[j] < t
            PROVE  \E m \in misses'[j] : m.at = t
        <5>1. t \in Nat
          OBVIOUS
        <5>2. CASE t = clock'
          BY <4>2, <4>3, <5>2
        <5>3. CASE t <= clock
          BY <4>1, <4>3, <4>6, <5>3 DEF MissesTell, InboxInv
        <5> QED
          BY <1>2, <4>6, <5>1, <5>2, <5>3
      <4>7. MissesTell(j)'
        BY <1>2, <3>1, <4>5, <4>6 DEF MissesTell
      <4> QED
        BY <4>4, <4>7
    <3>5. misses'[j] \subseteq [at : Nat, known : BOOLEAN]
      <4>1. [at |-> clock', known |-> firstSeen[j] # Never] \in [at : Nat, known : BOOLEAN]
        BY <1>2
      <4>2. misses[j] \subseteq [at : Nat, known : BOOLEAN]
        BY DEF InboxInv, InboxTypeOK
      <4>3. misses'[j] \in {misses[j], misses[j] \cup {[at |-> clock', known |-> firstSeen[j] # Never]}}
        BY <1>1, <2>2
      <4> QED
        BY <4>1, <4>2, <4>3
    <3> QED
      BY <3>1, <3>2, <3>3, <3>4, <3>5 DEF InboxInv, InboxTypeOK
  <2> QED
    BY <2>1, <2>2
<1>4. InboxTypeOK'
  BY <1>1, <1>2, <1>3 DEF InboxInv, InboxTypeOK
<1> QED
  BY <1>2, <1>3, <1>4 DEF InboxInv, InboxTypeOK

\* A record is that of the latest run, or the job is blurred.
LEMMA FinishKeeps == ASSUME InboxInv, NEW j \in Jobs, Finish(j) PROVE InboxInv'
<1> USE DEF crontabVars, sweepVars, turnVars
<1>1. PICK start \in running[j], how \in Outcomes, written \in BOOLEAN :
          /\ running' = [running EXCEPT ![j] = @ \ {start}]
          /\ record' = IF written THEN [record EXCEPT ![j] = [start |-> start, status |-> how]] ELSE record
          /\ latest' = IF latest[j].start = start THEN [latest EXCEPT ![j].status = how] ELSE latest
          /\ blurred' = IF written /\ latest[j].start = start THEN blurred ELSE blurred \cup {j}
  BY DEF Finish
<1>2. UNCHANGED <<clock, listed, since, marker, misses, firstSeen, inbox>>
  BY DEF Finish
<1> DEFINE run == [start |-> start, status |-> how]
<1>3. start \in Nat /\ marker[j] # Never /\ start <= marker[j] /\ marker[j] = latest[j].start /\ latest[j] # Nothing
  BY DEF InboxInv, InboxTypeOK, RunsKnown
<1>4. run \in Runs /\ run.start = start /\ run # Nothing
  BY <1>3 DEF Runs, Outcomes, Nothing
<1>5. latest[j] \in [start : Nat, status : Outcomes \cup {"running"}]
  BY <1>3 DEF InboxInv, InboxTypeOK
<1>6. latest'[j] = IF latest[j].start = start THEN run ELSE latest[j]
  BY <1>1, <1>5 DEF InboxInv, InboxTypeOK
<1>7. record'[j] = IF written THEN run ELSE record[j]
  BY <1>1 DEF InboxInv, InboxTypeOK
<1>8. \A i \in Jobs \ {j} : record'[i] = record[i] /\ latest'[i] = latest[i] /\ running'[i] = running[i]
  BY <1>1 DEF InboxInv, InboxTypeOK
<1>9. running'[j] \subseteq running[j]
  BY <1>1 DEF InboxInv, InboxTypeOK
<1>10. InboxTypeOK'
  <2>1. latest' = [i \in Jobs |-> latest'[i]] /\ record' = [i \in Jobs |-> record'[i]]
        /\ running' = [i \in Jobs |-> running'[i]]
    BY <1>1 DEF InboxInv, InboxTypeOK
  <2>2. run \in [start : Nat, status : Outcomes \cup {"running"}]
    BY <1>4 DEF Runs
  <2>3. \A i \in Jobs : /\ latest'[i] \in [start : Nat, status : Outcomes \cup {"running"}] \cup {Nothing}
                        /\ record'[i] \in Runs \cup {Nothing} /\ running'[i] \in SUBSET Nat
    <3> HIDE DEF run
    <3> QED
      BY <1>4, <1>6, <1>7, <1>8, <1>9, <2>2 DEF InboxInv, InboxTypeOK
  <2> QED
    BY <1>2, <2>1, <2>3 DEF InboxInv, InboxTypeOK
<1>11. \A i \in Jobs \ {j} : RunsKnown(i)' /\ TrackingKnown(i)'
                             /\ (i \in (listed \ blurred)' => RecordTells(i)' /\ MissesTell(i)' /\ OpenForCause(i)')
  BY <1>1, <1>2, <1>8, JobUntouched
<1> HIDE DEF run
<1>12. RunsKnown(j)' /\ TrackingKnown(j)'
  <2>1. latest'[j] # Nothing /\ latest'[j].start = latest[j].start
    BY <1>3, <1>4, <1>6
  <2>2. RunsKnown(j)'
    BY <1>2, <1>3, <1>4, <1>7, <1>9, <2>1 DEF InboxInv, RunsKnown
  <2> QED
    BY <1>2, <2>2 DEF InboxInv, TrackingKnown
<1>13. ASSUME j \in (listed \ blurred)' PROVE RecordTells(j)' /\ MissesTell(j)' /\ OpenForCause(j)'
  <2>1. written /\ latest[j].start = start /\ j \in listed \ blurred
    BY <1>1, <1>2, <1>13
  <2>2. latest'[j] = run /\ record'[j] = run /\ run.status # "running"
    BY <1>6, <1>7, <2>1 DEF run, Outcomes
  <2>3. RecordTells(j)'
    BY <2>2 DEF RecordTells
  <2> QED
    BY <1>2, <2>1, <2>3 DEF InboxInv, MissesTell, OpenForCause
<1> QED
  BY <1>2, <1>10, <1>11, <1>12, <1>13 DEF InboxInv, InboxTypeOK

\* What touches one job's runs or one entry, or only the entry of the turns.
LEMMA SmallStepKeeps ==
  ASSUME InboxInv,
         \/ TurnCrashes \/ TurnRecorded \/ (\E j \in Jobs : RunDies(j))
         \/ (\E x \in Jobs \cup Units : ClearEntry(x))
  PROVE  InboxInv'
<1> USE DEF TurnCrashes, TurnRecorded, RunDies, ClearEntry, crontabVars, trackedVars, sweepVars
<1>1. UNCHANGED <<clock, listed, since, marker, record, latest, misses, firstSeen, blurred>>
  OBVIOUS
<1>2. InboxTypeOK' /\ \A i \in Jobs : running'[i] \subseteq running[i] /\ inbox'[i] \in {inbox[i], "none"}
  BY DEF InboxInv, InboxTypeOK
<1>3. \A i \in Jobs : /\ RunsKnown(i)' /\ TrackingKnown(i)'
                      /\ i \in (listed \ blurred)' => RecordTells(i)' /\ MissesTell(i)' /\ OpenForCause(i)'
  BY <1>1, <1>2, JobUntouched
<1> QED
  BY <1>1, <1>2, <1>3 DEF InboxInv, InboxTypeOK

\* From when the sweep judges a job, and what it then says of it.
SweptFrom == IF since = Never THEN clock ELSE since
SeenFrom(j) == IF firstSeen[j] # Never THEN firstSeen[j] ELSE IF marker[j] # Never THEN SweptFrom ELSE clock

LEMMA SweepJudges ==
  ASSUME InboxInv, NEW failed \in SUBSET Units, SweepWith(failed), NEW j \in Jobs
  PROVE  /\ SweptFrom \in Nat /\ SweptFrom <= clock /\ since' = SweptFrom
         /\ SeenFrom(j) \in Nat /\ SweptFrom <= SeenFrom(j) /\ SeenFrom(j) <= clock
         /\ Tracked =>
               /\ firstSeen'[j] = IF j \in listed THEN SeenFrom(j) ELSE firstSeen[j]
               /\ inbox'[j] = IF j \in listed THEN Entry(inbox[j], Classify(j, SeenFrom(j))) ELSE inbox[j]
         /\ ~Tracked => UNCHANGED <<firstSeen, inbox>>
<1> USE InboxAssumption DEF InboxInv, InboxTypeOK
<1>1. SweptFrom \in Nat /\ SweptFrom <= clock /\ since' = SweptFrom
  BY DEF SweptFrom, SweepWith, TrackingKnown
<1>2. SeenFrom(j) \in Nat /\ SweptFrom <= SeenFrom(j) /\ SeenFrom(j) <= clock
  BY <1>1 DEF SeenFrom, SweptFrom, TrackingKnown
<1>3. (IF SeenFrom(j) > SweptFrom THEN SeenFrom(j) ELSE SweptFrom) = SeenFrom(j)
  BY <1>1, <1>2
<1>4. ASSUME Tracked
      PROVE  /\ firstSeen'[j] = IF j \in listed THEN SeenFrom(j) ELSE firstSeen[j]
             /\ inbox'[j] = IF j \in listed
                            THEN Entry(inbox[j], Classify(j, IF SeenFrom(j) > SweptFrom THEN SeenFrom(j) ELSE SweptFrom))
                            ELSE inbox[j]
  <2>1. j \notin Units
    OBVIOUS
  <2> QED
    BY <1>4, <2>1 DEF SweepWith, SeenFrom, SweptFrom
<1>5. ~Tracked => UNCHANGED <<firstSeen, inbox>>
  BY DEF SweepWith
<1> QED
  BY <1>1, <1>2, <1>3, <1>4, <1>5

\* A missed fire time is judged if the job was known, and is one of those missed.
LEMMA MissesAreJudged ==
  ASSUME InboxInv, NEW j \in listed \ blurred,
         SeenFrom(j) \in Nat
  PROVE  /\ Missed(j, TRUE) => \E fire \in FiresJudged(j, SeenFrom(j)) : \A t \in Starts(j) : t < fire
         /\ (\E fire \in FiresJudged(j, SeenFrom(j)) : \A t \in Starts(j) : t < fire) => Missed(j, FALSE)
<1> USE InboxAssumption DEF InboxInv, InboxTypeOK
<1>1. j \in Jobs /\ MissesTell(j) /\ RunsKnown(j) /\ TrackingKnown(j)
  OBVIOUS
<1>2. \A t \in Starts(j) : marker[j] # Never /\ t <= marker[j]
  BY <1>1 DEF Starts, RunsKnown
<1>3. ASSUME NEW m \in misses[j], m.at < clock, m.known = TRUE
      PROVE  m.at \in FiresJudged(j, SeenFrom(j)) /\ \A t \in Starts(j) : t < m.at
  <2>1. m.at \in DueAt[j] /\ firstSeen[j] # Never /\ firstSeen[j] < m.at /\ m.at \in Nat
        /\ (marker[j] # Never => m.at > marker[j])
    BY <1>1, <1>3 DEF MissesTell
  <2>2. m.at \in FiresJudged(j, SeenFrom(j))
    BY <1>3, <2>1 DEF FiresJudged, SeenFrom
  <2>3. \A t \in Starts(j) : t \in Nat
    BY <1>1 DEF Starts, Runs
  <2> QED
    BY <1>1, <1>2, <2>1, <2>2, <2>3
<1>4. ASSUME NEW fire \in FiresJudged(j, SeenFrom(j)), \A t \in Starts(j) : t < fire
      PROVE  \E m \in misses[j] : m.at = fire
  <2>1. fire \in DueAt[j] /\ fire <= clock /\ fire \in Nat
    BY DEF FiresJudged
  <2>2. CASE marker[j] # Never
    <3>1. marker[j] < fire
      BY <1>4, <2>2 DEF Starts
    <3> QED
      BY <1>1, <2>1, <2>2, <3>1 DEF MissesTell
  <2>3. CASE marker[j] = Never
    <3>1. firstSeen[j] # Never /\ firstSeen[j] < fire
      BY <1>1, <2>1, <2>3 DEF FiresJudged, SeenFrom
    <3> QED
      BY <1>1, <2>1, <2>3, <3>1 DEF MissesTell
  <2> QED
    BY <2>2, <2>3
<1>5. ASSUME Missed(j, TRUE) PROVE \E fire \in FiresJudged(j, SeenFrom(j)) : \A t \in Starts(j) : t < fire
  BY <1>3, <1>5 DEF Missed
<1>6. ASSUME NEW fire \in FiresJudged(j, SeenFrom(j)), \A t \in Starts(j) : t < fire PROVE Missed(j, FALSE)
  <2>1. PICK m \in misses[j] : m.at = fire
    BY <1>4, <1>6
  <2>2. m.known \in BOOLEAN /\ m.at < clock
    BY <1>1, <2>1 DEF FiresJudged
  <2> QED
    BY <2>2 DEF Missed
<1> QED
  BY <1>5, <1>6

\* The verdict on a job whose files tell all is a problem if there is one, and only then, or
\* while a run goes on.
LEMMA VerdictTells ==
  ASSUME InboxInv, NEW j \in listed \ blurred, SeenFrom(j) \in Nat
  PROVE  /\ Missed(j, TRUE) \/ EndedWrong(j) => Classify(j, SeenFrom(j)) \in Problems
         /\ Classify(j, SeenFrom(j)) \in Problems =>
               Missed(j, FALSE) \/ EndedWrong(j) \/ (latest[j] # Nothing /\ latest[j].status = "running")
         /\ Classify(j, SeenFrom(j)) \in Problems \cup {"OK"}
            \/ (latest[j] # Nothing => latest[j].status = "running")
<1> USE InboxAssumption DEF InboxInv, InboxTypeOK
<1> DEFINE due == FiresJudged(j, SeenFrom(j))
           overdue == \E fire \in due : \A t \in Starts(j) : t < fire
           unfinished == marker[j] # Never /\ (record[j] # Nothing => marker[j] > record[j].start)
           status == Classify(j, SeenFrom(j))
<1>1. j \in Jobs /\ RecordTells(j) /\ RunsKnown(j)
  OBVIOUS
<1>2. (Missed(j, TRUE) => overdue) /\ (overdue => Missed(j, FALSE))
  BY MissesAreJudged
<1>3. status =
        IF unfinished /\ clock - marker[j] > HungAfter THEN "HUNG"
        ELSE IF overdue THEN "DID_NOT_FIRE"
        ELSE IF record[j] = Nothing
             THEN IF due # {} /\ \A fire \in due : TooOld(clock - fire, j) THEN "STALE" ELSE "NOT_YET_DUE"
        ELSE IF record[j].status = "bad" THEN "FAILED"
        ELSE IF TooOld(clock - record[j].start, j) THEN "STALE"
        ELSE IF record[j].status = "odd" THEN "SILENT" ELSE "OK"
  BY DEF Classify
<1> HIDE DEF status
<1>4. CASE latest[j] = Nothing
  <2>1. marker[j] = Never /\ record[j] = Nothing /\ ~EndedWrong(j) /\ ~unfinished
    BY <1>1, <1>4 DEF RunsKnown, EndedWrong
  <2>2. Starts(j) = {}
    BY <2>1 DEF Starts
  <2>3. due # {} => overdue
    BY <2>2
  <2>4. status \in {"DID_NOT_FIRE", "NOT_YET_DUE"} /\ (status = "DID_NOT_FIRE" <=> overdue)
    BY <1>3, <2>1, <2>3
  <2> QED
    BY <1>2, <1>4, <2>1, <2>4 DEF Problems, status
<1>5. CASE latest[j] # Nothing /\ latest[j].status = "running"
  <2>1. unfinished /\ marker[j] = latest[j].start
    BY <1>1, <1>5 DEF RecordTells, RunsKnown, Runs
  <2>2. EndedWrong(j) => status = "HUNG"
    BY <1>3, <1>5, <2>1 DEF EndedWrong
  <2>3. overdue => status \in {"HUNG", "DID_NOT_FIRE"}
    BY <1>3
  <2> QED
    BY <1>2, <1>5, <2>2, <2>3 DEF Problems, status
<1>6. CASE latest[j] # Nothing /\ latest[j].status # "running"
  <2>1. record[j] = latest[j] /\ record[j] # Nothing /\ record[j] \in Runs /\ marker[j] = record[j].start
    BY <1>1, <1>6 DEF RecordTells, RunsKnown
  <2>2. ~unfinished
    BY <2>1 DEF Runs
  <2>3. EndedWrong(j) <=> record[j].status # "ok" \/ TooOld(clock - record[j].start, j)
    BY <1>6, <2>1 DEF EndedWrong
  <2>4. record[j].status \in {"ok", "bad", "odd"}
    BY <2>1 DEF Runs, Outcomes
  <2>5. status \in Problems \cup {"OK"} /\ (status \in Problems <=> overdue \/ EndedWrong(j))
    BY <1>3, <2>1, <2>2, <2>3, <2>4 DEF Problems
  <2> QED
    BY <1>2, <2>5 DEF status
<1> QED
  BY <1>4, <1>5, <1>6

\* What the action of SweepTruthful says of one job.
LEMMA SweepTells ==
  ASSUME InboxInv, Sweep, Tracked, NEW j \in listed \ blurred
  PROVE  /\ Missed(j, TRUE) \/ EndedWrong(j) => inbox'[j] \in Problems
         /\ inbox'[j] \in Problems =>
               Missed(j, FALSE) \/ EndedWrong(j) \/ (latest[j] # Nothing /\ latest[j].status = "running")
<1> DEFINE status == Classify(j, SeenFrom(j))
<1>1. j \in Jobs
  BY DEF InboxInv, InboxTypeOK
<1>2. SeenFrom(j) \in Nat /\ inbox'[j] = Entry(inbox[j], status)
  BY <1>1, SweepJudges DEF Sweep
<1>3. /\ Missed(j, TRUE) \/ EndedWrong(j) => status \in Problems
      /\ status \in Problems =>
            Missed(j, FALSE) \/ EndedWrong(j) \/ (latest[j] # Nothing /\ latest[j].status = "running")
      /\ status \in Problems \cup {"OK"} \/ (latest[j] # Nothing => latest[j].status = "running")
  BY <1>2, VerdictTells
<1> HIDE DEF status
<1>4. status \in Problems => inbox'[j] = status
  BY <1>2 DEF Entry
<1>5. status = "OK" => inbox'[j] \notin Problems
  BY <1>2 DEF Entry, Problems
<1>6. ASSUME status \notin Problems \cup {"OK"}, inbox'[j] \in Problems, latest[j] = Nothing
      PROVE  Missed(j, FALSE)
  <2>1. inbox[j] \in Problems
    BY <1>2, <1>6 DEF Entry
  <2>2. marker[j] = Never
    BY <1>1, <1>6 DEF InboxInv, RunsKnown
  <2>3. PICK m \in misses[j] : m.at < clock
    BY <2>1, <2>2 DEF InboxInv, OpenForCause
  <2>4. m.known \in BOOLEAN
    BY <1>1 DEF InboxInv, InboxTypeOK
  <2> QED
    BY <2>3, <2>4 DEF Missed
<1> QED
  BY <1>3, <1>4, <1>5, <1>6

\* A job is seen for the first time before it gets an entry; no fire time up to then counts.
LEMMA SweepKeeps == ASSUME InboxInv, Sweep PROVE InboxInv'
<1> USE InboxAssumption
<1>1. UNCHANGED <<clock, listed, misses, running, marker, record, latest, blurred>>
  BY DEF Sweep, SweepWith, crontabVars, trackedVars
<1>2. PICK failed \in SUBSET Units : SweepWith(failed)
  BY DEF Sweep
<1>3. since' = SweptFrom /\ SweptFrom \in Nat
  BY <1>2 DEF SweepWith, SweptFrom, InboxInv, InboxTypeOK
<1>4. ASSUME NEW j \in Jobs
      PROVE  /\ SeenFrom(j) \in Nat /\ SweptFrom <= SeenFrom(j) /\ SeenFrom(j) <= clock /\ SweptFrom <= clock
             /\ Tracked => firstSeen'[j] = IF j \in listed THEN SeenFrom(j) ELSE firstSeen[j]
             /\ Tracked /\ j \notin listed => inbox'[j] = inbox[j]
             /\ ~Tracked => UNCHANGED <<firstSeen, inbox>>
  BY <1>2, SweepJudges
<1>5. InboxTypeOK'
  <2>1. firstSeen' = [j \in Jobs |-> firstSeen'[j]] /\ inbox' = [x \in Jobs \cup Units |-> inbox'[x]]
    BY <1>2 DEF SweepWith, InboxInv, InboxTypeOK
  <2>2. \A j \in Jobs : firstSeen'[j] \in Nat \cup {Never}
    BY <1>4 DEF InboxInv, InboxTypeOK
  <2> QED
    BY <1>1, <1>3, <2>1, <2>2 DEF InboxInv, InboxTypeOK
<1>6. ASSUME NEW j \in Jobs PROVE RunsKnown(j)' /\ TrackingKnown(j)'
  <2>1. since # Never => since = SweptFrom
    BY DEF SweptFrom
  <2>2. RunsKnown(j)'
    BY <1>1 DEF InboxInv, RunsKnown
  <2>3. CASE j \in listed /\ Tracked
    <3>1. firstSeen'[j] = SeenFrom(j) /\ firstSeen'[j] # Never /\ since' # Never
      BY <1>3, <1>4, <2>3
    <3>2. since' <= firstSeen'[j] /\ firstSeen'[j] <= clock' /\ since' <= clock'
      BY <1>1, <1>3, <1>4, <3>1
    <3> QED
      BY <2>2, <3>1, <3>2 DEF TrackingKnown
  <2>4. CASE ~(j \in listed /\ Tracked)
    <3>1. firstSeen'[j] = firstSeen[j] /\ inbox'[j] = inbox[j]
      BY <1>4, <2>4
    <3>2. since' # Never /\ since' <= clock'
      BY <1>1, <1>3, <1>4
    <3>3. TrackingKnown(j)
      BY DEF InboxInv
    <3>4. firstSeen[j] # Never => since' <= firstSeen'[j] /\ firstSeen'[j] <= clock'
      BY <1>1, <1>3, <2>1, <3>1, <3>3 DEF TrackingKnown
    <3> QED
      BY <2>2, <3>1, <3>2, <3>3, <3>4 DEF TrackingKnown
  <2> QED
    BY <2>2, <2>3, <2>4
<1>7. ASSUME NEW j \in (listed \ blurred)' PROVE RecordTells(j)' /\ MissesTell(j)' /\ OpenForCause(j)'
  <2>1. j \in listed \ blurred /\ j \in Jobs
    BY <1>1, <1>7 DEF InboxInv, InboxTypeOK
  <2>2. RecordTells(j)'
    BY <1>1, <2>1 DEF InboxInv, RecordTells
  <2>3. MissesTell(j) /\ (firstSeen[j] # Never => firstSeen'[j] = firstSeen[j])
        /\ (firstSeen[j] = Never /\ marker[j] = Never => firstSeen'[j] \in {Never, clock})
        /\ (~Tracked => UNCHANGED <<firstSeen, inbox>>)
    BY <1>4, <2>1 DEF InboxInv, SeenFrom
  <2>4. MissesTell(j)'
    <3>1. \A m \in misses[j] : m.known => firstSeen'[j] # Never /\ firstSeen'[j] < m.at
      BY <2>3 DEF MissesTell
    <3>2. \A t \in DueAt[j] : t \in Nat
      BY <2>1
    <3>3. ASSUME NEW t \in DueAt[j], t <= clock, marker[j] = Never, firstSeen'[j] # Never, firstSeen'[j] < t
          PROVE  \E m \in misses[j] : m.at = t
      <4>1. firstSeen[j] # Never
        BY <2>3, <3>2, <3>3 DEF InboxInv, InboxTypeOK
      <4> QED
        BY <2>3, <3>3, <4>1 DEF MissesTell
    <3> QED
      BY <1>1, <2>3, <3>1, <3>3 DEF MissesTell
  <2>5. OpenForCause(j)'
    <3> SUFFICES ASSUME inbox'[j] \in Problems, marker[j] = Never PROVE \E m \in misses[j] : m.at < clock
      BY <1>1 DEF OpenForCause
    <3>1. latest[j] = Nothing
      BY <2>1 DEF InboxInv, RunsKnown
    <3>2. CASE Tracked
      <4>1. Missed(j, FALSE)
        BY <2>1, <3>1, <3>2, SweepTells DEF EndedWrong
      <4> QED
        BY <4>1 DEF Missed
    <3>3. CASE ~Tracked
      BY <2>1, <2>3, <3>3 DEF InboxInv, OpenForCause
    <3> QED
      BY <3>2, <3>3
  <2> QED
    BY <2>2, <2>4, <2>5
<1> QED
  BY <1>1, <1>5, <1>6, <1>7 DEF InboxInv, InboxTypeOK

LEMMA InboxStep == InboxInv /\ [InboxNext]_inboxVars => InboxInv'
<1> SUFFICES ASSUME InboxInv, [InboxNext]_inboxVars PROVE InboxInv'
  OBVIOUS
<1>1. CASE UNCHANGED inboxVars
  <2>1. UNCHANGED <<clock, listed, since, running, marker, record, latest, misses, firstSeen, inbox, blurred>>
    BY <1>1 DEF inboxVars, crontabVars, trackedVars, sweepVars
  <2>2. InboxTypeOK'
    BY <2>1 DEF InboxInv, InboxTypeOK
  <2>3. \A j \in Jobs : /\ RunsKnown(j)' /\ TrackingKnown(j)'
                        /\ j \in (listed \ blurred)' => RecordTells(j)' /\ MissesTell(j)' /\ OpenForCause(j)'
    BY <2>1, JobUntouched
  <2> QED
    BY <2>1, <2>2, <2>3 DEF InboxInv, InboxTypeOK
<1> QED
  <2>1. CASE \E j \in Jobs : CrontabEdited(j) \/ Finish(j)
    BY <2>1, CrontabEditedKeeps, FinishKeeps
  <2>2. CASE Tick \/ Sweep
    BY <2>2, TickKeeps, SweepKeeps
  <2>3. CASE \/ TurnCrashes \/ TurnRecorded \/ (\E j \in Jobs : RunDies(j))
             \/ (\E x \in Jobs \cup Units : ClearEntry(x))
    BY <2>3, SmallStepKeeps
  <2> QED
    BY <1>1, <2>1, <2>2, <2>3 DEF InboxNext

LEMMA InboxBegins == InboxInit => InboxInv
<1> SUFFICES ASSUME InboxInit PROVE InboxInv
  OBVIOUS
<1>1. /\ clock = 0 /\ since = Never /\ listed \subseteq Jobs /\ blurred = {}
      /\ \A j \in Jobs : /\ running[j] = {} /\ misses[j] = {} /\ marker[j] = Never /\ firstSeen[j] = Never
                         /\ record[j] = Nothing /\ latest[j] = Nothing /\ inbox[j] = "none"
  BY DEF InboxInit
<1>2. InboxTypeOK
  BY DEF InboxInit, InboxTypeOK
<1>3. \A j \in Jobs : RunsKnown(j) /\ TrackingKnown(j)
  BY <1>1 DEF RunsKnown, TrackingKnown, Problems
<1>4. \A j \in Jobs : RecordTells(j) /\ OpenForCause(j)
  BY <1>1 DEF RecordTells, OpenForCause, Problems
<1>5. \A j \in Jobs : MissesTell(j)
  BY <1>1 DEF MissesTell
<1> QED
  BY <1>1, <1>2, <1>3, <1>4, <1>5 DEF InboxInv, InboxTypeOK

\* After a sweep the entry of a job is open if there is a problem with it, and for no other
\* reason unless a run is still going on, whenever its files tell all.
THEOREM SweepIsTruthful == RecordsSpec => SweepTruthful
<1>1. RecordsInit => InboxInv
  BY InboxBegins DEF RecordsInit
<1>2. ASSUME InboxInv, [RecordsNext]_recordVars PROVE InboxInv'
  <2>1. [InboxNext]_inboxVars
    BY <1>2 DEF RecordsNext, recordVars, Still
  <2> QED
    BY <1>2, <2>1, InboxStep
<1>3. InboxInv =>
        [SweepTellsTruth]_inboxVars
  BY SweepTells DEF SweepTellsTruth
<1> QED
  BY <1>1, <1>2, <1>3, PTL DEF RecordsSpec, SweepTruthful

--------------------------------------------------------------------------------
(* Corrections of the operator                                             *)

Decided == [channel : Channels, tier : Tiers, outcome : {"unknown", "under", "over", "correct"}]

\* What a thread is about to write: a signal of a lock, or the word of a release.
Writes ==
    {w \in [decision : Nat, channel : Channels, signal : {"none", "override_up", "override_down"},
            outcome : {"under", "over", "correct"}] :
        w.signal = "none" <=> w.outcome = "correct"}

\* It is filed for a decision of its channel, or for none.
Filed(w) == w.decision = 0 \/ (w.decision \in DOMAIN decisions /\ decisions[w.decision].channel = w.channel)

DecisionsTypeOK ==
    /\ decisions \in Seq(Decided)
    /\ signals \in Seq(Writes) /\ writers \in Seq(Writes)
    /\ lastDecision \in [Channels -> Nat]
    /\ \A c \in Channels : lastDecision[c] # 0 =>
          lastDecision[c] \in DOMAIN decisions /\ decisions[lastDecision[c]].channel = c

\* A release in the hands of a thread was asked for.
WritesSound ==
    /\ \A k \in DOMAIN signals : Filed(signals[k]) /\ signals[k].outcome # "correct"
    /\ \A k \in DOMAIN writers : Filed(writers[k]) /\ (writers[k].outcome = "correct" => writers[k].decision \in released)

OutcomeSound(id) ==
    LET is == decisions[id].outcome IN
    /\ is = "unknown" => ~\E k \in DOMAIN signals : signals[k].decision = id
    /\ is = "correct" => id \in released
    /\ is \in {"under", "over"} => FirstSays(signals, id, is)

DecisionsInv == DecisionsTypeOK /\ WritesSound /\ \A id \in DOMAIN decisions : OutcomeSound(id)

\* Taking one element out of a sequence leaves only elements of it.
LEMMA RemovedAt ==
  ASSUME NEW S, NEW s \in Seq(S), NEW i \in DOMAIN s
  PROVE  /\ RemoveAt(s, i) \in Seq(S)
         /\ \A k \in DOMAIN RemoveAt(s, i) : \E j \in DOMAIN s : RemoveAt(s, i)[k] = s[j]
<1> DEFINE head == SubSeq(s, 1, i - 1)
           rest == SubSeq(s, i + 1, Len(s))
<1>1. i \in 1 .. Len(s) /\ Len(s) \in Nat
  OBVIOUS
<1>2. head \in Seq(S) /\ Len(head) = i - 1 /\ \A k \in 1 .. i - 1 : head[k] = s[k]
  BY <1>1
<1>3. rest \in Seq(S) /\ Len(rest) = Len(s) - i /\ \A k \in 1 .. Len(s) - i : rest[k] = s[i + k]
  BY <1>1
<1> HIDE DEF head, rest
<1>4. head \o rest \in Seq(S) /\ Len(head \o rest) = Len(s) - 1
  BY <1>1, <1>2, <1>3
<1>5. ASSUME NEW k \in 1 .. Len(s) - 1 PROVE \E j \in DOMAIN s : (head \o rest)[k] = s[j]
  <2>1. CASE k <= i - 1
    <3>1. (head \o rest)[k] = head[k] /\ k \in 1 .. i - 1 /\ k \in DOMAIN s
      BY <1>1, <1>2, <1>3, <2>1
    <3> QED
      BY <1>2, <3>1
  <2>2. CASE k > i - 1
    <3> DEFINE j == k - (i - 1)
    <3>1. (head \o rest)[k] = rest[j] /\ j \in 1 .. Len(s) - i /\ i + j \in DOMAIN s
      BY <1>1, <1>2, <1>3, <2>2
    <3>2. rest[j] = s[i + j]
      BY <1>3, <3>1
    <3> QED
      BY <3>1, <3>2
  <2>3. k <= i - 1 \/ k > i - 1
    BY <1>1
  <2> QED
    BY <2>1, <2>2, <2>3
<1>6. RemoveAt(s, i) = head \o rest
  BY DEF RemoveAt, head, rest
<1>7. DOMAIN (head \o rest) = 1 .. Len(s) - 1
  BY <1>4
<1> QED
  BY <1>4, <1>5, <1>6, <1>7

\* A decision is appended; all that was said of the others stays.
LEMMA RouteKeeps == ASSUME DecisionsInv, NEW c \in Channels, RouteMessage(c) PROVE DecisionsInv' /\ WordsStand
<1> USE DEF DecisionsInv, DecisionsTypeOK, RouteMessage
<1>1. CASE UNCHANGED <<decisions, lastDecision>>
  BY <1>1 DEF WritesSound, Filed, OutcomeSound, WordsStand, OutcomeStands, FiledForItsChannel, Decided
<1>2. ASSUME NEW tier \in Tiers,
             decisions' = Append(decisions, [channel |-> c, tier |-> tier, outcome |-> "unknown"]),
             lastDecision' = [lastDecision EXCEPT ![c] = Len(decisions')]
      PROVE  DecisionsInv' /\ WordsStand
  <2> DEFINE d == [channel |-> c, tier |-> tier, outcome |-> "unknown"]
  <2>1. d \in Decided
    BY DEF Decided
  <2>2. /\ decisions' \in Seq(Decided) /\ Len(decisions') = Len(decisions) + 1
        /\ \A id \in DOMAIN decisions : id \in DOMAIN decisions' /\ decisions'[id] = decisions[id]
        /\ decisions'[Len(decisions) + 1] = d
        /\ DOMAIN decisions' = DOMAIN decisions \cup {Len(decisions) + 1}
        /\ Len(decisions) + 1 \notin DOMAIN decisions /\ Len(decisions) \in Nat
    BY <1>2, <2>1
  <2>3. DecisionsTypeOK'
    BY <1>2, <2>2
  <2>4. WritesSound'
    BY <2>2 DEF WritesSound, Filed
  <2>5. ASSUME NEW id \in DOMAIN decisions' PROVE OutcomeSound(id)'
    <3>1. CASE id \in DOMAIN decisions
      BY <2>2, <3>1 DEF OutcomeSound
    <3>2. CASE id = Len(decisions) + 1
      <4>1. ~\E k \in DOMAIN signals : signals[k].decision = id
        BY <2>2, <3>2 DEF WritesSound, Filed
      <4> QED
        BY <2>2, <3>2, <4>1 DEF OutcomeSound
    <3> QED
      BY <2>2, <3>1, <3>2
  <2>6. ASSUME NEW id \in DOMAIN decisions PROVE OutcomeStands(id)
    BY <2>2, <2>5 DEF OutcomeStands, OutcomeSound
  <2>7. WordsStand
    BY <2>4, <2>6 DEF WordsStand, FiledForItsChannel, WritesSound, Filed
  <2> QED
    BY <2>3, <2>4, <2>5, <2>7
<1> QED
  BY <1>1, <1>2

\* One write more waits, of the channel's last decision.
LEMMA CommandWrites ==
  ASSUME DecisionsInv, NEW c \in Channels, NEW cmd \in Tiers \cup {"auto", "provider", "effort"}, Command(c, cmd)
  PROVE  \/ writers' = writers
         \/ \E w \in Writes : /\ writers' = writers \o <<w>> /\ Filed(w)
                              /\ w.outcome = "correct" => w.decision \in released'
<1> USE DEF DecisionsInv, DecisionsTypeOK, Command
<1>1. ASSUME NEW from \in Tiers, NEW to \in Tiers
      PROVE  \/ OverrideWrite(c, from, to) = <<>>
             \/ \E w \in Writes : /\ OverrideWrite(c, from, to) = <<w>> /\ Filed(w) /\ w.outcome # "correct"
  <2> DEFINE w == [decision |-> lastDecision[c], channel |-> c,
                   signal |-> IF Rank(to) > Rank(from) THEN "override_up" ELSE "override_down",
                   outcome |-> IF Rank(to) > Rank(from) THEN "under" ELSE "over"]
  <2>1. w \in Writes /\ w.outcome # "correct" /\ Filed(w)
    BY DEF Writes, Filed
  <2>2. OverrideWrite(c, from, to) \in {<<>>, <<w>>}
    BY DEF OverrideWrite
  <2> QED
    BY <2>1, <2>2
<1>2. \/ ReleaseWrite(c) = <<>>
      \/ \E w \in Writes : ReleaseWrite(c) = <<w>> /\ Filed(w) /\ w.decision = lastDecision[c]
  <2> DEFINE w == [decision |-> lastDecision[c], channel |-> c, signal |-> "none", outcome |-> "correct"]
  <2>1. w \in Writes /\ Filed(w)
    BY DEF Writes, Filed
  <2>2. ReleaseWrite(c) \in {<<>>, <<w>>}
    BY DEF ReleaseWrite
  <2> QED
    BY <2>1, <2>2
<1>3. writers \o <<>> = writers
  OBVIOUS
<1>4. CASE cmd \in Tiers /\ prefs.tier = NoTier
  <2>1. writers' = writers \o OverrideWrite(c, "standard", cmd)
    BY <1>4 DEF Tiers
  <2> QED
    BY <1>1, <1>3, <1>4, <2>1 DEF Tiers
<1>5. CASE cmd = "auto"
  <2>1. writers' = writers \o ReleaseWrite(c) /\ lastDecision[c] \in released'
    BY <1>5 DEF Tiers
  <2> QED
    BY <1>2, <1>3, <2>1
<1>6. CASE ~(cmd \in Tiers /\ prefs.tier = NoTier) /\ cmd # "auto"
  BY <1>3, <1>6
<1> QED
  BY <1>4, <1>5, <1>6

LEMMA CommandKeeps ==
  ASSUME DecisionsInv, NEW c \in Channels, NEW cmd \in Tiers \cup {"auto", "provider", "effort"}, Command(c, cmd)
  PROVE  DecisionsInv' /\ WordsStand
<1> USE DEF DecisionsInv, DecisionsTypeOK
<1>1. UNCHANGED <<decisions, signals, lastDecision>> /\ released \subseteq released'
  BY DEF Command
<1> DEFINE WritersFiled ==
               writers' \in Seq(Writes) /\ \A k \in DOMAIN writers' :
                   Filed(writers'[k]) /\ (writers'[k].outcome = "correct" => writers'[k].decision \in released')
<1>2. WritersFiled
  <2>1. CASE writers' = writers
    BY <1>1, <2>1 DEF WritesSound
  <2>2. ASSUME NEW w \in Writes, writers' = writers \o <<w>>, Filed(w), w.outcome = "correct" => w.decision \in released'
        PROVE  WritersFiled
    <3>1. <<w>> \in Seq(Writes) /\ Len(<<w>>) = 1 /\ <<w>>[1] = w
      OBVIOUS
    <3>2. writers' \in Seq(Writes) /\ DOMAIN writers' = DOMAIN writers \cup {Len(writers) + 1}
          /\ (\A k \in DOMAIN writers : writers'[k] = writers[k]) /\ writers'[Len(writers) + 1] = w
      BY <2>2, <3>1
    <3> QED
      BY <1>1, <2>2, <3>2 DEF WritesSound
  <2> QED
    BY <2>1, <2>2, CommandWrites
<1>3. DecisionsTypeOK'
  BY <1>1, <1>2
<1>4. WritesSound'
  BY <1>1, <1>2 DEF WritesSound, Filed
<1>5. \A id \in DOMAIN decisions : OutcomeSound(id)'
  BY <1>1 DEF OutcomeSound
<1>6. WordsStand
  BY <1>1 DEF WordsStand, OutcomeStands, FiledForItsChannel, OutcomeSound, WritesSound, Filed, Decided
<1> QED
  BY <1>1, <1>3, <1>4, <1>5, <1>6

\* The first word on a decision sets its outcome, with its signal if it is a lock's.
LEMMA CommitKeeps == ASSUME DecisionsInv, Commit PROVE DecisionsInv' /\ WordsStand
<1> USE DEF DecisionsInv, DecisionsTypeOK
<1>1. PICK k \in DOMAIN writers :
        /\ writers' = RemoveAt(writers, k)
        /\ \/ UNCHANGED <<signals, decisions>>
           \/ /\ signals' = IF writers[k].signal = "none" THEN signals ELSE Append(signals, writers[k])
              /\ decisions' = IF writers[k].decision = 0 THEN decisions
                              ELSE OutcomeSet(writers[k].decision, writers[k].outcome)
  BY DEF Commit
<1> DEFINE w == writers[k]
<1>2. UNCHANGED <<lastDecision, released>> /\ w \in Writes /\ Filed(w) /\ (w.outcome = "correct" => w.decision \in released)
  BY DEF Commit, WritesSound
<1>3. writers' \in Seq(Writes) /\ \A j \in DOMAIN writers' : \E i \in DOMAIN writers : writers'[j] = writers[i]
  BY <1>1, RemovedAt
<1> HIDE DEF w
<1>4. CASE UNCHANGED <<signals, decisions>>
  <2>1. DecisionsTypeOK' /\ WritesSound'
    BY <1>2, <1>3, <1>4 DEF WritesSound, Filed
  <2>2. \A id \in DOMAIN decisions : OutcomeSound(id)'
    BY <1>2, <1>4 DEF OutcomeSound
  <2>3. WordsStand
    BY <1>2, <1>4 DEF WordsStand, OutcomeStands, FiledForItsChannel, OutcomeSound, WritesSound, Filed, Decided
  <2> QED
    BY <1>4, <2>1, <2>2, <2>3
<1>5. CASE /\ signals' = IF w.signal = "none" THEN signals ELSE Append(signals, w)
           /\ decisions' = IF w.decision = 0 THEN decisions ELSE OutcomeSet(w.decision, w.outcome)
  <2>1. /\ signals' \in Seq(Writes)
        /\ \A j \in DOMAIN signals : j \in DOMAIN signals' /\ signals'[j] = signals[j]
        /\ \A j \in DOMAIN signals' : j \in DOMAIN signals \/ (j = Len(signals) + 1 /\ signals'[j] = w /\ w.signal # "none")
        /\ w.signal # "none" => Len(signals) + 1 \in DOMAIN signals' /\ signals'[Len(signals) + 1] = w
        /\ DOMAIN signals = 1 .. Len(signals) /\ Len(signals) \in Nat
    BY <1>2, <1>5
  <2>2. /\ decisions' \in Seq(Decided) /\ DOMAIN decisions' = DOMAIN decisions
        /\ \A id \in DOMAIN decisions :
              /\ decisions'[id].channel = decisions[id].channel
              /\ decisions'[id].outcome = IF id = w.decision /\ decisions[id].outcome = "unknown" THEN w.outcome
                                          ELSE decisions[id].outcome
    <3>1. CASE decisions' = decisions /\ (w.decision = 0 \/ decisions[w.decision].outcome # "unknown")
      BY <3>1
    <3>2. CASE /\ w.decision \in DOMAIN decisions /\ decisions[w.decision].outcome = "unknown"
               /\ decisions' = [decisions EXCEPT ![w.decision].outcome = w.outcome]
      <4>1. \A id \in DOMAIN decisions : decisions[id] \in Decided
        OBVIOUS
      <4>2. [decisions[w.decision] EXCEPT !.outcome = w.outcome] \in Decided
        BY <1>2, <3>2, <4>1 DEF Decided, Writes
      <4>3. decisions' \in Seq(Decided) /\ DOMAIN decisions' = DOMAIN decisions
        BY <3>2, <4>2
      <4> QED
        BY <1>2, <3>2, <4>1, <4>3 DEF Decided
    <3> QED
      BY <1>2, <1>5, <3>1, <3>2 DEF OutcomeSet, Filed
  <2>3. DecisionsTypeOK'
    BY <1>2, <1>3, <2>1, <2>2
  <2>4. \A v \in Writes : Filed(v) => Filed(v)'
    BY <2>2 DEF Filed
  <2>5. WritesSound'
    <3>1. ASSUME NEW j \in DOMAIN signals' PROVE Filed(signals[j])' /\ signals'[j].outcome # "correct"
      <4>1. CASE j \in DOMAIN signals
        BY <2>1, <2>4, <4>1 DEF WritesSound
      <4>2. CASE signals'[j] = w /\ w.signal # "none"
        BY <1>2, <2>4, <4>2 DEF Writes
      <4> QED
        BY <2>1, <4>1, <4>2
    <3>2. ASSUME NEW j \in DOMAIN writers'
          PROVE  Filed(writers[j])' /\ (writers'[j].outcome = "correct" => writers'[j].decision \in released')
      BY <1>2, <1>3, <2>4 DEF WritesSound
    <3> QED
      BY <3>1, <3>2 DEF WritesSound
  <2>6. ASSUME NEW id \in DOMAIN decisions PROVE OutcomeSound(id)'
    <3>1. decisions'[id].outcome = "correct" => id \in released'
      BY <1>2, <2>2 DEF OutcomeSound
    <3>2. ASSUME decisions'[id].outcome = "unknown", NEW j \in DOMAIN signals', signals'[j].decision = id PROVE FALSE
      BY <1>2, <2>1, <2>2, <3>2 DEF OutcomeSound, Writes
    <3>3. ASSUME decisions'[id].outcome \in {"under", "over"} PROVE FirstSays(signals', id, decisions'[id].outcome)
      <4>1. CASE decisions[id].outcome = "unknown"
        <5>1. id = w.decision /\ decisions'[id].outcome = w.outcome /\ w.signal # "none"
          BY <1>2, <2>2, <3>3, <4>1 DEF Writes
        <5>2. \A j \in 1 .. Len(signals) : signals'[j].decision # id
          BY <2>1, <4>1 DEF OutcomeSound
        <5>3. \A j \in 1 .. (Len(signals) + 1) - 1 : signals'[j].decision # id
          BY <2>1, <5>2
        <5> QED
          BY <2>1, <5>1, <5>3 DEF FirstSays
      <4>2. CASE decisions[id].outcome # "unknown"
        <5>1. PICK j \in DOMAIN signals : /\ signals[j].decision = id /\ signals[j].outcome = decisions'[id].outcome
                                          /\ \A i \in 1 .. j - 1 : signals[i].decision # id
          BY <2>2, <3>3, <4>2 DEF OutcomeSound, FirstSays
        <5>2. j \in DOMAIN signals' /\ signals'[j] = signals[j] /\ \A i \in 1 .. j - 1 : signals'[i] = signals[i]
          BY <2>1, <5>1
        <5> QED
          BY <5>1, <5>2 DEF FirstSays
      <4> QED
        BY <4>1, <4>2
    <3> QED
      BY <3>1, <3>2, <3>3 DEF OutcomeSound
  <2>7. ASSUME NEW id \in DOMAIN decisions PROVE OutcomeStands(id)
    BY <1>2, <2>2, <2>6 DEF OutcomeStands, OutcomeSound
  <2>8. WordsStand
    BY <2>5, <2>7 DEF WordsStand, FiledForItsChannel, WritesSound, Filed
  <2> QED
    BY <2>2, <2>3, <2>5, <2>6, <2>8
<1> QED
  BY <1>1, <1>4, <1>5 DEF w

LEMMA OtherDecisionsKeep ==
  ASSUME DecisionsInv, EditPrefs \/ ProcessEnds \/ UNCHANGED decisionVars
  PROVE  DecisionsInv' /\ WordsStand
<1> USE DEF DecisionsInv, DecisionsTypeOK
<1>1. UNCHANGED <<decisions, signals, released>> /\ writers' \in {writers, <<>>}
      /\ lastDecision' \in {lastDecision, [c \in Channels |-> 0]}
  BY DEF EditPrefs, ProcessEnds, decisionVars
<1>2. writers' \in Seq(Writes) /\ \A k \in DOMAIN writers' : k \in DOMAIN writers /\ writers'[k] = writers[k]
  <2>1. CASE writers' = writers
    BY <2>1
  <2>2. CASE writers' = <<>>
    BY <2>2
  <2> QED
    BY <1>1, <2>1, <2>2
<1>3. /\ lastDecision' \in [Channels -> Nat]
      /\ \A c \in Channels : lastDecision'[c] \in {0, lastDecision[c]}
  BY <1>1
<1>4. DecisionsTypeOK'
  BY <1>1, <1>2, <1>3
<1>5. WritesSound'
  BY <1>1, <1>2 DEF WritesSound, Filed
<1>6. \A id \in DOMAIN decisions : OutcomeSound(id)'
  BY <1>1 DEF OutcomeSound
<1>7. WordsStand
  BY <1>1 DEF WordsStand, OutcomeStands, FiledForItsChannel, OutcomeSound, WritesSound, Filed, Decided
<1> QED
  BY <1>1, <1>4, <1>5, <1>6, <1>7

LEMMA DecisionsStep == DecisionsInv /\ [DecisionsNext]_decisionVars => DecisionsInv' /\ WordsStand
BY RouteKeeps, CommandKeeps, CommitKeeps, OtherDecisionsKeep DEF DecisionsNext

LEMMA DecisionsBegin == DecisionsInit => DecisionsInv
BY DEF DecisionsInit, DecisionsInv, DecisionsTypeOK, WritesSound

\* The outcome of a routing decision is what was first said of it, or "correct" where a
\* release was asked for, and never changes; a signal is filed for a decision of its channel.
THEOREM OutcomesAreFirstWords == RecordsSpec => OutcomesStand
<1>1. RecordsInit => DecisionsInv
  BY DecisionsBegin DEF RecordsInit
<1>2. ASSUME DecisionsInv, [RecordsNext]_recordVars
      PROVE  DecisionsInv' /\ [WordsStand]_decisionVars
  <2>1. [DecisionsNext]_decisionVars
    BY <1>2 DEF RecordsNext, recordVars, Still
  <2> QED
    BY <1>2, <2>1, DecisionsStep
<1>3. DecisionsInv /\ [RecordsNext]_recordVars => DecisionsInv'
  BY <1>2
<1>4. DecisionsInv /\ [RecordsNext]_recordVars => [WordsStand]_decisionVars
  BY <1>2
<1> QED
  BY <1>1, <1>3, <1>4, PTL DEF RecordsSpec, OutcomesStand

--------------------------------------------------------------------------------
(* The counts of calls                                                     *)

Buckets == [calls : Nat, tokens : Nat, start : Nat \cup {-1}]
CallRecords == [name : Metered, tokens : {0, 2}, at : Nat]
CountsByDay == [0 .. (MaxTime \div DayLength) -> Nat]

UsageTypeOK ==
    /\ time \in Nat
    /\ minute \in [Metered -> Buckets] /\ daily \in [Metered -> Buckets]
    /\ callsMade \in Seq(CallRecords)
    /\ counted \in CountsByDay
    /\ usage \in CountsByDay \cup {UsageCut}
    /\ reading \in [Recorders -> CountsByDay \cup {NotReading}]

CallsOn(n) == {k \in DOMAIN callsMade : callsMade[k].name = n}

\* No call came after the bucket could have been replaced.
MinuteSound(n) ==
    LET b == minute[n] IN
    IF b.start = -1 THEN b.calls = 0 /\ CallsOn(n) = {}
    ELSE /\ b.start <= time /\ \A k \in CallsOn(n) : callsMade[k].at <= b.start + 1
         /\ b.calls = Cardinality(CallsOf(n, b.start, time))

DailySound(n) ==
    LET b == daily[n] IN
    IF b.start = -1 THEN b.calls = 0 /\ b.tokens = 0 /\ CallsOn(n) = {}
    ELSE /\ b.start <= time /\ \E q \in Nat : b.start = q * DayLength
         /\ \A k \in CallsOn(n) : callsMade[k].at < b.start + DayLength
         /\ b.calls = Cardinality(CallsOf(n, b.start, b.start + DayLength - 1))

\* Nobody has a count in hand that is above that of the calls recorded.
FileSound ==
    /\ usage # UsageCut => \A d \in DOMAIN counted : usage[d] <= counted[d]
    /\ \A r \in Recorders : reading[r] # NotReading => \A d \in DOMAIN counted : reading[r][d] <= counted[d]

UsageInv ==
    /\ UsageTypeOK
    /\ \A k \in DOMAIN callsMade : callsMade[k].at <= time
    /\ \A n \in Metered : MinuteSound(n) /\ DailySound(n)
    /\ FileSound

LEMMA CallsAreFinite ==
  ASSUME UsageTypeOK, NEW S \in SUBSET DOMAIN callsMade
  PROVE  IsFiniteSet(S) /\ Cardinality(S) \in Nat
<1>1. DOMAIN callsMade = 1 .. Len(callsMade) /\ Len(callsMade) \in Nat
  BY DEF UsageTypeOK
<1>2. IsFiniteSet(DOMAIN callsMade)
  BY <1>1, FS_Interval
<1>3. IsFiniteSet(S)
  BY <1>2, FS_Subset
<1> QED
  BY <1>3, FS_CardinalityType

LEMMA Typed ==
  ASSUME UsageTypeOK
  PROVE  /\ time \in Nat
         /\ \A n \in Metered : /\ minute[n] \in Buckets /\ minute[n].start \in Nat \cup {-1}
                              /\ daily[n] \in Buckets /\ daily[n].start \in Nat \cup {-1}
         /\ \A k \in DOMAIN callsMade : callsMade[k].at \in Nat
<1>1. \A k \in DOMAIN callsMade : callsMade[k] \in CallRecords
  BY DEF UsageTypeOK
<1>2. \A k \in DOMAIN callsMade : callsMade[k].at \in Nat
  BY <1>1 DEF CallRecords
<1>3. \A n \in Metered : minute[n] \in Buckets /\ daily[n] \in Buckets
  BY DEF UsageTypeOK
<1>4. \A b \in Buckets : b.start \in Nat \cup {-1}
  BY DEF Buckets
<1> QED
  BY <1>2, <1>3, <1>4 DEF UsageTypeOK

\* One more call is counted in every window it is in, and in none before the first.
LEMMA CallAppended ==
  ASSUME UsageTypeOK, NEW n \in Metered, NEW tokens \in {0, 2},
         callsMade' = Append(callsMade, [name |-> n, tokens |-> tokens, at |-> time])
  PROVE  /\ callsMade' \in Seq(CallRecords)
         /\ \A k \in DOMAIN callsMade' : callsMade'[k].at <= time \/ k \in DOMAIN callsMade
         /\ \A k \in DOMAIN callsMade : k \in DOMAIN callsMade' /\ callsMade'[k] = callsMade[k]
         /\ \A m \in Metered : CallsOn(m)' = CallsOn(m) \cup (IF m = n THEN {Len(callsMade) + 1} ELSE {})
         /\ callsMade'[Len(callsMade) + 1].at = time
         /\ \A m \in Metered \ {n}, a, b \in Int : CallsOf(m, a, b)' = CallsOf(m, a, b)
         /\ \A a, b \in Int : time \in a .. b =>
               Cardinality(CallsOf(n, a, b)') = Cardinality(CallsOf(n, a, b)) + 1
<1> DEFINE call == [name |-> n, tokens |-> tokens, at |-> time]
           last == Len(callsMade) + 1
<1>1. call \in CallRecords
  BY DEF UsageTypeOK, CallRecords
<1>2. /\ callsMade' \in Seq(CallRecords)
      /\ DOMAIN callsMade' = DOMAIN callsMade \cup {last}
      /\ last \notin DOMAIN callsMade
      /\ callsMade'[last] = call
      /\ \A k \in DOMAIN callsMade : callsMade'[k] = callsMade[k]
  BY <1>1 DEF UsageTypeOK
<1>3. call.at = time /\ call.name = n
  OBVIOUS
<1> HIDE DEF call, last
<1>4. \A m \in Metered : CallsOn(m)' = CallsOn(m) \cup (IF m = n THEN {last} ELSE {})
  BY <1>2, <1>3 DEF CallsOn
<1>5. \A m \in Metered \ {n}, a, b \in Int : CallsOf(m, a, b)' = CallsOf(m, a, b)
  BY <1>2, <1>3 DEF CallsOf
<1>6. ASSUME NEW a \in Int, NEW b \in Int, time \in a .. b
      PROVE  Cardinality(CallsOf(n, a, b)') = Cardinality(CallsOf(n, a, b)) + 1
  <2>1. CallsOf(n, a, b)' = CallsOf(n, a, b) \cup {last} /\ last \notin CallsOf(n, a, b)
    BY <1>2, <1>3, <1>6 DEF CallsOf
  <2>2. IsFiniteSet(CallsOf(n, a, b))
    BY CallsAreFinite DEF CallsOf
  <2> QED
    BY <2>1, <2>2, FS_AddElement
<1>7. \A k \in DOMAIN callsMade' : callsMade'[k].at <= time \/ k \in DOMAIN callsMade
  BY <1>2, <1>3 DEF UsageTypeOK
<1> QED
  BY <1>2, <1>3, <1>4, <1>5, <1>6, <1>7 DEF last

\* What the buckets are before they count a call: of a window with room for it.
Windowed(b, n) ==
    /\ b \in Buckets /\ b.start # -1 /\ b.start <= time /\ time <= b.start + 1
    /\ \A k \in CallsOn(n) : callsMade[k].at <= b.start + 1
    /\ b.calls = Cardinality(CallsOf(n, b.start, time))

OfToday(b, n) ==
    /\ b \in Buckets /\ b.start = DayOf(time) * DayLength
    /\ \A k \in CallsOn(n) : callsMade[k].at < b.start + DayLength
    /\ b.calls = Cardinality(CallsOf(n, b.start, b.start + DayLength - 1))

LEMMA MinuteReady == ASSUME UsageInv, NEW n \in Metered PROVE Windowed(MinuteBucket(n), n)
<1> DEFINE old == minute[n]
           b == MinuteBucket(n)
<1>1. time \in Nat /\ old \in Buckets /\ MinuteSound(n) /\ \A k \in CallsOn(n) : callsMade[k].at \in Nat /\ callsMade[k].at <= time
  BY Typed DEF UsageInv, CallsOn
<1>2. old.start \in Nat \cup {-1}
  BY Typed DEF UsageInv
<1>3. CASE old.start # -1 /\ time - old.start <= 1
  <2>1. b = old
    BY <1>1, <1>2, <1>3 DEF MinuteBucket
  <2> QED
    BY <1>1, <1>2, <1>3, <2>1 DEF MinuteSound, Windowed
<1>4. CASE old.start = -1 \/ time - old.start > 1
  <2>1. b = [calls |-> 0, tokens |-> 0, start |-> time]
    BY <1>4 DEF MinuteBucket, NoBucket
  <2>2. \A k \in CallsOn(n) : callsMade[k].at < time
    <3>1. CASE old.start = -1
      BY <1>1, <3>1 DEF MinuteSound
    <3>2. CASE old.start # -1 /\ time - old.start > 1
      BY <1>1, <1>2, <3>2 DEF MinuteSound
    <3> QED
      BY <1>4, <3>1, <3>2
  <2>3. CallsOf(n, time, time) = {}
    BY <1>1, <2>2 DEF CallsOf, CallsOn
  <2>4. b \in Buckets /\ b.start = time /\ b.calls = 0
    BY <1>1, <2>1 DEF Buckets
  <2> HIDE DEF b
  <2>5. \A k \in CallsOn(n) : callsMade[k].at <= b.start + 1
    BY <1>1, <2>2, <2>4
  <2>6. Cardinality(CallsOf(n, b.start, time)) = 0
    BY <2>3, <2>4, FS_EmptySet
  <2> QED
    BY <1>1, <2>4, <2>5, <2>6 DEF Windowed, b
<1> QED
  BY <1>1, <1>2, <1>3, <1>4

LEMMA DayReady == ASSUME UsageInv, NEW n \in Metered PROVE OfToday(DailyBucket(n), n)
<1> DEFINE old == daily[n]
           b == DailyBucket(n)
           today == DayOf(time) * DayLength
<1>1. time \in Nat /\ old \in Buckets /\ DailySound(n) /\ \A k \in CallsOn(n) : callsMade[k].at \in Nat /\ callsMade[k].at <= time
  BY Typed DEF UsageInv, CallsOn
<1>2. old.start \in Nat \cup {-1} /\ DayLength \in Nat /\ DayLength > 0
  BY <1>1, UsageAssumption DEF Buckets
<1>3. DayOf(time) \in Nat /\ today \in Nat /\ today <= time /\ time < today + DayLength
  BY <1>1, <1>2 DEF DayOf
<1>4. CASE old.start # -1 /\ old.start >= today
  <2>1. b = old
    BY <1>2, <1>3, <1>4 DEF DailyBucket
  <2>2. PICK q \in Nat : old.start = q * DayLength
    BY <1>1, <1>4 DEF DailySound
  <2>3. q * DayLength <= time
    BY <1>1, <1>4, <2>2 DEF DailySound
  <2>4. ~(q < DayOf(time)) /\ ~(DayOf(time) < q)
    BY <1>1, <1>2, <1>3, <1>4, <2>2, <2>3
  <2>5. old.start = today
    BY <1>3, <2>2, <2>4
  <2> QED
    BY <1>1, <1>4, <2>1, <2>5 DEF DailySound, OfToday
<1>5. CASE old.start = -1 \/ old.start < today
  <2>1. b = [calls |-> 0, tokens |-> 0, start |-> today]
    BY <1>5 DEF DailyBucket, NoBucket
  <2>2. \A k \in CallsOn(n) : callsMade[k].at < today
    <3>1. CASE old.start = -1
      BY <1>1, <3>1 DEF DailySound
    <3>2. CASE old.start # -1 /\ old.start < today
      <4>1. PICK q \in Nat : old.start = q * DayLength
        BY <1>1, <3>2 DEF DailySound
      <4>2. q < DayOf(time)
        BY <1>2, <1>3, <3>2, <4>1
      <4>3. old.start + DayLength <= today
        BY <1>2, <1>3, <4>1, <4>2
      <4>4. \A k \in CallsOn(n) : callsMade[k].at < old.start + DayLength
        BY <1>1, <3>2 DEF DailySound
      <4> HIDE DEF today
      <4> QED
        BY <1>1, <1>2, <1>3, <4>3, <4>4
    <3> QED
      BY <1>5, <3>1, <3>2
  <2>3. CallsOf(n, today, today + DayLength - 1) = {}
    BY <1>1, <1>2, <1>3, <2>2 DEF CallsOf, CallsOn
  <2>4. b \in Buckets /\ b.start = today /\ b.calls = 0
    BY <1>3, <2>1 DEF Buckets
  <2>5. \A k \in CallsOn(n) : callsMade[k].at < b.start + DayLength
    <3> HIDE DEF today, b
    <3> QED
      BY <1>1, <1>2, <1>3, <2>2, <2>4
  <2> HIDE DEF b
  <2>6. Cardinality(CallsOf(n, b.start, b.start + DayLength - 1)) = 0
    BY <2>3, <2>4, FS_EmptySet
  <2> QED
    BY <2>4, <2>5, <2>6 DEF OfToday, b
<1> QED
  BY <1>2, <1>3, <1>4, <1>5

LEMMA RecordKeeps == ASSUME UsageInv, NEW p \in DOMAIN TypeOf, RecordCall(p) PROVE UsageInv'
<1> DEFINE n == TypeOf[p]
           mb == MinuteBucket(n)
           db == DailyBucket(n)
           last == Len(callsMade) + 1
<1>1. n \in Metered /\ DayLength \in Nat /\ DayLength > 0
  BY UsageAssumption
<1>2. PICK tokens \in {0, 2} :
         /\ minute' = [minute EXCEPT ![n] = Counted(mb, tokens)]
         /\ daily' = [daily EXCEPT ![n] = Counted(db, tokens)]
         /\ callsMade' = Append(callsMade, [name |-> n, tokens |-> tokens, at |-> time])
  BY DEF RecordCall
<1>3. UNCHANGED <<usage, reading, time, counted>>
  BY DEF RecordCall
<1>4. Windowed(mb, n) /\ OfToday(db, n)
  BY <1>1, MinuteReady, DayReady
<1> HIDE DEF n, mb, db
<1>5. UsageTypeOK /\ time \in Nat
  BY DEF UsageInv, UsageTypeOK
<1>6. /\ callsMade' \in Seq(CallRecords)
      /\ \A k \in DOMAIN callsMade' : callsMade'[k].at <= time \/ k \in DOMAIN callsMade
      /\ \A k \in DOMAIN callsMade : k \in DOMAIN callsMade' /\ callsMade'[k] = callsMade[k]
      /\ \A m \in Metered : CallsOn(m)' = CallsOn(m) \cup (IF m = n THEN {last} ELSE {})
      /\ callsMade'[last].at = time
      /\ \A m \in Metered \ {n}, a, b \in Int : CallsOf(m, a, b)' = CallsOf(m, a, b)
      /\ \A a, b \in Int : time \in a .. b =>
               Cardinality(CallsOf(n, a, b)') = Cardinality(CallsOf(n, a, b)) + 1
  BY <1>1, <1>2, <1>5, CallAppended
<1> HIDE DEF last
<1>7. ASSUME NEW b \in Buckets
      PROVE  /\ Counted(b, tokens) \in Buckets /\ Counted(b, tokens).start = b.start
             /\ Counted(b, tokens).calls = b.calls + 1
  <2>1. b.calls \in Nat /\ b.tokens \in Nat /\ tokens \in Nat
    BY <1>2 DEF Buckets
  <2>2. Counted(b, tokens) = [b EXCEPT !.calls = b.calls + 1, !.tokens = b.tokens + tokens]
    BY <2>1 DEF Counted, Buckets
  <2>3. b.calls + 1 \in Nat /\ b.tokens + tokens \in Nat
    BY <2>1
  <2> QED
    BY <2>2, <2>3 DEF Buckets
<1>8. /\ minute' \in [Metered -> Buckets] /\ daily' \in [Metered -> Buckets]
      /\ minute'[n] = Counted(mb, tokens) /\ daily'[n] = Counted(db, tokens)
      /\ \A m \in Metered \ {n} : minute'[m] = minute[m] /\ daily'[m] = daily[m]
  BY <1>1, <1>2, <1>4, <1>5, <1>7 DEF UsageTypeOK, Windowed, OfToday
<1>9. UsageTypeOK'
  BY <1>3, <1>5, <1>6, <1>8 DEF UsageTypeOK
<1>10. \A k \in DOMAIN callsMade : callsMade[k].at <= time
  BY DEF UsageInv
<1>11. \A k \in DOMAIN callsMade' : callsMade'[k].at <= time
  BY <1>6, <1>10
<1>12. ASSUME NEW m \in Metered \ {n} PROVE MinuteSound(m)' /\ DailySound(m)'
  <2>1. MinuteSound(m) /\ DailySound(m)
    BY DEF UsageInv
  <2>2. minute[m].start \in Int /\ daily[m].start \in Int
    BY <1>5, Typed
  <2>3. CallsOn(m)' = CallsOn(m) /\ \A k \in CallsOn(m) : callsMade'[k] = callsMade[k]
    BY <1>6 DEF CallsOn
  <2>4. \A a, b \in Int : CallsOf(m, a, b)' = CallsOf(m, a, b)
    BY <1>6
  <2>5. MinuteSound(m)'
    BY <1>3, <1>5, <1>8, <2>1, <2>2, <2>3, <2>4 DEF MinuteSound
  <2>6. daily'[m] = daily[m] /\ daily[m].start + DayLength - 1 \in Int
    BY <1>1, <1>8, <2>2
  <2>7. DailySound(m)'
    BY <1>3, <2>1, <2>2, <2>3, <2>4, <2>6 DEF DailySound
  <2> QED
    BY <2>5, <2>7
<1>13. MinuteSound(n)'
  <2>1. PICK b \in Buckets : b = mb
    BY <1>4 DEF Windowed
  <2>2. b.start \in Nat /\ b.start <= time /\ time <= b.start + 1 /\ b.start # -1
    BY <1>4, <2>1 DEF Windowed, Buckets
  <2>3. minute'[n].start = b.start /\ minute'[n].calls = b.calls + 1
    BY <1>7, <1>8, <2>1
  <2>4. \A t \in Int : t = time => Cardinality(CallsOf(n, b.start, t)') = b.calls + 1
    BY <1>4, <1>6, <2>1, <2>2 DEF Windowed
  <2>5. \A k \in CallsOn(n)' : callsMade'[k].at <= b.start + 1
    BY <1>1, <1>4, <1>6, <2>1, <2>2 DEF Windowed, CallsOn
  <2> QED
    BY <1>3, <1>5, <2>2, <2>3, <2>4, <2>5 DEF MinuteSound
<1>14. DailySound(n)'
  <2>1. DayOf(time) \in Nat /\ DayOf(time) * DayLength <= time /\ time < DayOf(time) * DayLength + DayLength
    BY <1>1, <1>5 DEF DayOf
  <2>2. PICK b \in Buckets : b = db
    BY <1>4 DEF OfToday
  <2>3. /\ b.start \in Nat /\ b.start <= time /\ time < b.start + DayLength
        /\ b.start = DayOf(time) * DayLength
    BY <1>1, <1>4, <2>1, <2>2 DEF OfToday
  <2>4. daily'[n].start = b.start /\ daily'[n].calls = b.calls + 1
    BY <1>7, <1>8, <2>2
  <2>5. time \in b.start .. b.start + DayLength - 1 /\ b.start + DayLength - 1 \in Int
    BY <1>1, <1>5, <2>3
  <2>6. Cardinality(CallsOf(n, b.start, b.start + DayLength - 1)') = b.calls + 1
    BY <1>4, <1>6, <2>2, <2>3, <2>5 DEF OfToday
  <2>7. \A k \in CallsOn(n)' : callsMade'[k].at < b.start + DayLength
    BY <1>1, <1>4, <1>6, <2>2, <2>3 DEF OfToday, CallsOn
  <2>8. \E q \in Nat : b.start = q * DayLength
    BY <2>1, <2>3
  <2> QED
    BY <1>3, <2>3, <2>4, <2>6, <2>7, <2>8 DEF DailySound
<1>15. FileSound'
  BY <1>3 DEF UsageInv, FileSound
<1> QED
  BY <1>3, <1>9, <1>11, <1>12, <1>13, <1>14, <1>15 DEF UsageInv

LEMMA FileStepKeeps ==
  ASSUME UsageInv, ResetUsage \/ \E r \in Recorders : ReadUsage(r) \/ RecorderDies(r) \/ WriteUsage(r)
  PROVE  UsageInv'
<1> USE DEF UsageInv
<1>1. UNCHANGED <<minute, daily, callsMade, time>>
  BY DEF ResetUsage, ReadUsage, RecorderDies, WriteUsage
<1>2. NoUsage \in CountsByDay /\ \A d \in DOMAIN counted : counted[d] \in Nat /\ NoUsage[d] <= counted[d]
  BY DEF NoUsage, CountsByDay, UsageTypeOK
<1>3. UsageTypeOK' /\ FileSound'
  <2>1. CASE ResetUsage
    BY <1>1, <1>2, <2>1 DEF UsageTypeOK, FileSound, ResetUsage
  <2>2. ASSUME NEW r \in Recorders, ReadUsage(r) PROVE UsageTypeOK' /\ FileSound'
    BY <1>1, <1>2, <2>2 DEF UsageTypeOK, FileSound, ReadUsage
  <2>3. ASSUME NEW r \in Recorders, RecorderDies(r) PROVE UsageTypeOK' /\ FileSound'
    BY <1>1, <2>3 DEF UsageTypeOK, FileSound, RecorderDies
  <2>4. ASSUME NEW r \in Recorders, WriteUsage(r) PROVE UsageTypeOK' /\ FileSound'
    <3>1. reading[r] \in CountsByDay
      BY <2>4 DEF UsageTypeOK, WriteUsage
    <3> DEFINE old == reading[r]
               day == DayOf(time)
    <3>2. /\ usage' \in CountsByDay /\ counted' \in CountsByDay
          /\ \A d \in DOMAIN counted : counted[d] <= counted'[d] /\ usage'[d] <= counted'[d]
          /\ DOMAIN counted' = DOMAIN counted
      <4>1. /\ usage' = [old EXCEPT ![day] = @ + 1] /\ counted' = [counted EXCEPT ![day] = @ + 1]
            /\ counted \in CountsByDay /\ old \in CountsByDay /\ \A d \in DOMAIN counted : old[d] <= counted[d]
        BY <2>4, <3>1 DEF UsageTypeOK, FileSound, WriteUsage
      <4> HIDE DEF old, day
      <4>2. \A d \in DOMAIN counted : old[d] \in Nat /\ counted[d] \in Nat
        BY <4>1 DEF CountsByDay
      <4>3. \A d \in DOMAIN counted : /\ usage'[d] = old[d] + (IF d = day THEN 1 ELSE 0)
                                      /\ counted'[d] = counted[d] + (IF d = day THEN 1 ELSE 0)
        BY <4>1, <4>2 DEF CountsByDay
      <4>4. \A c \in CountsByDay : /\ [c EXCEPT ![day] = @ + 1] \in CountsByDay
                                   /\ DOMAIN [c EXCEPT ![day] = @ + 1] = DOMAIN c
        <5>1. CASE day \in 0 .. (MaxTime \div DayLength)
          BY <5>1 DEF CountsByDay
        <5>2. CASE day \notin 0 .. (MaxTime \div DayLength)
          BY <5>2 DEF CountsByDay
        <5> QED
          BY <5>1, <5>2
      <4> QED
        <5>1. usage' \in CountsByDay /\ counted' \in CountsByDay /\ DOMAIN counted' = DOMAIN counted
          BY <4>1, <4>4
        <5>2. \A d \in DOMAIN counted : counted[d] <= counted'[d] /\ usage'[d] <= counted'[d]
          BY <4>1, <4>2, <4>3
        <5> QED
          BY <5>1, <5>2
    <3>3. UsageTypeOK'
      BY <1>1, <2>4, <3>2 DEF UsageTypeOK, WriteUsage
    <3>4. \A s \in Recorders : reading'[s] = NotReading \/ (reading'[s] = reading[s] /\ reading[s] # NotReading)
      BY <2>4 DEF UsageTypeOK, WriteUsage
    <3>5. ASSUME NEW s \in Recorders, reading'[s] # NotReading, NEW d \in DOMAIN counted
          PROVE  reading'[s][d] <= counted'[d]
      <4>1. reading'[s] = reading[s] /\ reading[s] \in CountsByDay /\ reading[s][d] <= counted[d]
        BY <3>4, <3>5 DEF FileSound, UsageTypeOK
      <4> QED
        BY <3>2, <4>1 DEF CountsByDay, UsageTypeOK
    <3>6. FileSound'
      BY <3>2, <3>5 DEF FileSound
    <3> QED
      BY <3>3, <3>6
  <2> QED
    BY <2>1, <2>2, <2>3, <2>4
<1>4. \A n \in Metered : MinuteSound(n)' /\ DailySound(n)'
  BY <1>1 DEF MinuteSound, DailySound, CallsOn, CallsOf
<1> QED
  BY <1>1, <1>3, <1>4

LEMMA ClockKeeps == ASSUME UsageInv, MinutePasses \/ UNCHANGED usageVars PROVE UsageInv'
<1>1. UNCHANGED <<usage, reading, counted, minute, daily, callsMade>> /\ time' \in {time, time + 1}
  BY DEF MinutePasses, usageVars
<1>2. UsageTypeOK /\ time \in Nat /\ \A k \in DOMAIN callsMade : callsMade[k].at \in Nat /\ callsMade[k].at <= time
  BY Typed DEF UsageInv
<1>3. UsageTypeOK' /\ FileSound'
  BY <1>1 DEF UsageInv, UsageTypeOK, FileSound
<1>4. \A k \in DOMAIN callsMade : callsMade[k].at <= time'
  BY <1>1, <1>2
<1>5. ASSUME NEW n \in Metered PROVE MinuteSound(n)' /\ DailySound(n)'
  <2>1. minute[n] \in Buckets /\ daily[n] \in Buckets /\ MinuteSound(n) /\ DailySound(n)
    BY DEF UsageInv, UsageTypeOK
  <2>2. minute[n].start \in Int /\ daily[n].start \in Int
    BY <2>1 DEF Buckets
  <2>3. CallsOf(n, minute[n].start, time)' = CallsOf(n, minute[n].start, time)
    BY <1>1, <1>2, <2>2 DEF CallsOf
  <2>4. MinuteSound(n)'
    BY <1>1, <1>2, <2>1, <2>2, <2>3 DEF MinuteSound, CallsOn
  <2>5. daily[n].start <= time => daily[n].start <= time'
    BY <1>1, <1>2, <2>2
  <2>6. DailySound(n)'
    BY <1>1, <2>1, <2>5 DEF DailySound, CallsOn, CallsOf
  <2> QED
    BY <2>4, <2>6
<1> QED
  BY <1>1, <1>3, <1>4, <1>5 DEF UsageInv

LEMMA MeterEndsKeeps == ASSUME UsageInv, MeterEnds PROVE UsageInv'
<1>1. /\ UNCHANGED <<usage, reading, counted, time>> /\ callsMade' = <<>>
      /\ minute' = [n \in Metered |-> NoBucket] /\ daily' = [n \in Metered |-> NoBucket]
  BY DEF MeterEnds
<1>2. NoBucket \in Buckets /\ NoBucket.start = -1 /\ NoBucket.calls = 0 /\ NoBucket.tokens = 0
  BY DEF NoBucket, Buckets
<1>3. UsageTypeOK' /\ FileSound'
  BY <1>1, <1>2 DEF UsageInv, UsageTypeOK, FileSound
<1>4. \A n \in Metered : MinuteSound(n)' /\ DailySound(n)'
  BY <1>1, <1>2 DEF MinuteSound, DailySound, CallsOn
<1> QED
  BY <1>1, <1>3, <1>4 DEF UsageInv

LEMMA UsageStep == UsageInv /\ [UsageNext]_usageVars => UsageInv'
BY RecordKeeps, FileStepKeeps, ClockKeeps, MeterEndsKeeps DEF UsageNext

LEMMA UsageBegins == UsageInit => UsageInv
<1> SUFFICES ASSUME UsageInit PROVE UsageInv
  OBVIOUS
<1>1. UsageTypeOK
  BY DEF UsageInit, UsageTypeOK, NoBucket, Buckets, NoUsage, CountsByDay
<1>2. \A n \in Metered : MinuteSound(n) /\ DailySound(n)
  BY DEF UsageInit, MinuteSound, DailySound, NoBucket, CallsOn
<1>3. FileSound
  BY DEF UsageInit, FileSound, NoUsage
<1> QED
  BY <1>1, <1>2, <1>3 DEF UsageInv, UsageInit

\* The share of a limit that is left is positive just when the limit is not reached.
LEMMA ShareLeft ==
  ASSUME NEW count \in Nat, NEW limit \in Nat
  PROVE  /\ Left(count, limit) = {} \/ \E x \in Int : Left(count, limit) = {x}
         /\ (\A x \in Left(count, limit) : x > 0) <=> ~Over(count, limit)
BY DEF Left, Over

HasLeast(S) == S \in SUBSET Int /\ (S # {} => \E x \in S : \A y \in S : x <= y)

LEMMA LeastOfBoth == ASSUME NEW S, NEW T, HasLeast(S), HasLeast(T) PROVE HasLeast(S \cup T)
<1>1. CASE S = {} \/ T = {}
  BY <1>1 DEF HasLeast
<1>2. CASE S # {} /\ T # {}
  <2>1. PICK x \in S : \A y \in S : x <= y
    BY <1>2 DEF HasLeast
  <2>2. PICK z \in T : \A y \in T : z <= y
    BY <1>2 DEF HasLeast
  <2>3. x \in Int /\ z \in Int
    BY DEF HasLeast
  <2>4. CASE x <= z
    BY <2>1, <2>2, <2>3, <2>4 DEF HasLeast
  <2>5. CASE z <= x
    BY <2>1, <2>2, <2>3, <2>5 DEF HasLeast
  <2> QED
    BY <2>3, <2>4, <2>5
<1> QED
  BY <1>1, <1>2

\* Something is left just when the entry may be used.
LEMMA AnswersAgree == ASSUME UsageInv, NEW p \in DOMAIN TypeOf PROVE CanUse(p) <=> Headroom(p) > 0
<1> DEFINE limit == Limits[p]
           m == minute[p]
           d == daily[p]
           ofMinute == IF limit.rpm > 0 /\ InMinute(p) THEN Left(m.calls, limit.rpm) \cup Left(m.tokens, limit.tpm) ELSE {}
           ofDay == IF d.start >= 0 THEN Left(d.calls, limit.rpd) \cup Left(d.tokens, limit.tpd) ELSE {}
           shares == ofMinute \cup ofDay
<1>1. m \in Buckets /\ d \in Buckets
  BY UsageAssumption DEF UsageInv, UsageTypeOK
<1>2. limit.rpm \in Nat /\ limit.tpm \in Nat /\ limit.rpd \in Nat /\ limit.tpd \in Nat
  BY UsageAssumption
<1>3. d.start = -1 => d.calls = 0 /\ d.tokens = 0
  BY UsageAssumption DEF UsageInv, DailySound
<1> HIDE DEF limit, m, d
<1>4. m.calls \in Nat /\ m.tokens \in Nat /\ d.calls \in Nat /\ d.tokens \in Nat /\ d.start \in Nat \cup {-1}
  BY <1>1 DEF Buckets
<1>5. \A x \in Int : HasLeast({x})
  BY DEF HasLeast
<1>6. HasLeast({})
  BY DEF HasLeast
<1>7. \A a, b \in Nat : HasLeast(Left(a, b))
  BY <1>5, <1>6, ShareLeft
<1>8. HasLeast(ofMinute) /\ HasLeast(ofDay)
  BY <1>2, <1>4, <1>6, <1>7, LeastOfBoth
<1>9. (\A x \in ofMinute : x > 0) <=>
         (limit.rpm > 0 /\ InMinute(p) => m.calls < limit.rpm /\ ~Over(m.tokens, limit.tpm))
  <2>1. CASE limit.rpm > 0 /\ InMinute(p)
    <3>1. (\A x \in ofMinute : x > 0) <=> ~Over(m.calls, limit.rpm) /\ ~Over(m.tokens, limit.tpm)
      BY <1>2, <1>4, <2>1, ShareLeft
    <3> QED
      BY <1>2, <1>4, <2>1, <3>1 DEF Over
  <2>2. CASE ~(limit.rpm > 0 /\ InMinute(p))
    BY <2>2
  <2> QED
    BY <2>1, <2>2
<1>10. (\A x \in ofDay : x > 0) <=> ~Over(d.calls, limit.rpd) /\ ~Over(d.tokens, limit.tpd)
  <2>1. CASE d.start >= 0
    BY <1>2, <1>4, <2>1, ShareLeft
  <2>2. CASE d.start = -1
    BY <1>2, <1>3, <2>2 DEF Over
  <2> QED
    BY <1>4, <2>1, <2>2
<1>11. HasLeast(shares) /\ ((\A x \in shares : x > 0) <=> (\A x \in ofMinute : x > 0) /\ (\A x \in ofDay : x > 0))
  BY <1>8, LeastOfBoth
<1> HIDE DEF ofMinute, ofDay
<1>12. shares # {} => Min(shares) \in Int /\ (Min(shares) > 0 <=> \A x \in shares : x > 0)
  <2>1. \A x \in shares : x \in Int
    BY <1>11 DEF HasLeast
  <2> HIDE DEF shares
  <2> SUFFICES ASSUME shares # {} PROVE Min(shares) \in Int /\ (Min(shares) > 0 <=> \A x \in shares : x > 0)
    OBVIOUS
  <2>2. Min(shares) \in shares /\ \A y \in shares : Min(shares) <= y
    BY <1>11 DEF HasLeast, Min
  <2> QED
    BY <2>1, <2>2
<1>13. \A x \in Int : Max({0, x}) > 0 <=> x > 0
  <2> SUFFICES ASSUME NEW x \in Int PROVE Max({0, x}) > 0 <=> x > 0
    OBVIOUS
  <2>1. Max({0, x}) \in {0, x} /\ \A y \in {0, x} : Max({0, x}) >= y
    BY DEF Max
  <2> QED
    BY <2>1
<1>14. CASE limit.access \in {"paid", "unlimited"}
  BY <1>14 DEF CanUse, Headroom, limit
<1>15. CASE limit.access \notin {"paid", "unlimited"}
  <2>1. CanUse(p) <=> \A x \in shares : x > 0
    BY <1>9, <1>10, <1>11, <1>15 DEF CanUse, limit, m, d
  <2>2. Headroom(p) = IF shares = {} THEN 100 ELSE Max({0, Min(shares)})
    BY <1>15 DEF Headroom, limit, m, d, ofMinute, ofDay
  <2> HIDE DEF shares
  <2> QED
    BY <1>12, <1>13, <2>1, <2>2
<1> QED
  BY <1>14, <1>15

LEMMA UsageCounts == UsageInv => UsageExact
<1> SUFFICES ASSUME UsageInv PROVE UsageExact
  OBVIOUS
<1>1. \A n \in Metered : minute[n] \in Buckets /\ daily[n] \in Buckets /\ MinuteSound(n) /\ DailySound(n)
  BY DEF UsageInv, UsageTypeOK
<1>2. ASSUME NEW n \in Metered
      PROVE  /\ minute[n].calls = IF minute[n].start < 0 THEN 0 ELSE Cardinality(CallsOf(n, minute[n].start, time))
             /\ daily[n].calls = IF daily[n].start < 0 THEN 0
                                 ELSE Cardinality(CallsOf(n, daily[n].start, daily[n].start + DayLength - 1))
  BY <1>1 DEF MinuteSound, DailySound, Buckets
<1> QED
  BY <1>2, AnswersAgree DEF UsageExact, UsageInv, FileSound

\* The buckets count the calls of their window and no others, the file never shows a call
\* that was not made, and the two answers about what is left agree.
THEOREM UsageIsExact == RecordsSpec => []UsageExact
<1>1. RecordsInit => UsageInv
  BY UsageBegins DEF RecordsInit
<1>2. UsageInv /\ [RecordsNext]_recordVars => UsageInv'
  <2> SUFFICES ASSUME UsageInv, [RecordsNext]_recordVars PROVE UsageInv'
    OBVIOUS
  <2>1. [UsageNext]_usageVars
    BY DEF RecordsNext, recordVars, Still
  <2> QED
    BY <2>1, UsageStep
<1>3. UsageInv => UsageExact
  BY UsageCounts
<1> QED
  BY <1>1, <1>2, <1>3, PTL DEF RecordsSpec

--------------------------------------------------------------------------------
(* The configuration the wizard writes                                     *)

WizardSteps == {"off", "menu", "select", "configure", "adapters", "platform", "notifications", "providers", "keys", "notice"}

WizardTypeOK ==
    /\ step \in WizardSteps
    /\ toSetUp \in Seq(Types)
    /\ configured = [t \in DOMAIN configured |-> configured[t]] /\ DOMAIN configured \subseteq Types

\* The instances of a type are numbered from one, without a gap.
FirstNames(t, m) == {<<t, k>> : k \in 1 .. m}
Numbered(t) == \E m \in Nat : Instances(t) = FirstNames(t, m)

\* The variable of an instance is in .env, or about to be written there.
KeyDue(n) ==
    \/ entries[n] = NoKey
    \/ entries[n] \in DOMAIN keys
    \/ /\ step = "keys"
       /\ n[1] \in DOMAIN configured /\ configured[n[1]] = "key" /\ n = Newest(n[1])

RoleSound == step # "off" => role \in RoleItems(DOMAIN entries) \cup {None}

FilesSound ==
    /\ \A t \in Types : Numbered(t)
    /\ named \subseteq DOMAIN entries
    /\ \A n \in DOMAIN entries : KeyDue(n)
    /\ primary \in DOMAIN entries \cup {None}
    /\ RoleSound

WizardInv == WizardTypeOK /\ (~cut => FilesSound)

\* The one with the greatest number is the last.
LEMMA LastName ==
  ASSUME NEW t, NEW m \in Nat \ {0}
  PROVE  (CHOOSE n \in FirstNames(t, m) : \A o \in FirstNames(t, m) : o[2] <= n[2]) = <<t, m>>
<1>1. <<t, m>> \in FirstNames(t, m) /\ \A n \in FirstNames(t, m) : n[2] <= <<t, m>>[2]
  BY DEF FirstNames
<1>2. ASSUME NEW n \in FirstNames(t, m), \A o \in FirstNames(t, m) : o[2] <= n[2] PROVE n = <<t, m>>
  <2>1. PICK k \in 1 .. m : n = <<t, k>>
    BY DEF FirstNames
  <2>2. m <= k
    BY <1>1, <1>2, <2>1
  <2> QED
    BY <2>1, <2>2
<1> QED
  BY <1>1, <1>2

\* With m instances of a type the first free number is m + 1.
LEMMA FreeName ==
  ASSUME NEW t, NEW m \in Nat, Instances(t) = FirstNames(t, m)
  PROVE  NewName(t) = <<t, m + 1>>
<1> DEFINE name == [k \in 1 .. m |-> <<t, k>>]
<1>1. name \in Surjection(1 .. m, FirstNames(t, m)) /\ name \in Injection(1 .. m, FirstNames(t, m))
  BY DEF Surjection, Injection, IsInjective, FirstNames
<1>2. Cardinality(FirstNames(t, m)) = m
  <2>1. IsFiniteSet(1 .. m) /\ Cardinality(1 .. m) = m
    BY FS_Interval
  <2> HIDE DEF name
  <2> QED
    BY <1>1, <2>1, FS_Surjection
<1>3. {n[2] : n \in FirstNames(t, m)} = 1 .. m
  <2>1. ASSUME NEW k \in 1 .. m PROVE k \in {n[2] : n \in FirstNames(t, m)}
    <3>1. <<t, k>> \in FirstNames(t, m) /\ <<t, k>>[2] = k
      BY DEF FirstNames
    <3> QED
      BY <3>1
  <2>2. ASSUME NEW n \in FirstNames(t, m) PROVE n[2] \in 1 .. m
    BY DEF FirstNames
  <2> QED
    BY <2>1, <2>2
<1>4. (1 .. m + 1) \ (1 .. m) = {m + 1}
  OBVIOUS
<1>5. Min({m + 1}) = m + 1
  BY DEF Min
<1> QED
  BY <1>2, <1>3, <1>4, <1>5 DEF NewName

\* While no file is written, the files stay as sound as they were.
LEMMA AskingKeeps ==
  ASSUME WizardInv, UNCHANGED <<providersVars, keys, notify, cut>>, step' \in WizardSteps, step # "keys",
         WizardTypeOK', RoleSound => RoleSound'
  PROVE  WizardInv'
<1>1. entries' = entries /\ named' = named /\ primary' = primary /\ keys' = keys /\ cut' = cut
  BY DEF providersVars
<1>2. ASSUME ~cut PROVE FilesSound'
  <2>1. FilesSound
    BY <1>2 DEF WizardInv
  <2>2. \A t \in Types : Numbered(t)'
    BY <1>1, <2>1 DEF FilesSound, Numbered, Instances
  <2>3. \A n \in DOMAIN entries : KeyDue(n)'
    BY <1>1, <2>1 DEF FilesSound, KeyDue
  <2> QED
    BY <1>1, <2>1, <2>2, <2>3 DEF FilesSound
<1> QED
  BY <1>1, <1>2 DEF WizardInv

LEMMA ScanKeeps == ASSUME WizardInv, Scan PROVE WizardInv'
<1>1. WizardTypeOK' /\ step' \in WizardSteps /\ step # "keys" /\ UNCHANGED <<providersVars, keys, notify, cut>>
  BY DEF WizardInv, WizardTypeOK, Scan, WizardSteps, NoEntries, providersVars
<1>2. RoleSound'
  BY DEF RoleSound, Scan
<1> QED
  BY <1>1, <1>2, AskingKeeps

\* The answers before the roles are assigned; each only adds to what is configured.
LEMMA AnswerKeeps ==
  ASSUME WizardInv,
         \/ ToProviders \/ ToAdapters \/ Cancel \/ SelectProviders \/ ConfigureProvider \/ NothingConfigured
         \/ SelectAdapters \/ SetUpPlatform \/ ChooseNotice \/ Interrupted
  PROVE  WizardInv'
<1> USE DEF AskNext, Leaves, ToProviders, ToAdapters, Cancel, SelectProviders, ConfigureProvider, NothingConfigured,
            SelectAdapters, SetUpPlatform, ChooseNotice, Interrupted
<1>1. /\ UNCHANGED <<providersVars, keys, notify, cut>> /\ role' = role
      /\ step' \in WizardSteps /\ step \notin {"keys", "off"}
  BY DEF askVars, WizardSteps, WizardInv, WizardTypeOK
<1>2. /\ toSetUp' \in Seq(Types)
      /\ configured' = [t \in DOMAIN configured' |-> configured'[t]] /\ DOMAIN configured' \subseteq Types
      /\ DOMAIN configured \subseteq DOMAIN configured'
  <2> USE DEF WizardInv, WizardTypeOK
  <2>1. CASE SelectProviders
    <3>1. ASSUME NEW selection \in Selections(Types) PROVE selection \in Seq(Types)
      BY DEF Selections, SeqOf
    <3> QED
      BY <2>1, <3>1 DEF askVars
  <2>2. CASE ConfigureProvider
    <3>1. Head(toSetUp) \in Types /\ Tail(toSetUp) \in Seq(Types)
      BY <2>2 DEF NoEntries
    <3> QED
      BY <2>2, <3>1
  <2>3. CASE configured' = configured /\ toSetUp' = toSetUp
    BY <2>3
  <2> QED
    BY <2>1, <2>2, <2>3 DEF askVars
<1>3. WizardTypeOK'
  BY <1>1, <1>2 DEF WizardInv, WizardTypeOK, providersVars
<1>4. RoleSound => RoleSound'
  BY <1>1, <1>2 DEF RoleSound, RoleItems, providersVars
<1> QED
  BY <1>1, <1>3, <1>4, AskingKeeps

LEMMA AssignRoleKeeps == ASSUME WizardInv, AssignRole PROVE WizardInv'
<1>1. /\ UNCHANGED <<providersVars, keys, notify, cut, toSetUp, configured>>
      /\ step' \in WizardSteps /\ step # "keys"
  BY DEF AssignRole, AskNext, WizardSteps
<1>2. WizardTypeOK'
  BY <1>1 DEF WizardInv, WizardTypeOK, providersVars
<1>3. RoleSound'
  BY <1>1 DEF RoleSound, AssignRole, RoleItems, RadioItems, providersVars
<1> QED
  BY <1>1, <1>2, <1>3, AskingKeeps

\* One instance more of each type that was set up.
LEMMA WriteProvidersKeeps == ASSUME WizardInv, WriteProviders PROVE WizardInv'
<1> DEFINE new == {NewName(t) : t \in DOMAIN configured}
           variables == [n \in new |-> NewVariable(n[1])]
<1>1. /\ entries' = [n \in DOMAIN entries \cup new |-> IF n \in new THEN NewVariable(n[1]) ELSE entries[n]]
      /\ named' = named \cup DOMAIN entries' /\ primary' = role /\ step' = "keys" /\ step = "providers"
      /\ UNCHANGED <<keys, cut, configured, toSetUp, role>>
  <2>1. {NewNames[t] : t \in DOMAIN configured} = new
    BY DEF NewNames
  <2>2. DOMAIN variables = new /\ \A n \in new : variables[n] = NewVariable(n[1])
    OBVIOUS
  <2>3. entries' = Merged(variables)
    BY <2>1 DEF WriteProviders
  <2> HIDE DEF variables, new
  <2>4. entries' = [n \in DOMAIN entries \cup new |-> IF n \in new THEN NewVariable(n[1]) ELSE entries[n]]
    BY <2>2, <2>3 DEF Merged
  <2> QED
    BY <2>4 DEF WriteProviders, askVars
<1>2. DOMAIN configured \subseteq Types
  BY DEF WizardInv, WizardTypeOK
<1>3. WizardTypeOK'
  BY <1>1 DEF WizardInv, WizardTypeOK, WizardSteps
<1> HIDE DEF variables
<1>4. ASSUME ~cut PROVE FilesSound'
  <2>1. FilesSound
    BY <1>4 DEF WizardInv
  <2>2. ASSUME NEW t \in Types, NEW m \in Nat, Instances(t) = FirstNames(t, m)
        PROVE  Instances(t)' = FirstNames(t, IF t \in DOMAIN configured THEN m + 1 ELSE m)
    <3>1. NewName(t) = <<t, m + 1>>
      BY <2>2, FreeName
    <3>2. Instances(t)' = Instances(t) \cup {n \in new : n[1] = t}
      BY <1>1 DEF Instances
    <3>3. {n \in new : n[1] = t} = IF t \in DOMAIN configured THEN {<<t, m + 1>>} ELSE {}
      <4>1. \A u : NewName(u)[1] = u
        BY DEF NewName
      <4>2. ASSUME NEW n \in new, n[1] = t PROVE t \in DOMAIN configured /\ n = <<t, m + 1>>
        BY <3>1, <4>1, <4>2
      <4>3. t \in DOMAIN configured => <<t, m + 1>> \in new
        BY <3>1
      <4> QED
        BY <4>2, <4>3
    <3>4. FirstNames(t, m + 1) = FirstNames(t, m) \cup {<<t, m + 1>>}
      BY DEF FirstNames
    <3> QED
      BY <2>2, <3>2, <3>3, <3>4
  <2>3. \A t \in Types : Numbered(t)'
    <3> SUFFICES ASSUME NEW t \in Types PROVE Numbered(t)'
      OBVIOUS
    <3>1. PICK m \in Nat : Instances(t) = FirstNames(t, m)
      BY <2>1 DEF FilesSound, Numbered
    <3> QED
      BY <2>2, <3>1 DEF Numbered
  <2>4. ASSUME NEW t \in DOMAIN configured
        PROVE  /\ NewName(t)[1] = t /\ NewName(t) \notin DOMAIN entries
               /\ Newest(t)' = NewName(t) /\ <<t, 1>> \in DOMAIN entries'
    <3>1. PICK m \in Nat : Instances(t) = FirstNames(t, m)
      BY <1>2, <2>1 DEF FilesSound, Numbered
    <3>2. NewName(t) = <<t, m + 1>>
      BY <3>1, FreeName
    <3>3. Instances(t)' = FirstNames(t, m + 1)
      BY <1>2, <2>2, <3>1
    <3>4. Newest(t)' = <<t, m + 1>>
      BY <3>3, LastName DEF Newest
    <3>5. NewName(t) \notin DOMAIN entries
      BY <3>1, <3>2 DEF Instances, FirstNames
    <3>6. <<t, 1>> \in DOMAIN entries'
      BY <3>3 DEF Instances, FirstNames
    <3> QED
      BY <3>2, <3>4, <3>5, <3>6
  <2>5. ASSUME NEW n \in DOMAIN entries' PROVE KeyDue(n)'
    <3>1. CASE n \in new
      <4>1. PICK t \in DOMAIN configured : n = NewName(t)
        BY <3>1
      <4>2. n[1] = t /\ entries'[n] = NewVariable(t)
        BY <1>1, <2>4, <3>1, <4>1
      <4> QED
        BY <1>1, <2>4, <4>1, <4>2 DEF KeyDue, NewVariable
    <3>2. CASE n \notin new
      BY <1>1, <2>1, <3>2 DEF FilesSound, KeyDue
    <3> QED
      BY <3>1, <3>2
  <2>6. role \in DOMAIN entries' \cup {None}
    BY <1>1, <2>1, <2>4 DEF FilesSound, RoleSound, RoleItems
  <2>7. RoleSound'
    BY <1>1, <2>6 DEF RoleSound, RoleItems
  <2>8. named' \subseteq DOMAIN entries'
    BY <1>1, <2>1 DEF FilesSound
  <2> QED
    BY <1>1, <2>3, <2>5, <2>6, <2>7, <2>8 DEF FilesSound
<1> QED
  BY <1>1, <1>3, <1>4 DEF WizardInv

LEMMA WriteKeysKeeps == ASSUME WizardInv, WriteKeys PROVE WizardInv'
<1> DEFINE unused == {Newest(t) : t \in {t \in DOMAIN configured : configured[t] = "key"}}
<1>1. /\ UNCHANGED <<providersVars, entries, primary, named, cut, configured, toSetUp, role>>
      /\ DOMAIN keys' = DOMAIN keys \cup {entries[n] : n \in unused}
      /\ step = "keys" /\ step' \in {"off", "notice"}
  BY DEF WriteKeys, askVars, providersVars, KeysMerged
<1>2. WizardTypeOK'
  BY <1>1 DEF WizardInv, WizardTypeOK, WizardSteps
<1>3. ASSUME ~cut PROVE FilesSound'
  <2>1. FilesSound
    BY <1>3 DEF WizardInv
  <2>2. \A t \in Types : Numbered(t)'
    BY <1>1, <2>1 DEF FilesSound, Numbered, Instances
  <2>3. ASSUME NEW n \in DOMAIN entries PROVE KeyDue(n)'
    BY <1>1, <2>1 DEF FilesSound, KeyDue
  <2>4. RoleSound'
    BY <1>1, <2>1 DEF FilesSound, RoleSound, RoleItems
  <2> QED
    BY <1>1, <2>1, <2>2, <2>3, <2>4 DEF FilesSound
<1> QED
  BY <1>1, <1>2, <1>3 DEF WizardInv

LEMMA WriteNoticeKeeps == ASSUME WizardInv, WriteNotice PROVE WizardInv'
<1>1. /\ UNCHANGED <<askVars, configured, toSetUp, role, providersVars, entries, primary, named, keys, cut>>
      /\ step' = "off" /\ step = "notice"
  BY DEF WriteNotice, askVars, providersVars
<1>2. WizardTypeOK'
  BY <1>1 DEF WizardInv, WizardTypeOK, WizardSteps
<1>3. ASSUME ~cut PROVE FilesSound'
  BY <1>1, <1>3 DEF WizardInv, FilesSound, Numbered, Instances, KeyDue, RoleSound
<1> QED
  BY <1>1, <1>2, <1>3 DEF WizardInv

LEMMA WizardStep == WizardInv /\ [WizardNext]_wizardVars => WizardInv'
<1> SUFFICES ASSUME WizardInv, [WizardNext]_wizardVars PROVE WizardInv'
  OBVIOUS
<1>1. CASE UNCHANGED wizardVars
  <2>1. UNCHANGED <<step, configured, toSetUp, role, entries, primary, named, keys, cut>>
    BY <1>1 DEF wizardVars, askVars, providersVars
  <2>2. WizardTypeOK'
    BY <2>1 DEF WizardInv, WizardTypeOK
  <2>3. ASSUME ~cut PROVE FilesSound'
    BY <2>1, <2>3 DEF WizardInv, FilesSound, Numbered, Instances, KeyDue, Newest, RoleSound, RoleItems
  <2> QED
    BY <2>1, <2>2, <2>3 DEF WizardInv
<1>2. CASE Dies
  <2>1. WizardTypeOK' /\ cut'
    BY <1>2 DEF WizardInv, WizardTypeOK, Dies, WizardSteps, askVars
  <2> QED
    BY <2>1 DEF WizardInv
<1> QED
  BY <1>1, <1>2, ScanKeeps, AnswerKeeps, AssignRoleKeeps, WriteProvidersKeeps, WriteKeysKeeps, WriteNoticeKeeps
     DEF WizardNext

LEMMA WizardBegins == WizardInit => WizardInv
<1> SUFFICES ASSUME WizardInit PROVE WizardInv
  OBVIOUS
<1>1. WizardTypeOK /\ RoleSound
  BY DEF WizardInit, WizardTypeOK, WizardSteps, NoEntries, RoleSound
<1>2. \A t : FirstNames(t, 0) = {} /\ FirstNames(t, 1) = {<<t, 1>>}
  BY DEF FirstNames
<1>3. CASE entries = NoEntries /\ primary = None
  BY <1>1, <1>2, <1>3 DEF WizardInit, WizardInv, FilesSound, Numbered, Instances, NoEntries, KeyDue
<1>4. ASSUME NEW u \in Types, entries = [n \in {<<u, 1>>} |-> <<u, 1>>], primary = <<u, 1>>, <<u, 1>> \in DOMAIN keys
      PROVE  FilesSound
  <2>1. \A t \in Types : Numbered(t)
    BY <1>2, <1>4 DEF Numbered, Instances
  <2>2. \A n \in DOMAIN entries : KeyDue(n)
    BY <1>4 DEF KeyDue
  <2> QED
    BY <1>1, <1>4, <2>1, <2>2 DEF FilesSound, WizardInit
<1>5. \/ entries = NoEntries /\ primary = None
      \/ \E u \in Types : entries = [n \in {<<u, 1>>} |-> <<u, 1>>] /\ primary = <<u, 1>> /\ <<u, 1>> \in DOMAIN keys
  BY DEF WizardInit
<1> QED
  BY <1>1, <1>3, <1>4, <1>5 DEF WizardInv

LEMMA WizardWritesSound == WizardInv => ConfigSound
BY DEF WizardInv, FilesSound, KeyDue, ConfigSound

\* The three files of the wizard fit each other whenever all of them were written.
THEOREM ConfigIsSound == RecordsSpec => []ConfigSound
<1>1. RecordsInit => WizardInv
  BY WizardBegins DEF RecordsInit
<1>2. WizardInv /\ [RecordsNext]_recordVars => WizardInv'
  <2> SUFFICES ASSUME WizardInv, [RecordsNext]_recordVars PROVE WizardInv'
    OBVIOUS
  <2>1. [WizardNext]_wizardVars
    BY DEF RecordsNext, recordVars, Still
  <2> QED
    BY <2>1, WizardStep
<1>3. WizardInv => ConfigSound
  BY WizardWritesSound
<1> QED
  BY <1>1, <1>2, <1>3, PTL DEF RecordsSpec

--------------------------------------------------------------------------------
(* The grades of providers                                                 *)

\* Rows with any sets in the place of their fields'.
RowsOver(scores, counts, latches, streaks, lists) ==
    [score : scores, grades : counts, latch : latches, streak : streaks, last : lists]

LEMMA LatchReplaced ==
  ASSUME NEW A, NEW B, NEW C, NEW D, NEW E, NEW r \in RowsOver(A, B, C, D, E), NEW l \in C, NEW s \in D
  PROVE  [r EXCEPT !.latch = l, !.streak = s] \in RowsOver(A, B, C, D, E)
BY DEF RowsOver

LEMMA GradeReplaced ==
  ASSUME NEW A, NEW B, NEW C, NEW D, NEW E, NEW r \in RowsOver(A, B, C, D, E),
         NEW x \in A, NEW y \in B, NEW z \in E
  PROVE  [r EXCEPT !.score = x, !.grades = y, !.last = z] \in RowsOver(A, B, C, D, E)
BY DEF RowsOver

Scores == 0 .. 10000
Streaks == 0 .. Confirm - 1
Counts == Nat

LEMMA AllRows == Rows = RowsOver(Scores, Counts, Latches, Streaks, Seq(Scores))
BY DEF Rows, RowsOver, Scores, Streaks, Counts

LEMMA RowFields ==
  ASSUME NEW r \in Rows
  PROVE  /\ r.score \in Scores /\ r.grades \in Nat /\ r.latch \in Latches
         /\ r.streak \in Streaks /\ r.last \in Seq(Scores)
BY DEF Rows, Scores, Streaks

LEMMA LatchSet ==
  ASSUME NEW r \in Rows, NEW l \in Latches, NEW s \in Streaks
  PROVE  [r EXCEPT !.latch = l, !.streak = s] \in Rows
<1>1. r \in RowsOver(Scores, Counts, Latches, Streaks, Seq(Scores))
  BY AllRows
<1> QED
  BY AllRows, <1>1, LatchReplaced

LEMMA GradeSet ==
  ASSUME NEW r \in Rows, NEW x \in Scores, NEW y \in Counts, NEW z \in Seq(Scores),
         NEW e, e = [r EXCEPT !.score = x, !.grades = y, !.last = z]
  PROVE  e \in Rows
<1>1. r \in RowsOver(Scores, Counts, Latches, Streaks, Seq(Scores))
  BY AllRows
<1> QED
  BY AllRows, <1>1, GradeReplaced

LEMMA BlendInRange ==
  ASSUME NEW s \in Scores, NEW result \in {0, 10000}
  PROVE  Blend(s, result) \in Scores
<1> DEFINE n == 8 * s + 2 * result + 5
<1>1. s \in Int /\ 0 <= s /\ s <= 10000 /\ result \in Int /\ 0 <= result /\ result <= 10000
  BY DEF Scores
<1>2. n \in Int /\ 0 <= n /\ n <= 100005
  BY <1>1
<1>3. \A m \in Int : (0 <= m /\ m <= 100005) => m \div 10 \in 0 .. 10000
  BY SMTT(30)
<1>4. Blend(s, result) = n \div 10
  BY DEF Blend
<1> HIDE DEF n
<1> QED
  BY <1>2, <1>3, <1>4 DEF Scores

LEMMA AboveIsTruth == ASSUME NEW r \in Rows PROVE Above(r) \in BOOLEAN
<1>1. (r.score >= Bar) \in BOOLEAN
  BY RowFields DEF Scores, Bar
<1> QED
  BY <1>1 DEF Above

\* The three cases of the latch, field by field.
LEMMA LatchMoves ==
  ASSUME NEW r \in Rows, NEW s \in Scores, NEW a, a = AdvanceLatch(r, s)
  PROVE  /\ a \in Rows /\ a.score = r.score /\ a.grades = r.grades /\ a.last = r.last
         /\ (s >= Bar <=> Above(r)) => a.latch = Side(Above(r)) /\ a.streak = 0
         /\ ~(s >= Bar <=> Above(r)) /\ (s < Bar - Band \/ r.streak + 1 >= Confirm) =>
               a.latch = Side(~Above(r)) /\ a.streak = 0
         /\ ~(s >= Bar <=> Above(r)) /\ ~(s < Bar - Band \/ r.streak + 1 >= Confirm) =>
               a.latch = Side(Above(r)) /\ a.streak = r.streak + 1
<1>1. Above(r) \in BOOLEAN /\ (s >= Bar) \in BOOLEAN
  BY AboveIsTruth DEF Bar, Scores
<1>2. Confirm \in Nat \ {0} /\ r.streak \in Streaks /\ 0 \in Streaks
  <2>1. Confirm \in Nat \ {0}
    BY CapabilityAssumption
  <2>2. r.streak \in Streaks
    BY RowFields
  <2> QED
    BY <2>1, <2>2 DEF Streaks
<1>3. Side(Above(r)) \in Latches /\ Side(~Above(r)) \in Latches
  BY DEF Side, Latches
<1>r. ASSUME NEW l \in Latches, NEW n \in Streaks, a = [r EXCEPT !.latch = l, !.streak = n]
      PROVE  /\ a \in Rows /\ a.score = r.score /\ a.grades = r.grades /\ a.last = r.last
             /\ a.latch = l /\ a.streak = n
  <2>1. a \in Rows
    BY <1>r, LatchSet
  <2>2. a.score = r.score /\ a.grades = r.grades /\ a.last = r.last /\ a.latch = l /\ a.streak = n
    BY <1>r DEF Rows
  <2> QED
    BY <2>1, <2>2
<1>4. CASE s >= Bar <=> Above(r)
  <2>1. (s >= Bar) = Above(r)
    BY <1>1, <1>4
  <2>2. a = [r EXCEPT !.latch = Side(Above(r)), !.streak = 0]
    BY <2>1 DEF AdvanceLatch
  <2>4. /\ a \in Rows /\ a.score = r.score /\ a.grades = r.grades /\ a.last = r.last
        /\ a.latch = Side(Above(r)) /\ a.streak = 0
    BY <1>2, <1>3, <2>2, <1>r
  <2> QED
    BY <1>4, <2>4
<1>5. CASE ~(s >= Bar <=> Above(r)) /\ (s < Bar - Band \/ r.streak + 1 >= Confirm)
  <2>1. (s >= Bar) # Above(r) /\ (s >= Bar) = ~Above(r)
    BY <1>1, <1>5
  <2>2. a = [r EXCEPT !.latch = Side(s >= Bar), !.streak = 0]
    BY <1>5, <2>1 DEF AdvanceLatch
  <2>3. a = [r EXCEPT !.latch = Side(~Above(r)), !.streak = 0]
    BY <2>1, <2>2 DEF Side
  <2>4. /\ a \in Rows /\ a.score = r.score /\ a.grades = r.grades /\ a.last = r.last
        /\ a.latch = Side(~Above(r)) /\ a.streak = 0
    BY <1>2, <1>3, <2>3, <1>r
  <2> QED
    BY <1>5, <2>4
<1>6. CASE ~(s >= Bar <=> Above(r)) /\ ~(s < Bar - Band \/ r.streak + 1 >= Confirm)
  <2>1. (s >= Bar) # Above(r)
    BY <1>1, <1>6
  <2>2. a = [r EXCEPT !.latch = Side(Above(r)), !.streak = r.streak + 1]
    BY <1>6, <2>1 DEF AdvanceLatch
  <2>3. r.streak + 1 \in Streaks
    BY <1>2, <1>6 DEF Streaks
  <2>4. /\ a \in Rows /\ a.score = r.score /\ a.grades = r.grades /\ a.last = r.last
        /\ a.latch = Side(Above(r)) /\ a.streak = r.streak + 1
    BY <1>3, <2>3, <2>2, <1>r
  <2> QED
    BY <1>6, <2>4
<1> QED
  BY <1>4, <1>5, <1>6

LEMMA LastKept ==
  ASSUME NEW q \in Seq(Scores), NEW n \in Scores, Len(q) <= Confirm, NEW z, z = LastFew(Append(q, n))
  PROVE  /\ z \in Seq(Scores) /\ Len(z) = (IF Len(q) = Confirm THEN Confirm ELSE Len(q) + 1) /\ z[Len(z)] = n
         /\ \A k \in DOMAIN z : k < Len(z) =>
               k + (Len(q) + 1 - Len(z)) \in DOMAIN q /\ z[k] = q[k + (Len(q) + 1 - Len(z))]
<1>1. Confirm \in Nat \ {0} /\ Len(q) \in Nat
  BY CapabilityAssumption
<1> DEFINE b == Append(q, n)
<1>2. b \in Seq(Scores) /\ Len(b) = Len(q) + 1 /\ b[Len(q) + 1] = n /\ \A k \in 1 .. Len(q) : b[k] = q[k]
  OBVIOUS
<1>3. CASE Len(q) = Confirm
  <2>1. z = Tail(b)
    BY <1>1, <1>2, <1>3 DEF LastFew
  <2>2. z \in Seq(Scores) /\ Len(z) = Len(q) /\ \A k \in 1 .. Len(q) : z[k] = b[k + 1]
    BY <1>1, <1>2, <1>3, <2>1
  <2>3. DOMAIN z = 1 .. Len(q) /\ DOMAIN q = 1 .. Len(q)
    BY <2>2
  <2>4. ASSUME NEW k \in 1 .. Len(q), k < Len(q) PROVE k + 1 \in 1 .. Len(q) /\ z[k] = q[k + 1]
    BY <1>1, <1>2, <2>2, <2>4
  <2>5. z[Len(q)] = n
    BY <1>1, <1>2, <1>3, <2>2
  <2> HIDE DEF b
  <2> QED
    BY <1>1, <1>3, <2>2, <2>3, <2>4, <2>5
<1>4. CASE Len(q) < Confirm
  <2>1. z = b
    BY <1>1, <1>2, <1>4 DEF LastFew
  <2> QED
    BY <1>1, <1>2, <1>4, <2>1
<1> QED
  BY <1>1, <1>3, <1>4

\* What update makes of a row whose latch has been advanced.
Regraded(a, n, m, z, u) == u = [a EXCEPT !.score = n, !.grades = m, !.last = z]

LEMMA RowReplaced ==
  ASSUME NEW a \in Rows, NEW n \in Scores, NEW m \in Counts, NEW z \in Seq(Scores),
         NEW u, Regraded(a, n, m, z, u)
  PROVE  /\ u \in Rows /\ u.score = n /\ u.grades = m /\ u.last = z
         /\ u.latch = a.latch /\ u.streak = a.streak
<1>1. u \in Rows
  BY GradeSet DEF Regraded
<1>2. u.score = n /\ u.grades = m /\ u.last = z /\ u.latch = a.latch /\ u.streak = a.streak
  BY DEF Rows, Regraded
<1> QED
  BY <1>1, <1>2

LEMMA RowUpdated ==
  ASSUME NEW r \in Rows, NEW result \in {0, 10000}
  PROVE  Len(r.last) <= Confirm =>
           /\ Blend(r.score, result) \in Scores
           /\ UpdateRow(r, result) \in Rows
           /\ UpdateRow(r, result).score = Blend(r.score, result)
           /\ UpdateRow(r, result).grades = r.grades + 1
           /\ UpdateRow(r, result).last = LastFew(Append(r.last, Blend(r.score, result)))
           /\ UpdateRow(r, result).latch = AdvanceLatch(r, Blend(r.score, result)).latch
           /\ UpdateRow(r, result).streak = AdvanceLatch(r, Blend(r.score, result)).streak
<1> DEFINE n == Blend(r.score, result)
           a == AdvanceLatch(r, n)
           z == LastFew(Append(r.last, n))
           u == UpdateRow(r, result)
           m == r.grades + 1
<1> HAVE Len(r.last) <= Confirm
<1>1. r.score \in Scores /\ r.grades \in Nat /\ r.last \in Seq(Scores)
  BY RowFields
<1>2. n \in Scores
  BY <1>1, BlendInRange
<1>3. a = AdvanceLatch(r, n) /\ z = LastFew(Append(r.last, n))
  OBVIOUS
<1>4. u = [a EXCEPT !.score = n, !.grades = @ + 1, !.last = LastFew(Append(@, n))]
  BY DEF UpdateRow
<1> HIDE DEF n, a, z, u
<1>5. a \in Rows /\ a.grades = r.grades /\ a.last = r.last
  BY <1>2, <1>3, LatchMoves
<1>6. z \in Seq(Scores) /\ m \in Counts
  BY <1>1, <1>2, <1>3, LastKept DEF Counts
<1>7. u = [a EXCEPT !.score = n, !.grades = a.grades + 1, !.last = LastFew(Append(a.last, n))]
  BY <1>4
<1>8. Regraded(a, n, m, z, u)
  BY <1>3, <1>5, <1>7 DEF Regraded
<1> HIDE DEF m
<1>9. /\ u \in Rows /\ u.score = n /\ u.grades = m /\ u.last = z
      /\ u.latch = a.latch /\ u.streak = a.streak
  BY <1>2, <1>5, <1>6, <1>8, RowReplaced
<1> QED
  BY <1>2, <1>9 DEF n, a, z, u, m

\* The last t scores are on the other side, and the one before them is not.
Trail(q, t, above) ==
    \A k \in DOMAIN q : /\ k > Len(q) - t => (q[k] >= Bar <=> ~above)
                        /\ k = Len(q) - t => (q[k] >= Bar <=> above)

LEMMA TrailGrows ==
  ASSUME NEW q \in Seq(Scores), NEW n \in Scores, Len(q) <= Confirm, NEW t \in Nat, t <= Len(q), t < Confirm,
         NEW above \in BOOLEAN, Trail(q, t, above)
  PROVE  LET z == LastFew(Append(q, n)) IN
         /\ z \in Seq(Scores) /\ Len(z) <= Confirm /\ t + 1 <= Len(z)
         /\ (n >= Bar <=> above) => Trail(z, 0, above) /\ ~(Len(z) = Confirm /\ Beyond(z, above))
         /\ ~(n >= Bar <=> above) => Trail(z, 0, ~above)
         /\ ~(n >= Bar <=> above) /\ t + 1 >= Confirm => Len(z) = Confirm /\ Beyond(z, above)
         /\ ~(n >= Bar <=> above) /\ ~(t + 1 >= Confirm) =>
               Trail(z, t + 1, above) /\ ~(Len(z) = Confirm /\ Beyond(z, above))
<1> DEFINE z == LastFew(Append(q, n))
           Other(x) == x >= Bar <=> ~above
<1>1. /\ z \in Seq(Scores) /\ Len(z) = (IF Len(q) = Confirm THEN Confirm ELSE Len(q) + 1) /\ z[Len(z)] = n
      /\ \A k \in DOMAIN z : k < Len(z) =>
            k + (Len(q) + 1 - Len(z)) \in DOMAIN q /\ z[k] = q[k + (Len(q) + 1 - Len(z))]
  BY LastKept
<1>2. /\ \A k \in Int : k \in DOMAIN z <=> 1 <= k /\ k <= Len(z)
      /\ \A k \in Int : k \in DOMAIN q <=> 1 <= k /\ k <= Len(q)
      /\ \A k \in DOMAIN z : k \in Int
  BY <1>1
<1>a. Len(q) \in Nat /\ Confirm \in Nat /\ Confirm > 0 /\ Len(z) \in Nat /\ Len(q) <= Confirm
  BY <1>1, CapabilityAssumption
<1>b. Len(z) = (IF Len(q) = Confirm THEN Confirm ELSE Len(q) + 1)
  BY <1>1
<1>c. Len(z) <= Confirm /\ t + 1 <= Len(z)
  BY <1>a, <1>b
<1>d. Len(z) \in DOMAIN z
  BY <1>a, <1>c, <1>2
<1>3. /\ \A x \in Scores : (x >= Bar <=> above) <=> ~Other(x)
      /\ \A k \in DOMAIN q : q[k] \in Scores
      /\ \A k \in DOMAIN z : z[k] \in Scores
  <2>1. \A x \in Scores : (x >= Bar) \in BOOLEAN
    BY DEF Scores, Bar
  <2> QED
    BY <1>1, <2>1
<1>4. /\ \A k \in DOMAIN q : k > Len(q) - t => Other(q[k])
      /\ \A k \in DOMAIN q : k = Len(q) - t => ~Other(q[k])
  BY <1>3 DEF Trail
<1>5. (\A k \in DOMAIN z : Other(z[k])) <=> Beyond(z, above)
  BY DEF Beyond
<1>6. ASSUME NEW s \in Nat, \A k \in DOMAIN z : k > Len(z) - s => Other(z[k]),
             \A k \in DOMAIN z : k = Len(z) - s => ~Other(z[k])
      PROVE  Trail(z, s, above)
  BY <1>3, <1>6 DEF Trail
<1>7. (\A k \in DOMAIN z : k = Len(z) => Other(z[k])) => Trail(z, 0, ~above)
  BY <1>2, <1>3 DEF Trail
<1> HIDE DEF z, Other
<1>8. Len(z) <= Confirm /\ t + 1 <= Len(z) /\ Len(z) \in DOMAIN z
  BY <1>c, <1>d
<1>f. PICK j \in Nat : j = Len(q) + 1 - Len(z)
  BY <1>a, <1>b
<1>9. \A k \in DOMAIN z : k < Len(z) => k + j \in DOMAIN q /\ z[k] = q[k + j]
  BY <1>1, <1>f
<1>e. ASSUME Other(n)
      PROVE  /\ \A k \in DOMAIN z : k > Len(z) - (t + 1) => Other(z[k])
             /\ \A k \in DOMAIN z : k = Len(z) - (t + 1) => ~Other(z[k])
  <2>1. \A k \in DOMAIN z : k \in Int /\ 1 <= k /\ k <= Len(z)
    BY <1>2
  <2>2. \A k \in DOMAIN z : k = Len(z) => Other(z[k])
    BY <1>1, <1>e
  <2>3. ASSUME NEW k \in DOMAIN z, k < Len(z), k > Len(z) - (t + 1) PROVE Other(z[k])
    <3>1. k + j > Len(q) - t
      BY <1>9, <1>a, <1>f, <2>1, <2>3
    <3> QED
      BY <1>4, <1>9, <2>3, <3>1
  <2>4. ASSUME NEW k \in DOMAIN z, k = Len(z) - (t + 1) PROVE ~Other(z[k])
    <3>1. k < Len(z) /\ k + j = Len(q) - t
      BY <1>9, <1>a, <1>f, <2>1, <2>4
    <3> QED
      BY <1>4, <1>9, <2>4, <3>1
  <2> QED
    BY <1>a, <2>1, <2>2, <2>3, <2>4
<1>10. CASE ~Other(n)
  <2>1. Trail(z, 0, above)
    BY <1>1, <1>2, <1>a, <1>6, <1>8, <1>10
  <2>2. ~Beyond(z, above)
    BY <1>1, <1>5, <1>8, <1>10
  <2> QED
    BY <1>1, <1>3, <1>8, <1>10, <2>1, <2>2 DEF z
<1>11. CASE Other(n) /\ t + 1 >= Confirm
  <2>1. t = Confirm - 1 /\ Len(z) = Confirm
    BY <1>a, <1>b, <1>8, <1>11
  <2>2. \A k \in DOMAIN z : Other(z[k])
    BY <1>2, <1>a, <1>e, <1>11, <2>1
  <2> QED
    BY <1>1, <1>3, <1>5, <1>7, <1>8, <1>11, <2>1, <2>2 DEF z
<1>12. CASE Other(n) /\ ~(t + 1 >= Confirm)
  <2>1. \A k \in DOMAIN z : k > Len(z) - (t + 1) => Other(z[k])
    BY <1>e, <1>12
  <2>2. \A k \in DOMAIN z : k = Len(z) - (t + 1) => ~Other(z[k])
    BY <1>e, <1>12
  <2>3. Trail(z, t + 1, above)
    BY <1>6, <2>1, <2>2
  <2>4. Len(z) = Confirm => ~Beyond(z, above)
    BY <1>2, <1>a, <1>5, <1>8, <1>12, <2>2
  <2>5. Trail(z, 0, ~above)
    BY <1>1, <1>7, <1>12
  <2> QED
    BY <1>1, <1>3, <1>8, <1>12, <2>3, <2>4, <2>5 DEF z
<1> QED
  BY <1>10, <1>11, <1>12


\* The row crosses the bar, or comes back.
Flips(old, new) ==
    \/ Len(new.last) = Confirm /\ Beyond(new.last, Above(old))
    \/ Above(old) /\ new.score < Bar - Band

LEMMA LatchedSide ==
  ASSUME NEW u \in Rows, NEW above \in BOOLEAN
  PROVE  /\ Above(u) \in BOOLEAN
         /\ u.latch = Side(above) => u.latch # "none" /\ (Above(u) <=> above)
         /\ u.latch = Side(~above) => u.latch # "none" /\ (Above(u) <=> ~above)
BY AboveIsTruth DEF Side, Above

LEMMA RowIsTrail ==
  ASSUME NEW r, NEW above \in BOOLEAN, above <=> Above(r)
  PROVE  RowSound(r) <=> /\ r \in Rows /\ Len(r.last) <= Confirm /\ r.streak <= Len(r.last)
                         /\ r.latch = "none" => r.last = <<>>
                         /\ Trail(r.last, r.streak, above)
BY DEF RowSound, Trail

LEMMA RowGraded ==
  ASSUME NEW r, RowSound(r), NEW result \in {0, 10000}
  PROVE  LET u == UpdateRow(r, result) IN
         /\ RowSound(u) /\ u.grades = r.grades + 1
         /\ ~(Above(u) <=> Above(r)) <=> Flips(r, u)
<1> DEFINE u == UpdateRow(r, result)
           n == Blend(r.score, result)
           z == LastFew(Append(r.last, n))
           a == AdvanceLatch(r, n)
           above == Above(r)
<1>1. r \in Rows /\ Len(r.last) <= Confirm /\ r.streak <= Len(r.last)
  BY DEF RowSound
<1>2. r.last \in Seq(Scores) /\ r.streak \in Nat /\ r.streak < Confirm /\ above \in BOOLEAN
  BY <1>1, RowFields, AboveIsTruth, CapabilityAssumption DEF Streaks
<1>3. Trail(r.last, r.streak, above)
  BY <1>2, RowIsTrail
<1>4. /\ n \in Scores /\ u \in Rows /\ u.score = n /\ u.grades = r.grades + 1 /\ u.last = z
      /\ u.latch = a.latch /\ u.streak = a.streak
  BY <1>1, RowUpdated
<1>5. /\ z \in Seq(Scores) /\ Len(z) <= Confirm /\ r.streak + 1 <= Len(z)
      /\ (n >= Bar <=> above) => Trail(z, 0, above) /\ ~(Len(z) = Confirm /\ Beyond(z, above))
      /\ ~(n >= Bar <=> above) => Trail(z, 0, ~above)
      /\ ~(n >= Bar <=> above) /\ r.streak + 1 >= Confirm => Len(z) = Confirm /\ Beyond(z, above)
      /\ ~(n >= Bar <=> above) /\ ~(r.streak + 1 >= Confirm) =>
            Trail(z, r.streak + 1, above) /\ ~(Len(z) = Confirm /\ Beyond(z, above))
  BY <1>1, <1>2, <1>3, <1>4, TrailGrows
<1>6. /\ (n >= Bar <=> above) => a.latch = Side(above) /\ a.streak = 0
      /\ ~(n >= Bar <=> above) /\ (n < Bar - Band \/ r.streak + 1 >= Confirm) =>
            a.latch = Side(~above) /\ a.streak = 0
      /\ ~(n >= Bar <=> above) /\ ~(n < Bar - Band \/ r.streak + 1 >= Confirm) =>
            a.latch = Side(above) /\ a.streak = r.streak + 1
  BY <1>1, <1>4, LatchMoves
<1>7. Flips(r, u) <=> (Len(z) = Confirm /\ Beyond(z, above)) \/ (above /\ n < Bar - Band)
  BY <1>4 DEF Flips
<1>8. \A x \in Scores : x < Bar - Band => ~(x >= Bar)
  BY DEF Bar, Band, Scores
<1>9. Len(z) \in Nat /\ 0 <= Len(z)
  BY <1>5
<1> HIDE DEF u, n, z, a, above
<1>10. ASSUME NEW other \in BOOLEAN, u.latch = Side(other), Trail(z, u.streak, other), u.streak <= Len(z)
       PROVE  RowSound(u) /\ (Above(u) <=> other)
  BY <1>4, <1>5, <1>10, LatchedSide, RowIsTrail
<1>11. CASE n >= Bar <=> above
  BY <1>2, <1>4, <1>5, <1>6, <1>7, <1>8, <1>9, <1>10, <1>11 DEF above, u
<1>12. CASE ~(n >= Bar <=> above) /\ (n < Bar - Band \/ r.streak + 1 >= Confirm)
  <2>1. u.latch = Side(~above) /\ u.streak = 0 /\ Trail(z, 0, ~above)
    BY <1>4, <1>5, <1>6, <1>12
  <2>2. RowSound(u) /\ (Above(u) <=> ~above)
    <3>1. (Above(u) <=> ~above) /\ u.latch # "none"
      BY <1>2, <1>4, <2>1, LatchedSide
    <3>2. Trail(z, u.streak, Above(u))
      BY <2>1, <3>1 DEF Trail
    <3>3. RowSound(u)
      BY <1>4, <1>5, <1>9, <2>1, <3>1, <3>2 DEF RowSound, Trail
    <3> QED
      BY <3>1, <3>3
  <2>3. n < Bar - Band => above
    BY <1>4, <1>8, <1>12
  <2>4. Flips(r, u)
    BY <1>5, <1>7, <1>12, <2>3
  <2> QED
    BY <1>2, <1>4, <2>2, <2>4 DEF above, u
<1>13. CASE ~(n >= Bar <=> above) /\ ~(n < Bar - Band \/ r.streak + 1 >= Confirm)
  BY <1>2, <1>4, <1>5, <1>6, <1>7, <1>8, <1>9, <1>10, <1>13 DEF above, u
<1> QED
  BY <1>11, <1>12, <1>13


Pairs == Domains \X Providers
DocSound(doc) == doc \in Documents /\ \A x \in Pairs : RowSound(doc[x])
Grades(f, x) == IF f = Missing THEN 0 ELSE f[x].grades

LEMMA FreshSound == DocSound(FreshMap) /\ \A x \in Pairs : FreshMap[x].grades = 0
<1>1. FreshRow \in Rows /\ RowSound(FreshRow) /\ FreshRow.grades = 0
  BY CapabilityAssumption DEF FreshRow, Rows, RowSound, Latches, Neutral
<1> QED
  BY <1>1 DEF DocSound, FreshMap, Documents, Pairs

LEMMA RowScored ==
  ASSUME NEW r, RowSound(r), NEW n \in Scores, NEW u, u = [r EXCEPT !.score = n]
  PROVE  RowSound(u) /\ u \in Rows /\ u.grades = r.grades
<1>1. r \in Rows
  BY DEF RowSound
<1>2. /\ u.score = n /\ u.grades = r.grades /\ u.latch = r.latch /\ u.streak = r.streak /\ u.last = r.last
  BY <1>1 DEF Rows
<1>3. u = [score |-> n, grades |-> r.grades, latch |-> r.latch, streak |-> r.streak, last |-> r.last]
  BY <1>1 DEF Rows
<1>4. u \in Rows
  <2>1. r.grades \in Counts /\ r.latch \in Latches /\ r.streak \in Streaks /\ r.last \in Seq(Scores)
    BY <1>1, RowFields DEF Counts
  <2>2. u \in RowsOver(Scores, Counts, Latches, Streaks, Seq(Scores))
    BY <1>3, <2>1 DEF RowsOver
  <2> QED
    BY <2>2, AllRows
<1>5. r.latch # "none" => (Above(u) <=> Above(r))
  BY <1>2 DEF Above
<1>6. r.latch = "none" => DOMAIN r.last = {}
  BY DEF RowSound
<1> QED
  BY <1>2, <1>4, <1>5, <1>6 DEF RowSound

LEMMA DocLoaded ==
  ASSUME NEW f, f = Missing \/ DocSound(f)
  PROVE  DocSound(Load(f)) /\ \A x \in Pairs : Load(f)[x].grades = Grades(f, x)
<1>1. CASE f = Missing
  BY <1>1, FreshSound DEF Load, Grades
<1>2. CASE f # Missing
  <2>1. DocSound(f) /\ Load(f) = [x \in Pairs |-> IF x \in DOMAIN Intel THEN [f[x] EXCEPT !.score = Intel[x]] ELSE f[x]]
    BY <1>2 DEF Load, LoadResearchFindings, Pairs
  <2>2. ASSUME NEW x \in Pairs
        PROVE  /\ Load(f)[x] \in Rows /\ RowSound(Load(f)[x]) /\ Load(f)[x].grades = f[x].grades
    <3>1. CASE x \in DOMAIN Intel
      <4>1. Intel[x] \in Scores
        BY <3>1, CapabilityAssumption DEF Scores
      <4>2. Load(f)[x] = [f[x] EXCEPT !.score = Intel[x]]
        BY <2>1, <2>2, <3>1
      <4> QED
        BY <2>1, <2>2, <4>1, <4>2, RowScored DEF DocSound
    <3>2. CASE x \notin DOMAIN Intel
      BY <2>1, <2>2, <3>2 DEF DocSound, RowSound
    <3> QED
      BY <3>1, <3>2
  <2>3. Load(f) \in Documents
    BY <2>1, <2>2 DEF Documents, Pairs
  <2> QED
    BY <1>2, <2>2, <2>3 DEF DocSound, Grades
<1> QED
  BY <1>1, <1>2

LEMMA DocUpdated ==
  ASSUME NEW doc, DocSound(doc), NEW x, NEW result \in {0, 10000}
  PROVE  /\ DocSound(Update(doc, x, result))
         /\ \A y \in Pairs : IF y = x THEN Update(doc, x, result)[y] = UpdateRow(doc[y], result)
                             ELSE Update(doc, x, result)[y] = doc[y]
<1>1. doc \in [Pairs -> Rows]
  BY DEF DocSound, Documents, Pairs
<1>2. Update(doc, x, result) = [doc EXCEPT ![x] = UpdateRow(doc[x], result)]
  BY DEF Update
<1>3. DOMAIN Update(doc, x, result) = Pairs
  BY <1>1, <1>2
<1>4. \A y \in Pairs : IF y = x THEN Update(doc, x, result)[y] = UpdateRow(doc[y], result)
                       ELSE Update(doc, x, result)[y] = doc[y]
  BY <1>1, <1>2
<1>5. ASSUME NEW y \in Pairs PROVE RowSound(Update(doc, x, result)[y]) /\ Update(doc, x, result)[y] \in Rows
  BY <1>4, RowGraded DEF DocSound, RowSound
<1>7. Update(doc, x, result) \in Documents
  <2>1. Documents = [Pairs -> Rows]
    BY DEF Documents, Pairs
  <2>2. CASE x \in Pairs
    <3>1. PICK v \in Rows : v = UpdateRow(doc[x], result)
      BY <1>4, <1>5, <2>2
    <3>2. Update(doc, x, result) = [doc EXCEPT ![x] = v]
      BY <1>2, <3>1
    <3> QED
      BY <1>1, <2>1, <2>2, <3>2
  <2>3. CASE x \notin Pairs
    <3>1. Update(doc, x, result) = doc
      BY <1>1, <1>2, <2>3
    <3> QED
      BY <1>1, <2>1, <3>1
  <2> QED
    BY <2>2, <2>3
<1> QED
  BY <1>4, <1>5, <1>7 DEF DocSound

\* The gradings of a grader that are under way.
Busy(i) == {g \in Tasks : GraderOf(g) = i /\ task[g] # NoTask}

LearningTypeOK ==
    /\ copy \in [Graders -> Documents \cup {NoMap}] /\ \A i \in Graders : copy[i] = NoMap \/ DocSound(copy[i])
    /\ file \in Documents \cup {Missing, Torn} /\ (file \in Documents => DocSound(file))
    /\ task = [g \in Tasks |-> task[g]] /\ inflight \in [Graders -> Int]

\* Who grades has a map; the gradings under way are finitely many, however many there could be.
LearningInv ==
    /\ LearningTypeOK
    /\ \A g \in Tasks : task[g] # NoTask => copy[GraderOf(g)] # NoMap
    /\ \A i \in {"swarm", "shadow"} : IsFiniteSet(Busy(i))
    /\ GradesKept /\ InflightExact

LEMMA GraderNames ==
  /\ \A g \in Tasks : GraderOf(g) \in Graders
  /\ \A g \in Slots : g \in Tasks /\ GraderOf(g) = "swarm" /\ g \notin Judged
  /\ \A g \in Judged : g \in Tasks /\ GraderOf(g) = "council"
  /\ "shadow" \in Tasks /\ GraderOf("shadow") = "shadow"
  /\ \A g \in Tasks : GraderOf(g) = "shadow" => g = "shadow"
<1>1. \A g \in Slots : g \notin {"shadow", "skeptic", "advocate"}
  BY LearningAssumption
<1> QED
  BY <1>1 DEF GraderOf, Tasks, Judged, Graders

LEMMA RecordIsTask == ASSUME NEW x, NEW j PROVE [pair |-> x, judges |-> j] # NoTask
BY DEF NoTask

LEMMA LoadedKeeps ==
  ASSUME LearningInv, NEW i \in Graders, CanLoad(i), NEW c, c = Lazy(i)
  PROVE  /\ DocSound(c) /\ c \in Documents /\ c # NoMap
         /\ copy[i] # NoMap => c = copy[i]
         /\ file # Torn /\ savers \subseteq {i} => \A x \in Pairs : c[x].grades <= Grades(file, x)
<1>1. \A doc : DocSound(doc) => doc \in Documents /\ doc # NoMap
  BY LearningAssumption DEF DocSound
<1>2. Missing \notin Documents
  BY LearningAssumption
<1>3. CASE copy[i] # NoMap
  <2>1. c = copy[i] /\ DocSound(c)
    BY <1>3 DEF Lazy, LearningInv, LearningTypeOK
  <2>2. \A x \in Pairs : file # Torn /\ savers \subseteq {i} => c[x].grades <= Grades(file, x)
    BY <1>3, <2>1 DEF LearningInv, GradesKept, Grades, Pairs
  <2> QED
    BY <1>1, <2>1, <2>2
<1>4. CASE copy[i] = NoMap
  <2>1. file # Torn /\ c = Load(file)
    BY <1>4 DEF CanLoad, Lazy
  <2>2. file = Missing \/ DocSound(file)
    BY <2>1 DEF LearningInv, LearningTypeOK
  <2>3. DocSound(c) /\ \A x \in Pairs : c[x].grades = Grades(file, x)
    BY <2>1, <2>2, DocLoaded
  <2>4. \A x \in Pairs : c[x].grades \in Nat
    BY <2>3, RowFields DEF DocSound, RowSound
  <2> QED
    BY <1>1, <1>4, <2>3, <2>4
<1> QED
  BY <1>3, <1>4


\* What a copy has counted.
LEMMA CopyCounts ==
  ASSUME LearningTypeOK, NEW i \in Graders, copy[i] # NoMap
  PROVE  /\ DocSound(copy[i]) /\ copy[i] \in Documents
         /\ \A x \in Pairs : copy[i][x].grades \in Nat
BY RowFields DEF LearningTypeOK, DocSound, RowSound

LEMMA SidesOfCopies ==
  ASSUME LearningTypeOK, \A i \in Graders : copy[i] # NoMap /\ copy'[i] # NoMap => copy'[i] = copy[i]
  PROVE  SidesStand
<1>1. ASSUME NEW i \in Graders, NEW x \in Pairs, copy[i] # NoMap, copy'[i] # NoMap
      PROVE  ~(copy'[i][x].grades > copy[i][x].grades)
  <2>1. copy[i][x].grades \in Nat /\ copy'[i][x].grades = copy[i][x].grades
    BY <1>1, CopyCounts
  <2> QED
    BY <2>1
<1> QED
  BY <1>1 DEF SidesStand, Pairs

LEMMA BusyCounts ==
  ASSUME LearningInv, NEW i \in {"swarm", "shadow"}
  PROVE  /\ IsFiniteSet(Busy(i)) /\ Cardinality(Busy(i)) \in Nat /\ inflight[i] = Cardinality(Busy(i))
         /\ inflight[i] <= IF i = "swarm" THEN MaxInflight ELSE 1
BY FS_CardinalityType DEF LearningInv, InflightExact, Busy

LEMMA StartKeeps ==
  ASSUME LearningInv, NEW g \in Tasks, NEW i \in {"swarm", "shadow"}, i = GraderOf(g),
         NEW x, NEW judges, StartGrading(g, x, judges), Enter(i),
         inflight[i] < (IF i = "swarm" THEN MaxInflight ELSE 1), UNCHANGED <<file, savers>>
  PROVE  LearningInv' /\ SidesStand
<1>1. LearningTypeOK /\ i \in Graders
  BY DEF LearningInv, Graders
<1>2. PICK c : c = Lazy(i)
  OBVIOUS
<1>3. /\ DocSound(c) /\ c \in Documents /\ c # NoMap /\ (copy[i] # NoMap => c = copy[i])
      /\ file # Torn /\ savers \subseteq {i} => \A y \in Pairs : c[y].grades <= Grades(file, y)
  BY <1>1, <1>2, LoadedKeeps DEF StartGrading
<1>4. /\ copy' = [copy EXCEPT ![i] = c] /\ task' = [task EXCEPT ![g] = [pair |-> x, judges |-> judges]]
      /\ inflight' = [inflight EXCEPT ![i] = @ + 1] /\ task[g] = NoTask
  BY <1>2 DEF StartGrading, Enter
<1>5. /\ copy'[i] = c /\ \A j \in Graders : j # i => copy'[j] = copy[j]
      /\ copy' \in [Graders -> Documents \cup {NoMap}]
  BY <1>1, <1>3, <1>4 DEF LearningTypeOK
<1>6. /\ task' = [h \in Tasks |-> task'[h]] /\ task'[g] # NoTask
      /\ \A h \in Tasks : h # g => task'[h] = task[h]
  <2>1. task = [h \in Tasks |-> task[h]]
    BY <1>1 DEF LearningTypeOK
  <2>2. PICK t : t = [pair |-> x, judges |-> judges] /\ t # NoTask
    BY RecordIsTask
  <2>3. task' = [task EXCEPT ![g] = t]
    BY <1>4, <2>2
  <2> QED
    BY <2>1, <2>2, <2>3
<1>7. /\ inflight' \in [Graders -> Int] /\ inflight'[i] = inflight[i] + 1
      /\ \A j \in Graders : j # i => inflight'[j] = inflight[j]
  BY <1>1, <1>4 DEF LearningTypeOK
<1>8. LearningTypeOK'
  BY <1>1, <1>3, <1>5, <1>6, <1>7 DEF LearningTypeOK
<1>9. \A h \in Tasks : task'[h] # NoTask => copy'[GraderOf(h)] # NoMap
  BY <1>3, <1>5, <1>6, GraderNames DEF LearningInv
<1>10. \A j \in {"swarm", "shadow"} :
          IF j = i THEN Busy(j)' = Busy(j) \cup {g} /\ g \notin Busy(j) ELSE Busy(j)' = Busy(j)
  BY <1>4, <1>6 DEF Busy
<1>11. ASSUME NEW j \in {"swarm", "shadow"}
       PROVE  /\ IsFiniteSet(Busy(j)') /\ inflight'[j] = Cardinality(Busy(j)')
              /\ inflight'[j] <= IF j = "swarm" THEN MaxInflight ELSE 1
  <2>1. j \in Graders
    BY DEF Graders
  <2>2. CASE j = i
    <3>1. IsFiniteSet(Busy(j)') /\ Cardinality(Busy(j)') = Cardinality(Busy(j)) + 1
      BY <1>10, <2>2, BusyCounts, FS_AddElement
    <3>2. inflight[j] \in Nat /\ inflight[j] = Cardinality(Busy(j)) /\ MaxInflight \in Nat
      BY BusyCounts, LearningAssumption
    <3>3. inflight'[j] = Cardinality(Busy(j)')
      BY <1>7, <2>2, <3>1, <3>2
    <3>4. inflight'[j] <= IF j = "swarm" THEN MaxInflight ELSE 1
      BY <1>7, <2>2, <3>2
    <3> QED
      BY <3>1, <3>3, <3>4
  <2>3. CASE j # i
    BY <1>7, <1>10, <2>1, <2>3, BusyCounts
  <2> QED
    BY <2>2, <2>3
<1>12. GradesKept'
  <2>1. ASSUME NEW j \in Graders, file # Torn, copy'[j] # NoMap, savers \subseteq {j}, NEW y \in Pairs
        PROVE  copy'[j][y].grades <= Grades(file, y)
    <3>1. CASE j = i
      BY <1>3, <1>5, <2>1, <3>1
    <3>2. CASE j # i
      BY <1>5, <2>1, <3>2 DEF LearningInv, GradesKept, Grades, Pairs
    <3> QED
      BY <3>1, <3>2
  <2> QED
    BY <2>1 DEF GradesKept, Grades, Pairs
<1>13. InflightExact'
  BY <1>11 DEF InflightExact, Busy
<1>14. SidesStand
  BY <1>1, <1>3, <1>5, SidesOfCopies
<1> QED
  BY <1>8, <1>9, <1>11, <1>12, <1>13, <1>14 DEF LearningInv


LEMMA IdleKeeps ==
  ASSUME LearningInv, UNCHANGED <<file, copy, task, inflight, savers>>
  PROVE  LearningInv' /\ SidesStand
<1>1. LearningInv'
  BY DEF LearningInv, LearningTypeOK, GradesKept, InflightExact, Busy
<1>2. SidesStand
  BY SidesOfCopies DEF LearningInv
<1> QED
  BY <1>1, <1>2

\* A grading is over, with a verdict or without.
Ends(g) == task[g] # NoTask /\ task' = [task EXCEPT ![g] = NoTask] /\ Leave(GraderOf(g))

LEMMA TaskEnded ==
  ASSUME LearningInv, NEW g \in Tasks, Ends(g)
  PROVE  /\ task' = [h \in Tasks |-> task'[h]] /\ task'[g] = NoTask /\ \A h \in Tasks : h # g => task'[h] = task[h]
         /\ inflight' \in [Graders -> Int] /\ InflightExact'
         /\ \A j \in {"swarm", "shadow"} : IsFiniteSet(Busy(j)')
<1>1. task = [h \in Tasks |-> task[h]] /\ inflight \in [Graders -> Int]
  BY DEF LearningInv, LearningTypeOK
<1>2. /\ task' = [h \in Tasks |-> task'[h]] /\ task'[g] = NoTask
      /\ \A h \in Tasks : h # g => task'[h] = task[h]
  BY <1>1 DEF Ends
<1>3. PICK i \in Graders : i = GraderOf(g)
  BY GraderNames
<1>4. /\ inflight' \in [Graders -> Int]
      /\ i # "council" => inflight'[i] = inflight[i] - 1
      /\ \A j \in Graders : j # i \/ i = "council" => inflight'[j] = inflight[j]
  BY <1>1, <1>3 DEF Ends, Leave
<1>5. ASSUME NEW j \in {"swarm", "shadow"}
      PROVE  /\ IsFiniteSet(Busy(j)') /\ inflight'[j] = Cardinality(Busy(j)')
             /\ inflight'[j] <= IF j = "swarm" THEN MaxInflight ELSE 1
  <2>1. j \in Graders /\ j # "council"
    BY DEF Graders
  <2>2. CASE j = i
    <3>1. Busy(j)' = Busy(j) \ {g} /\ g \in Busy(j)
      BY <1>2, <1>3, <2>2 DEF Busy, Ends
    <3>2. IsFiniteSet(Busy(j)') /\ Cardinality(Busy(j)') = Cardinality(Busy(j)) - 1
      <4>1. PICK T : T = Busy(j)
        OBVIOUS
      <4>2. IsFiniteSet(T) /\ g \in T
        BY <3>1, <4>1, BusyCounts
      <4>3. IsFiniteSet(T \ {g}) /\ Cardinality(T \ {g}) = Cardinality(T) - 1
        BY <4>2, FS_RemoveElement
      <4> QED
        BY <3>1, <4>1, <4>3
    <3>3. inflight[j] \in Nat /\ inflight[j] = Cardinality(Busy(j)) /\ MaxInflight \in Nat
      BY BusyCounts, LearningAssumption
    <3>4. inflight'[j] = inflight[j] - 1
      BY <1>4, <2>1, <2>2
    <3>5. inflight[j] <= IF j = "swarm" THEN MaxInflight ELSE 1
      BY BusyCounts
    <3> QED
      BY <3>2, <3>3, <3>4, <3>5
  <2>3. CASE j # i
    <3>1. Busy(j)' = Busy(j)
      BY <1>2, <1>3, <2>3 DEF Busy
    <3> QED
      BY <1>4, <2>1, <2>3, <3>1, BusyCounts
  <2> QED
    BY <2>2, <2>3
<1> QED
  BY <1>2, <1>4, <1>5 DEF InflightExact, Busy

LEMMA VerdictKeeps ==
  ASSUME LearningInv, NEW g \in Tasks, NEW result \in {0, 10000}, Verdict(g, result)
  PROVE  LearningInv' /\ SidesStand
<1>1. PICK i \in Graders : i = GraderOf(g)
  BY GraderNames
<1>2. /\ task[g] # NoTask /\ copy' = [copy EXCEPT ![i] = Update(@, task[g].pair, result)]
      /\ (file' = copy'[i] /\ savers' = savers \cup {i}) \/ (file' = Torn /\ UNCHANGED savers)
      /\ Ends(g)
  BY <1>1 DEF Verdict, Save, Ends
<1>3. LearningTypeOK /\ copy[i] # NoMap
  BY <1>1, <1>2 DEF LearningInv
<1>4. PICK x : x = task[g].pair
  OBVIOUS
<1>5. PICK doc : doc = Update(copy[i], x, result)
  OBVIOUS
<1>6. /\ DocSound(doc) /\ doc \in Documents /\ doc # NoMap /\ doc # Torn
      /\ \A y \in Pairs : IF y = x THEN doc[y] = UpdateRow(copy[i][y], result) ELSE doc[y] = copy[i][y]
  <2>1. DocSound(copy[i])
    BY <1>3, CopyCounts
  <2> QED
    BY <1>5, <2>1, DocUpdated, LearningAssumption DEF DocSound
<1>7. copy' = [copy EXCEPT ![i] = doc]
  BY <1>2, <1>4, <1>5
<1>8. /\ copy'[i] = doc /\ \A j \in Graders : j # i => copy'[j] = copy[j]
      /\ copy' \in [Graders -> Documents \cup {NoMap}]
  BY <1>3, <1>6, <1>7 DEF LearningTypeOK
<1>9. /\ task' = [h \in Tasks |-> task'[h]] /\ task'[g] = NoTask /\ \A h \in Tasks : h # g => task'[h] = task[h]
      /\ inflight' \in [Graders -> Int] /\ InflightExact'
      /\ \A j \in {"swarm", "shadow"} : IsFiniteSet(Busy(j)')
  BY <1>2, TaskEnded
<1>10. LearningTypeOK'
  <2>1. file' \in Documents \cup {Missing, Torn} /\ (file' \in Documents => DocSound(file'))
    BY <1>2, <1>6, <1>8, LearningAssumption
  <2>2. \A j \in Graders : copy'[j] = NoMap \/ DocSound(copy'[j])
    BY <1>3, <1>6, <1>8 DEF LearningTypeOK
  <2> QED
    BY <1>8, <1>9, <2>1, <2>2 DEF LearningTypeOK, DocSound
<1>11. \A h \in Tasks : task'[h] # NoTask => copy'[GraderOf(h)] # NoMap
  BY <1>6, <1>8, <1>9, GraderNames DEF LearningInv
<1>12. GradesKept'
  <2>1. ASSUME NEW j \in Graders, file' # Torn, copy'[j] # NoMap, savers' \subseteq {j}, NEW y \in Pairs
        PROVE  copy'[j][y].grades <= Grades(file, y)'
    <3>1. file' = doc /\ j = i
      BY <1>2, <1>8, <2>1
    <3>2. doc # Missing /\ doc[y].grades \in Nat
      BY <1>6, RowFields, LearningAssumption DEF DocSound, RowSound
    <3> QED
      BY <1>8, <3>1, <3>2 DEF Grades
  <2> QED
    BY <2>1 DEF GradesKept, Grades, Pairs
<1>13. SidesStand
  <2>1. ASSUME NEW j \in Graders, NEW y \in Pairs, copy[j] # NoMap, copy'[j] # NoMap,
               copy'[j][y].grades > copy[j][y].grades
        PROVE  Above(copy'[j][y]) # Above(copy[j][y]) <=> Flips(copy[j][y], copy'[j][y])
    <3>1. copy[j][y].grades \in Nat /\ RowSound(copy[j][y]) /\ DocSound(copy'[j])
      BY <1>3, <1>6, <1>8, <2>1, CopyCounts DEF DocSound
    <3>2. j = i /\ y = x
      BY <1>6, <1>8, <2>1, <3>1
    <3>3. copy'[j][y] = UpdateRow(copy[j][y], result)
      BY <1>6, <1>8, <3>2
    <3>4. ~(Above(copy'[j][y]) <=> Above(copy[j][y])) <=> Flips(copy[j][y], copy'[j][y])
      BY <3>1, <3>3, RowGraded
    <3>5. Above(copy'[j][y]) \in BOOLEAN /\ Above(copy[j][y]) \in BOOLEAN
      BY <3>1, AboveIsTruth DEF DocSound, RowSound
    <3> QED
      BY <3>4, <3>5
  <2> QED
    BY <2>1 DEF SidesStand, Pairs, Flips
<1> QED
  BY <1>9, <1>10, <1>11, <1>12, <1>13 DEF LearningInv

LEMMA JudgeFailsKeeps ==
  ASSUME LearningInv, NEW g \in Tasks, JudgeFails(g)
  PROVE  LearningInv' /\ SidesStand
<1>1. UNCHANGED <<file, copy, savers>> /\ task[g] # NoTask
  BY DEF JudgeFails
<1>2. SidesStand
  BY <1>1, SidesOfCopies DEF LearningInv
<1>3. LearningTypeOK
  BY DEF LearningInv
<1>4. CASE g \in Judged /\ Len(task[g].judges) > 1
  <2>1. task' = [task EXCEPT ![g].judges = Tail(@)] /\ UNCHANGED inflight
    BY <1>4 DEF JudgeFails
  <2>2. task' = [h \in Tasks |-> task'[h]] /\ \A h \in Tasks : h # g => task'[h] = task[h]
    BY <1>3, <2>1 DEF LearningTypeOK
  <2>3. GraderOf(g) = "council"
    BY <1>4, GraderNames
  <2>4. \A j \in {"swarm", "shadow"} : Busy(j)' = Busy(j)
    BY <2>2, <2>3 DEF Busy
  <2>5. \A h \in Tasks : task'[h] # NoTask => copy'[GraderOf(h)] # NoMap
    BY <1>1, <2>2 DEF LearningInv
  <2>6. LearningTypeOK' /\ GradesKept'
    BY <1>1, <2>1, <2>2 DEF LearningInv, LearningTypeOK, GradesKept
  <2>7. InflightExact'
    BY <2>1, <2>4 DEF LearningInv, InflightExact, Busy
  <2> QED
    BY <1>2, <2>4, <2>5, <2>6, <2>7 DEF LearningInv
<1>5. CASE ~(g \in Judged /\ Len(task[g].judges) > 1)
  <2>1. Ends(g)
    BY <1>5 DEF JudgeFails, Ends
  <2>2. /\ task' = [h \in Tasks |-> task'[h]] /\ task'[g] = NoTask /\ \A h \in Tasks : h # g => task'[h] = task[h]
        /\ inflight' \in [Graders -> Int] /\ InflightExact'
        /\ \A j \in {"swarm", "shadow"} : IsFiniteSet(Busy(j)')
    BY <1>1, <2>1, TaskEnded
  <2>3. \A h \in Tasks : task'[h] # NoTask => copy'[GraderOf(h)] # NoMap
    BY <1>1, <2>2 DEF LearningInv
  <2>4. LearningTypeOK' /\ GradesKept'
    BY <1>1, <2>2 DEF LearningInv, LearningTypeOK, GradesKept
  <2> QED
    BY <1>2, <2>2, <2>3, <2>4 DEF LearningInv
<1> QED
  BY <1>4, <1>5


LEMMA DeliberateKeeps == ASSUME LearningInv, Deliberate PROVE LearningInv' /\ SidesStand
<1>1. UNCHANGED <<file, inflight, savers>> /\ LearningTypeOK /\ "council" \in Graders
  BY DEF Deliberate, LearningInv, Graders
<1>2. CASE UNCHANGED <<copy, task>>
  BY <1>1, <1>2, IdleKeeps
<1>3. CASE ~UNCHANGED <<copy, task>>
  <2>1. PICK answered \in SUBSET Judged :
           /\ CanLoad("council") /\ copy' = [copy EXCEPT !["council"] = Lazy("council")]
           /\ task' = [g \in Tasks |-> IF g \in answered
                THEN [pair |-> <<RoleDomain(g), seats[IF g = Roles[1] THEN 1 ELSE 2]>>, judges |-> Judges]
                ELSE task[g]]
    BY <1>3 DEF Deliberate
  <2>2. PICK c : c = Lazy("council")
    OBVIOUS
  <2>3. /\ DocSound(c) /\ c \in Documents /\ c # NoMap /\ (copy["council"] # NoMap => c = copy["council"])
        /\ file # Torn /\ savers \subseteq {"council"} => \A y \in Pairs : c[y].grades <= Grades(file, y)
    BY <1>1, <2>1, <2>2, LoadedKeeps
  <2>4. /\ copy'["council"] = c /\ \A j \in Graders : j # "council" => copy'[j] = copy[j]
        /\ copy' \in [Graders -> Documents \cup {NoMap}]
    BY <1>1, <2>1, <2>2, <2>3 DEF LearningTypeOK
  <2>5. task' = [h \in Tasks |-> task'[h]] /\ \A h \in Tasks : h \notin answered => task'[h] = task[h]
    BY <2>1
  <2>6. \A h \in answered : h \in Tasks /\ GraderOf(h) = "council"
    BY GraderNames
  <2>7. LearningTypeOK'
    BY <1>1, <2>3, <2>4, <2>5 DEF LearningTypeOK
  <2>8. \A h \in Tasks : task'[h] # NoTask => copy'[GraderOf(h)] # NoMap
    BY <2>3, <2>4, <2>5, <2>6, GraderNames DEF LearningInv
  <2>9. \A j \in {"swarm", "shadow"} : Busy(j)' = Busy(j)
    BY <2>5, <2>6 DEF Busy
  <2>10. InflightExact'
    BY <1>1, <2>9 DEF LearningInv, InflightExact, Busy
  <2>11. GradesKept'
    <3>1. ASSUME NEW j \in Graders, file # Torn, copy'[j] # NoMap, savers \subseteq {j}, NEW y \in Pairs
          PROVE  copy'[j][y].grades <= Grades(file, y)
      <4>1. CASE j = "council"
        BY <2>3, <2>4, <3>1, <4>1
      <4>2. CASE j # "council"
        BY <2>4, <3>1, <4>2 DEF LearningInv, GradesKept, Grades, Pairs
      <4> QED
        BY <4>1, <4>2
    <3> QED
      BY <1>1, <3>1 DEF GradesKept, Grades, Pairs
  <2>12. SidesStand
    BY <1>1, <2>3, <2>4, SidesOfCopies
  <2> QED
    BY <2>7, <2>8, <2>9, <2>10, <2>11, <2>12 DEF LearningInv
<1> QED
  BY <1>2, <1>3

LEMMA KillKeeps == ASSUME LearningInv, Kill PROVE LearningInv' /\ SidesStand
<1>1. /\ copy' = [i \in Graders |-> NoMap] /\ task' = [g \in Tasks |-> NoTask] /\ inflight' = [i \in Graders |-> 0]
      /\ file' = file \/ file' = Torn
  BY DEF Kill
<1>2. LearningTypeOK
  BY DEF LearningInv
<1>3. \A i \in Graders : copy'[i] = NoMap
  BY <1>1
<1>4. LearningTypeOK' /\ SidesStand /\ GradesKept'
  BY <1>1, <1>2, <1>3, LearningAssumption DEF LearningTypeOK, DocSound, SidesStand, GradesKept
<1>5. \A j \in {"swarm", "shadow"} : Busy(j)' = {} /\ inflight'[j] = 0
  BY <1>1 DEF Busy, Graders
<1>6. InflightExact'
  <2>1. Cardinality({}) = 0 /\ MaxInflight \in Nat
    BY FS_EmptySet, LearningAssumption
  <2> QED
    BY <1>5, <2>1 DEF InflightExact, Busy
<1>7. \A j \in {"swarm", "shadow"} : IsFiniteSet(Busy(j)')
  BY <1>5, FS_EmptySet
<1>8. \A h \in Tasks : task'[h] = NoTask
  BY <1>1
<1> QED
  BY <1>4, <1>6, <1>7, <1>8 DEF LearningInv

LEMMA LearningStep == LearningInv /\ [LearningNext]_learningVars => LearningInv' /\ SidesStand
<1> SUFFICES ASSUME LearningInv, [LearningNext]_learningVars PROVE LearningInv' /\ SidesStand
  OBVIOUS
<1>1. CASE BeginRun \/ EndRun \/ Convene \/ UNCHANGED learningVars
  BY <1>1, IdleKeeps DEF BeginRun, EndRun, Convene, learningVars
<1>2. CASE GradeShadow
  <2>1. PICK x, judges :
           /\ StartGrading("shadow", x, judges) /\ Enter("shadow") /\ inflight["shadow"] < 1
           /\ UNCHANGED <<file, savers>>
    BY <1>2 DEF GradeShadow
  <2> QED
    BY <2>1, GraderNames, StartKeeps
<1>3. CASE Deliberate
  BY <1>3, DeliberateKeeps
<1>4. CASE Kill
  BY <1>4, KillKeeps
<1>5. ASSUME NEW g \in Tasks, GradeFinding(g) PROVE LearningInv' /\ SidesStand
  <2>1. PICK x, judges :
           /\ StartGrading(g, x, judges) /\ Enter("swarm") /\ inflight["swarm"] < MaxInflight /\ g \in Slots
           /\ UNCHANGED <<file, savers>>
    BY <1>5 DEF GradeFinding
  <2> QED
    BY <2>1, GraderNames, StartKeeps
<1>6. ASSUME NEW g \in Tasks, JudgeFails(g) PROVE LearningInv' /\ SidesStand
  BY <1>6, JudgeFailsKeeps
<1>7. ASSUME NEW g \in Tasks, NEW result \in {0, 10000}, Verdict(g, result) PROVE LearningInv' /\ SidesStand
  BY <1>7, VerdictKeeps
<1> QED
  BY <1>1, <1>2, <1>3, <1>4, <1>5, <1>6, <1>7 DEF LearningNext

LEMMA LearningBegins == LearningInit => LearningInv
<1> SUFFICES ASSUME LearningInit PROVE LearningInv
  OBVIOUS
<1>1. /\ copy = [i \in Graders |-> NoMap] /\ task = [g \in Tasks |-> NoTask] /\ inflight = [i \in Graders |-> 0]
      /\ file = Missing \/ DocSound(file)
  BY LearningAssumption DEF LearningInit, DocSound, Pairs
<1>2. LearningTypeOK /\ GradesKept
  BY <1>1, LearningAssumption DEF LearningTypeOK, DocSound, GradesKept
<1>3. \A j \in {"swarm", "shadow"} : Busy(j) = {} /\ inflight[j] = 0
  BY <1>1 DEF Busy, Graders
<1>4. InflightExact
  <2>1. Cardinality({}) = 0 /\ MaxInflight \in Nat
    BY FS_EmptySet, LearningAssumption
  <2> QED
    BY <1>3, <2>1 DEF InflightExact, Busy
<1>5. \A j \in {"swarm", "shadow"} : IsFiniteSet(Busy(j))
  BY <1>3, FS_EmptySet
<1>6. \A h \in Tasks : task[h] = NoTask
  BY <1>1
<1> QED
  BY <1>2, <1>4, <1>5, <1>6 DEF LearningInv

\* No verdict is lost while one grader saves; the counters of the gradings under way are exact,
\* so that none that failed blocks a grader; a provider crosses the bar only as its grades say.
THEOREM GradesAreExact == RecordsSpec => GradesExact
<1>1. RecordsInit => LearningInv
  BY LearningBegins DEF RecordsInit
<1>2. ASSUME LearningInv, [RecordsNext]_recordVars
      PROVE  LearningInv' /\ [SidesStand]_learningVars
  <2>1. [LearningNext]_learningVars
    BY <1>2 DEF RecordsNext, recordVars, Still
  <2> QED
    BY <1>2, <2>1, LearningStep
<1>3. LearningInv /\ [RecordsNext]_recordVars => LearningInv'
  BY <1>2
<1>4. LearningInv /\ [RecordsNext]_recordVars => [SidesStand]_learningVars
  BY <1>2
<1>5. LearningInv => GradesKept /\ InflightExact
  BY DEF LearningInv
<1> QED
  BY <1>1, <1>3, <1>4, <1>5, PTL DEF RecordsSpec, GradesExact, FlapGuard
================================================================================
