----------------------------- MODULE ResearchCache -----------------------------
(***************************************************************************)
(* Web research and its cache: src/research/research_worker.py (research)  *)
(* and cache_manager.py (ResearchCache), as council_roles.py asks it.      *)
(*                                                                         *)
(* A result is two files in a directory named after the query: the         *)
(* summary, and metadata with the time and the time to live.  They are     *)
(* written one after the other, and a process that dies may leave the      *)
(* second old, or either cut short.  Different queries may share a         *)
(* directory, because every sign that is not a letter, a digit, - or _     *)
(* becomes _ and 80 signs are kept.                                        *)
(***************************************************************************)
EXTENDS Naturals

CONSTANTS
    Queries, Directory(_),      \* the queries, and _sanitize_topic of each
    Ttl,                        \* days that a summary of the scope may be served
    Askers,                     \* tasks that research, in one process or in two
    NoFile, CutFile, Deferred, Failure,
    MaxResearchDays, MaxAsks, MaxDeaths     \* bounds

ASSUME ResearchCacheAssumption == {Ttl, MaxResearchDays, MaxAsks, MaxDeaths} \subseteq Nat

Directories == {Directory(q) : q \in Queries}
NoEntry == [summary |-> NoFile, meta |-> NoFile]

VARIABLES
    cache,          \* the files of each directory
    asker,          \* what each asker researches
    served,         \* what research() returned last, and what the cache held when it did
    researchDay, asks, deaths

researchVars == <<cache, asker, served, researchDay, asks, deaths>>

NotAsking == [query |-> NoFile, step |-> "none"]

ResearchInit ==
    /\ cache = [d \in Directories |-> NoEntry]
    /\ asker = [a \in Askers |-> NotAsking]
    /\ served = [query |-> NoFile, summary |-> NoFile, meta |-> NoFile]
    /\ researchDay = 0 /\ asks = 0 /\ deaths = 0

\* Mutant: the age is not looked at.
ValidForEver(entry) == entry.summary # NoFile

\* get_summary: metadata that is missing, or does not parse, does not limit the age.
Valid(entry) ==
    /\ entry.summary # NoFile
    /\ entry.meta \notin {NoFile, CutFile} => researchDay - entry.meta <= Ttl

\* research(), research_with_context() and research_sync() without a running loop; a
\* refresh does not look at the cache, and inside a running loop research_sync only looks.
Ask(a, q) ==
    /\ asks < MaxAsks /\ asker[a] = NotAsking
    /\ asks' = asks + 1
    /\ \E refresh, running \in BOOLEAN :
          IF Valid(cache[Directory(q)]) /\ ~refresh
          THEN /\ served' = [query |-> q, summary |-> cache[Directory(q)].summary,
                             meta |-> cache[Directory(q)].meta]
               /\ UNCHANGED asker
          ELSE IF running /\ ~refresh
          THEN served' = [query |-> q, summary |-> Deferred, meta |-> NoFile] /\ UNCHANGED asker
          ELSE asker' = [asker EXCEPT ![a] = [query |-> q, step |-> "search"]] /\ UNCHANGED served
    /\ UNCHANGED <<cache, researchDay, deaths>>

\* No search results, or no page that can be fetched: said, and not kept.
NothingFound(a) ==
    /\ asker[a].step = "search"
    /\ served' = [query |-> asker[a].query, summary |-> Failure, meta |-> NoFile]
    /\ asker' = [asker EXCEPT ![a] = NotAsking]
    /\ UNCHANGED <<cache, researchDay, asks, deaths>>

\* The pages become a summary, by the model or pasted together.
Synthesize(a) ==
    /\ asker[a].step = "search"
    /\ asker' = [asker EXCEPT ![a].step = "summary"]
    /\ UNCHANGED <<cache, served, researchDay, asks, deaths>>

Research(a) == [of |-> asker[a].query, made |-> researchDay]

\* save_summary: first the summary ...
SaveSummary(a) ==
    /\ asker[a].step = "summary"
    /\ cache' = [cache EXCEPT ![Directory(asker[a].query)].summary = Research(a)]
    /\ asker' = [asker EXCEPT ![a].step = "metadata"]
    /\ UNCHANGED <<served, researchDay, asks, deaths>>

\* ... then the metadata (and the pages, which nobody reads back); the caller gets what it
\* has just made.  When the directory was removed in between, it gets an exception.
SaveMetadata(a) ==
    /\ asker[a].step = "metadata"
    /\ LET d == Directory(asker[a].query) IN
       IF cache[d] = NoEntry
       THEN /\ served' = [query |-> asker[a].query, summary |-> Failure, meta |-> NoFile]
            /\ UNCHANGED cache
       ELSE /\ cache' = [cache EXCEPT ![d].meta = researchDay]
            /\ served' = [query |-> asker[a].query, summary |-> Research(a), meta |-> researchDay]
    /\ asker' = [asker EXCEPT ![a] = NotAsking]
    /\ UNCHANGED <<researchDay, asks, deaths>>

\* invalidate(): of one topic, or of the scope.
Invalidate(ds) ==
    /\ \E d \in ds : cache[d] # NoEntry
    /\ cache' = [d \in Directories |-> IF d \in ds THEN NoEntry ELSE cache[d]]
    /\ UNCHANGED <<asker, served, researchDay, asks, deaths>>

\* The process of an asker dies, perhaps in a write.
AskerDies(a) ==
    /\ deaths < MaxDeaths /\ asker[a] # NotAsking
    /\ deaths' = deaths + 1
    /\ LET d == Directory(asker[a].query) IN
       \/ UNCHANGED cache
       \/ asker[a].step = "summary" /\ cache' = [cache EXCEPT ![d].summary = CutFile]
       \/ asker[a].step = "metadata" /\ cache[d] # NoEntry /\ cache' = [cache EXCEPT ![d].meta = CutFile]
    /\ asker' = [asker EXCEPT ![a] = NotAsking]
    /\ UNCHANGED <<served, researchDay, asks>>

\* A save is over within the day.
DayPasses ==
    /\ researchDay < MaxResearchDays /\ \A a \in Askers : asker[a].step # "metadata"
    /\ researchDay' = researchDay + 1
    /\ served' = [query |-> NoFile, summary |-> NoFile, meta |-> NoFile]
    /\ UNCHANGED <<cache, asker, asks, deaths>>

ResearchNext ==
    \/ DayPasses
    \/ \E a \in Askers :
          \/ \E q \in Queries : Ask(a, q)
          \/ NothingFound(a) \/ Synthesize(a) \/ SaveSummary(a) \/ SaveMetadata(a) \/ AskerDies(a)
    \/ \E ds \in {{d} : d \in Directories} \cup {Directories} : Invalidate(ds)

--------------------------------------------------------------------------------
\* What is served was researched for a query of the same directory; it is no older than
\* the time to live, whatever deaths, refreshes and invalidations came between its two
\* files (cache_manager.py:105-113 dates a summary only after it is written), unless its
\* metadata is missing or cut short, which get_summary takes as no limit (:81-90), or the
\* summary itself was cut short.
ServedFresh ==
    served.summary \notin {NoFile, CutFile, Deferred, Failure} =>
        /\ Directory(served.summary.of) = Directory(served.query)
        /\ served.meta \notin {NoFile, CutFile} => researchDay - served.summary.made <= Ttl
================================================================================
