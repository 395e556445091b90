----------------------------- MODULE CapabilityMap -----------------------------
(***************************************************************************)
(* src/orchestration/capability_map.py: who is good at what.  A document   *)
(* is one CapabilityMap's data, read whole from capability_map.json and    *)
(* written whole to it.  Scores are in ten-thousandths, to which the code  *)
(* rounds them.  No function awaits, so each is one step.                  *)
(***************************************************************************)
EXTENDS Integers, Sequences

CONSTANTS
    Providers, Domains,
    MinSamples,     \* QUALIFY_MIN_SAMPLES
    Confirm,        \* QUALIFY_CONFIRM
    Intel,          \* model_intel.json: a function on some <<domain, provider>>
    Baseline,       \* the pairs config/capability_baseline.json vouches for
    Missing, Torn   \* no file; a file that does not parse

ASSUME CapabilityAssumption ==
    /\ MinSamples \in Nat /\ Confirm \in Nat \ {0}
    /\ DOMAIN Intel \subseteq Domains \X Providers /\ Intel \in [DOMAIN Intel -> 0 .. 10000]
    /\ Missing # Torn
    /\ Baseline \subseteq Domains \X Providers

Neutral == 5000
Bar == 6000         \* QUALIFY_BAR
Band == 1500        \* PROBE_BAND

Latches == {"none", "above", "below"}

\* No row in any table of the document.  `last` is history: the scores the latest grades
\* led to, at most Confirm of them.
FreshRow == [score |-> Neutral, grades |-> 0, latch |-> "none", streak |-> 0, last |-> <<>>]
FreshMap == [x \in Domains \X Providers |-> FreshRow]

\* _latched_above: the live score until there is a latch.
Above(row) == IF row.latch = "none" THEN row.score >= Bar ELSE row.latch = "above"

\* Scores that are all on the other side.
Beyond(scores, above) == \A k \in DOMAIN scores : scores[k] >= Bar <=> ~above

Side(above) == IF above THEN "above" ELSE "below"

\* Mutant: the latch moves with the first score on the other side.
AdvanceLatchEager(row, new) ==
    IF (new >= Bar) = Above(row) THEN [row EXCEPT !.latch = Side(Above(row)), !.streak = 0]
    ELSE [row EXCEPT !.latch = Side(new >= Bar), !.streak = 0]

\* The new score counts for the side it is on; the latch moves when Confirm scores in a
\* row are on the other side, and down at once when the score falls out of the band.
AdvanceLatch(row, new) ==
    LET old == Above(row)
        raw == new >= Bar
        streak == row.streak + 1
    IN  CASE raw = old -> [row EXCEPT !.latch = Side(old), !.streak = 0]
          [] raw # old /\ (new < Bar - Band \/ streak >= Confirm) ->
                 [row EXCEPT !.latch = Side(raw), !.streak = 0]
          [] OTHER -> [row EXCEPT !.latch = Side(old), !.streak = streak]

\* EWMA with ALPHA = 0.2.
Blend(score, result) == (8 * score + 2 * result + 5) \div 10

LastFew(seq) == IF Len(seq) > Confirm THEN Tail(seq) ELSE seq

UpdateRow(row, result) ==
    LET new == Blend(row.score, result)
    IN  [AdvanceLatch(row, new) EXCEPT !.score = new, !.grades = @ + 1,
                                       !.last = LastFew(Append(@, new))]

\* update, alone or through record_grade.
Update(doc, x, result) == [doc EXCEPT ![x] = UpdateRow(@, result)]

EarnedQualified(doc, x) == doc[x].grades >= MinSamples /\ Above(doc[x])

\* qualified: earned, or vouched for by the operator.
Qualified(doc, d) ==
    {p \in Providers : EarnedQualified(doc, <<d, p>>) \/ <<d, p>> \in Baseline}

\* Graded often enough, and close to the bar or waiting for the latch.
ProbeCandidates(doc, d) ==
    {p \in Providers : /\ doc[<<d, p>>].grades >= MinSamples
                       /\ ~EarnedQualified(doc, <<d, p>>)
                       /\ doc[<<d, p>>].score >= Bar - Band}

Rows == [score : 0 .. 10000, grades : Nat, latch : Latches, streak : 0 .. Confirm - 1,
         last : Seq(0 .. 10000)]
Documents == [Domains \X Providers -> Rows]

\* What grading makes of a row: nothing is latched before the first grade; the streak is that
\* of the last scores on the other side of the latch.
RowSound(row) ==
    /\ row \in Rows /\ Len(row.last) <= Confirm /\ row.streak <= Len(row.last)
    /\ row.latch = "none" => row.last = <<>>
    /\ \A k \in DOMAIN row.last :
          /\ k > Len(row.last) - row.streak => (row.last[k] >= Bar <=> ~Above(row))
          /\ k = Len(row.last) - row.streak => (row.last[k] >= Bar <=> Above(row))

\* load_research_findings: benchmark results replace the scores, graded or not.
LoadResearchFindings(doc) ==
    [x \in Domains \X Providers |->
        IF x \in DOMAIN Intel THEN [doc[x] EXCEPT !.score = Intel[x]] ELSE doc[x]]

\* CapabilityMap(): a file that is there is loaded, and the findings with it.  The caller
\* has to see to it that the file parses.
Load(f) == IF f = Missing THEN FreshMap ELSE LoadResearchFindings(f)
================================================================================
