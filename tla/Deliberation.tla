------------------------------ MODULE Deliberation -----------------------------
(***************************************************************************)
(* One sitting of the council, after the seats are taken (Learning): the   *)
(* roles answer in parallel, their answers are clamped and grounded, and   *)
(* council_contradictions.py looks for what the chairman has to settle.    *)
(*                                                                         *)
(* An answer is a sequence of lines, and a line is what the scan's         *)
(* patterns find in it: the finding it begins with, the findings it        *)
(* mentions, its verdicts, whether it only talks about verdicts, a topic   *)
(* in place of a finding, a claim, words of a builder (the clamp removes   *)
(* them), a tag that asks for a look-up, the header of a block of them.    *)
(* Two claims are the same when their topics are: the threshold on shared  *)
(* words is that equality.                                                 *)
(***************************************************************************)
EXTENDS Naturals, Sequences, FiniteSets, SequencesExt, FiniteSetsExt, Filters

CONSTANTS
    Labels,         \* the findings under review, blinded
    Topics,         \* of verdicts without a label, and of claims
    Lines,          \* lines a role may write
    Quoted,         \* lines a look-up may quote
    MaxLines,       \* bound: lines of each role's answer
    MaxItems,       \* MAX_CONTRADICTIONS
    NoSubject,
    Unanswered, Unavailable

CouncilRoles == {"advocate", "skeptic", "verifier"}
Verdicts == {"CONFIRM", "DENY", "FLAG"}     \* _norm_verdict

\* A line that says nothing, from which the others are made.
Blank == [head |-> NoSubject, mentions |-> {}, verdicts |-> {}, meta |-> FALSE,
          topic |-> NoSubject, claim |-> NoSubject, denied |-> FALSE, figure |-> 0,
          builder |-> FALSE, tagged |-> FALSE, lookup |-> FALSE]

ASSUME DeliberationAssumption ==
    /\ MaxLines \in [CouncilRoles -> Nat] /\ MaxItems \in Nat
    /\ NoSubject \notin Labels \cup Topics
    /\ \A l \in Lines \cup Quoted :
          DOMAIN l = DOMAIN Blank /\ l.verdicts \subseteq Verdicts /\ IsFiniteSet(l.mentions)

VARIABLES
    reviewing,      \* review mode: there are findings
    said,           \* what each role has written, as it wrote it
    grounded,       \* what is left of it, with its look-ups
    conflicts,      \* the contradictions shown to the chairman
    recorded,       \* those of the session record, or none if there is no record
    sitting         \* "asking", "grounding", "over", or "unscanned": without a scan

deliberationVars == <<reviewing, said, grounded, conflicts, recorded, sitting>>

DeliberationInit ==
    /\ reviewing \in BOOLEAN
    /\ said = [r \in CouncilRoles |-> Unanswered]
    /\ grounded = [r \in CouncilRoles |-> <<>>]
    /\ conflicts = <<>> /\ recorded = <<>> /\ sitting = "asking"

\* A role that is not seated, or whose provider fails, has no part in it.
RoleAnswers(r) ==
    /\ sitting = "asking" /\ said[r] = Unanswered
    /\ \E text \in BoundedSeq(Lines, MaxLines[r]) \cup {Unavailable} :
          said' = [said EXCEPT ![r] = text]
    /\ UNCHANGED <<reviewing, grounded, conflicts, recorded, sitting>>

Heard == {r \in CouncilRoles : said[r] \notin {Unanswered, Unavailable}}

\* _clamp_member_output: lines in a builder's words are cut out, the others stay.
Clamped(text) == Filter(text, {l \in Lines : ~l.builder})

\* resolve_grounding_tags: what the tags ask for is appended below a header of its own, or
\* that nothing was found.
Grounded(text) ==
    IF \A i \in DOMAIN text : ~text[i].tagged THEN {text}
    ELSE {text \o <<[Blank EXCEPT !.lookup = TRUE], l>> : l \in Quoted \cup {Blank}}

\* The answers are in; without any the chairman gets the bare question and nothing is recorded.
Gather ==
    /\ sitting = "asking" /\ \A r \in CouncilRoles : said[r] # Unanswered
    /\ IF Heard = {} THEN sitting' = "over" /\ UNCHANGED grounded
       ELSE /\ sitting' = "grounding"
            /\ grounded' \in {g \in [CouncilRoles -> UNION {Grounded(Clamped(said[r])) : r \in Heard} \cup {<<>>}] :
                                \A r \in CouncilRoles : IF r \in Heard THEN g[r] \in Grounded(Clamped(said[r]))
                                                       ELSE g[r] = <<>>}
    /\ UNCHANGED <<reviewing, said, conflicts, recorded>>

\* Mutant: all that was looked up counts as the role's own words.
OwnTextAll(text) == text

\* _own_text: a role's own words end where the first look-up begins.
OwnText(text) ==
    LET headers == {i \in DOMAIN text : text[i].lookup}
    IN  IF headers = {} THEN text ELSE SubSeq(text, 1, Min(headers) - 1)

ValidLabels == IF reviewing THEN Labels ELSE {}

\* _line_verdicts and the lines that are skipped: none or several, or talk about verdicts.
VerdictOf(l) == IF l.meta \/ Cardinality(l.verdicts) # 1 THEN "none" ELSE CHOOSE v \in l.verdicts : TRUE

\* _header_label: only a valid label at the head of a line counts.
HeaderLabel(l) == IF l.head \in ValidLabels THEN l.head ELSE NoSubject

\* The label each line stands under: that of the last header so far.
LabelAbove(text) ==
    LET current[n \in 0 .. Len(text)] ==
            IF n = 0 THEN NoSubject
            ELSE IF HeaderLabel(text[n]) # NoSubject THEN HeaderLabel(text[n]) ELSE current[n - 1]
    IN  current

\* The header of a line, a single label mentioned in it, the header above it, or else its topic.
SubjectAt(text, i) ==
    LET mentioned == text[i].mentions \cap ValidLabels
        label == IF HeaderLabel(text[i]) = NoSubject /\ Cardinality(mentioned) = 1
                 THEN CHOOSE m \in mentioned : TRUE ELSE LabelAbove(text)[i]
    IN  IF label # NoSubject THEN label ELSE text[i].topic

\* _extract_verdicts: the verdicts of a role by their subject.
ExtractVerdicts(text) ==
    [s \in Labels \cup Topics |->
        {VerdictOf(text[i]) : i \in {i \in DOMAIN text : SubjectAt(text, i) = s}} \ {"none"}]

\* _dominant: the net verdict of a role on a subject, if it has one.
Dominant(kinds) ==
    IF kinds = {"CONFIRM"} THEN "CONFIRM"
    ELSE IF "DENY" \in kinds /\ "CONFIRM" \notin kinds THEN "DENY"
    ELSE "mixed"

\* _claims: sentences that are no verdict lines.
ClaimLines(text) == {l \in ToSet(text) : l.claim # NoSubject /\ l.verdicts = {}}

\* Skeptic against advocate first.
PairOrder == <<<<"advocate", "skeptic">>, <<"advocate", "verifier">>, <<"skeptic", "verifier">>>>

Conflict(kind, subject, pair) == [kind |-> kind, subject |-> subject, roles |-> pair]

VerdictConflicts(own, pair) ==
    LET first == ExtractVerdicts(own[pair[1]])
        second == ExtractVerdicts(own[pair[2]])
    IN  {Conflict("verdict", s, pair) :
            s \in {s \in Labels \cup Topics : {Dominant(first[s]), Dominant(second[s])} = {"CONFIRM", "DENY"}}}

\* The same claim asserted and denied, or else with figures that have none in common.
ClaimConflicts(own, pair) ==
    LET pairs == {p \in ClaimLines(own[pair[1]]) \X ClaimLines(own[pair[2]]) :
                     p[1].claim = p[2].claim}
    IN  {Conflict(IF p[1].denied # p[2].denied THEN "polarity" ELSE "numeric", p[1].claim, pair) :
            p \in {p \in pairs : \/ p[1].denied # p[2].denied
                                 \/ 0 \notin {p[1].figure, p[2].figure} /\ p[1].figure # p[2].figure}}

\* A role that has not answered conflicts with none.
Conflicts(own, pair) ==
    IF <<>> \in {own[pair[1]], own[pair[2]]} THEN {}
    ELSE VerdictConflicts(own, pair) \cup ClaimConflicts(own, pair)

OfKind(own, kind) ==
    LET Of(k) == SetToSeq({c \in Conflicts(own, PairOrder[k]) : c.kind = kind})
    IN  Of(1) \o Of(2) \o Of(3)

\* scan: by kind, within a kind by pair and there in some order, cut at MaxItems.
Contradictions(own) ==
    LET found == OfKind(own, "verdict") \o OfKind(own, "polarity") \o OfKind(own, "numeric")
    IN  SubSeq(found, 1, Min({MaxItems, Len(found)}))

\* The list goes into the chairman's prompt and into the session record.
Conclude ==
    /\ sitting = "grounding"
    /\ conflicts' = Contradictions([r \in CouncilRoles |-> OwnText(grounded[r])])
    /\ recorded' = conflicts'
    /\ sitting' = "over"
    /\ UNCHANGED <<reviewing, said, grounded>>

\* The scan is in a try of its own: the chairman then sees nothing of it.
ScanFails ==
    /\ sitting = "grounding"
    /\ sitting' = "unscanned"
    /\ UNCHANGED <<reviewing, said, grounded, conflicts, recorded>>

DeliberationNext ==
    \/ \E r \in CouncilRoles : RoleAnswers(r)
    \/ Gather \/ Conclude \/ ScanFails
--------------------------------------------------------------------------------
\* What the role wrote itself, but for the lines the clamp removes.
Own(r) == OwnText(Clamped(said[r]))

Headed(text) == {j \in DOMAIN text : text[j].head \in ValidLabels}

About(text, i, s) ==
    LET mentioned == text[i].mentions \cap ValidLabels
        above == {j \in Headed(text) : j <= i}
    IN  IF i \in Headed(text) THEN text[i].head = s
        ELSE IF \E m \in ValidLabels : mentioned = {m} THEN s \in mentioned
        ELSE IF above # {} THEN text[Max(above)].head = s
        ELSE text[i].topic = s

Says(text, s) ==
    {v \in Verdicts : \E i \in DOMAIN text : text[i].verdicts = {v} /\ ~text[i].meta /\ About(text, i, s)}

Against(a, b, s) == Says(a, s) = {"CONFIRM"} /\ "DENY" \in Says(b, s) /\ "CONFIRM" \notin Says(b, s)

\* What the chairman has to settle: a role that confirms a finding and nothing else, where
\* another denies it and never confirms it; a claim that is asserted and denied; or figures
\* that differ.  Only the role's own lines count, none that a look-up quotes.
Expected(pair) ==
    LET a == Own(pair[1])
        b == Own(pair[2])
        claims == {c \in ToSet(a) \X ToSet(b) :
                      /\ c[1].claim = c[2].claim /\ c[1].claim # NoSubject
                      /\ c[1].verdicts \cup c[2].verdicts = {}}
    IN  {Conflict("verdict", s, pair) : s \in {s \in Labels \cup Topics : Against(a, b, s) \/ Against(b, a, s)}}
        \cup {Conflict("polarity", c[1].claim, pair) : c \in {c \in claims : c[1].denied # c[2].denied}}
        \cup {Conflict("numeric", c[1].claim, pair) :
                  c \in {c \in claims : /\ c[1].denied = c[2].denied
                                        /\ 0 \notin {c[1].figure, c[2].figure} /\ c[1].figure # c[2].figure}}

Kinds == <<"verdict", "polarity", "numeric">>

\* Verdicts before claims, and the skeptic against the advocate before the others.
RankOf(c) == 3 * (CHOOSE k \in 1 .. 3 : Kinds[k] = c.kind) + (CHOOSE k \in 1 .. 3 : PairOrder[k] = c.roles)

AllExpected == UNION {Expected(PairOrder[k]) : k \in {k \in 1 .. 3 : ToSet(PairOrder[k]) \subseteq Heard}}

\* "Every item in a FLAGGED CONTRADICTIONS list must be addressed explicitly"
\* (council_executor.py:112-113): the list holds just what is in conflict between two roles
\* that answered, as much of it as fits, those that rank first, and the session record has
\* the same list.
ConflictsShown ==
    sitting = "over" =>
        /\ ToSet(conflicts) \subseteq AllExpected
        /\ Len(conflicts) = Min({MaxItems, Cardinality(AllExpected)})
        /\ Cardinality(ToSet(conflicts)) = Len(conflicts)
        /\ \A c \in AllExpected \ ToSet(conflicts), d \in ToSet(conflicts) : RankOf(d) <= RankOf(c)
        /\ recorded = conflicts
================================================================================
