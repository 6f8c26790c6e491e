--------------------------- MODULE ComponentPipeline ---------------------------
(***************************************************************************)
(* What the daemon makes of a model's answer (component_pipeline.py), and   *)
(* the footprint it builds from an accepted one (kicad_write.py).  A        *)
(* request is answered once, an extraction that could not be read once      *)
(* more; the answer is accepted, refused, or for a check replaced by the    *)
(* plain findings.  Lengths are in thousandths of a millimetre.             *)
(***************************************************************************)
EXTENDS Integers, Sequences, FiniteSets, SequencesExt, TLC

CONSTANTS
    PackageReference, \* PACKAGE_REFERENCE: a function of the known packages
                      \* [count, exposed, low, high, layout]; high = 0: no pitch
    Schemas,          \* the schemas a model may answer with
    FindingLists,     \* the lists of severities a check may find
    MaxExplained,     \* _MAX_VIOLATIONS_PER_EXPLANATION_CALL
    SuggestionLists   \* the suggestions a model may answer with

\* A package that is drawn has as many pins on the one side as on the other, no
\* exposed pad, and in two rows a pitch.
ASSUME PipelineAssumption ==
    /\ MaxExplained \in Nat \ {0}
    /\ \A f \in FindingLists: f \in Seq(ToSet(f))
    /\ \A r \in SuggestionLists: r.ready \in BOOLEAN
    /\ \A s \in Schemas:
          /\ s.pins \in Seq(ToSet(s.pins))
          /\ {s.pitch, s.length, s.width, s.yardLength, s.yardWidth} \subseteq Int
    /\ \A p \in DOMAIN PackageReference:
          LET ref == PackageReference[p]
          IN /\ {ref.low, ref.high} \subseteq Int
             /\ ref.layout = "two" => ref.count = 2 /\ ~ref.exposed
             /\ ref.layout \in {"dual", "through"} =>
                   /\ \E rows \in 1..ref.count: ref.count = 2 * rows
                   /\ ~ref.exposed /\ ref.low > 0 /\ ref.high # 0

VARIABLES
    request, \* [kind, findings]
    replies, \* the model's answers so far
    outcome  \* what the daemon made of them, [is |-> "none"] before that

pipelineVars == <<request, replies, outcome>>

NoOutcome == [is |-> "none"]
NoRequest == [kind |-> "none", findings |-> <<>>]
MaxAttempts == 2        \* _MAX_EXTRACTION_ATTEMPTS
CourtyardClearance == 100

Unreadable == [is |-> "unreadable"]  \* _extract_json raises: prose, or cut off
NoSetup == [is |-> "setup"]          \* ModelSetupError: no model is set up

-------------------------------------------------------------------------------
(* The schema of a part: validate_schema *)

PinCountFits(s) ==
    LET ref == PackageReference[s.package]
    IN Len(s.pins) \in {ref.count} \cup IF ref.exposed THEN {ref.count + 1} ELSE {}

PitchFits(s) ==
    LET ref == PackageReference[s.package]
    IN ref.high = 0 \/ s.pitch \in ref.low..ref.high

CourtyardFits(s) ==
    /\ s.yardLength >= s.length + CourtyardClearance
    /\ s.yardWidth >= s.width + CourtyardClearance

\* Mutant: the pins are not counted.
ValidUncounted(s) ==
    s.package \in DOMAIN PackageReference /\ PitchFits(s) /\ CourtyardFits(s)

ValidSchema(s) ==
    /\ s.package \in DOMAIN PackageReference
    /\ PinCountFits(s) /\ PitchFits(s) /\ CourtyardFits(s)

-------------------------------------------------------------------------------
(* The pads of a package: generate_pad_layout.  A pin is its number; a pin    *)
(* with a name is 0.                                                         *)

LayoutOf(s) == PackageReference[s.package].layout

\* _parse_pin_sequence
SimplyNumbered(s) == ToSet(s.pins) = 1..Len(s.pins)

Placeable(s) == LayoutOf(s) \in {"two", "dual", "through"} /\ SimplyNumbered(s)

\* _two_pin_layout and _dual_row_layout, positions doubled to stay whole.
TwoPinPad(s, pin) ==
    LET pad == (s.length * 35) \div 100
    IN [number |-> pin, x |-> IF pin = 1 THEN -(s.length - pad) ELSE s.length - pad,
        y |-> 0, width |-> pad, height |-> s.width]

Rows(s) == Len(s.pins) \div 2
RowSpan(s) == IF LayoutOf(s) = "through" THEN 7620 ELSE s.width

\* What the two sides of a package are apart by.
Apart(s) == IF LayoutOf(s) = "two" THEN s.length ELSE RowSpan(s)
RowIndex(s, pin) == IF pin <= Rows(s) THEN pin - 1 ELSE Rows(s) - 1 - (pin - Rows(s) - 1)

DualRowPad(s, pin) ==
    LET through == LayoutOf(s) = "through"
    IN [number |-> pin, x |-> IF pin <= Rows(s) THEN -RowSpan(s) ELSE RowSpan(s),
        y |-> (2 * RowIndex(s, pin) - (Rows(s) - 1)) * s.pitch,
        width |-> IF through THEN 1600 ELSE (s.pitch * 3) \div 2,
        height |-> IF through THEN 1600 ELSE (s.pitch * 6) \div 10]

Pads(s) == {IF LayoutOf(s) = "two" THEN TwoPinPad(s, p) ELSE DualRowPad(s, p) : p \in ToSet(s.pins)}

-------------------------------------------------------------------------------
(* The findings of a check: explain_violations.  A finding is its place in    *)
(* the report; its severity is request.findings[place].                      *)

SeverityOrder(severity) ==
    CASE severity = "error" -> 0 [] severity = "warning" -> 1
      [] severity = "exclusion" -> 2 [] OTHER -> 99

\* sorted() is stable: by severity, then by place.
Precedes(findings, i, j) ==
    LET a == SeverityOrder(findings[i]) b == SeverityOrder(findings[j])
    IN a < b \/ (a = b /\ i < j)

Ahead(findings, j) == {i \in DOMAIN findings : Precedes(findings, i, j)}

Prioritized(findings) ==
    [k \in DOMAIN findings |->
        CHOOSE i \in DOMAIN findings : Cardinality(Ahead(findings, i)) = k - 1]

ForTheModel(findings) == SubSeq(Prioritized(findings), 1, 
                             IF Len(findings) < MaxExplained THEN Len(findings) ELSE MaxExplained)

\* _validate_board_advisor_response: entries are indexes from 0, each one asked
\* about, and none left out.  An entry without its texts is index -1.
ExplainsAll(entries, n) == ToSet(entries) = 0..(n - 1)

\* The last entry of an index is the one that counts.
EntryOf(entries, i) == CHOOSE k \in DOMAIN entries :
    entries[k] = i /\ \A m \in DOMAIN entries : entries[m] = i => m <= k

\* Findings in the order they are returned, each with the entry that explains
\* it, or 0.
Plainly(findings) == [i \in DOMAIN findings |-> [finding |-> i, entry |-> 0]]

\* Mutant: only what was explained is returned.
ExplainedOnly(findings, entries) ==
    LET shown == ForTheModel(findings)
    IN [i \in DOMAIN shown |-> [finding |-> shown[i], entry |-> EntryOf(entries, i - 1)]]

\* Mutant: the texts are matched to the report's order.
ExplainedUnsorted(findings, entries) ==
    LET shown == ForTheModel(findings)
    IN [i \in DOMAIN findings |->
          [finding |-> i, entry |-> IF i <= Len(shown) THEN EntryOf(entries, i - 1) ELSE 0]]

Explained(findings, entries) ==
    LET shown == ForTheModel(findings) order == Prioritized(findings)
    IN [i \in DOMAIN order |->
          [finding |-> order[i], entry |-> IF i <= Len(shown) THEN EntryOf(entries, i - 1) ELSE 0]]

-------------------------------------------------------------------------------
(* Suggested kinds of part: _validate_suggestions.  An entry is "kind",       *)
(* "part number" or "incomplete"; what is given and what is rejected are the *)
(* places of the entries.                                                    *)

Asked == [is |-> "suggestions", ready |-> FALSE, given |-> {}, rejected |-> {}]

Listed(r) ==
    [is |-> "suggestions", ready |-> r.ready,
     given |-> {i \in DOMAIN r.entries : r.entries[i] = "kind"},
     rejected |-> {i \in DOMAIN r.entries : r.entries[i] # "kind"}]

\* Mutant: the list is kept beside the question.
SuggestionsKept(r) == Listed(r)

Suggestions(r) ==
    IF r.ready THEN Listed(r) ELSE IF r.question THEN Asked ELSE [is |-> "refused"]

-------------------------------------------------------------------------------
(* Searches, wiring guidance and queries for a footprint: an answer is taken *)
(* whole or not at all.                                                      *)

ListKinds == {"search", "wiring", "query"}

\* An entry is "complete", lacks a field ("incomplete"), or has one that names
\* no confidence level or no pin of the part ("wrong").
EntryLists == {<<>>} \cup {<<e>> : e \in {"complete", "incomplete", "wrong"}}
                    \cup {<<"complete", e>> : e \in {"complete", "incomplete", "wrong"}}

\* _validate_candidates: a search answers with a candidate at least.
CandidatesFit(entries) == entries # <<>> /\ ToSet(entries) = {"complete"}

\* _validate_connection_guidance
GuidanceFits(entries) == ToSet(entries) \subseteq {"complete"}

\* _validate_footprint_query_suggestion: one object of three fields.
QueryFits(entries) == Len(entries) = 1 /\ entries[1] # "incomplete"

Fits(kind, entries) ==
    CASE kind = "search" -> CandidatesFit(entries)
      [] kind = "wiring" -> GuidanceFits(entries)
      [] OTHER -> QueryFits(entries)

-------------------------------------------------------------------------------

PipelineInit == request = NoRequest /\ replies = <<>> /\ outcome = NoOutcome

Questions ==
    {[kind |-> k, findings |-> <<>>] : k \in {"component", "suggest"} \cup ListKinds}
    \cup {[kind |-> "explain", findings |-> f] : f \in FindingLists}

\* A route calls generate_component, suggest_parts, explain_violations,
\* search_components, generate_connection_guidance or suggest_footprint_query.
Submit ==
    /\ request = NoRequest
    /\ request' \in Questions
    /\ UNCHANGED <<replies, outcome>>

\* generate_component: only an answer that could not be read is asked for again.
\* Mutant: any that is not acceptable.
RetryOther(answer) == answer # NoSetup /\ (answer.is = "schema" => ~ValidSchema(answer.schema))
Retryable(answer) == answer = Unreadable

Failed(answer) == [is |-> IF answer = NoSetup THEN "setup" ELSE "refused"]

OnExtraction(answer) ==
    IF answer.is = "schema" /\ ValidSchema(answer.schema)
      THEN [is |-> "schema", schema |-> answer.schema]
    ELSE IF Retryable(answer) /\ Len(replies) + 1 < MaxAttempts THEN NoOutcome
    ELSE Failed(answer)

\* explain_violations inside _explain_or_report_plainly: whatever fails, the
\* findings are reported.
OnExplanation(answer) ==
    LET findings == request.findings
        good == answer.is = "entries" /\ ExplainsAll(answer.entries, Len(ForTheModel(findings)))
    IN [is |-> "findings", failed |-> ~good,
        told |-> IF good THEN Explained(findings, answer.entries) ELSE Plainly(findings)]

OnSuggestions(answer) ==
    IF answer.is = "suggestions" THEN Suggestions(answer.reply) ELSE Failed(answer)

OnList(answer) ==
    IF answer.is = "list" /\ Fits(request.kind, answer.list)
      THEN [is |-> "list", list |-> answer.list]
      ELSE Failed(answer)

\* No finding, nothing to ask.
CleanCheck ==
    /\ outcome = NoOutcome /\ request.kind = "explain" /\ request.findings = <<>>
    /\ outcome' = [is |-> "findings", failed |-> FALSE, told |-> <<>>]
    /\ UNCHANGED <<request, replies>>

Answers == {Unreadable, NoSetup}
ExplanationLists(n) == [1..n -> -1..n] \cup [1..(n + 1) -> 0..(n - 1)]

AnswersTo(r) == Answers \cup
    CASE r.kind = "component" -> {[is |-> "schema", schema |-> s] : s \in Schemas}
      [] r.kind = "suggest" -> {[is |-> "suggestions", reply |-> l] : l \in SuggestionLists}
      [] r.kind \in ListKinds -> {[is |-> "list", list |-> l] : l \in EntryLists}
      [] OTHER -> {[is |-> "entries", entries |-> e] :
                      e \in ExplanationLists(Len(ForTheModel(r.findings)))}

OutcomeOf(answer) ==
    CASE request.kind = "component" -> OnExtraction(answer)
      [] request.kind = "suggest" -> OnSuggestions(answer)
      [] request.kind \in ListKinds -> OnList(answer)
      [] OTHER -> OnExplanation(answer)

ModelReplies ==
    /\ request # NoRequest /\ outcome = NoOutcome
    /\ request.kind = "explain" => request.findings # <<>>
    /\ \E answer \in AnswersTo(request) :
          replies' = Append(replies, answer) /\ outcome' = OutcomeOf(answer)
    /\ UNCHANGED request

PipelineNext == Submit \/ CleanCheck \/ ModelReplies
PipelineSpec == PipelineInit /\ [][PipelineNext]_pipelineVars

-------------------------------------------------------------------------------

\* A model is asked again only after an answer that could not be read, and never
\* a third time; and what it finally answered is what decides.
AskedAgainOnlyWhenUnreadable ==
    /\ Len(replies) <= MaxAttempts
    /\ \A i \in 1..(Len(replies) - 1) : replies[i] = Unreadable /\ request.kind = "component"
    /\ outcome.is = "schema" => Last(replies).schema = outcome.schema
    /\ outcome.is = "list" => Last(replies).list = outcome.list
    /\ outcome.is = "setup" => Last(replies) = NoSetup

\* An accepted part whose package can be laid out, and whose body is not without
\* size where its pads go, gets one pad for each pin, the pads in places of their
\* own, and as many on the one side as on the other.
AcceptedCanBePlaced ==
    outcome.is = "schema" /\ Placeable(outcome.schema) /\ Apart(outcome.schema) > 0 =>
        LET pads == Pads(outcome.schema)
            sideOf(sign) == {p \in pads : p.x * sign > 0}
        IN /\ Cardinality(pads) = Len(outcome.schema.pins)
           /\ \A p, q \in pads : p # q => <<p.x, p.y>> # <<q.x, q.y>>
           /\ Cardinality(sideOf(1)) = Cardinality(sideOf(-1))

\* That a body has a size is not checked: validate_schema compares it with the
\* courtyard only, so that a length or a width of 0 is accepted and the pads of
\* both sides come to lie in one place.
AcceptedHasSize ==
    outcome.is = "schema" /\ Placeable(outcome.schema) => Apart(outcome.schema) > 0

\* Whatever the model answers, every finding of the check is reported once.
EveryFindingTold ==
    outcome.is = "findings" =>
        /\ Len(outcome.told) = Len(request.findings)
        /\ {outcome.told[i].finding : i \in DOMAIN outcome.told} = DOMAIN request.findings

\* A finding is shown the text that was written for it, and none goes without
\* one while a less severe finding has one.
ExplanationFits ==
    outcome.is = "findings" /\ ~outcome.failed =>
        \A i \in DOMAIN outcome.told :
            LET t == outcome.told[i]
            IN IF t.entry # 0
               THEN Prioritized(request.findings)[Last(replies).entries[t.entry] + 1] = t.finding
               ELSE \A j \in DOMAIN outcome.told : outcome.told[j].entry # 0 =>
                        SeverityOrder(request.findings[outcome.told[j].finding])
                          <= SeverityOrder(request.findings[t.finding])

\* A project that is not ready for suggestions is asked its question and shown
\* no list; otherwise each entry is shown or named as rejected.
SuggestionsAreHonest ==
    outcome.is = "suggestions" =>
        /\ ~outcome.ready => outcome.given = {} /\ Last(replies).reply.question
        /\ outcome.ready =>
              /\ outcome.given \cup outcome.rejected = DOMAIN Last(replies).reply.entries
              /\ outcome.given \cap outcome.rejected = {}

\* What a call makes of a model's answers is what they say.
AnswersTruthful ==
    /\ AskedAgainOnlyWhenUnreadable
    /\ EveryFindingTold
    /\ ExplanationFits
    /\ SuggestionsAreHonest

\* component_pipeline.py:106, of the courtyard validate_schema asks for: "How much
\* larger than the package body the courtyard must be, per side, to count as
\* \"encloses the pads\"".  build_footprint_instance draws its length along x.
PadsInCourtyard ==
    outcome.is = "schema" /\ Placeable(outcome.schema) =>
        \A p \in Pads(outcome.schema) :
            /\ p.x + p.width <= outcome.schema.yardLength
            /\ p.y + p.height <= outcome.schema.yardWidth
===============================================================================
