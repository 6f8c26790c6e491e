------------------------------ MODULE ReviewArea ------------------------------
(***************************************************************************)
(* chat.review of one area and the review that is kept (chat_agents.py,     *)
(* daemon.py, library_store.py).  A job thread runs KiCad's check, sends it  *)
(* to the model, reads the reply, runs the check again for what the reply   *)
(* left out, and stores the result with the identity of the file, while the *)
(* user goes on saving that file.  Each of those is a step.                 *)
(*                                                                         *)
(* A file's content is what the checks find in it: how many findings KiCad  *)
(* has, and this app's own findings in order.  A finding's id is its origin *)
(* and its place, as in the code; a stamp stands for a size and an mtime.   *)
(***************************************************************************)
EXTENDS Integers, Sequences, FiniteSets, SequencesExt

CONSTANTS
    Designs,     \* what a file may hold: [kicad: Nat, ours: Seq(facts)]
    MaxStamp,    \* the bound on how often the file is saved
    Replies,     \* what the model may reply
    MaxReviewFindings \* _MAX_PERSISTED_REVIEW_FINDINGS

ASSUME ReviewAssumption ==
    /\ MaxReviewFindings \in Nat
    /\ \A c \in Designs: c.kicad \in Nat /\ c.ours \in Seq(ToSet(c.ours))
    /\ \A r \in Replies: r.entries \in Seq(ToSet(r.entries))

\* A reply: whether the findings block is there, whether there are brackets or
\* braces in it, whether that text is JSON, and the findings it holds, each well
\* formed or not, with the ids it cites, whether their path resolves, and the
\* facts of ours that its text names.
ReplyForms == {"block", "bracketed", "prose"}

Areas == {"plain", "checked", "enclosure"}
NoFileHere == [is |-> "absent"]
Unrun == [is |-> "prose"]   \* the check could not be run, and the note says so
NotStored == [is |-> "none"]

VARIABLES
    reviewSetup, \* the area, and whether a KiCad project is linked
    design,      \* the area's source file: absent, or content and stamp
    designPast,  \* every content and stamp the file has had: what backups hold
    reviewPc,    \* the next step of the review
    checkNote,   \* the check that went to the model, and what it was run on
    reply,       \* the model's reply
    shown,       \* what chat.review returned: a list, "raised" or "none"
    shelf        \* last_reviews[area]

reviewVars ==
    <<reviewSetup, design, designPast, reviewPc, checkNote, reply, shown, shelf>>

-------------------------------------------------------------------------------
(* The check and the reply. *)

\* What a list comprehension with a condition leaves: the elements at a set of
\* places, in their order.
Nth(places, j) ==
    CHOOSE i \in places: Cardinality({k \in places: k < i}) = j - 1
Selected(list, places) == [j \in 1..Cardinality(places) |-> list[Nth(places, j)]]

\* _check_status_note of the file, or _enclosure_fit_note: what could be run at
\* all may still fail.  A measured fit has no findings with ids; how much there
\* is to say of it (heights, parts without one) is not of the file alone.
Notes(f) ==
    {Unrun} \cup
    IF ~reviewSetup.linked \/ f = NoFileHere THEN {}
    ELSE IF reviewSetup.area = "checked" THEN
        {[is |-> "ran", kicad |-> f.content.kicad, ours |-> f.content.ours]}
    ELSE IF reviewSetup.area = "enclosure" THEN
        {[is |-> "measured", kicad |-> 0, ours |-> <<>>, says |-> n] : n \in 0..2}
    ELSE {}

OwnIds(note) == IF note = Unrun THEN {} ELSE {<<"copperplane", i>> : i \in 1..Len(note.ours)}
KicadIds(note) == IF note = Unrun THEN {} ELSE {<<"kicad", i>> : i \in 1..note.kicad}

\* _origin_of: read from the ids that were copied back.
Origin(cites) ==
    IF \E id \in cites: id[1] = "copperplane" THEN "copperplane"
    ELSE IF \E id \in cites: id[1] = "kicad" THEN "kicad" ELSE "model"

Finding(origin, cites, tells) == [origin |-> origin, cites |-> cites, tells |-> tells]

\* _findings_json_without_delimiters finds something, or there is a block.
\* Mutant: any reply counts as read.
AnyReplyIsRead(r) == TRUE
HasFindingsText(r) == r.form \in {"block", "bracketed"}

\* _extract_findings, and the entries review keeps.
Extracted(r) ==
    IF HasFindingsText(r) /\ r.parses
      THEN Selected(r.entries, {i \in DOMAIN r.entries: r.entries[i].wellFormed})
      ELSE <<>>

\* cited_ids: by what the entries report, resolved or not.  Mutant: resolved.
CitedResolved(entries) == UNION {e.cites : e \in {x \in ToSet(entries): x.resolves}}
CitedIds(entries) == UNION {e.cites : e \in ToSet(entries)}

\* without_the_checks_own_findings.  Mutant: everything is shown.
WithoutTheChecksOwn(findings) ==
    IF reviewSetup.area = "checked"
      THEN Selected(findings, {i \in DOMAIN findings: findings[i].origin # "kicad"})
      ELSE findings

\* _with_uncited_checks_of_our_own: those that no reported finding cites or, by
\* its text, names.  Mutant: the model is trusted.
OwnFindings(note) ==
    [i \in 1..Len(note.ours) |->
        Finding("copperplane", {<<"copperplane", i>>}, {note.ours[i]})]
LeftOut(note, entries) ==
    {i \in 1..Len(note.ours):
        /\ <<"copperplane", i>> \notin CitedIds(entries)
        /\ \A e \in ToSet(entries): note.ours[i] \notin e.tells}
NoneUncited(note, entries) == <<>>
Uncited(note, entries) ==
    IF note = Unrun THEN <<>>
                    ELSE Selected(OwnFindings(note), LeftOut(note, entries))

\* _findings_from_check_alone: the findings of the check; of an enclosure, what
\* the measured fit says, which may be nothing, or that it could not be measured;
\* or nothing to fall back on.
OfTheFit == Finding("model", {}, {})
Fallback(note) ==
    CASE reviewSetup.area = "plain" -> {}
      [] reviewSetup.area = "enclosure" ->
           {IF note = Unrun THEN <<OfTheFit>> ELSE [i \in 1..note.says |-> OfTheFit]}
      [] reviewSetup.area = "checked" /\ note = Unrun -> {}
      [] OTHER ->
           {[i \in 1..note.kicad |-> Finding("kicad", {<<"kicad", i>>}, {})]
            \o OwnFindings(note)}

\* review, given the reply and the check as it is run again: a list in a set, or
\* {} for ReviewFormatError.
Told(entries) ==
    [i \in 1..Len(entries) |->
        Finding(Origin(entries[i].cites), entries[i].cites, entries[i].tells)]
Reviewed(r, note) ==
    IF HasFindingsText(r)
      THEN {WithoutTheChecksOwn(Told(Extracted(r)) \o Uncited(note, Extracted(r)))}
      ELSE {WithoutTheChecksOwn(f) : f \in Fallback(note)}

-------------------------------------------------------------------------------
(* The stored review. *)

\* get_project_review_result: the stat first, and the hash only if it differs.
\* Mutant: the stat decides.
\* set_project_review_result keeps the first findings.  Mutant: all of them.
KeptAll(found) == found
Kept(found) ==
    IF Len(found) > MaxReviewFindings THEN SubSeq(found, 1, MaxReviewFindings) ELSE found

Identified == shelf # NotStored /\ shelf.source # NoFileHere
StaleByStat ==
    IF ~Identified THEN "none"
    ELSE IF design = NoFileHere THEN "source_missing"
    ELSE IF design.stamp # shelf.source.stamp THEN "source_changed" ELSE "none"
StaleReason ==
    IF ~Identified THEN "none"
    ELSE IF design = NoFileHere THEN "source_missing"
    ELSE IF /\ design.stamp # shelf.source.stamp
            /\ design.content # shelf.source.content
      THEN "source_changed" ELSE "none"

-------------------------------------------------------------------------------

\* What chat.review returned, and the check it was run with again.
Returned(is, list, note) == [is |-> is, list |-> list, note |-> note]
NoReply == [form |-> "none", parses |-> FALSE, entries |-> <<>>]

ReviewInit ==
    /\ reviewSetup = [area |-> "none", linked |-> FALSE]
    /\ design = NoFileHere
    /\ designPast = {}
    /\ reviewPc = "undrawn"
    /\ checkNote = [note |-> Unrun, file |-> NoFileHere]
    /\ reply = NoReply
    /\ shown = Returned("none", <<>>, Unrun)
    /\ shelf = NotStored

SetUp ==
    /\ reviewPc = "undrawn"
    /\ reviewSetup' \in [area: Areas, linked: BOOLEAN]
    /\ reviewPc' = "idle"
    /\ UNCHANGED <<design, designPast, checkNote, reply, shown, shelf>>

\* The user saves the file, takes a backup of it, or removes it.
Placed(f) ==
    /\ reviewPc # "undrawn"
    /\ design' = f
    /\ designPast' = designPast \cup ({f} \ {NoFileHere})
    /\ UNCHANGED <<reviewSetup, reviewPc, checkNote, reply, shown, shelf>>
SaveDesign(c) ==
    /\ Cardinality(designPast) < MaxStamp
    /\ Placed([is |-> "file", content |-> c, stamp |-> Cardinality(designPast) + 1])
RestoreDesign == \E f \in designPast: Placed(f)
RemoveDesign == Placed(NoFileHere)

\* chat_review: the check is run and its note goes to the model; it may fail.
StartReview ==
    /\ reviewPc = "idle"
    /\ \E note \in Notes(design): checkNote' = [note |-> note, file |-> design]
    /\ reviewPc' = "model"
    /\ reply' = NoReply
    /\ shown' = Returned("none", <<>>, Unrun)
    /\ UNCHANGED <<reviewSetup, design, designPast, shelf>>

\* The model replies, citing ids of the check it was given, or raises.
ModelReplies(r) ==
    /\ reviewPc = "model"
    /\ CitedIds(r.entries) \subseteq OwnIds(checkNote.note) \cup KicadIds(checkNote.note)
    /\ reply' = r
    /\ reviewPc' = "read"
    /\ UNCHANGED <<reviewSetup, design, designPast, checkNote, shown, shelf>>
ModelRaises ==
    /\ reviewPc = "model"
    /\ shown' = Returned("raised", <<>>, Unrun)
    /\ reviewPc' = "idle"
    /\ UNCHANGED <<reviewSetup, design, designPast, checkNote, reply, shelf>>

\* The reply is read, with the check run once more, which may fail: without a
\* reply to read the project is needed, and it may be unreadable.
ReadReply ==
    /\ reviewPc = "read"
    /\ \E note \in Notes(design):
          LET result == Reviewed(reply, note)
          IN \/ /\ result = {} \/ (~HasFindingsText(reply) /\ note = Unrun)
                /\ shown' = Returned("raised", <<>>, note)
                /\ reviewPc' = "idle"
             \/ /\ \E list \in result: shown' = Returned("list", list, note)
                /\ reviewPc' = "remember"
    /\ UNCHANGED <<reviewSetup, design, designPast, checkNote, reply, shelf>>

\* _remember_review and set_project_review_result: kept for an area with a
\* source file, with that file's identity if there is one; or it could not be
\* stored.  "judged" only says what the check was run on.
Remember ==
    LET found == shown.list
        identified == reviewSetup.linked /\ design # NoFileHere
    IN /\ reviewPc = "remember"
       /\ \/ UNCHANGED shelf
          \/ /\ reviewSetup.area # "plain"
             /\ shelf' = [is |-> "review",
                          findings |-> Kept(found),
                          omitted |-> Len(found) - Len(Kept(found)),
                          source |-> IF identified THEN design ELSE NoFileHere,
                          judged |-> checkNote.file]
       /\ reviewPc' = "idle"
       /\ UNCHANGED <<reviewSetup, design, designPast, checkNote, reply, shown>>

ReviewNext ==
    \/ SetUp
    \/ \E c \in Designs: SaveDesign(c)
    \/ RestoreDesign
    \/ RemoveDesign
    \/ StartReview
    \/ \E r \in Replies: ModelReplies(r)
    \/ ModelRaises
    \/ ReadReply
    \/ Remember

ReviewSpec == ReviewInit /\ [][ReviewNext]_reviewVars
-------------------------------------------------------------------------------
(* What is checked. *)

\* The type of every variable; a stored review has no more findings than the cap,
\* and accounts for the rest.
ReviewTypeOK ==
    /\ design = NoFileHere \/ design.content \in Designs
    /\ shown.is \in {"none", "raised", "list"}
    /\ shelf # NotStored =>
          /\ Len(shelf.findings) <= MaxReviewFindings
          /\ shelf.omitted > 0 => Len(shelf.findings) = MaxReviewFindings

Clean == shown.is = "list" /\ shown.list = <<>>
CheckUnchanged == shown.note # Unrun /\ shown.note = checkNote.note

\* "An absent FINDINGS block is NOT a clean review": a reply in prose, without a
\* bracket, gives an empty list only if a check, or a measurement, ran.
ProseIsNotClean ==
    Clean /\ reply.form = "prose" => shown.note # Unrun

\* "text that yields no findings JSON at all is still not a clean board"
\* (_findings_json_without_delimiters): the same of any text without a block.
UnreadableIsNotClean ==
    Clean /\ reply.form # "block" /\ ~reply.parses => shown.note # Unrun

IsShown(i) ==
    \E f \in ToSet(shown.list):
        <<"copperplane", i>> \in f.cites \/ shown.note.ours[i] \in f.tells

\* What is promised of a finding of ours (_with_uncited_checks_of_our_own: if the
\* model omits it, "the user simply never learns it"): while the file stays as
\* it was, it is shown.  The code does not keep this.  It takes a finding for
\* reported if an entry names it, and then drops that entry if it cites KiCad's
\* check (without_the_checks_own_findings).
OwnFindingsReachUser ==
    shown.is = "list" /\ CheckUnchanged => \A i \in 1..Len(shown.note.ours): IsShown(i)

\* What the code does keep: that is the only way to lose one.
NamedInDroppedEntry(i) ==
    \E e \in ToSet(Extracted(reply)):
        Origin(e.cites) = "kicad" /\ shown.note.ours[i] \in e.tells
OwnFindingsLostOneWay ==
    shown.is = "list" /\ CheckUnchanged =>
        \A i \in 1..Len(shown.note.ours): IsShown(i) \/ NamedInDroppedEntry(i)

\* No finding of ours is there twice, once in the model's words and once in the
\* app's, even when what the model cites does not resolve.
OwnFindingsOnce ==
    shown.is = "list" /\ CheckUnchanged =>
        \A p, q \in 1..Len(shown.list):
            /\ p # q
            /\ shown.list[p].origin = "copperplane"
            /\ q > Len(Extracted(reply))
            => shown.list[p].cites \cap shown.list[q].cites = {}

\* Of what a review shows (review): prose is taken for clean only where a check
\* or a measurement ran; each finding of ours that the check has is shown,
\* unless an entry that cites KiCad's check names it; and none is there twice.
ReviewShowsTheCheck == ProseIsNotClean /\ OwnFindingsLostOneWay /\ OwnFindingsOnce

SameContent(f, g) == f # NoFileHere /\ g # NoFileHere /\ f.content = g.content

\* A stored review is called current exactly while the file holds what it was
\* judged on, saved again or restored or not, if the file was not saved while
\* the review ran.
StaleIffChanged ==
    Identified /\ shelf.source = shelf.judged =>
        (StaleReason = "none" <=> SameContent(design, shelf.judged))

\* The same without the exception: the identity is of "the file it was judged
\* on" (_remember_review).
CurrentIsJudged ==
    Identified /\ StaleReason = "none" => SameContent(design, shelf.judged)
===============================================================================
