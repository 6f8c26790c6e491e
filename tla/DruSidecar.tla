------------------------------ MODULE DruSidecar ------------------------------
(***************************************************************************)
(* kicad.check_board against a board house (kicad_dru.py,                   *)
(* fabrication_review.py, capability_profile.py): the rules of the house    *)
(* are written to the one file KiCad reads beside the board, with a canary  *)
(* rule that no board satisfies, KiCad's DRC is run, and the canary's hit   *)
(* proves that KiCad has read the file.                                     *)
(*                                                                         *)
(* Each check runs on a job thread of its own.  Each run of kicad-cli and   *)
(* each change of the file is a step.  A finding is the class it is about   *)
(* and whose rule made it; a length is a small number.                      *)
(***************************************************************************)
EXTENDS Integers, Sequences, SequencesExt

CONSTANTS
    Candidates, \* _CANARY_CANDIDATES: the constraint classes, a sequence
    Checks,     \* the job threads that check this board
    Measures,   \* the smallest measures a board may have in a class
    Limits,     \* the limits of a house or of a project
    KnownSets,  \* the sets of class names that a KiCad may know
    IgnoredSets \* the sets of checks that a project may switch off

Classes == ToSet(Candidates)
Unset == 0      \* no limit is given
Canary == 900   \* the canary's limit: more than any measure
Missing == 999  \* the board has nothing of a class

NoClass == "none"

ASSUME DruAssumption ==
    /\ Candidates \in Seq(Classes) /\ Candidates # <<>> /\ Checks # {}
    /\ NoClass \notin Classes
    /\ Measures \subseteq 1..(Canary - 1) \cup {Missing}
    /\ Limits \subseteq 1..(Canary - 1)
    /\ \A s \in KnownSets \cup IgnoredSets: s \subseteq Classes

VARIABLES
    druBoard,   \* the board, its project's settings, and what KiCad knows
    sidecar,    \* what is in <board>.kicad_dru
    druPc,      \* druPc[k]: the next step of check k
    druHouse,   \* druHouse[k]: the limits k checks against, or NoHouse
    druSaved,   \* druSaved[k]: the file that k has put aside
    druReport,  \* druReport[k]: the findings of the last DRC of k
    druOutcome  \* druOutcome[k]: how k ended

druVars ==
    <<druBoard, sidecar, druPc, druHouse, druSaved, druReport, druOutcome>>

-------------------------------------------------------------------------------
(* Files and rules. *)

NoHouse == [is |-> "none"]
NoFile == [is |-> "absent"]
NoRules == [c \in Classes |-> Unset]
UserFile == [is |-> "user", rules |-> NoRules, canary |-> NoClass]
Generated(rules, canary) == [is |-> "ours", rules |-> rules, canary |-> canary]
House(limits) == [is |-> "house", limits |-> limits]

\* compare_to_board_setup: both give a limit, and the house's is not stricter.
YourSettingIsStricter(limits) ==
    {c \in Classes: /\ limits[c] # Unset /\ druBoard.setup[c] # Unset
                    /\ limits[c] <= druBoard.setup[c]}

\* to_rules: a rule for each limit, but none that would relax a setting of the
\* project.  Mutant: it relaxes them.
AllRules(limits) == limits
ToRules(limits) ==
    [c \in Classes |-> IF c \in YourSettingIsStricter(limits) THEN Unset
                                                              ELSE limits[c]]

\* pick_canary_constraint: the first class without a rule.
Unused(rules) == {i \in DOMAIN Candidates: rules[Candidates[i]] = Unset}
SharesAClass(rules) == Unused(rules) = {}
CanaryClass(rules) ==
    Candidates[IF SharesAClass(rules) THEN 1 ELSE Min(Unused(rules))]

\* render_sidecar, with and without the canary, and the control file.
Rendered(limits, with) ==
    LET rules == ToRules(limits)
    IN Generated(rules, IF with THEN CanaryClass(rules) ELSE NoClass)
Control == Generated(NoRules, Candidates[1])

\* is_generated: there is no file, or it is one of ours.
IsGenerated(f) == f.is # "user"

-------------------------------------------------------------------------------
(* KiCad, from how kicad_cli.run_drc and the comments on it describe it. *)

\* KiCad drops the whole file when one class in it is unknown.
Parsed(f) ==
    /\ f # NoFile
    /\ \A c \in Classes: f.rules[c] # Unset \/ f.canary = c => c \in druBoard.known

Rule(by, limit) == [by |-> by, limit |-> limit]

\* In each class the last rule of the file wins, and replaces the project's.
InForce(f, c) ==
    CASE Parsed(f) /\ f.canary = c -> Rule("canary", Canary)
      [] Parsed(f) /\ f.canary # c /\ f.rules[c] # Unset ->
            Rule("house", f.rules[c])
      [] OTHER -> Rule("project", druBoard.setup[c])

\* A finding for each class that is not switched off and is below the limit.
Drc(f) ==
    {[class |-> c, by |-> InForce(f, c).by] :
        c \in {d \in Classes \ druBoard.ignored:
                 druBoard.measure[d] < InForce(f, d).limit}}

\* rule_hits[CANARY_RULE_NAME] > 0, and strip_canary.
CanaryHit(report) == \E v \in report: v.by = "canary"
StripCanary(report) == {v \in report: v.by # "canary"}

-------------------------------------------------------------------------------

DruInit ==
    /\ druBoard = [measure |-> [c \in Classes |-> Missing], setup |-> NoRules,
                   known |-> Classes, ignored |-> {}]
    /\ sidecar = NoFile
    /\ druPc = [k \in Checks |-> "undrawn"]
    /\ druHouse = [k \in Checks |-> NoHouse]
    /\ druSaved = [k \in Checks |-> NoFile]
    /\ druReport = [k \in Checks |-> {}]
    /\ druOutcome = [k \in Checks |-> "none"]

\* The user has a board, a project and a KiCad, and maybe design rules.
Draw ==
    /\ \A k \in Checks: druPc[k] = "undrawn"
    /\ \E m \in [Classes -> Measures], s \in [Classes -> Limits \cup {Unset}],
          n \in KnownSets, i \in IgnoredSets:
          druBoard' = [measure |-> m, setup |-> s, known |-> n, ignored |-> i]
    /\ sidecar' \in {NoFile, UserFile}
    /\ druPc' = [k \in Checks |-> "idle"]
    /\ UNCHANGED <<druHouse, druSaved, druReport, druOutcome>>

Step(k, from, to) ==
    /\ druPc[k] = from
    /\ druPc' = [druPc EXCEPT ![k] = to]

\* kicad_check_board is called, with a profile or without.
CheckBoard(k, h) ==
    /\ Step(k, "idle", "stash")
    /\ druHouse' = [druHouse EXCEPT ![k] = h]
    /\ druOutcome' = [druOutcome EXCEPT ![k] = "none"]
    /\ UNCHANGED <<druBoard, sidecar, druSaved, druReport>>

\* baseline puts a generated file aside.  Mutant: it leaves it in place.
StashNothing(k) ==
    /\ Step(k, "stash", "before")
    /\ druSaved' = [druSaved EXCEPT ![k] = NoFile]
    /\ UNCHANGED <<druBoard, sidecar, druHouse, druReport, druOutcome>>
Stash(k) ==
    /\ Step(k, "stash", "before")
    /\ IF IsGenerated(sidecar)
         THEN /\ druSaved' = [druSaved EXCEPT ![k] = sidecar]
              /\ sidecar' = NoFile
         ELSE /\ druSaved' = [druSaved EXCEPT ![k] = NoFile]
              /\ UNCHANGED sidecar
    /\ UNCHANGED <<druBoard, druHouse, druReport, druOutcome>>

\* A run of kicad-cli: a report of the file as it is now, or an exception; the
\* finally branch of baseline is the step that follows either.
RunDrc(k, from, to, onError) ==
    /\ \/ Step(k, from, to) /\ druReport' = [druReport EXCEPT ![k] = Drc(sidecar)]
       \/ Step(k, from, onError) /\ UNCHANGED druReport
    /\ UNCHANGED <<druBoard, sidecar, druHouse, druSaved, druOutcome>>

\* The finally of baseline.  Mutant: it is no finally.
PutBackUnlessFailed(k) ==
    /\ \/ /\ Step(k, "putBack", IF druHouse[k] = NoHouse THEN "judge" ELSE "write")
          /\ sidecar' = IF druSaved[k] # NoFile THEN druSaved[k] ELSE sidecar
          /\ druSaved' = [druSaved EXCEPT ![k] = NoFile]
       \/ Step(k, "putBackAndFail", "failed") /\ UNCHANGED <<sidecar, druSaved>>
    /\ UNCHANGED <<druBoard, druHouse, druReport, druOutcome>>
PutBack(k) ==
    /\ \/ Step(k, "putBack", IF druHouse[k] = NoHouse THEN "judge" ELSE "write")
       \/ Step(k, "putBackAndFail", "failed")
    /\ sidecar' = IF druSaved[k] # NoFile THEN druSaved[k] ELSE sidecar
    /\ druSaved' = [druSaved EXCEPT ![k] = NoFile]
    /\ UNCHANGED <<druBoard, druHouse, druReport, druOutcome>>

\* write_and_verify: refuse a file of the user's, else write ours.  Mutant: it
\* writes over any file.
WriteOver(k) ==
    /\ Step(k, "write", "verify")
    /\ sidecar' = Rendered(druHouse[k].limits, TRUE)
    /\ UNCHANGED <<druBoard, druHouse, druSaved, druReport, druOutcome>>
Write(k) ==
    /\ IF IsGenerated(sidecar)
         THEN /\ Step(k, "write", "verify")
              /\ sidecar' = Rendered(druHouse[k].limits, TRUE)
         ELSE Step(k, "write", "failed") /\ UNCHANGED sidecar
    /\ UNCHANGED <<druBoard, druHouse, druSaved, druReport, druOutcome>>

\* What the first report says.  Mutant: the file counts as dropped when no rule
\* of the house has found anything.
VerdictByRules(k) ==
    IF \A v \in druReport[k]: v.by # "house" THEN "control"
    ELSE IF SharesAClass(ToRules(druHouse[k].limits)) THEN "rewrite"
    ELSE "judge"
Verdict(k) ==
    IF ~CanaryHit(druReport[k]) THEN "control"
    ELSE IF SharesAClass(ToRules(druHouse[k].limits)) THEN "rewrite"
    ELSE "judge"

Look(k) ==
    /\ Step(k, "look", Verdict(k))
    /\ UNCHANGED <<druBoard, sidecar, druHouse, druSaved, druReport, druOutcome>>

\* The canary has overridden a rule: the same file without it.
Rewrite(k) ==
    /\ Step(k, "rewrite", "rerun")
    /\ sidecar' = Rendered(druHouse[k].limits, FALSE)
    /\ UNCHANGED <<druBoard, druHouse, druSaved, druReport, druOutcome>>

\* _canary_fires_on: the control file in place of ours, a DRC, and ours again.
WriteControl(k) ==
    /\ Step(k, "control", "runControl")
    /\ druSaved' = [druSaved EXCEPT ![k] = sidecar]
    /\ sidecar' = Control
    /\ UNCHANGED <<druBoard, druHouse, druReport, druOutcome>>
RunControl(k) ==
    /\ \/ Step(k, "runControl",
               IF CanaryHit(Drc(sidecar)) THEN "fired" ELSE "silent")
       \/ Step(k, "runControl", "broken")
    /\ UNCHANGED <<druBoard, sidecar, druHouse, druSaved, druReport, druOutcome>>

\* Its finally, and what the control run has shown.  Mutant: the control file
\* stays.
RemoveControlAfter(k, saw, verdict) ==
    /\ Step(k, saw, verdict)
    /\ druSaved' = [druSaved EXCEPT ![k] = NoFile]
    /\ UNCHANGED <<druBoard, sidecar, druHouse, druReport, druOutcome>>
RemoveControl(k, saw, verdict) ==
    /\ Step(k, saw, verdict)
    /\ sidecar' = druSaved[k]
    /\ druSaved' = [druSaved EXCEPT ![k] = NoFile]
    /\ UNCHANGED <<druBoard, druHouse, druReport, druOutcome>>

\* The route ends.
Finish(k) ==
    /\ \/ /\ druPc[k] = "judge"
          /\ druOutcome' = [druOutcome EXCEPT ![k] =
                              IF druHouse[k] = NoHouse THEN "defaults" ELSE "applied"]
       \/ /\ druPc[k] \in {"discarded", "indeterminate", "failed"}
          /\ druOutcome' = [druOutcome EXCEPT ![k] = druPc[k]]
    /\ druReport' = [druReport EXCEPT ![k] = StripCanary(@)]
    /\ druPc' = [druPc EXCEPT ![k] = "idle"]
    /\ UNCHANGED <<druBoard, sidecar, druHouse, druSaved>>

CheckStep(k) ==
    \/ Stash(k)
    \/ RunDrc(k, "before", "putBack", "putBackAndFail")
    \/ PutBack(k)
    \/ Write(k)
    \/ RunDrc(k, "verify", "look", "failed")
    \/ Look(k)
    \/ Rewrite(k)
    \/ RunDrc(k, "rerun", "judge", "failed")
    \/ WriteControl(k)
    \/ RunControl(k)
    \/ RemoveControl(k, "fired", "discarded")
    \/ RemoveControl(k, "silent", "indeterminate")
    \/ RemoveControl(k, "broken", "failed")
    \/ Finish(k)

DruNext ==
    \/ Draw
    \/ \E k \in Checks:
          \/ CheckBoard(k, NoHouse)
          \/ \E l \in [Classes -> Limits \cup {Unset}]: CheckBoard(k, House(l))
          \/ CheckStep(k)

DruSpec == DruInit /\ [][DruNext]_druVars

-------------------------------------------------------------------------------
(* What is checked. *)

DruFiles ==
    {NoFile, UserFile} \cup
    [is: {"ours"}, rules: [Classes -> Limits \cup {Unset}],
     canary: Classes \cup {NoClass}]

\* The type of every variable; a check that is over holds no file back.
DruTypeOK ==
    /\ druBoard \in [measure: [Classes -> Measures \cup {Missing}],
                     setup: [Classes -> Limits \cup {Unset}],
                     known: SUBSET Classes, ignored: SUBSET Classes]
    /\ sidecar \in DruFiles
    /\ druSaved \in [Checks -> DruFiles]
    /\ \A k \in Checks: druPc[k] = "idle" => druSaved[k] = NoFile
    /\ \A k \in Checks:
          /\ druReport[k] \subseteq
                [class: Classes, by: {"project", "house", "canary"}]
          /\ druOutcome[k] \in {"none", "defaults", "applied", "discarded",
                               "indeterminate", "failed"}

\* The limits that k was told to check, as rules.
RulesOf(k) == ToRules(druHouse[k].limits)
Finds(k, c, by) == [class |-> c, by |-> by] \in druReport[k]

\* "the one outcome this feature may never produce is a confident report drawn
\* from rules that were never running" (write_and_verify): a confirmed report
\* has what the house's rules find and nothing else of theirs, and a report
\* under KiCad's defaults has nothing of any house.
ReportFromItsOwnRules ==
    \A k \in Checks, c \in Classes:
        /\ druOutcome[k] = "defaults" => ~Finds(k, c, "house")
        /\ druOutcome[k] = "applied" =>
              (Finds(k, c, "house") <=> /\ c \notin druBoard.ignored
                                        /\ druBoard.measure[c] < RulesOf(k)[c])

\* The project's own findings in class c are there, or the house's stricter rule
\* has made them.
OwnFindingKept(k, c) ==
    /\ c \notin druBoard.ignored
    /\ druBoard.measure[c] < druBoard.setup[c]
    => \E v \in druReport[k]: v.class = c

\* No rule of a house hides what the project's own settings find (to_rules): a
\* class that the canary is not in keeps its findings.
NothingRelaxed ==
    \A k \in Checks:
        druOutcome[k] = "applied" =>
            \A c \in Classes: c # sidecar.canary => OwnFindingKept(k, c)

\* The same without the exception, which is what the code says of itself.
OwnFindingsKept ==
    \A k \in Checks:
        druOutcome[k] = "applied" => \A c \in Classes: OwnFindingKept(k, c)

\* A file that is reported as dropped by KiCad was dropped (SidecarDiscarded),
\* on a board that has something of every class and a project that has no
\* check switched off: otherwise the canary of the file and that of the control
\* may differ in what they can hit.
DiscardedTruthful ==
    \A k \in Checks:
        /\ druOutcome[k] = "discarded"
        /\ druBoard.ignored = {}
        /\ \A c \in Classes: druBoard.measure[c] # Missing
        => ~Parsed(sidecar)

\* What a check leaves beside the board are the rules it has checked, which
\* "makes the house's rules real inside KiCad" (kicad_check_board), and not the
\* control file.
RulesLeftForKicad ==
    \A k \in Checks:
        druOutcome[k] \in {"applied", "indeterminate", "discarded"}
            => sidecar.is = "ours" /\ sidecar.rules = RulesOf(k)

\* How a check ended is what it did with its rules.
OutcomeTruthful == NothingRelaxed /\ DiscardedTruthful /\ RulesLeftForKicad

\* A file that the user wrote stays (SidecarWouldOverwrite).
UserFileKept == [][sidecar = UserFile => sidecar' = UserFile]_druVars
===============================================================================
