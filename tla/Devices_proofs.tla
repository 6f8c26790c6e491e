---------------------------- MODULE Devices_proofs ----------------------------
(****************************************************************************)
(* Proofs about the parts that drive other programs and providers:          *)
(* DruSidecar, EnclosureJobs, ModelSetup, PowerPacks and ComponentPipeline, *)
(* for any classes, limits, builds, presets, edits, parts, quotes, packages *)
(* and findings, and about the run of all the parts, MCDevices.             *)
(****************************************************************************)
EXTENDS MCDevices, KicadLink_proofs, FiniteSetTheorems,
        WellFoundedInduction, TLAPS

-------------------------------------------------------------------------------
(* Generated design rules: DruSidecar.                                      *)
(*                                                                         *)
(* First, for any number of checks of one board at once: a rules file of    *)
(* the user's stays.  TLC checks one check at a time, as the webview starts *)
(* them; that the file stays does not rest on it.  Each check looks at the  *)
(* file before it puts it aside or writes over it (is_generated), and what  *)
(* it puts back is never the user's.                                        *)

\* The places of a check that leave the file alone, or look at it first.
Harmless == {"undrawn", "idle", "stash", "before", "putBack", "putBackAndFail",
             "write", "judge", "failed"}

\* Before the board is drawn no check has started, and there is no file.
DrawnAtOnce ==
    \/ sidecar = NoFile /\ \A k \in Checks: druPc[k] = "undrawn" /\ druSaved[k] = NoFile
    \/ \A k \in Checks: druPc[k] # "undrawn"

\* No check has put the user's file aside, and while it is there no check is
\* between a write of its own and the last use of what it has written.
UserFileGuarded ==
    /\ \A k \in Checks: druSaved[k] # UserFile
    /\ sidecar = UserFile =>
          \A k \in Checks: druSaved[k] = NoFile /\ druPc[k] \in Harmless

\* The inductive invariant.
DruIInv ==
    /\ DOMAIN druPc = Checks /\ DOMAIN druSaved = Checks
    /\ DrawnAtOnce
    /\ UserFileGuarded

\* The three kinds of files are told apart.
LEMMA FilesDiffer ==
  /\ NoFile # UserFile
  /\ IsGenerated(NoFile) /\ ~IsGenerated(UserFile)
  /\ \A l, w: Rendered(l, w) # UserFile
  /\ Control # UserFile
  BY DEF NoFile, UserFile, IsGenerated, Rendered, Generated, Control

\* It holds initially.
LEMMA DruInitial == DruInit => DruIInv
  BY FilesDiffer DEF DruInit, DruIInv, DrawnAtOnce, UserFileGuarded, Harmless

\* A step of a check that leaves the file and what it has put aside.
LEMMA Quiet ==
  ASSUME DruIInv, NEW k \in Checks, NEW from, NEW to, Step(k, from, to),
         from # "undrawn", to # "undrawn", from \in Harmless => to \in Harmless,
         UNCHANGED <<sidecar, druSaved>>
  PROVE  DruIInv'
  BY DEF DruIInv, DrawnAtOnce, UserFileGuarded, Step

\* A step that writes or takes away the file of a check: it was not the user's
\* and is not now.
LEMMA Replacing ==
  ASSUME DruIInv, NEW k \in Checks, NEW from, NEW to, Step(k, from, to),
         from # "undrawn", to # "undrawn", sidecar' # UserFile,
         DOMAIN druSaved' = Checks, druSaved'[k] # UserFile,
         \A j \in Checks \ {k}: druSaved'[j] = druSaved[j]
  PROVE  DruIInv'
  BY DEF DruIInv, DrawnAtOnce, UserFileGuarded, Step

\* The user's file is there after a step of a check only if it was before, and
\* the other way round; and the invariant is kept.
LEMMA CheckStepSafe ==
  ASSUME DruIInv, NEW k \in Checks, CheckStep(k)
  PROVE  DruIInv' /\ (sidecar = UserFile => sidecar' = UserFile)
<1> USE FilesDiffer
<1>1. CASE Stash(k)
  <2>1. CASE IsGenerated(sidecar)
    BY <1>1, <2>1, Replacing DEF Stash, DruIInv
  <2>2. CASE ~IsGenerated(sidecar)
    <3>1. Step(k, "stash", "before") /\ sidecar' = sidecar
          /\ druSaved' = [druSaved EXCEPT ![k] = NoFile]
      BY <1>1, <2>2 DEF Stash
    <3>2. QED
      BY <3>1 DEF Step, DruIInv, DrawnAtOnce, UserFileGuarded, Harmless
  <2>3. QED
    BY <2>1, <2>2
<1>2. ASSUME NEW from, NEW to, NEW onError, RunDrc(k, from, to, onError),
             from # "undrawn", to # "undrawn", onError # "undrawn",
             from \in Harmless => to \in Harmless /\ onError \in Harmless
      PROVE  DruIInv' /\ (sidecar = UserFile => sidecar' = UserFile)
  BY <1>2, Quiet DEF RunDrc
<1>3. CASE PutBack(k)
  <2>1. PICK from \in {"putBack", "putBackAndFail"}, to \in {"judge", "write", "failed"}:
            Step(k, from, to)
    BY <1>3 DEF PutBack
  <2>2. sidecar' = (IF druSaved[k] # NoFile THEN druSaved[k] ELSE sidecar)
        /\ druSaved' = [druSaved EXCEPT ![k] = NoFile]
    BY <1>3 DEF PutBack
  <2>3. CASE sidecar = UserFile
    <3>1. sidecar' = sidecar
      BY <2>2, <2>3 DEF DruIInv, UserFileGuarded
    <3>2. QED
      BY <2>1, <2>2, <2>3, <3>1 DEF Step, DruIInv, DrawnAtOnce, UserFileGuarded, Harmless
  <2>4. CASE sidecar # UserFile
    <3>1. sidecar' # UserFile
      BY <2>2, <2>4 DEF DruIInv, UserFileGuarded
    <3>2. QED
      BY <2>1, <2>2, <2>4, <3>1, Replacing DEF DruIInv
  <2>5. QED
    BY <2>3, <2>4
<1>4. CASE Write(k)
  <2>1. CASE IsGenerated(sidecar)
    BY <1>4, <2>1, Replacing DEF Write, DruIInv, UserFileGuarded
  <2>2. CASE ~IsGenerated(sidecar)
    BY <1>4, <2>2, Quiet DEF Write, Harmless
  <2>3. QED
    BY <2>1, <2>2
<1>5. CASE Look(k)
  BY <1>5, Quiet DEF Look, Verdict, Harmless
<1>6. CASE Rewrite(k)
  <2>1. sidecar # UserFile
    BY <1>6 DEF Rewrite, Step, DruIInv, UserFileGuarded, Harmless
  <2>2. QED
    BY <1>6, <2>1, Replacing DEF Rewrite, DruIInv, UserFileGuarded
<1>7. CASE WriteControl(k)
  <2>1. sidecar # UserFile
    BY <1>7 DEF WriteControl, Step, DruIInv, UserFileGuarded, Harmless
  <2>2. QED
    BY <1>7, <2>1, Replacing DEF WriteControl, DruIInv
<1>8. CASE RunControl(k)
  BY <1>8, Quiet DEF RunControl, Harmless
<1>9. ASSUME NEW saw \in {"fired", "silent", "broken"},
             NEW verdict \in {"discarded", "indeterminate", "failed"},
             RemoveControl(k, saw, verdict)
      PROVE  DruIInv' /\ (sidecar = UserFile => sidecar' = UserFile)
  <2>1. sidecar # UserFile
    BY <1>9 DEF RemoveControl, Step, DruIInv, UserFileGuarded, Harmless
  <2>2. QED
    BY <1>9, <2>1, Replacing DEF RemoveControl, DruIInv, UserFileGuarded
<1>10. CASE Finish(k)
  <2>1. PICK from \in {"judge", "discarded", "indeterminate", "failed"}: Step(k, from, "idle")
    BY <1>10 DEF Finish, Step
  <2>2. QED
    BY <1>10, <2>1, Quiet DEF Finish, Harmless
<1>11. QED
  BY <1>1, <1>2, <1>3, <1>4, <1>5, <1>6, <1>7, <1>8, <1>9, <1>10 DEF CheckStep, Harmless

\* The user may have a file when the board is drawn, once.
LEMMA DrawSafe ==
  ASSUME DruIInv, Draw
  PROVE  DruIInv' /\ (sidecar = UserFile => sidecar' = UserFile)
<1>1. sidecar = NoFile
  BY DruAssumption DEF Draw, DruIInv, DrawnAtOnce
<1>2. sidecar # UserFile /\ DruIInv'
  BY <1>1, FilesDiffer DEF Draw, DruIInv, DrawnAtOnce, UserFileGuarded, Harmless
<1>3. QED
  BY <1>2

\* Every step keeps the invariant, and the user's file.
LEMMA DruStepSafe ==
  ASSUME DruIInv, [DruNext]_druVars
  PROVE  DruIInv' /\ (sidecar = UserFile => sidecar' = UserFile)
<1>1. CASE Draw
  BY <1>1, DrawSafe
<1>2. ASSUME NEW k \in Checks, NEW h, CheckBoard(k, h)
      PROVE  DruIInv' /\ sidecar' = sidecar
  BY <1>2, Quiet DEF CheckBoard, Harmless
<1>3. ASSUME NEW k \in Checks, CheckStep(k)
      PROVE  DruIInv' /\ (sidecar = UserFile => sidecar' = UserFile)
  BY <1>3, CheckStepSafe
<1>4. CASE UNCHANGED druVars
  BY <1>4 DEF druVars, DruIInv, DrawnAtOnce, UserFileGuarded
<1>5. QED
  BY <1>1, <1>2, <1>3, <1>4 DEF DruNext

\* A file that the user wrote stays, however many checks of its board run and
\* wherever they fail (SidecarWouldOverwrite).
THEOREM UserFilesAreKept == DruSpec => UserFileKept
<1>1. DruInit => DruIInv
  BY DruInitial
<1>2. DruIInv /\ [DruNext]_druVars
      => DruIInv' /\ [sidecar = UserFile => sidecar' = UserFile]_druVars
  BY DruStepSafe
<1>3. QED
  BY <1>1, <1>2, PTL DEF DruSpec, UserFileKept
-------------------------------------------------------------------------------
(* One check at a time, as the webview starts them. *)

\* What a check is told to check against: a limit for some classes.
LimitSets == [Classes -> Limits \cup {Unset}]
Houses == {NoHouse} \cup {House(l): l \in LimitSets}
Against(k) == druHouse[k] # NoHouse
Told(k) == druHouse[k].limits

\* The places of a check, by what they know of the file.
Aside == {"before", "putBack", "putBackAndFail"}
Verifying == {"verify", "look", "rewrite", "control"}
Controlling == {"runControl", "fired", "silent", "broken"}
Places == {"undrawn", "idle", "stash", "write", "rerun", "judge", "discarded",
           "indeterminate", "failed"} \cup Aside \cup Verifying \cup Controlling

\* The values of the variables.
DruTyped ==
    /\ druBoard \in [measure: [Classes -> Measures \cup {Missing}],
                     setup: [Classes -> Limits \cup {Unset}],
                     known: SUBSET Classes, ignored: SUBSET Classes]
    /\ sidecar \in DruFiles
    /\ druPc \in [Checks -> Places]
    /\ druHouse \in [Checks -> Houses]
    /\ druSaved \in [Checks -> DruFiles]
    /\ druReport \in [Checks -> SUBSET [class: Classes, by: {"project", "house", "canary"}]]
    /\ druOutcome \in [Checks -> {"none", "defaults", "applied", "discarded",
                                  "indeterminate", "failed"}]

ByProject(k) == \A v \in druReport[k]: v.by = "project"

\* The file of k, with the canary or without, and that KiCad has read it.
WithCanary(k) == Rendered(Told(k), TRUE)
Shared(k) == SharesAClass(ToRules(Told(k)))
Confirmed(k) ==
    /\ Against(k)
    /\ sidecar = Rendered(Told(k), ~Shared(k))
    /\ Parsed(sidecar)
\* The canary of k did not hit.
Silent(k) == Against(k) /\ ~CanaryHit(Drc(WithCanary(k)))

\* What holds at each place, and after each outcome.
AtPlace(k) ==
    /\ druPc[k] \in Aside => sidecar \in {NoFile, UserFile}
    /\ druPc[k] \notin Aside \cup Controlling => druSaved[k] = NoFile
    /\ druPc[k] = "putBack" \/ (druPc[k] = "judge" /\ ~Against(k)) => ByProject(k)
    /\ druPc[k] \in {"write"} \cup Verifying => Against(k)
    /\ druPc[k] \in Verifying => sidecar = WithCanary(k)
    /\ druPc[k] = "look" => druReport[k] = Drc(sidecar)
    /\ druPc[k] = "rewrite" => CanaryHit(Drc(sidecar)) /\ Shared(k)
    /\ druPc[k] = "rerun" => Confirmed(k) /\ Shared(k)
    /\ druPc[k] = "judge" /\ Against(k) => Confirmed(k) /\ druReport[k] = Drc(sidecar)
    /\ druPc[k] = "control" => Silent(k)
    /\ druPc[k] \in Controlling => Silent(k) /\ druSaved[k] = WithCanary(k)
    /\ druPc[k] \in {"discarded", "indeterminate"} => Silent(k) /\ sidecar = WithCanary(k)
AfterOutcome(k) ==
    /\ druOutcome[k] # "none" => druPc[k] = "idle"
    /\ druOutcome[k] = "defaults" => ByProject(k)
    /\ druOutcome[k] = "applied" => Confirmed(k) /\ druReport[k] = StripCanary(Drc(sidecar))
    /\ druOutcome[k] \in {"discarded", "indeterminate"} =>
          Silent(k) /\ sidecar = WithCanary(k)

\* The inductive invariant of one check at a time.
CheckIInv == DruTyped /\ \A k \in Checks: AtPlace(k) /\ AfterOutcome(k)
\* Some number is the least of any that there are.
Below == {p \in Nat \X Nat: p[1] < p[2]}
LEMMA SomeLeast ==
  ASSUME NEW T \in SUBSET Nat, T # {}
  PROVE  \E x \in T: \A y \in T: x <= y
<1>1. IsWellFoundedOn(Below, Nat)
  BY NatLessThanWellFounded DEF Below, OpToRel
<1>2. PICK x \in T: \A y \in T: <<y, x>> \notin Below
  BY <1>1, WFMin
<1>3. \A y \in T: y \in Nat /\ x \in Nat
  OBVIOUS
<1>4. \A y \in T: y < x => <<y, x>> \in Below
  BY <1>3 DEF Below
<1>5. ASSUME NEW y \in T PROVE x <= y
  <2>1. ~(y < x)
    BY <1>2, <1>4
  <2>2. QED
    BY <1>3, <2>1
<1>6. QED
  BY <1>5

\* The canary is in one of the classes, and in one without a rule if there is
\* one.
LEMMA CanaryHasClass ==
  ASSUME NEW rules
  PROVE  /\ CanaryClass(rules) \in Classes
         /\ ~SharesAClass(rules) => rules[CanaryClass(rules)] = Unset
         /\ Candidates[1] \in Classes
<1>1. /\ Candidates \in Seq(Classes) /\ Len(Candidates) \in Nat \ {0}
      /\ DOMAIN Candidates = 1..Len(Candidates)
  BY DruAssumption
<1>2. 1 \in DOMAIN Candidates /\ \A i \in DOMAIN Candidates: Candidates[i] \in Classes
  BY <1>1
<1>3. CASE SharesAClass(rules)
  BY <1>2, <1>3 DEF CanaryClass
<1>4. CASE ~SharesAClass(rules)
  <2> DEFINE T == Unused(rules)
  <2>1. T \in SUBSET Nat /\ T # {} /\ \A i \in T: i \in DOMAIN Candidates /\ rules[Candidates[i]] = Unset
    BY <1>1, <1>4 DEF SharesAClass, Unused
  <2>2. CanaryClass(rules) = Candidates[Min(T)]
    BY <1>4 DEF CanaryClass
  <2> HIDE DEF T
  <2>3. \E x \in T: \A y \in T: x <= y
    BY <2>1, SomeLeast
  <2>4. Min(T) \in T
    BY <2>3 DEF Min
  <2>5. QED
    BY <1>2, <1>4, <2>1, <2>2, <2>4
<1>5. QED
  BY <1>3, <1>4

\* The files of a check.
LEMMA RenderedIs ==
  ASSUME NEW l \in LimitSets, DruTyped, NEW w \in BOOLEAN
  PROVE  /\ ToRules(l) \in LimitSets
         /\ Rendered(l, w) \in DruFiles /\ Rendered(l, w) # NoFile
         /\ IsGenerated(Rendered(l, w))
         /\ Rendered(l, w).is = "ours" /\ Rendered(l, w).rules = ToRules(l)
         /\ Rendered(l, w).canary = IF w THEN CanaryClass(ToRules(l)) ELSE NoClass
<1>1. ToRules(l) \in LimitSets
  BY DEF ToRules, LimitSets
<1>2. Rendered(l, w) = [is |-> "ours", rules |-> ToRules(l),
                        canary |-> IF w THEN CanaryClass(ToRules(l)) ELSE NoClass]
  BY DEF Rendered, Generated
<1>3. Rendered(l, w) \in DruFiles
  BY <1>1, <1>2, CanaryHasClass DEF DruFiles, LimitSets
<1>4. QED
  BY <1>1, <1>2, <1>3 DEF NoFile, IsGenerated

\* The rule in force in a class.
LEMMA InForceIs ==
  ASSUME NEW f, NEW c
  PROVE  /\ Parsed(f) /\ f.canary = c => InForce(f, c) = Rule("canary", Canary)
         /\ Parsed(f) /\ f.canary # c /\ f.rules[c] # Unset =>
               InForce(f, c) = Rule("house", f.rules[c])
         /\ ~Parsed(f) \/ (f.canary # c /\ f.rules[c] = Unset) =>
               InForce(f, c) = Rule("project", druBoard.setup[c])
         /\ InForce(f, c).by \in {"project", "house", "canary"}
<1>1. CASE Parsed(f) /\ f.canary = c
  BY <1>1 DEF InForce, Rule
<1>2. CASE Parsed(f) /\ f.canary # c /\ f.rules[c] # Unset
  BY <1>2 DEF InForce, Rule
<1>3. CASE ~Parsed(f) \/ (f.canary # c /\ f.rules[c] = Unset)
  BY <1>3 DEF InForce, Rule
<1>4. QED
  BY <1>1, <1>2, <1>3

\* What is found, and by which rule.
LEMMA Finding ==
  ASSUME NEW f, NEW c \in Classes, NEW by
  PROVE  [class |-> c, by |-> by] \in Drc(f) <=>
            /\ c \notin druBoard.ignored /\ druBoard.measure[c] < InForce(f, c).limit
            /\ by = InForce(f, c).by
BY DEF Drc

LEMMA FindingsAre ==
  ASSUME NEW f
  PROVE  /\ Drc(f) \in SUBSET [class: Classes, by: {"project", "house", "canary"}]
         /\ \A v \in Drc(f): v.class \in Classes /\ v.by = InForce(f, v.class).by
                             /\ v = [class |-> v.class, by |-> v.by]
BY InForceIs DEF Drc

\* Without a file of a house, KiCad reports what the project's settings find.
LEMMA OnlyProject ==
  ASSUME NEW f \in {NoFile, UserFile}
  PROVE  \A v \in Drc(f): v.by = "project"
<1>1. \A c \in Classes: InForce(f, c).by = "project"
  <2> SUFFICES ASSUME NEW c \in Classes PROVE InForce(f, c).by = "project"
    OBVIOUS
  <2>1. CASE f = NoFile
    BY <2>1, InForceIs DEF Parsed, Rule
  <2>2. CASE f = UserFile
    <3>1. f.canary # c /\ f.rules[c] = Unset
      BY <2>2, DruAssumption DEF UserFile, NoRules
    <3>2. QED
      BY <3>1, InForceIs DEF Rule
  <2>3. QED
    BY <2>1, <2>2
<1>2. QED
  BY <1>1, FindingsAre

\* A hit of the canary proves that KiCad has read the file.
LEMMA HitProves ==
  ASSUME NEW f, CanaryHit(Drc(f))
  PROVE  Parsed(f)
<1>1. PICK c \in Classes: InForce(f, c).by = "canary"
  BY FindingsAre DEF CanaryHit
<1>2. QED
  BY <1>1, InForceIs DEF Rule

\* What KiCad has read with the canary it reads without.
LEMMA ReadWithout ==
  ASSUME DruTyped, NEW l \in LimitSets, Parsed(Rendered(l, TRUE))
  PROVE  Parsed(Rendered(l, FALSE))
<1>1. \A c \in Classes: c # NoClass
  BY DruAssumption
<1>2. QED
  BY <1>1, RenderedIs DEF Parsed

\* A canary that does not hit, on a board that has something of every class and
\* with no check switched off, proves that KiCad has dropped the file.
LEMMA SilenceProves ==
  ASSUME DruTyped, NEW l \in LimitSets, ~CanaryHit(Drc(Rendered(l, TRUE))),
         druBoard.ignored = {}, \A c \in Classes: druBoard.measure[c] # Missing
  PROVE  ~Parsed(Rendered(l, TRUE))
<1> DEFINE f == Rendered(l, TRUE)
           c == CanaryClass(ToRules(l))
<1>1. SUFFICES ASSUME Parsed(f) PROVE FALSE
  OBVIOUS
<1>2. c \in Classes /\ f.canary = c
  BY CanaryHasClass, RenderedIs
<1> HIDE DEF f, c
<1>3. InForce(f, c).by = "canary" /\ InForce(f, c).limit = Canary
  BY <1>1, <1>2, InForceIs DEF Rule
<1>4. druBoard.measure[c] < Canary
  <2>1. druBoard.measure[c] \in Measures /\ druBoard.measure[c] # Missing
    BY <1>2 DEF DruTyped
  <2>2. Measures \subseteq 1..(Canary - 1) \cup {Missing}
    BY DruAssumption
  <2>3. druBoard.measure[c] \in 1..(Canary - 1)
    BY <2>1, <2>2
  <2>4. QED
    BY <2>3 DEF Canary
<1>5. [class |-> c, by |-> "canary"] \in Drc(f)
  BY <1>2, <1>3, <1>4, Finding
<1>6. QED
  BY <1>5 DEF CanaryHit, f
\* A limit is a number, and so is a measure.
LEMMA DruNumbers ==
  ASSUME DruTyped, NEW c \in Classes
  PROVE  /\ druBoard.measure[c] \in Nat \ {0}
         /\ druBoard.setup[c] \in Nat
         /\ \A l \in LimitSets: l[c] \in Nat
<1>1. /\ Measures \subseteq 1..(Canary - 1) \cup {Missing}
      /\ Limits \subseteq 1..(Canary - 1)
  BY DruAssumption
<1>2. \A n \in 1..(Canary - 1) \cup {Missing}: n \in Nat \ {0}
  BY DEF Canary, Missing
<1>3. Unset \in Nat /\ Missing \in Nat \ {0}
  BY DEF Unset, Missing
<1>4. druBoard.measure[c] \in Measures \cup {Missing} /\ druBoard.setup[c] \in Limits \cup {Unset}
  BY DEF DruTyped
<1>5. QED
  BY <1>1, <1>2, <1>3, <1>4 DEF LimitSets

\* What a check is told are limits.
LEMMA ToldIs ==
  ASSUME DruTyped, NEW k \in Checks, Against(k)
  PROVE  Told(k) \in LimitSets
<1>1. druHouse[k] \in Houses /\ druHouse[k] # NoHouse
  BY DEF DruTyped, Against
<1>2. PICK l \in LimitSets: druHouse[k] = House(l)
  BY <1>1 DEF Houses
<1>3. QED
  BY <1>2 DEF Told, House

\* What a report says that the canary has confirmed, and its findings are left
\* out of: what the house's rules find, and what the project's do, unless a
\* stricter rule does.
LEMMA ConfirmedReport ==
  ASSUME DruTyped, NEW k \in Checks, Confirmed(k), druReport[k] = StripCanary(Drc(sidecar)),
         NEW c \in Classes
  PROVE  /\ Finds(k, c, "house") <=> /\ c \notin druBoard.ignored
                                     /\ druBoard.measure[c] < RulesOf(k)[c]
         /\ c # sidecar.canary => OwnFindingKept(k, c)
<1> DEFINE rules == ToRules(Told(k))
           l == Told(k)
<1>1. l \in LimitSets /\ rules \in LimitSets
  <2>1. l \in LimitSets
    BY ToldIs DEF Confirmed
  <2>2. QED
    BY <2>1, RenderedIs
<1>2. /\ Parsed(sidecar) /\ sidecar.rules = rules
      /\ sidecar.canary = c => rules[c] = Unset
  <2>1. sidecar = Rendered(l, ~Shared(k)) /\ Parsed(sidecar)
    BY DEF Confirmed
  <2>2. (~Shared(k)) \in BOOLEAN
    BY DEF Shared, SharesAClass
  <2>3. sidecar.rules = rules /\ sidecar.canary = IF ~Shared(k) THEN CanaryClass(rules) ELSE NoClass
    BY <1>1, <2>1, <2>2, RenderedIs
  <2>4. NoClass # c
    BY DruAssumption
  <2>5. QED
    BY <2>1, <2>3, <2>4, CanaryHasClass DEF Shared
<1>3. rules = RulesOf(k)
  BY DEF RulesOf, Told
<1> HIDE DEF rules
<1>4. /\ druBoard.measure[c] \in Nat \ {0} /\ druBoard.setup[c] \in Nat /\ rules[c] \in Nat
      /\ l[c] \in Nat
  BY <1>1, DruNumbers
<1>5. \A by: by # "canary" =>
         (Finds(k, c, by) <=> /\ c \notin druBoard.ignored
                              /\ druBoard.measure[c] < InForce(sidecar, c).limit
                              /\ by = InForce(sidecar, c).by)
  BY Finding DEF Finds, StripCanary
<1>6. CASE sidecar.canary = c
  <2>1. rules[c] = 0 /\ InForce(sidecar, c).by = "canary"
    BY <1>2, <1>6, InForceIs DEF Unset, Rule
  <2>2. ~Finds(k, c, "house")
    BY <1>5, <2>1
  <2>3. QED
    BY <1>3, <1>4, <1>6, <2>1, <2>2
<1>7. CASE sidecar.canary # c /\ rules[c] # Unset
  <2>1. InForce(sidecar, c).by = "house" /\ InForce(sidecar, c).limit = rules[c]
    BY <1>2, <1>7, InForceIs DEF Rule
  <2>2. Finds(k, c, "house") <=> c \notin druBoard.ignored /\ druBoard.measure[c] < rules[c]
    BY <1>5, <2>1
  <2>3. OwnFindingKept(k, c)
    <3> SUFFICES ASSUME c \notin druBoard.ignored, druBoard.measure[c] < druBoard.setup[c]
                 PROVE  \E v \in druReport[k]: v.class = c
      BY DEF OwnFindingKept
    <3>1. c \notin YourSettingIsStricter(l) /\ rules[c] = l[c]
      BY <1>7 DEF rules, ToRules
    <3>2. ~(l[c] <= druBoard.setup[c])
      <4>1. l[c] # Unset /\ druBoard.setup[c] # Unset
        BY <1>4, <1>7, <3>1 DEF Unset
      <4>2. QED
        BY <3>1, <4>1 DEF YourSettingIsStricter
    <3>3. druBoard.measure[c] < rules[c]
      BY <1>4, <3>1, <3>2
    <3>4. Finds(k, c, "house")
      BY <2>2, <3>3
    <3>5. QED
      BY <3>4 DEF Finds
  <2>4. QED
    BY <1>3, <2>2, <2>3
<1>8. CASE sidecar.canary # c /\ rules[c] = Unset
  <2>1. InForce(sidecar, c).by = "project" /\ InForce(sidecar, c).limit = druBoard.setup[c]
    BY <1>2, <1>8, InForceIs DEF Rule
  <2>2. ~Finds(k, c, "house") /\ ~(druBoard.measure[c] < rules[c])
    BY <1>4, <1>5, <1>8, <2>1 DEF Unset
  <2>3. OwnFindingKept(k, c)
    <3> SUFFICES ASSUME c \notin druBoard.ignored, druBoard.measure[c] < druBoard.setup[c]
                 PROVE  \E v \in druReport[k]: v.class = c
      BY DEF OwnFindingKept
    <3>1. Finds(k, c, "project")
      BY <1>5, <2>1
    <3>2. QED
      BY <3>1 DEF Finds
  <2>4. QED
    BY <1>3, <2>2, <2>3
<1>9. QED
  BY <1>6, <1>7, <1>8

\* The initial state.
LEMMA CheckInitial == DruInit => CheckIInv
<1> SUFFICES ASSUME DruInit PROVE CheckIInv
  OBVIOUS
<1>1. DruTyped
  <2>1. druBoard \in [measure: [Classes -> Measures \cup {Missing}],
                      setup: [Classes -> Limits \cup {Unset}],
                      known: SUBSET Classes, ignored: SUBSET Classes]
    BY DEF DruInit, NoRules
  <2>2. QED
    BY <2>1 DEF DruInit, DruTyped, DruFiles, Places, Houses
<1>2. ASSUME NEW k \in Checks PROVE AtPlace(k) /\ AfterOutcome(k)
  BY DEF DruInit, AtPlace, AfterOutcome, Aside, Verifying, Controlling
<1>3. QED
  BY <1>1, <1>2 DEF CheckIInv

\* The user has drawn a board.
LEMMA DrawKeeps ==
  ASSUME CheckIInv, Draw
  PROVE  CheckIInv'
<1>1. /\ \A k \in Checks: druPc[k] = "undrawn"
      /\ sidecar' \in {NoFile, UserFile} /\ druPc' = [k \in Checks |-> "idle"]
      /\ UNCHANGED <<druHouse, druSaved, druReport, druOutcome>>
  BY DEF Draw
<1>2. PICK m \in [Classes -> Measures], s \in [Classes -> Limits \cup {Unset}],
           n \in KnownSets, i \in IgnoredSets:
          druBoard' = [measure |-> m, setup |-> s, known |-> n, ignored |-> i]
  BY DEF Draw
<1>3. n \in SUBSET Classes /\ i \in SUBSET Classes
  BY DruAssumption
<1>4. DruTyped'
  BY <1>1, <1>2, <1>3 DEF CheckIInv, DruTyped, DruFiles, Places
<1>5. ASSUME NEW k \in Checks PROVE AtPlace(k)' /\ AfterOutcome(k)'
  <2>1. druOutcome[k] = "none" /\ druSaved[k] = NoFile
    BY <1>1 DEF CheckIInv, AtPlace, AfterOutcome, Aside, Controlling
  <2>2. QED
    BY <1>1, <2>1 DEF AtPlace, AfterOutcome, Aside, Verifying, Controlling
<1>6. QED
  BY <1>4, <1>5 DEF CheckIInv
\* With the same board, house and file, files and reports are the same.
LEMMA SameHouse ==
  ASSUME UNCHANGED <<druBoard, druHouse>>, NEW k \in Checks
  PROVE  /\ \A w \in BOOLEAN: Rendered(Told(k), w)' = Rendered(Told(k), w)
         /\ WithCanary(k)' = WithCanary(k)
         /\ Shared(k)' <=> Shared(k)
         /\ Against(k)' <=> Against(k)
<1>1. Told(k)' = Told(k) /\ (Against(k)' <=> Against(k))
  BY DEF Told, Against
<1>2. ToRules(Told(k))' = ToRules(Told(k))
  BY <1>1 DEF ToRules, YourSettingIsStricter
<1>3. (Shared(k)' <=> Shared(k)) /\ CanaryClass(ToRules(Told(k)))' = CanaryClass(ToRules(Told(k)))
  BY <1>2 DEF Shared, CanaryClass, SharesAClass, Unused, Min
<1>4. \A w \in BOOLEAN: Rendered(Told(k), w)' = Rendered(Told(k), w)
  BY <1>2, <1>3 DEF Rendered
<1>5. WithCanary(k)' = WithCanary(k)
  BY <1>4 DEF WithCanary
<1>6. QED
  BY <1>1, <1>3, <1>4, <1>5

LEMMA SameFile ==
  ASSUME UNCHANGED <<druBoard, sidecar>>
  PROVE  Drc(sidecar)' = Drc(sidecar) /\ (Parsed(sidecar)' <=> Parsed(sidecar))
BY DEF Drc, InForce, Parsed, Rule

LEMMA SameSilence ==
  ASSUME UNCHANGED <<druBoard, druHouse>>, NEW k \in Checks
  PROVE  Silent(k)' <=> Silent(k)
<1>1. WithCanary(k)' = WithCanary(k) /\ (Against(k)' <=> Against(k))
  BY SameHouse
<1>2. Drc(WithCanary(k))' = Drc(WithCanary(k))
  BY <1>1 DEF Drc, InForce, Parsed, Rule
<1>3. QED
  BY <1>1, <1>2 DEF Silent, CanaryHit

\* A step of a check under way: only its place has to be looked at.
LEMMA OneGoes ==
  ASSUME CheckIInv, NEW k \in Checks, Checks = {k}, NEW from, NEW to \in Places,
         Step(k, from, to), from # "idle", UNCHANGED <<druBoard, druHouse, druOutcome>>,
         sidecar' \in DruFiles,
         \E f \in DruFiles: druSaved' = [druSaved EXCEPT ![k] = f],
         druReport' = druReport \/ druReport' = [druReport EXCEPT ![k] = Drc(sidecar)],
         AtPlace(k)'
  PROVE  CheckIInv'
<1>1. druPc[k] = from /\ druPc'[k] = to /\ druPc' \in [Checks -> Places]
  BY DEF Step, CheckIInv, DruTyped
<1>2. druOutcome'[k] = "none"
  BY <1>1 DEF CheckIInv, AfterOutcome
<1>3. druReport' \in [Checks -> SUBSET [class: Classes, by: {"project", "house", "canary"}]]
  BY FindingsAre DEF CheckIInv, DruTyped
<1>4. DruTyped'
  BY <1>1, <1>3 DEF CheckIInv, DruTyped
<1>5. AfterOutcome(k)'
  BY <1>2 DEF AfterOutcome
<1>6. QED
  BY <1>4, <1>5 DEF CheckIInv

\* What is put aside, by where the check is and goes.
LEMMA SavedSame ==
  ASSUME CheckIInv, NEW k \in Checks, UNCHANGED druSaved
  PROVE  \E f \in DruFiles: druSaved' = [druSaved EXCEPT ![k] = f]
<1>1. druSaved[k] \in DruFiles /\ druSaved' = [druSaved EXCEPT ![k] = druSaved[k]]
  BY DEF CheckIInv, DruTyped
<1>2. QED
  BY <1>1

\* A check is called.
LEMMA CallKeeps ==
  ASSUME CheckIInv, NEW k \in Checks, Checks = {k}, NEW h \in Houses, CheckBoard(k, h)
  PROVE  CheckIInv'
<1>1. /\ druPc[k] = "idle" /\ druPc'[k] = "stash" /\ druPc' \in [Checks -> Places]
      /\ druHouse' = [druHouse EXCEPT ![k] = h] /\ druOutcome'[k] = "none"
      /\ UNCHANGED <<druBoard, sidecar, druSaved, druReport>>
  BY DEF CheckBoard, Step, CheckIInv, DruTyped, Places
<1>2. DruTyped'
  BY <1>1 DEF CheckBoard, CheckIInv, DruTyped
<1>3. druSaved[k] = NoFile
  BY <1>1 DEF CheckIInv, AtPlace, Aside, Controlling
<1>4. AtPlace(k)' /\ AfterOutcome(k)'
  BY <1>1, <1>3 DEF AtPlace, AfterOutcome, Aside, Verifying, Controlling
<1>5. QED
  BY <1>2, <1>4 DEF CheckIInv

\* A file of ours is put aside.
LEMMA StashKeeps ==
  ASSUME CheckIInv, NEW k \in Checks, Checks = {k}, Stash(k)
  PROVE  CheckIInv'
<1>1. /\ Step(k, "stash", "before") /\ UNCHANGED <<druBoard, druHouse, druReport, druOutcome>>
      /\ \/ /\ druSaved' = [druSaved EXCEPT ![k] = sidecar] /\ sidecar' = NoFile
         \/ /\ ~IsGenerated(sidecar)
            /\ druSaved' = [druSaved EXCEPT ![k] = NoFile] /\ sidecar' = sidecar
  BY DEF Stash
<1>2. sidecar \in DruFiles /\ NoFile \in DruFiles
  BY DEF CheckIInv, DruTyped, DruFiles
<1>3. ~IsGenerated(sidecar) => sidecar = UserFile
  BY <1>2 DEF DruFiles, IsGenerated, NoFile
<1>4. druPc'[k] = "before" /\ "before" \in Places
  BY <1>1 DEF Step, CheckIInv, DruTyped, Places, Aside
<1>5. sidecar' \in {NoFile, UserFile} /\ sidecar' \in DruFiles
  BY <1>1, <1>2, <1>3
<1>6. AtPlace(k)'
  BY <1>4, <1>5 DEF AtPlace, Aside, Verifying, Controlling
<1>7. \E f \in DruFiles: druSaved' = [druSaved EXCEPT ![k] = f]
  BY <1>1, <1>2
<1>8. QED
  BY <1>1, <1>4, <1>5, <1>6, <1>7, OneGoes

\* KiCad's DRC before, and what was put aside is put back.
LEMMA BeforeKeeps ==
  ASSUME CheckIInv, NEW k \in Checks, Checks = {k},
         RunDrc(k, "before", "putBack", "putBackAndFail")
  PROVE  CheckIInv'
<1>1. UNCHANGED <<druBoard, sidecar, druHouse, druSaved, druOutcome>>
  BY DEF RunDrc
<1>2. PICK to \in {"putBack", "putBackAndFail"}:
         /\ Step(k, "before", to)
         /\ \/ druReport' = [druReport EXCEPT ![k] = Drc(sidecar)]
            \/ to = "putBackAndFail" /\ UNCHANGED druReport
  BY DEF RunDrc
<1>3. druPc[k] = "before" /\ druPc'[k] = to /\ to \in Places
  BY <1>2 DEF Step, CheckIInv, DruTyped, Places, Aside
<1>4. sidecar \in {NoFile, UserFile} /\ sidecar \in DruFiles
  BY <1>3 DEF CheckIInv, DruTyped, AtPlace, Aside
<1>5. to = "putBack" => ByProject(k)'
  <2>1. to = "putBack" => druReport'[k] = Drc(sidecar)
    BY <1>2 DEF CheckIInv, DruTyped
  <2>2. QED
    BY <1>4, <2>1, OnlyProject DEF ByProject
<1>6. AtPlace(k)'
  BY <1>1, <1>3, <1>4, <1>5 DEF AtPlace, Aside, Verifying, Controlling
<1>7. QED
  BY <1>1, <1>2, <1>3, <1>4, <1>6, SavedSame, OneGoes

LEMMA PutBackKeeps ==
  ASSUME CheckIInv, NEW k \in Checks, Checks = {k}, PutBack(k)
  PROVE  CheckIInv'
<1>1. /\ sidecar' = (IF druSaved[k] # NoFile THEN druSaved[k] ELSE sidecar)
      /\ druSaved' = [druSaved EXCEPT ![k] = NoFile]
      /\ UNCHANGED <<druBoard, druHouse, druReport, druOutcome>>
  BY DEF PutBack
<1>2. PICK from \in {"putBack", "putBackAndFail"}, to \in {"judge", "write", "failed"}:
         /\ Step(k, from, to)
         /\ to = "judge" => from = "putBack" /\ ~Against(k)
         /\ to = "write" => Against(k)
  BY DEF PutBack, Against
<1>3. druPc[k] = from /\ druPc'[k] = to /\ to \in Places
  BY <1>2 DEF Step, CheckIInv, DruTyped, Places
<1>4. sidecar' \in DruFiles /\ NoFile \in DruFiles /\ druSaved'[k] = NoFile
  BY <1>1 DEF CheckIInv, DruTyped, DruFiles
<1>5. (Against(k)' <=> Against(k)) /\ (ByProject(k)' <=> ByProject(k))
  BY <1>1 DEF Against, ByProject
<1>6. to = "judge" => ByProject(k)
  BY <1>2, <1>3 DEF CheckIInv, AtPlace
<1>7. AtPlace(k)'
  BY <1>2, <1>3, <1>4, <1>5, <1>6 DEF AtPlace, Aside, Verifying, Controlling
<1>8. QED
  BY <1>1, <1>2, <1>3, <1>4, <1>7, OneGoes

\* Our file is written, over one of ours or none.
LEMMA WriteRulesKeeps ==
  ASSUME CheckIInv, NEW k \in Checks, Checks = {k}, Write(k)
  PROVE  CheckIInv'
<1>1. UNCHANGED <<druBoard, druHouse, druSaved, druReport, druOutcome>>
  BY DEF Write
<1>2. PICK to \in {"verify", "failed"}:
         /\ Step(k, "write", to)
         /\ to = "verify" => sidecar' = Rendered(Told(k), TRUE)
         /\ to = "failed" => UNCHANGED sidecar
  BY DEF Write, Told
<1>3. druPc[k] = "write" /\ druPc'[k] = to /\ to \in Places
  BY <1>2 DEF Step, CheckIInv, DruTyped, Places, Verifying
<1>4. Against(k) /\ druSaved[k] = NoFile
  BY <1>3 DEF CheckIInv, AtPlace, Aside, Controlling
<1>5. sidecar' \in DruFiles
  BY <1>2, <1>4, ToldIs, RenderedIs DEF CheckIInv, DruTyped
<1>6. to = "verify" => sidecar' = WithCanary(k)'
  BY <1>1, <1>2, SameHouse DEF WithCanary
<1>7. Against(k)'
  BY <1>1, <1>4, SameHouse
<1>8. AtPlace(k)'
  BY <1>1, <1>3, <1>4, <1>6, <1>7 DEF AtPlace, Aside, Verifying, Controlling
<1>9. QED
  BY <1>1, <1>2, <1>3, <1>5, <1>8, SavedSame, OneGoes
\* KiCad's DRC of our file.
LEMMA VerifyKeeps ==
  ASSUME CheckIInv, NEW k \in Checks, Checks = {k}, RunDrc(k, "verify", "look", "failed")
  PROVE  CheckIInv'
<1>1. UNCHANGED <<druBoard, sidecar, druHouse, druSaved, druOutcome>>
  BY DEF RunDrc
<1>2. PICK to \in {"look", "failed"}:
         /\ Step(k, "verify", to)
         /\ \/ druReport' = [druReport EXCEPT ![k] = Drc(sidecar)]
            \/ to = "failed" /\ UNCHANGED druReport
  BY DEF RunDrc
<1>3. druPc[k] = "verify" /\ druPc'[k] = to /\ to \in Places
  BY <1>2 DEF Step, CheckIInv, DruTyped, Places, Verifying
<1>4. Against(k) /\ druSaved[k] = NoFile /\ sidecar = WithCanary(k)
  BY <1>3 DEF CheckIInv, AtPlace, Aside, Controlling, Verifying
<1>5. to = "look" => druReport'[k] = Drc(sidecar)'
  <2>1. to = "look" => druReport'[k] = Drc(sidecar)
    BY <1>2 DEF CheckIInv, DruTyped
  <2>2. QED
    BY <1>1, <2>1, SameFile
<1>6. Against(k)' /\ sidecar' = WithCanary(k)' /\ druSaved'[k] = NoFile
  BY <1>1, <1>4, SameHouse
<1>7. AtPlace(k)'
  BY <1>3, <1>5, <1>6 DEF AtPlace, Aside, Verifying, Controlling
<1>8. sidecar' \in DruFiles
  BY <1>1 DEF CheckIInv, DruTyped
<1>9. QED
  BY <1>1, <1>2, <1>3, <1>7, <1>8, SavedSame, OneGoes

\* The verdict: a canary that hit proves that KiCad has read our file.
LEMMA LookKeeps2 ==
  ASSUME CheckIInv, NEW k \in Checks, Checks = {k}, Look(k)
  PROVE  CheckIInv'
<1>1. UNCHANGED <<druBoard, sidecar, druHouse, druSaved, druReport, druOutcome>>
  BY DEF Look
<1>2. PICK to \in {"control", "rewrite", "judge"}:
         /\ Step(k, "look", to)
         /\ to = "control" => ~CanaryHit(druReport[k])
         /\ to \in {"rewrite", "judge"} => CanaryHit(druReport[k])
         /\ to = "rewrite" => Shared(k)
         /\ to = "judge" => ~Shared(k)
  BY DEF Look, Verdict, Shared, Told
<1>3. druPc[k] = "look" /\ druPc'[k] = to /\ to \in Places
  BY <1>2 DEF Step, CheckIInv, DruTyped, Places, Verifying
<1>4. /\ Against(k) /\ druSaved[k] = NoFile /\ sidecar = WithCanary(k)
      /\ druReport[k] = Drc(sidecar)
  BY <1>3 DEF CheckIInv, AtPlace, Aside, Controlling, Verifying
<1>5. /\ Against(k)' /\ sidecar' = WithCanary(k)' /\ druSaved'[k] = NoFile
      /\ druReport'[k] = Drc(sidecar)' /\ (Shared(k)' <=> Shared(k))
  BY <1>1, <1>4, SameHouse, SameFile
<1>6. to = "control" => Silent(k)'
  <2>1. to = "control" => Silent(k)
    BY <1>2, <1>4 DEF Silent
  <2>2. QED
    BY <1>1, <2>1, SameSilence
<1>7. to = "rewrite" => CanaryHit(Drc(sidecar))'
  <2>1. CanaryHit(druReport[k])' <=> CanaryHit(druReport[k])
    BY <1>1 DEF CanaryHit
  <2>2. CanaryHit(Drc(sidecar))' <=> CanaryHit(druReport[k])'
    BY <1>5 DEF CanaryHit
  <2>3. QED
    BY <1>2, <2>1, <2>2
<1>8. to = "judge" => Confirmed(k)'
  <2> SUFFICES ASSUME to = "judge" PROVE Confirmed(k)'
    OBVIOUS
  <2>1. Parsed(sidecar)
    BY <1>2, <1>4, HitProves
  <2>2. Parsed(sidecar)'
    BY <1>1, <2>1, SameFile
  <2>3. ~Shared(k)'
    BY <1>2, <1>5
  <2>4. sidecar' = Rendered(Told(k), ~Shared(k))'
    BY <1>5, <2>3 DEF WithCanary
  <2>5. QED
    BY <1>5, <2>2, <2>4 DEF Confirmed
<1>9. AtPlace(k)'
  BY <1>2, <1>3, <1>5, <1>6, <1>7, <1>8 DEF AtPlace, Aside, Verifying, Controlling
<1>10. sidecar' \in DruFiles
  BY <1>1 DEF CheckIInv, DruTyped
<1>11. QED
  BY <1>1, <1>2, <1>3, <1>9, <1>10, SavedSame, OneGoes

\* The file without the canary that has overridden a rule.
LEMMA RewriteKeeps ==
  ASSUME CheckIInv, NEW k \in Checks, Checks = {k}, Rewrite(k)
  PROVE  CheckIInv'
<1>1. /\ Step(k, "rewrite", "rerun") /\ sidecar' = Rendered(Told(k), FALSE)
      /\ UNCHANGED <<druBoard, druHouse, druSaved, druReport, druOutcome>>
  BY DEF Rewrite, Told
<1>2. druPc[k] = "rewrite" /\ druPc'[k] = "rerun" /\ "rerun" \in Places
  BY <1>1 DEF Step, CheckIInv, DruTyped, Places
<1>3. /\ Against(k) /\ druSaved[k] = NoFile /\ sidecar = WithCanary(k)
      /\ CanaryHit(Drc(sidecar)) /\ Shared(k)
  BY <1>2 DEF CheckIInv, AtPlace, Aside, Controlling, Verifying
<1>4. Parsed(Rendered(Told(k), FALSE)) /\ sidecar' \in DruFiles
  <2>1. Parsed(WithCanary(k))
    BY <1>3, HitProves
  <2>2. QED
    BY <1>1, <1>3, <2>1, ToldIs, ReadWithout, RenderedIs DEF CheckIInv, WithCanary
<1>5. Parsed(sidecar)'
  <2> DEFINE f == Rendered(Told(k), FALSE)
  <2>1. f # NoFile /\ \A c \in Classes: f.rules[c] # Unset \/ f.canary = c => c \in druBoard.known
    BY <1>4 DEF Parsed
  <2> HIDE DEF f
  <2>2. sidecar' = f /\ druBoard' = druBoard
    BY <1>1 DEF f
  <2>3. QED
    BY <2>1, <2>2 DEF Parsed
<1>6. Against(k)' /\ Shared(k)' /\ druSaved'[k] = NoFile /\ sidecar' = Rendered(Told(k), FALSE)'
  BY <1>1, <1>3, SameHouse
<1>7. Confirmed(k)'
  BY <1>5, <1>6 DEF Confirmed
<1>8. AtPlace(k)'
  BY <1>2, <1>6, <1>7 DEF AtPlace, Aside, Verifying, Controlling
<1>9. QED
  BY <1>1, <1>2, <1>4, <1>8, SavedSame, OneGoes

LEMMA RerunKeeps ==
  ASSUME CheckIInv, NEW k \in Checks, Checks = {k}, RunDrc(k, "rerun", "judge", "failed")
  PROVE  CheckIInv'
<1>1. UNCHANGED <<druBoard, sidecar, druHouse, druSaved, druOutcome>>
  BY DEF RunDrc
<1>2. PICK to \in {"judge", "failed"}:
         /\ Step(k, "rerun", to)
         /\ \/ druReport' = [druReport EXCEPT ![k] = Drc(sidecar)]
            \/ to = "failed" /\ UNCHANGED druReport
  BY DEF RunDrc
<1>3. druPc[k] = "rerun" /\ druPc'[k] = to /\ to \in Places
  BY <1>2 DEF Step, CheckIInv, DruTyped, Places
<1>4. Confirmed(k) /\ Shared(k) /\ druSaved[k] = NoFile
  BY <1>3 DEF CheckIInv, AtPlace, Aside, Controlling, Verifying
<1>5. to = "judge" => druReport'[k] = Drc(sidecar)'
  <2>1. to = "judge" => druReport'[k] = Drc(sidecar)
    BY <1>2 DEF CheckIInv, DruTyped
  <2>2. QED
    BY <1>1, <2>1, SameFile
<1>6. Confirmed(k)' /\ druSaved'[k] = NoFile /\ Against(k)'
  <2>1. Rendered(Told(k), FALSE)' = Rendered(Told(k), FALSE) /\ Shared(k)' /\ Against(k)'
    BY <1>1, <1>4, SameHouse DEF Confirmed
  <2>2. sidecar = Rendered(Told(k), FALSE) /\ Parsed(sidecar)'
    BY <1>1, <1>4, SameFile DEF Confirmed
  <2>3. QED
    BY <1>1, <1>4, <2>1, <2>2 DEF Confirmed
<1>7. AtPlace(k)'
  BY <1>3, <1>5, <1>6 DEF AtPlace, Aside, Verifying, Controlling
<1>8. sidecar' \in DruFiles
  BY <1>1 DEF CheckIInv, DruTyped
<1>9. QED
  BY <1>1, <1>2, <1>3, <1>7, <1>8, SavedSame, OneGoes

\* The control file in place of ours, and ours again.
LEMMA ControlKeeps ==
  ASSUME CheckIInv, NEW k \in Checks, Checks = {k}, WriteControl(k)
  PROVE  CheckIInv'
<1>1. /\ Step(k, "control", "runControl") /\ druSaved' = [druSaved EXCEPT ![k] = sidecar]
      /\ sidecar' = Control
      /\ UNCHANGED <<druBoard, druHouse, druReport, druOutcome>>
  BY DEF WriteControl
<1>2. druPc[k] = "control" /\ druPc'[k] = "runControl" /\ "runControl" \in Places
  BY <1>1 DEF Step, CheckIInv, DruTyped, Places, Controlling
<1>3. Silent(k) /\ sidecar = WithCanary(k)
  BY <1>2 DEF CheckIInv, AtPlace, Verifying
<1>4. Silent(k)' /\ druSaved'[k] = WithCanary(k)'
  BY <1>1, <1>3, SameHouse, SameSilence DEF CheckIInv, DruTyped
<1>5. Control \in DruFiles /\ sidecar \in DruFiles
  <2>1. NoRules \in [Classes -> Limits \cup {Unset}] /\ Candidates[1] \in Classes
    BY CanaryHasClass DEF NoRules
  <2>2. QED
    BY <2>1 DEF Control, Generated, DruFiles, CheckIInv, DruTyped
<1>6. AtPlace(k)'
  BY <1>2, <1>4 DEF AtPlace, Aside, Verifying, Controlling
<1>7. QED
  BY <1>1, <1>2, <1>5, <1>6, OneGoes

LEMMA RunControlKeeps ==
  ASSUME CheckIInv, NEW k \in Checks, Checks = {k}, RunControl(k)
  PROVE  CheckIInv'
<1>1. UNCHANGED <<druBoard, sidecar, druHouse, druSaved, druReport, druOutcome>>
  BY DEF RunControl
<1>2. PICK to \in {"fired", "silent", "broken"}: Step(k, "runControl", to)
  BY DEF RunControl
<1>3. druPc[k] = "runControl" /\ druPc'[k] = to /\ to \in Places
  BY <1>2 DEF Step, CheckIInv, DruTyped, Places, Controlling
<1>4. Silent(k)' /\ druSaved'[k] = WithCanary(k)'
  BY <1>1, <1>3, SameHouse, SameSilence DEF CheckIInv, AtPlace, Controlling
<1>5. AtPlace(k)'
  BY <1>3, <1>4 DEF AtPlace, Aside, Verifying, Controlling
<1>6. sidecar' \in DruFiles
  BY <1>1 DEF CheckIInv, DruTyped
<1>7. QED
  BY <1>1, <1>2, <1>3, <1>5, <1>6, SavedSame, OneGoes

LEMMA RemoveControlKeeps ==
  ASSUME CheckIInv, NEW k \in Checks, Checks = {k}, NEW saw \in {"fired", "silent", "broken"},
         NEW verdict \in {"discarded", "indeterminate", "failed"},
         RemoveControl(k, saw, verdict)
  PROVE  CheckIInv'
<1>1. /\ Step(k, saw, verdict) /\ sidecar' = druSaved[k]
      /\ druSaved' = [druSaved EXCEPT ![k] = NoFile]
      /\ UNCHANGED <<druBoard, druHouse, druReport, druOutcome>>
  BY DEF RemoveControl
<1>2. druPc[k] = saw /\ druPc'[k] = verdict /\ verdict \in Places
  BY <1>1 DEF Step, CheckIInv, DruTyped, Places
<1>3. Silent(k) /\ druSaved[k] = WithCanary(k)
  BY <1>2 DEF CheckIInv, AtPlace, Controlling
<1>4. Silent(k)' /\ sidecar' = WithCanary(k)' /\ druSaved'[k] = NoFile
  BY <1>1, <1>3, SameHouse, SameSilence DEF CheckIInv, DruTyped
<1>5. AtPlace(k)'
  BY <1>2, <1>4 DEF AtPlace, Aside, Verifying, Controlling
<1>6. sidecar' \in DruFiles /\ NoFile \in DruFiles
  BY <1>1 DEF CheckIInv, DruTyped, DruFiles
<1>7. QED
  BY <1>1, <1>2, <1>5, <1>6, OneGoes

\* The route ends: its report and how it went.
LEMMA FinishKeeps ==
  ASSUME CheckIInv, NEW k \in Checks, Checks = {k}, Finish(k)
  PROVE  CheckIInv'
<1>1. /\ druReport' = [druReport EXCEPT ![k] = StripCanary(@)]
      /\ druPc' = [druPc EXCEPT ![k] = "idle"]
      /\ UNCHANGED <<druBoard, sidecar, druHouse, druSaved>>
  BY DEF Finish
<1>2. PICK how \in {"defaults", "applied", "discarded", "indeterminate", "failed"}:
         /\ druOutcome' = [druOutcome EXCEPT ![k] = how]
         /\ how = "defaults" => druPc[k] = "judge" /\ ~Against(k)
         /\ how = "applied" => druPc[k] = "judge" /\ Against(k)
         /\ how \in {"discarded", "indeterminate", "failed"} => druPc[k] = how
  BY DEF Finish, Against
<1>3. /\ druPc' \in [Checks -> Places] /\ druPc'[k] = "idle"
      /\ druOutcome' \in [Checks -> {"none", "defaults", "applied", "discarded",
                                     "indeterminate", "failed"}]
      /\ druOutcome'[k] = how
      /\ druReport'[k] = StripCanary(druReport[k])
  BY <1>1, <1>2 DEF CheckIInv, DruTyped, Places
<1>4. druReport' \in [Checks -> SUBSET [class: Classes, by: {"project", "house", "canary"}]]
  BY <1>1 DEF CheckIInv, DruTyped, StripCanary
<1>5. DruTyped'
  BY <1>1, <1>3, <1>4 DEF CheckIInv, DruTyped
<1>6. druSaved'[k] = NoFile
  BY <1>1, <1>2 DEF CheckIInv, AtPlace, Aside, Controlling
<1>7. AtPlace(k)'
  BY <1>3, <1>6 DEF AtPlace, Aside, Verifying, Controlling
<1>8. how = "defaults" => ByProject(k)'
  BY <1>2, <1>3 DEF CheckIInv, AtPlace, ByProject, StripCanary
<1>9. how = "applied" => Confirmed(k)' /\ druReport'[k] = StripCanary(Drc(sidecar))'
  <2> SUFFICES ASSUME how = "applied"
               PROVE  Confirmed(k)' /\ druReport'[k] = StripCanary(Drc(sidecar))'
    OBVIOUS
  <2>1. Confirmed(k) /\ druReport[k] = Drc(sidecar)
    BY <1>2 DEF CheckIInv, AtPlace
  <2>2. Drc(sidecar)' = Drc(sidecar) /\ Parsed(sidecar)'
    BY <1>1, <2>1, SameFile DEF Confirmed
  <2>3. StripCanary(Drc(sidecar))' = StripCanary(Drc(sidecar))
    BY <2>2 DEF StripCanary
  <2>4. (Shared(k)' <=> Shared(k)) /\ Against(k)' /\ \A w \in BOOLEAN: Rendered(Told(k), w)' = Rendered(Told(k), w)
    BY <1>1, <2>1, SameHouse DEF Confirmed
  <2>5. Rendered(Told(k), ~Shared(k))' = Rendered(Told(k), ~Shared(k))
    <3>1. CASE Shared(k)
      <4>1. Rendered(Told(k), FALSE)' = Rendered(Told(k), FALSE)
        BY <2>4
      <4>2. QED
        BY <2>4, <3>1, <4>1
    <3>2. CASE ~Shared(k)
      <4>1. Rendered(Told(k), TRUE)' = Rendered(Told(k), TRUE)
        BY <2>4
      <4>2. QED
        BY <2>4, <3>2, <4>1
    <3>3. QED
      BY <3>1, <3>2
  <2>6. Confirmed(k)'
    BY <1>1, <2>1, <2>2, <2>4, <2>5 DEF Confirmed
  <2>7. QED
    BY <1>3, <2>1, <2>3, <2>6
<1>10. how \in {"discarded", "indeterminate"} => Silent(k)' /\ sidecar' = WithCanary(k)'
  <2>1. how \in {"discarded", "indeterminate"} => Silent(k) /\ sidecar = WithCanary(k)
    BY <1>2 DEF CheckIInv, AtPlace
  <2>2. QED
    BY <1>1, <2>1, SameHouse, SameSilence
<1>11. AfterOutcome(k)'
  BY <1>3, <1>8, <1>9, <1>10 DEF AfterOutcome
<1>12. QED
  BY <1>5, <1>7, <1>11 DEF CheckIInv
\* The invariant is inductive for one check at a time.
THEOREM CheckInvariant ==
  ASSUME NEW CONSTANT one, Checks = {one}
  PROVE  DruSpec => []CheckIInv
<1>1. DruInit => CheckIInv
  BY CheckInitial
<1>2. CheckIInv /\ [DruNext]_druVars => CheckIInv'
  <2> SUFFICES ASSUME CheckIInv, [DruNext]_druVars PROVE CheckIInv'
    OBVIOUS
  <2>1. CASE Draw
    BY <2>1, DrawKeeps
  <2>2. ASSUME NEW k \in Checks, CheckBoard(k, NoHouse) PROVE CheckIInv'
    BY <2>2, CallKeeps DEF Houses
  <2>3. ASSUME NEW k \in Checks, NEW l \in LimitSets, CheckBoard(k, House(l)) PROVE CheckIInv'
    BY <2>3, CallKeeps DEF Houses
  <2>4. ASSUME NEW k \in Checks, CheckStep(k) PROVE CheckIInv'
    <3>1. Checks = {k}
      OBVIOUS
    <3>2. CASE Stash(k) \/ PutBack(k) \/ RunDrc(k, "before", "putBack", "putBackAndFail")
      BY <3>1, <3>2, StashKeeps, PutBackKeeps, BeforeKeeps
    <3>3. CASE Write(k) \/ RunDrc(k, "verify", "look", "failed") \/ Look(k)
      BY <3>1, <3>3, WriteRulesKeeps, VerifyKeeps, LookKeeps2
    <3>4. CASE Rewrite(k) \/ RunDrc(k, "rerun", "judge", "failed")
      BY <3>1, <3>4, RewriteKeeps, RerunKeeps
    <3>5. CASE WriteControl(k) \/ RunControl(k) \/ Finish(k)
      BY <3>1, <3>5, ControlKeeps, RunControlKeeps, FinishKeeps
    <3>6. CASE \/ RemoveControl(k, "fired", "discarded")
               \/ RemoveControl(k, "silent", "indeterminate")
               \/ RemoveControl(k, "broken", "failed")
      BY <3>1, <3>6, RemoveControlKeeps
    <3>7. QED
      BY <2>4, <3>2, <3>3, <3>4, <3>5, <3>6 DEF CheckStep
  <2>5. CASE UNCHANGED druVars
    <3>1. UNCHANGED <<druBoard, sidecar, druPc, druHouse, druSaved, druReport, druOutcome>>
      BY <2>5 DEF druVars
    <3>2. DruTyped'
      BY <3>1 DEF CheckIInv, DruTyped
    <3>3. Drc(sidecar)' = Drc(sidecar) /\ (Parsed(sidecar)' <=> Parsed(sidecar))
      BY <3>1, SameFile
    <3>4. ASSUME NEW k \in Checks PROVE AtPlace(k)' /\ AfterOutcome(k)'
      <4>1. /\ WithCanary(k)' = WithCanary(k) /\ (Shared(k)' <=> Shared(k))
            /\ Rendered(Told(k), TRUE)' = Rendered(Told(k), TRUE)
            /\ Rendered(Told(k), FALSE)' = Rendered(Told(k), FALSE)
            /\ (Against(k)' <=> Against(k)) /\ (Silent(k)' <=> Silent(k))
        BY <3>1, SameHouse, SameSilence
      <4>2. Rendered(Told(k), ~Shared(k))' = Rendered(Told(k), ~Shared(k))
        <5>1. CASE Shared(k)
          BY <4>1, <5>1
        <5>2. CASE ~Shared(k)
          BY <4>1, <5>2
        <5>3. QED
          BY <5>1, <5>2
      <4>3. Confirmed(k)' <=> Confirmed(k)
        BY <3>1, <3>3, <4>1, <4>2 DEF Confirmed
      <4>4. ByProject(k)' <=> ByProject(k)
        BY <3>1 DEF ByProject
      <4>5. (CanaryHit(Drc(sidecar))' <=> CanaryHit(Drc(sidecar)))
            /\ StripCanary(Drc(sidecar))' = StripCanary(Drc(sidecar))
        BY <3>3 DEF CanaryHit, StripCanary
      <4>6. AtPlace(k) /\ AfterOutcome(k)
        BY DEF CheckIInv
      <4>7. AtPlace(k)'
        BY <3>1, <3>3, <4>1, <4>3, <4>4, <4>5, <4>6 DEF AtPlace
      <4>8. AfterOutcome(k)'
        BY <3>1, <4>1, <4>3, <4>4, <4>5, <4>6 DEF AfterOutcome
      <4>9. QED
        BY <4>7, <4>8
    <3>5. QED
      BY <3>2, <3>4 DEF CheckIInv
  <2>6. QED
    BY <2>1, <2>2, <2>3, <2>4, <2>5 DEF DruNext, LimitSets
<1>3. QED
  BY <1>1, <1>2, PTL DEF DruSpec

\* The values of the variables, and no check that is over holds a file back.
THEOREM DruTypes ==
  ASSUME NEW CONSTANT one, Checks = {one}
  PROVE  DruSpec => []DruTypeOK
<1>1. CheckIInv => DruTypeOK
  BY DEF CheckIInv, DruTyped, AtPlace, Aside, Controlling, DruTypeOK
<1>2. QED
  BY <1>1, CheckInvariant, PTL

\* A confirmed report has what the house's rules find, and a report under
\* KiCad's defaults has nothing of any house: for any classes, limits, boards
\* and versions of KiCad (write_and_verify, "a confident report drawn from rules
\* that were never running").
THEOREM ReportsAreTheirOwn ==
  ASSUME NEW CONSTANT one, Checks = {one}
  PROVE  DruSpec => []ReportFromItsOwnRules
<1>1. ASSUME CheckIInv, NEW k \in Checks, NEW c \in Classes
      PROVE  /\ druOutcome[k] = "defaults" => ~Finds(k, c, "house")
             /\ druOutcome[k] = "applied" =>
                   (Finds(k, c, "house") <=> /\ c \notin druBoard.ignored
                                             /\ druBoard.measure[c] < RulesOf(k)[c])
  <2>1. druOutcome[k] = "defaults" => ~Finds(k, c, "house")
    BY <1>1 DEF CheckIInv, AfterOutcome, ByProject, Finds
  <2>2. druOutcome[k] = "applied" => Confirmed(k) /\ druReport[k] = StripCanary(Drc(sidecar))
    BY <1>1 DEF CheckIInv, AfterOutcome
  <2>3. QED
    BY <1>1, <2>1, <2>2, ConfirmedReport DEF CheckIInv
<1>2. CheckIInv => ReportFromItsOwnRules
  BY <1>1 DEF ReportFromItsOwnRules
<1>3. QED
  BY <1>2, CheckInvariant, PTL

\* How a check ended is what it did with its rules: no rule of a house hides
\* what the project's settings find, a file reported as dropped was dropped, and
\* what is left beside the board are the rules that were checked
\* (to_rules, SidecarDiscarded, kicad_check_board).
THEOREM OutcomesAreTrue ==
  ASSUME NEW CONSTANT one, Checks = {one}
  PROVE  DruSpec => []OutcomeTruthful
<1>1. CheckIInv => NothingRelaxed
  <2> SUFFICES ASSUME CheckIInv, NEW k \in Checks, druOutcome[k] = "applied",
                      NEW c \in Classes, c # sidecar.canary
               PROVE  OwnFindingKept(k, c)
    BY DEF NothingRelaxed
  <2>1. Confirmed(k) /\ druReport[k] = StripCanary(Drc(sidecar))
    BY DEF CheckIInv, AfterOutcome
  <2>2. QED
    BY <2>1, ConfirmedReport DEF CheckIInv
<1>2. CheckIInv => DiscardedTruthful
  <2> SUFFICES ASSUME CheckIInv, NEW k \in Checks, druOutcome[k] = "discarded",
                      druBoard.ignored = {}, \A c \in Classes: druBoard.measure[c] # Missing
               PROVE  ~Parsed(sidecar)
    BY DEF DiscardedTruthful
  <2>1. Silent(k) /\ sidecar = WithCanary(k)
    BY DEF CheckIInv, AfterOutcome
  <2>2. Told(k) \in LimitSets
    BY <2>1, ToldIs DEF CheckIInv, Silent
  <2>3. ~Parsed(WithCanary(k))
    BY <2>1, <2>2, SilenceProves DEF CheckIInv, Silent, WithCanary
  <2>4. QED
    BY <2>1, <2>3
<1>3. CheckIInv => RulesLeftForKicad
  <2> SUFFICES ASSUME CheckIInv, NEW k \in Checks,
                      druOutcome[k] \in {"applied", "indeterminate", "discarded"}
               PROVE  sidecar.is = "ours" /\ sidecar.rules = RulesOf(k)
    BY DEF RulesLeftForKicad
  <2>1. Against(k) /\ \E w \in BOOLEAN: sidecar = Rendered(Told(k), w)
    <3>1. (~Shared(k)) \in BOOLEAN
      BY DEF Shared, SharesAClass
    <3>2. QED
      BY <3>1 DEF CheckIInv, AfterOutcome, Confirmed, Silent, WithCanary
  <2>2. QED
    BY <2>1, ToldIs, RenderedIs DEF CheckIInv, RulesOf, Told
<1>4. CheckIInv => OutcomeTruthful
  BY <1>1, <1>2, <1>3 DEF OutcomeTruthful
<1>5. QED
  BY <1>4, CheckInvariant, PTL

-------------------------------------------------------------------------------
(* Builds of an enclosure: EnclosureJobs.                                  *)

\* The steps of a build after its files were looked for, in the order of the
\* swaps.
GlbSwap == {"check:glb", "remove:glb", "set:glb"}
StepSwap == {"check:step", "remove:step", "set:step"}
LidGlbSwap == {"check:lidGlb", "remove:lidGlb", "set:lidGlb"}
LidStepSwap == {"check:lidStep", "remove:lidStep", "set:lidStep"}
LidSteps == {"lidGlb"} \cup LidGlbSwap \cup LidStepSwap
GlbSwapped == StepSwap \cup LidSteps \cup {"clean:result"}
StepSwapped == LidSteps \cup {"clean:result"}
BuildSteps == {"idle", "start", "wait", "look", "glb", "clean:failed", "clean:cancelled",
               "result", "failed", "cancelled"} \cup GlbSwap \cup GlbSwapped
Ended == {"result", "failed", "cancelled"}

\* The values of the variables.
EncTyped ==
    /\ encFiles \subseteq (Temporary \cup OutputKinds) \X Builds
    /\ encLid \in [Builds -> BOOLEAN]
    /\ encPc \in [Builds -> BuildSteps]
    /\ freecad \in [Builds -> {"none", "running", "ok", "bad"}]
    /\ lastOutput \in [OutputKinds -> Builds \cup {NoBuild}]
    /\ preview \in Builds \cup {NoBuild}
    /\ crossed \in BOOLEAN

\* A build's files, by where it is: none before FreeCAD was started, temporary
\* ones while it is under way, a lid's if it has one.  FreeCAD runs while it is
\* waited for.
EncPlaced ==
    /\ \A b \in Builds:
          /\ \A k \in Temporary \cup OutputKinds: On(k, b) =>
                /\ encPc[b] \notin {"idle", "start"}
                /\ k \in Temporary => encPc[b] \notin Ended
                /\ k \in {"lidStl", "lidGlb", "lidStep"} => encLid[b]
          /\ freecad[b] = "running" => encPc[b] = "wait" /\ On("script", b)
          /\ encPc[b] \in LidSteps => encLid[b]
    /\ preview # NoBuild => encPc[preview] = "result"

\* What a build that nothing crosses has done at its step: which outputs are
\* there, and which are the last of their kind.
Swapped(b, kind) == On(kind, b) /\ lastOutput[kind] = b
BuildOwns(b) ==
    /\ encPc[b] \in {"glb"} \cup GlbSwap \cup GlbSwapped =>
          On("step", b) /\ (encLid[b] => On("lidStep", b))
    /\ encPc[b] \in GlbSwap => On("glb", b)
    /\ encPc[b] \in GlbSwapped => Swapped(b, "glb")
    /\ encPc[b] \in StepSwapped => Swapped(b, "step")
    /\ encPc[b] \in LidGlbSwap => On("lidGlb", b)
    /\ encPc[b] \in LidStepSwap => Swapped(b, "lidGlb")
    /\ encPc[b] = "clean:result" /\ encLid[b] => Swapped(b, "lidGlb") /\ Swapped(b, "lidStep")
\* What is removed is another's, and no other's file is there when a build makes
\* its own the last.
SwapsAnother(b) ==
    \A k \in OutputKinds:
        /\ encPc[b] = Removing[k] => lastOutput[k] \notin {NoBuild, b}
        /\ encPc[b] = Setting[k] => lastOutput[k] \in {NoBuild, b} \/ ~On(k, lastOutput[k])

\* As long as no two builds ran at once.
Uncrossed ==
    /\ \A b, c \in Builds: InJob(b) /\ InJob(c) => b = c
    /\ \A b \in Builds: BuildOwns(b) /\ SwapsAnother(b)
    /\ \A b \in Builds: encPc[b] = "result" =>
          \A k \in OutputKinds: On(k, b) => lastOutput[k] = b
    /\ preview # NoBuild =>
          /\ \A b \in Builds: ~InJob(b)
          /\ \A k \in Parts(preview): On(k, preview)

\* The inductive invariant.
EncIInv == EncTyped /\ EncPlaced /\ (~crossed => Uncrossed)
\* The kinds, and what FreeCAD is made to write.
LEMMA EncKinds ==
  /\ OutputKinds = {"glb", "step", "lidGlb", "lidStep"}
  /\ \A b \in Builds: ToSet(Scripted(b)) =
        {"stl", "step"} \cup IF encLid[b] THEN {"lidStl", "lidStep"} ELSE {}
  /\ \A b \in Builds: \A i \in 1..Len(Scripted(b)): Scripted(b)[i] \in ToSet(Scripted(b))
<1>1. OutputKinds = {"glb", "step", "lidGlb", "lidStep"}
  BY DEF OutputKinds, Outputs, ToSet
<1>2. ASSUME NEW b \in Builds
      PROVE  /\ ToSet(Scripted(b)) =
                   {"stl", "step"} \cup IF encLid[b] THEN {"lidStl", "lidStep"} ELSE {}
             /\ \A i \in 1..Len(Scripted(b)): Scripted(b)[i] \in ToSet(Scripted(b))
  <2>1. CASE encLid[b]
    <3>1. Scripted(b) = <<"stl", "step", "lidStl", "lidStep">>
      BY <2>1 DEF Scripted
    <3>2. QED
      BY <2>1, <3>1 DEF ToSet
  <2>2. CASE ~encLid[b]
    <3>1. Scripted(b) = <<"stl", "step">>
      BY <2>2 DEF Scripted
    <3>2. QED
      BY <2>2, <3>1 DEF ToSet
  <2>3. QED
    BY <2>1, <2>2
<1>3. QED
  BY <1>1, <1>2

\* The initial state.
LEMMA EncInitial == EnclosureInit => EncIInv
<1> SUFFICES ASSUME EnclosureInit PROVE EncIInv
  OBVIOUS
<1> USE DEF EnclosureInit
<1>1. EncTyped
  BY EncKinds DEF EncTyped, BuildSteps
<1>2. EncPlaced
  BY DEF EncPlaced, On, LidSteps, LidGlbSwap, LidStepSwap
<1>3. \A b \in Builds: ~InJob(b)
  BY DEF InJob
<1>4. Uncrossed
  BY <1>3, EncKinds DEF Uncrossed, BuildOwns, SwapsAnother, Removing, Setting, GlbSwap, StepSwap,
     LidGlbSwap, LidStepSwap, LidSteps, GlbSwapped, StepSwapped
<1>5. QED
  BY <1>1, <1>2, <1>4 DEF EncIInv

\* One build goes on.
LEMMA OneAdvances ==
  ASSUME EncTyped, NEW b \in Builds, NEW from, NEW to \in BuildSteps, Advance(b, from, to)
  PROVE  /\ encPc[b] = from /\ encPc'[b] = to
         /\ \A c \in Builds: c # b => encPc'[c] = encPc[c]
         /\ encPc' \in [Builds -> BuildSteps]
BY DEF EncTyped, Advance

\* A build that is not under way owns nothing yet, and swaps nothing.
LEMMA NotUnderWay ==
  ASSUME NEW b \in Builds, ~InJob(b)
  PROVE  BuildOwns(b) /\ SwapsAnother(b)
BY EncKinds DEF InJob, BuildOwns, SwapsAnother, Removing, Setting, GlbSwap, StepSwap,
   LidGlbSwap, LidStepSwap, LidSteps, GlbSwapped, StepSwapped

\* A step of a build that nothing crosses, and that is under way before and
\* after it: only what it owns has to be looked at, and what others have made
\* the last.
LEMMA UncrossedStays ==
  ASSUME EncIInv, ~crossed, NEW b \in Builds, InJob(b), encPc'[b] \in BuildSteps,
         \A c \in Builds: c # b => encPc'[c] = encPc[c],
         encPc'[b] # "idle", encPc'[b] # "result",
         UNCHANGED preview, BuildOwns(b)', InJob(b)' => SwapsAnother(b)',
         \A c \in Builds: c # b /\ encPc[c] = "result" =>
             \A k \in OutputKinds: On(k, c)' => lastOutput'[k] = c
  PROVE  Uncrossed'
<1>1. Uncrossed /\ \A c \in Builds: c # b => ~InJob(c)
  BY DEF EncIInv, Uncrossed
<1>2. \A c \in Builds: c # b => ~InJob(c)'
  BY <1>1 DEF InJob
<1>3. preview' = NoBuild
  BY <1>1 DEF Uncrossed
<1>4. \A c \in Builds: BuildOwns(c)' /\ SwapsAnother(c)'
  <2>1. \A c \in Builds: ~InJob(c)' => BuildOwns(c)' /\ SwapsAnother(c)'
    BY EncKinds DEF InJob, BuildOwns, SwapsAnother, Removing, Setting, GlbSwap, StepSwap,
       LidGlbSwap, LidStepSwap, LidSteps, GlbSwapped, StepSwapped
  <2>2. QED
    BY <1>2, <2>1
<1>5. \A c \in Builds: encPc'[c] = "result" => \A k \in OutputKinds: On(k, c)' => lastOutput'[k] = c
  OBVIOUS
<1>6. \A c, d \in Builds: InJob(c)' /\ InJob(d)' => c = d
  BY <1>2
<1>7. QED
  BY <1>3, <1>4, <1>5, <1>6 DEF Uncrossed

\* The user starts a build: the preview goes, and another that is under way is
\* crossed.
LEMMA GenerateKeeps ==
  ASSUME EncIInv, NEW b \in Builds, NEW lid \in BOOLEAN, Generate(b, lid)
  PROVE  EncIInv'
<1>1. /\ Advance(b, "idle", "start") /\ "start" \in BuildSteps
      /\ encLid' = [encLid EXCEPT ![b] = lid] /\ preview' = NoBuild
      /\ crossed' = (crossed \/ \E c \in Builds: InJob(c))
      /\ UNCHANGED <<encFiles, freecad, lastOutput>>
  BY DEF Generate, BuildSteps
<1>2. /\ encPc[b] = "idle" /\ encPc'[b] = "start"
      /\ \A c \in Builds: c # b => encPc'[c] = encPc[c]
      /\ encPc' \in [Builds -> BuildSteps]
  BY <1>1, OneAdvances DEF EncIInv
<1>3. encLid' \in [Builds -> BOOLEAN] /\ \A c \in Builds: c # b => encLid'[c] = encLid[c]
  BY <1>1 DEF EncIInv, EncTyped
<1>4. EncTyped'
  BY <1>1, <1>2, <1>3 DEF EncIInv, EncTyped
<1>5. EncPlaced'
  <2>1. \A k \in Temporary \cup OutputKinds: ~On(k, b)
    BY <1>2 DEF EncIInv, EncPlaced
  <2>2. QED
    BY <1>1, <1>2, <1>3, <2>1 DEF EncIInv, EncPlaced, On, LidSteps, LidGlbSwap, LidStepSwap
<1>6. ASSUME ~crossed' PROVE Uncrossed'
  <2>1. Uncrossed /\ \A c \in Builds: ~InJob(c)
    BY <1>1, <1>6 DEF EncIInv
  <2>2. \A c \in Builds: c # b => ~InJob(c)'
    BY <1>2, <2>1 DEF InJob
  <2>3. BuildOwns(b)' /\ SwapsAnother(b)'
    BY <1>2, EncKinds DEF BuildOwns, SwapsAnother, Removing, Setting, GlbSwap, StepSwap,
       LidGlbSwap, LidStepSwap, LidSteps, GlbSwapped, StepSwapped
  <2>4. \A c \in Builds: c # b => BuildOwns(c)' /\ SwapsAnother(c)'
    BY <2>2, EncKinds DEF InJob, BuildOwns, SwapsAnother, Removing, Setting, GlbSwap, StepSwap,
       LidGlbSwap, LidStepSwap, LidSteps, GlbSwapped, StepSwapped
  <2>5. \A c \in Builds: encPc'[c] = "result" =>
           \A k \in OutputKinds: On(k, c)' => lastOutput'[k] = c
    BY <1>1, <1>2, <2>1 DEF Uncrossed, On
  <2>6. QED
    BY <1>1, <2>2, <2>3, <2>4, <2>5 DEF Uncrossed
<1>7. QED
  BY <1>4, <1>5, <1>6 DEF EncIInv
\* The script is written and FreeCAD runs, or the job fails before.
LEMMA StartKeeps ==
  ASSUME EncIInv, NEW b \in Builds, StartBuild(b)
  PROVE  EncIInv'
<1> DEFINE to == encPc'[b]
<1>1. /\ encPc[b] = "start" /\ to \in {"wait", "failed"}
      /\ \A c \in Builds: c # b => encPc'[c] = encPc[c]
      /\ encPc' \in [Builds -> BuildSteps]
  <2>1. "wait" \in BuildSteps /\ "failed" \in BuildSteps
    BY DEF BuildSteps
  <2>2. QED
    BY <2>1, OneAdvances DEF EncIInv, StartBuild
<1>2. /\ UNCHANGED <<encLid, lastOutput, preview, crossed>>
      /\ \/ to = "wait" /\ encFiles' = encFiles \cup {<<"script", b>>}
            /\ freecad' = [freecad EXCEPT ![b] = "running"]
         \/ to = "failed" /\ UNCHANGED <<encFiles, freecad>>
  BY <1>1 DEF StartBuild, Advance, EncIInv, EncTyped
<1>3. /\ freecad' \in [Builds -> {"none", "running", "ok", "bad"}]
      /\ \A c \in Builds: c # b => freecad'[c] = freecad[c]
      /\ freecad'[b] = "running" => to = "wait" \/ freecad[b] = "running"
  BY <1>2 DEF EncIInv, EncTyped
<1>4. EncTyped'
  BY <1>1, <1>2, <1>3 DEF EncIInv, EncTyped, Temporary
<1>5. EncPlaced'
  <2>1. \A k \in Temporary \cup OutputKinds: ~On(k, b)
    BY <1>1 DEF EncIInv, EncPlaced
  <2>2. \A c \in Builds: c # b => \A k: On(k, c)' <=> On(k, c)
    BY <1>2 DEF On
  <2>3. \A k \in Temporary \cup OutputKinds: On(k, b)' => to = "wait" /\ k = "script"
    BY <1>2, <2>1 DEF On
  <2>4. freecad'[b] = "running" => to = "wait" /\ On("script", b)'
    BY <1>1, <1>2 DEF EncIInv, EncPlaced, On
  <2>5. to \notin LidSteps /\ to \notin {"idle", "start"}
    BY <1>1 DEF LidSteps, LidGlbSwap, LidStepSwap
  <2>6. preview' # NoBuild => encPc'[preview'] = "result"
    BY <1>1, <1>2 DEF EncIInv, EncPlaced, EncTyped
  <2>7. to = "wait" => to \notin Ended
    BY DEF Ended
  <2> HIDE DEF to
  <2>8. \A c \in Builds: c # b =>
          /\ \A k \in Temporary \cup OutputKinds: On(k, c)' =>
                /\ encPc'[c] \notin {"idle", "start"}
                /\ k \in Temporary => encPc'[c] \notin Ended
                /\ k \in {"lidStl", "lidGlb", "lidStep"} => encLid'[c]
          /\ freecad'[c] = "running" => encPc'[c] = "wait" /\ On("script", c)'
          /\ encPc'[c] \in LidSteps => encLid'[c]
    BY <1>1, <1>2, <1>3, <2>2 DEF EncIInv, EncPlaced
  <2>9. /\ \A k \in Temporary \cup OutputKinds: On(k, b)' =>
                /\ encPc'[b] \notin {"idle", "start"}
                /\ k \in Temporary => encPc'[b] \notin Ended
                /\ k \in {"lidStl", "lidGlb", "lidStep"} => encLid'[b]
        /\ freecad'[b] = "running" => encPc'[b] = "wait" /\ On("script", b)'
        /\ encPc'[b] \in LidSteps => encLid'[b]
    BY <2>3, <2>4, <2>5, <2>7 DEF to
  <2>10. QED
    BY <2>6, <2>8, <2>9 DEF EncPlaced
<1>6. ASSUME ~crossed' PROVE Uncrossed'
  <2>1. ~crossed /\ InJob(b)
    BY <1>1, <1>2, <1>6 DEF InJob
  <2>2. BuildOwns(b)' /\ SwapsAnother(b)'
    BY <1>1, EncKinds DEF BuildOwns, SwapsAnother, Removing, Setting, GlbSwap, StepSwap,
       LidGlbSwap, LidStepSwap, LidSteps, GlbSwapped, StepSwapped
  <2>3. \A c \in Builds: c # b /\ encPc[c] = "result" =>
             \A k \in OutputKinds: On(k, c)' => lastOutput'[k] = c
    BY <1>2, <2>1 DEF EncIInv, Uncrossed, On
  <2>4. to # "idle" /\ to # "result"
    BY <1>1
  <2>5. QED
    BY <1>1, <1>2, <2>1, <2>2, <2>3, <2>4, UncrossedStays DEF EncIInv
<1>7. QED
  BY <1>4, <1>5, <1>6 DEF EncIInv
\* A build that is waited for or looked for owns nothing yet.
LEMMA OwnsNothingYet ==
  ASSUME NEW b \in Builds,
         encPc'[b] \in {"wait", "look", "failed", "clean:failed", "clean:cancelled"}
  PROVE  BuildOwns(b)' /\ SwapsAnother(b)'
BY EncKinds DEF BuildOwns, SwapsAnother, Removing, Setting, GlbSwap, StepSwap,
   LidGlbSwap, LidStepSwap, LidSteps, GlbSwapped, StepSwapped

\* FreeCAD writes a file of a build that is waited for, a lid's if it has one.
LEMMA WritesKeeps ==
  ASSUME EncIInv, NEW b \in Builds, FreecadWrites(b)
  PROVE  EncIInv'
<1>1. PICK k \in ToSet(Scripted(b)): encFiles' = encFiles \cup {<<k, b>>}
  BY EncKinds DEF FreecadWrites
<1>2. /\ freecad[b] = "running"
      /\ UNCHANGED <<encLid, encPc, freecad, lastOutput, preview, crossed>>
  BY DEF FreecadWrites
<1>3. /\ k \in {"stl", "step", "lidStl", "lidStep"}
      /\ k \in {"lidStl", "lidGlb", "lidStep"} => encLid[b]
  BY EncKinds
<1>4. encPc[b] = "wait"
  BY <1>2 DEF EncIInv, EncPlaced
<1>5. \A c \in Builds: \A j: On(j, c)' <=> On(j, c) \/ (j = k /\ c = b)
  BY <1>1 DEF On
<1>6. EncTyped'
  BY <1>1, <1>2, <1>3, EncKinds DEF EncIInv, EncTyped, Temporary
<1>7. EncPlaced'
  BY <1>2, <1>3, <1>4, <1>5 DEF EncIInv, EncPlaced, Ended
<1>8. ASSUME ~crossed' PROVE Uncrossed'
  <2>1. ~crossed /\ InJob(b) /\ encPc'[b] = "wait" /\ "wait" \in BuildSteps
    BY <1>2, <1>4, <1>8 DEF InJob, BuildSteps
  <2>2. \A c \in Builds: c # b /\ encPc[c] = "result" =>
             \A j \in OutputKinds: On(j, c)' => lastOutput'[j] = c
    BY <1>2, <1>5, <2>1 DEF EncIInv, Uncrossed
  <2>3. QED
    BY <1>2, <2>1, <2>2, OwnsNothingYet, UncrossedStays
<1>9. QED
  BY <1>6, <1>7, <1>8 DEF EncIInv

\* FreeCAD ends, whatever it has written.
LEMMA EndsKeeps ==
  ASSUME EncIInv, NEW b \in Builds, FreecadEnds(b)
  PROVE  EncIInv'
<1>1. PICK how \in {"ok", "bad"}: freecad' = [freecad EXCEPT ![b] = how]
  BY DEF FreecadEnds
<1>2. UNCHANGED <<encFiles, encLid, encPc, lastOutput, preview, crossed>>
  BY DEF FreecadEnds
<1>3. EncTyped'
  BY <1>1, <1>2 DEF EncIInv, EncTyped
<1>4. \A c \in Builds: freecad'[c] = "running" => freecad[c] = "running"
  BY <1>1 DEF EncIInv, EncTyped
<1>5. EncPlaced'
  BY <1>2, <1>4 DEF EncIInv, EncPlaced, On
<1>6. Uncrossed => Uncrossed'
  BY <1>2 DEF Uncrossed, BuildOwns, SwapsAnother, Swapped, On, InJob, Parts
<1>7. QED
  BY <1>2, <1>3, <1>5, <1>6 DEF EncIInv

\* A build is told to stop.
LEMMA CancelKeeps ==
  ASSUME EncIInv, NEW b \in Builds, CancelBuild(b)
  PROVE  EncIInv'
<1>1. UNCHANGED <<encFiles, encLid, encPc, freecad, lastOutput, preview, crossed>>
  BY DEF CancelBuild
<1>2. EncTyped' /\ EncPlaced'
  BY <1>1 DEF EncIInv, EncTyped, EncPlaced, On
<1>3. Uncrossed => Uncrossed'
  BY <1>1 DEF Uncrossed, BuildOwns, SwapsAnother, Swapped, On, InJob, Parts
<1>4. QED
  BY <1>1, <1>2, <1>3 DEF EncIInv

\* A step of a build that touches no file and only moves it: between steps
\* after the first file and before the end.
LEMMA MovesKeeps ==
  ASSUME EncIInv, NEW b \in Builds, NEW to \in BuildSteps \ (Ended \cup {"idle", "start"}),
         encPc[b] \notin Ended \cup {"idle", "start"},
         encPc'[b] = to, encPc' \in [Builds -> BuildSteps],
         \A c \in Builds: c # b => encPc'[c] = encPc[c],
         to \in LidSteps => encLid[b],
         freecad' \in [Builds -> {"none", "running", "ok", "bad"}],
         \A c \in Builds: freecad'[c] = "running" => freecad[c] = "running" /\ c # b,
         lastOutput' \in [OutputKinds -> Builds \cup {NoBuild}],
         encFiles' = encFiles \/ \E k \in OutputKinds: 
             \/ encFiles' = encFiles \cup {<<k, b>>} /\ (k \in {"lidGlb", "lidStep"} => encLid[b])
             \/ \E c \in Builds: encFiles' = encFiles \ {<<k, c>>},
         UNCHANGED <<encLid, preview, crossed>>,
         ~crossed => /\ BuildOwns(b)' /\ SwapsAnother(b)'
                     /\ \A c \in Builds: c # b /\ encPc[c] = "result" =>
                            \A k \in OutputKinds: On(k, c)' => lastOutput'[k] = c
  PROVE  EncIInv'
<1>1. EncTyped'
  BY EncKinds DEF EncIInv, EncTyped
<1>2. \A c \in Builds: \A k \in Temporary \cup OutputKinds: On(k, c)' =>
         \/ On(k, c)
         \/ c = b /\ k \in OutputKinds /\ (k \in {"lidGlb", "lidStep"} => encLid[b])
  BY DEF On
<1>3. \A c \in Builds: On("script", c)' <=> On("script", c)
  BY EncKinds DEF On
<1>4. EncPlaced'
  <2>1. \A c \in Builds: \A k \in Temporary \cup OutputKinds: On(k, c)' =>
                /\ encPc'[c] \notin {"idle", "start"}
                /\ k \in Temporary => encPc'[c] \notin Ended
                /\ k \in {"lidStl", "lidGlb", "lidStep"} => encLid'[c]
    BY <1>2, EncKinds DEF EncIInv, EncPlaced, Temporary
  <2>2. \A c \in Builds:
          /\ freecad'[c] = "running" => encPc'[c] = "wait" /\ On("script", c)'
          /\ encPc'[c] \in LidSteps => encLid'[c]
    BY <1>3 DEF EncIInv, EncPlaced
  <2>3. preview' # NoBuild => encPc'[preview'] = "result"
    BY DEF EncIInv, EncPlaced, EncTyped, Ended
  <2>4. QED
    BY <2>1, <2>2, <2>3 DEF EncPlaced
<1>5. ASSUME ~crossed' PROVE Uncrossed'
  <2>1. ~crossed /\ InJob(b) /\ to # "idle" /\ to # "result"
    BY <1>5 DEF InJob, Ended
  <2>2. QED
    BY <2>1, UncrossedStays
<1>6. QED
  BY <1>1, <1>4, <1>5 DEF EncIInv

\* A finished build's outputs are the last of their kind, as long as no file is
\* made and no last output set.
LEMMA LastStays ==
  ASSUME EncIInv, ~crossed, NEW b \in Builds, UNCHANGED lastOutput,
         \A k \in OutputKinds: \A c \in Builds: On(k, c)' => On(k, c) \/ c = b
  PROVE  \A c \in Builds: c # b /\ encPc[c] = "result" =>
             \A k \in OutputKinds: On(k, c)' => lastOutput'[k] = c
BY DEF EncIInv, Uncrossed
\* FreeCAD is not running while a build is at another step than the wait.
LEMMA OnlyWhileWaiting ==
  ASSUME EncIInv, NEW b \in Builds, encPc[b] # "wait"
  PROVE  \A c \in Builds: freecad[c] = "running" => c # b
BY DEF EncIInv, EncPlaced

\* FreeCAD has ended, or is killed.
LEMMA WaitKeeps ==
  ASSUME EncIInv, NEW b \in Builds, WaitForFreecad(b)
  PROVE  EncIInv'
<1>1. /\ {"look", "clean:failed", "clean:cancelled"} \subseteq BuildSteps \ (Ended \cup {"idle", "start"})
      /\ {"look", "clean:failed", "clean:cancelled"} \cap LidSteps = {}
  BY DEF BuildSteps, Ended, LidSteps, LidGlbSwap, LidStepSwap
<1>2. /\ encPc[b] = "wait" /\ encPc'[b] \in {"look", "clean:failed", "clean:cancelled"}
      /\ \A c \in Builds: c # b => encPc'[c] = encPc[c]
      /\ encPc' \in [Builds -> BuildSteps]
  BY <1>1, OneAdvances DEF EncIInv, WaitForFreecad
<1>3. /\ freecad' \in [Builds -> {"none", "running", "ok", "bad"}]
      /\ \A c \in Builds: freecad'[c] = "running" => freecad[c] = "running" /\ c # b
  BY DEF WaitForFreecad, EncIInv, EncTyped
<1>4. UNCHANGED <<encFiles, encLid, lastOutput, preview, crossed>>
  BY DEF WaitForFreecad
<1>5. BuildOwns(b)' /\ SwapsAnother(b)'
  BY <1>2, OwnsNothingYet
<1>6. ~crossed => \A c \in Builds: c # b /\ encPc[c] = "result" =>
                      \A k \in OutputKinds: On(k, c)' => lastOutput'[k] = c
  BY <1>4, LastStays DEF On
<1>7. "wait" \notin Ended \cup {"idle", "start"} /\ lastOutput' \in [OutputKinds -> Builds \cup {NoBuild}]
  BY <1>4 DEF Ended, EncIInv, EncTyped
<1>8. QED
  BY <1>1, <1>2, <1>3, <1>4, <1>5, <1>6, <1>7, MovesKeeps

\* A step of a build that FreeCAD is not waited for in.
LEMMA AdvanceKeeps ==
  ASSUME EncIInv, NEW b \in Builds, NEW from \in BuildSteps \ (Ended \cup {"idle", "start", "wait"}),
         NEW to \in BuildSteps \ (Ended \cup {"idle", "start"}), Advance(b, from, to),
         to \in LidSteps => encLid[b],
         lastOutput' \in [OutputKinds -> Builds \cup {NoBuild}],
         encFiles' = encFiles \/ \E k \in OutputKinds:
             \/ encFiles' = encFiles \cup {<<k, b>>} /\ (k \in {"lidGlb", "lidStep"} => encLid[b])
             \/ \E c \in Builds: encFiles' = encFiles \ {<<k, c>>},
         UNCHANGED <<encLid, freecad, preview, crossed>>,
         ~crossed => /\ BuildOwns(b)' /\ SwapsAnother(b)'
                     /\ \A c \in Builds: c # b /\ encPc[c] = "result" =>
                            \A k \in OutputKinds: On(k, c)' => lastOutput'[k] = c
  PROVE  EncIInv'
<1>1. /\ encPc[b] = from /\ encPc'[b] = to
      /\ \A c \in Builds: c # b => encPc'[c] = encPc[c]
      /\ encPc' \in [Builds -> BuildSteps]
  BY OneAdvances DEF EncIInv
<1>2. \A c \in Builds: freecad'[c] = "running" => freecad[c] = "running" /\ c # b
  BY <1>1, OnlyWhileWaiting
<1>3. freecad' \in [Builds -> {"none", "running", "ok", "bad"}]
  BY DEF EncIInv, EncTyped
<1>4. encPc[b] \notin Ended \cup {"idle", "start"}
  BY <1>1
<1>5. QED
  BY <1>1, <1>2, <1>3, <1>4, MovesKeeps

\* All files are there, or the job fails.
LEMMA LookKeeps ==
  ASSUME EncIInv, NEW b \in Builds, LookForFiles(b)
  PROVE  EncIInv'
<1> DEFINE to == IF \A k \in ToSet(Scripted(b)): On(k, b) THEN "glb" ELSE "clean:failed"
<1>1. /\ Advance(b, "look", to)
      /\ UNCHANGED <<encFiles, encLid, freecad, lastOutput, preview, crossed>>
  BY DEF LookForFiles
<1>2. /\ to \in BuildSteps \ (Ended \cup {"idle", "start"}) /\ to \notin LidSteps
      /\ "look" \in BuildSteps \ (Ended \cup {"idle", "start", "wait"})
  BY DEF BuildSteps, Ended, LidSteps, LidGlbSwap, LidStepSwap
<1>3. to = "glb" => On("step", b)' /\ (encLid'[b] => On("lidStep", b)')
  BY <1>1, EncKinds DEF On
<1>4. to \in {"glb", "clean:failed"}
  OBVIOUS
<1>5. encPc'[b] = to
  BY <1>1, <1>2, OneAdvances DEF EncIInv
<1> HIDE DEF to
<1>6. BuildOwns(b)' /\ SwapsAnother(b)'
  BY <1>3, <1>4, <1>5, EncKinds DEF BuildOwns, SwapsAnother, Removing, Setting, GlbSwap,
     StepSwap, LidGlbSwap, LidStepSwap, LidSteps, GlbSwapped, StepSwapped
<1>7. ~crossed => \A c \in Builds: c # b /\ encPc[c] = "result" =>
                      \A k \in OutputKinds: On(k, c)' => lastOutput'[k] = c
  BY <1>1, LastStays DEF On
<1>8. lastOutput' \in [OutputKinds -> Builds \cup {NoBuild}]
  BY <1>1 DEF EncIInv, EncTyped
<1>9. QED
  BY <1>1, <1>2, <1>6, <1>7, <1>8, AdvanceKeeps

\* The steps of a swap are under way, and name its kind.
LEMMA SwapSteps ==
  /\ \A k \in OutputKinds: {Checking[k], Removing[k], Setting[k]} \subseteq
        BuildSteps \ (Ended \cup {"idle", "start", "wait"})
  /\ \A k \in OutputKinds: {Checking[k], Removing[k], Setting[k]} \cap LidSteps # {} =>
        {Checking[k], Removing[k], Setting[k]} \subseteq LidSteps
  /\ \A k, j \in OutputKinds: /\ Removing[k] = Removing[j] => k = j
                              /\ Setting[k] = Setting[j] => k = j
                              /\ Removing[k] # Setting[j]
  /\ {"clean:failed", "clean:result"} \subseteq BuildSteps \ (Ended \cup {"idle", "start", "wait"} \cup LidSteps)
BY EncKinds DEF Checking, Removing, Setting, BuildSteps, Ended, GlbSwap, StepSwap, LidGlbSwap,
   LidStepSwap, LidSteps, GlbSwapped, StepSwapped

\* A build owns the same at all steps of a swap.
LEMMA SwapOwns ==
  ASSUME NEW b \in Builds, NEW k \in OutputKinds, BuildOwns(b), UNCHANGED <<encLid, lastOutput>>,
         encPc[b] \in {Checking[k], Removing[k], Setting[k]},
         encPc'[b] \in {Checking[k], Removing[k], Setting[k]},
         \A j \in OutputKinds: On(j, b) => On(j, b)'
  PROVE  BuildOwns(b)'
<1>1. CASE k = "glb"
  BY <1>1, EncKinds DEF BuildOwns, Swapped, Checking, Removing, Setting, GlbSwap, StepSwap, LidGlbSwap,
     LidStepSwap, LidSteps, GlbSwapped, StepSwapped
<1>2. CASE k = "step"
  BY <1>2, EncKinds DEF BuildOwns, Swapped, Checking, Removing, Setting, GlbSwap, StepSwap, LidGlbSwap,
     LidStepSwap, LidSteps, GlbSwapped, StepSwapped
<1>3. CASE k = "lidGlb"
  BY <1>3, EncKinds DEF BuildOwns, Swapped, Checking, Removing, Setting, GlbSwap, StepSwap, LidGlbSwap,
     LidStepSwap, LidSteps, GlbSwapped, StepSwapped
<1>4. CASE k = "lidStep"
  BY <1>4, EncKinds DEF BuildOwns, Swapped, Checking, Removing, Setting, GlbSwap, StepSwap, LidGlbSwap,
     LidStepSwap, LidSteps, GlbSwapped, StepSwapped
<1>5. QED
  BY <1>1, <1>2, <1>3, <1>4, EncKinds

\* A build that fails owns nothing that counts.
LEMMA FailsKeeps ==
  ASSUME EncIInv, NEW b \in Builds,
         NEW from \in BuildSteps \ (Ended \cup {"idle", "start", "wait"}),
         Advance(b, from, "clean:failed"),
         UNCHANGED <<encFiles, encLid, freecad, lastOutput, preview, crossed>>
  PROVE  EncIInv'
<1>1. "clean:failed" \in BuildSteps \ (Ended \cup {"idle", "start"}) /\ "clean:failed" \notin LidSteps
  BY SwapSteps
<1>2. encPc'[b] = "clean:failed"
  BY <1>1, OneAdvances DEF EncIInv
<1>3. BuildOwns(b)' /\ SwapsAnother(b)'
  BY <1>2, OwnsNothingYet
<1>4. ~crossed => \A c \in Builds: c # b /\ encPc[c] = "result" =>
                      \A k \in OutputKinds: On(k, c)' => lastOutput'[k] = c
  BY LastStays DEF On
<1>5. lastOutput' \in [OutputKinds -> Builds \cup {NoBuild}]
  BY DEF EncIInv, EncTyped
<1>6. QED
  BY <1>1, <1>3, <1>4, <1>5, AdvanceKeeps

\* The previous output is looked at.
LEMMA CheckKeeps ==
  ASSUME EncIInv, NEW b \in Builds, NEW k \in OutputKinds, CheckLast(b, k)
  PROVE  EncIInv'
<1> DEFINE last == lastOutput[k]
           other == last \notin {NoBuild, b} /\ On(k, last)
           to == IF other THEN Removing[k] ELSE Setting[k]
<1>1. /\ Advance(b, Checking[k], to)
      /\ UNCHANGED <<encFiles, encLid, freecad, lastOutput, preview, crossed>>
  BY DEF CheckLast
<1>2. to \in {Removing[k], Setting[k]}
  OBVIOUS
<1>3. to \in BuildSteps \ (Ended \cup {"idle", "start"})
  BY <1>2, SwapSteps
<1>4. encPc[b] = Checking[k] /\ encPc'[b] = to
  BY <1>1, <1>3, OneAdvances DEF EncIInv
<1>5. to = Removing[k] => other
  BY SwapSteps
<1>6. to = Setting[k] => ~other
  BY SwapSteps
<1> HIDE DEF to
<1>7. to \in LidSteps => encLid[b]
  <2>1. to \in LidSteps => Checking[k] \in LidSteps
    BY <1>2, SwapSteps
  <2>2. QED
    BY <1>4, <2>1 DEF EncIInv, EncPlaced
<1>8. ASSUME ~crossed PROVE BuildOwns(b)' /\ SwapsAnother(b)'
  <2>1. BuildOwns(b)
    BY <1>8 DEF EncIInv, Uncrossed
  <2>2. BuildOwns(b)'
    BY <1>1, <1>2, <1>4, <2>1, SwapOwns DEF On
  <2>3. SwapsAnother(b)'
    BY <1>1, <1>2, <1>4, <1>5, <1>6, SwapSteps DEF SwapsAnother, On
  <2>4. QED
    BY <2>2, <2>3
<1>9. ~crossed => \A c \in Builds: c # b /\ encPc[c] = "result" =>
                      \A j \in OutputKinds: On(j, c)' => lastOutput'[j] = c
  BY <1>1, LastStays DEF On
<1>10. lastOutput' \in [OutputKinds -> Builds \cup {NoBuild}]
  BY <1>1 DEF EncIInv, EncTyped
<1>11. Checking[k] \in BuildSteps \ (Ended \cup {"idle", "start", "wait"})
  BY SwapSteps
<1>12. QED
  BY <1>1, <1>3, <1>7, <1>8, <1>9, <1>10, <1>11, AdvanceKeeps

\* The previous output is removed, or is gone and the job fails.
LEMMA RemoveKeeps ==
  ASSUME EncIInv, NEW b \in Builds, NEW k \in OutputKinds, RemoveLast(b, k)
  PROVE  EncIInv'
<1> DEFINE last == lastOutput[k]
<1>1. UNCHANGED <<encLid, freecad, lastOutput, preview, crossed>>
  BY DEF RemoveLast
<1>2. Removing[k] \in BuildSteps \ (Ended \cup {"idle", "start", "wait"})
  BY SwapSteps
<1>3. CASE On(k, last)
  <2>1. Advance(b, Removing[k], Setting[k]) /\ encFiles' = encFiles \ {<<k, last>>}
    BY <1>3 DEF RemoveLast
  <2>2. last \in Builds
    BY <1>3 DEF On, EncIInv, EncTyped
  <2>3. Setting[k] \in BuildSteps \ (Ended \cup {"idle", "start"})
    BY SwapSteps
  <2>4. encPc[b] = Removing[k] /\ encPc'[b] = Setting[k]
    BY <2>1, <2>3, OneAdvances DEF EncIInv
  <2>5. Setting[k] \in LidSteps => encLid[b]
    <3>1. Setting[k] \in LidSteps => Removing[k] \in LidSteps
      BY SwapSteps
    <3>2. QED
      BY <2>4, <3>1 DEF EncIInv, EncPlaced
  <2>6. ASSUME ~crossed PROVE BuildOwns(b)' /\ SwapsAnother(b)'
    <3>1. BuildOwns(b) /\ SwapsAnother(b)
      BY <2>6 DEF EncIInv, Uncrossed
    <3>2. last # b
      BY <2>4, <3>1 DEF SwapsAnother
    <3>3. \A j \in OutputKinds: On(j, b) => On(j, b)'
      BY <2>1, <3>2 DEF On
    <3>4. BuildOwns(b)'
      BY <1>1, <2>4, <3>1, <3>3, SwapOwns
    <3>5. ~On(k, last)'
      BY <1>1, <2>1 DEF On
    <3>6. SwapsAnother(b)'
      BY <1>1, <2>4, <3>5, SwapSteps DEF SwapsAnother
    <3>7. QED
      BY <3>4, <3>6
  <2>7. ~crossed => \A c \in Builds: c # b /\ encPc[c] = "result" =>
                        \A j \in OutputKinds: On(j, c)' => lastOutput'[j] = c
    BY <1>1, <2>1, LastStays DEF On
  <2>8. lastOutput' \in [OutputKinds -> Builds \cup {NoBuild}]
    BY <1>1 DEF EncIInv, EncTyped
  <2>9. QED
    BY <1>1, <1>2, <2>1, <2>2, <2>3, <2>5, <2>6, <2>7, <2>8, AdvanceKeeps
<1>4. CASE ~On(k, last)
  BY <1>1, <1>2, <1>4, FailsKeeps DEF RemoveLast
<1>5. QED
  BY <1>3, <1>4
\* A preview is made from the STL, or that fails.
LEMMA GlbKeeps ==
  ASSUME EncIInv, NEW b \in Builds, NEW k \in {"glb", "lidGlb"}, NEW stl,
         k = "lidGlb" => stl = "lidStl", ExportGlb(b, k, stl)
  PROVE  EncIInv'
<1>1. UNCHANGED <<encLid, freecad, lastOutput, preview, crossed>>
  BY DEF ExportGlb
<1>2. k \in OutputKinds /\ k \in BuildSteps \ (Ended \cup {"idle", "start", "wait"})
  BY EncKinds DEF BuildSteps, GlbSwapped, LidSteps, Ended
<1>3. CASE Advance(b, k, Checking[k]) /\ encFiles' = encFiles \cup {<<k, b>>} /\ On(stl, b)
  <2>1. Checking[k] \in BuildSteps \ (Ended \cup {"idle", "start"})
    BY <1>2, SwapSteps
  <2>2. encPc[b] = k /\ encPc'[b] = Checking[k]
    BY <1>3, <2>1, OneAdvances DEF EncIInv
  <2>3. k = "lidGlb" => encLid[b]
    BY <1>3 DEF EncIInv, EncPlaced, Temporary
  <2>4. Checking[k] \in LidSteps => encLid[b]
    BY <2>3, EncKinds DEF Checking, LidSteps, LidGlbSwap, LidStepSwap
  <2>5. \A c \in Builds: \A j: On(j, c)' <=> On(j, c) \/ (j = k /\ c = b)
    BY <1>3 DEF On
  <2>6. ASSUME ~crossed PROVE BuildOwns(b)' /\ SwapsAnother(b)'
    <3>1. BuildOwns(b)
      BY <2>6 DEF EncIInv, Uncrossed
    <3>2. CASE k = "glb"
      <4>1. On("step", b) /\ (encLid[b] => On("lidStep", b))
        BY <2>2, <3>1, <3>2 DEF BuildOwns
      <4>2. encPc'[b] = "check:glb"
        BY <2>2, <3>2 DEF Checking
      <4>3. QED
        BY <1>1, <2>5, <3>2, <4>1, <4>2, EncKinds DEF BuildOwns, SwapsAnother, Removing, Setting,
           GlbSwap, StepSwap, LidGlbSwap, LidStepSwap, LidSteps, GlbSwapped, StepSwapped
    <3>3. CASE k = "lidGlb"
      <4>1. /\ On("step", b) /\ (encLid[b] => On("lidStep", b))
            /\ Swapped(b, "glb") /\ Swapped(b, "step")
        BY <2>2, <3>1, <3>3 DEF BuildOwns, GlbSwapped, StepSwapped, LidSteps
      <4>2. encPc'[b] = "check:lidGlb"
        BY <2>2, <3>3 DEF Checking
      <4>3. QED
        BY <1>1, <2>5, <3>3, <4>1, <4>2, EncKinds DEF BuildOwns, SwapsAnother, Swapped, Removing,
           Setting, GlbSwap, StepSwap, LidGlbSwap, LidStepSwap, LidSteps, GlbSwapped, StepSwapped
    <3>4. QED
      BY <3>2, <3>3
  <2>7. ~crossed => \A c \in Builds: c # b /\ encPc[c] = "result" =>
                        \A j \in OutputKinds: On(j, c)' => lastOutput'[j] = c
    BY <1>1, <2>5, LastStays
  <2>8. lastOutput' \in [OutputKinds -> Builds \cup {NoBuild}]
    BY <1>1 DEF EncIInv, EncTyped
  <2>9. k \in {"lidGlb", "lidStep"} => encLid[b]
    BY <2>3
  <2>10. QED
    BY <1>1, <1>2, <1>3, <2>1, <2>4, <2>6, <2>7, <2>8, <2>9, AdvanceKeeps
<1>4. CASE Advance(b, k, "clean:failed") /\ UNCHANGED encFiles
  BY <1>1, <1>2, <1>4, FailsKeeps
<1>5. QED
  BY <1>3, <1>4 DEF ExportGlb

\* A build's output becomes the last of its kind, and nobody's is lost by that.
LEMMA SetKeeps ==
  ASSUME EncIInv, NEW b \in Builds, NEW k \in OutputKinds, SetLast(b, k)
  PROVE  EncIInv'
<1> DEFINE to == AfterSwap(b, k)
<1>1. /\ Advance(b, Setting[k], to) /\ lastOutput' = [lastOutput EXCEPT ![k] = b]
      /\ UNCHANGED <<encFiles, encLid, freecad, preview, crossed>>
  BY DEF SetLast
<1>2. /\ k = "glb" => to = "check:step"
      /\ k = "step" => to = IF encLid[b] THEN "lidGlb" ELSE "clean:result"
      /\ k = "lidGlb" => to = "check:lidStep"
      /\ k = "lidStep" => to = "clean:result"
  BY DEF AfterSwap
<1>3. /\ to \in {"check:step", "lidGlb", "check:lidStep", "clean:result"}
      /\ to \in BuildSteps \ (Ended \cup {"idle", "start"})
  <2>1. to \in {"check:step", "lidGlb", "check:lidStep", "clean:result"}
    BY <1>2, EncKinds
  <2>2. QED
    BY <2>1 DEF BuildSteps, GlbSwapped, StepSwap, LidSteps, LidStepSwap, Ended
<1>4. encPc[b] = Setting[k] /\ encPc'[b] = to
  BY <1>1, <1>3, OneAdvances DEF EncIInv
<1>5. /\ lastOutput' \in [OutputKinds -> Builds \cup {NoBuild}] /\ lastOutput'[k] = b
      /\ \A j \in OutputKinds: j # k => lastOutput'[j] = lastOutput[j]
  BY <1>1 DEF EncIInv, EncTyped
<1>6. k \in {"lidGlb", "lidStep"} => encLid[b]
  BY <1>4 DEF EncIInv, EncPlaced, Setting, LidSteps, LidGlbSwap, LidStepSwap
<1>7. to \in LidSteps => encLid[b]
  BY <1>2, <1>6, EncKinds DEF LidSteps, LidGlbSwap, LidStepSwap
<1>8. ASSUME ~crossed PROVE BuildOwns(b)' /\ SwapsAnother(b)'
  <2>1. BuildOwns(b)
    BY <1>8 DEF EncIInv, Uncrossed
  <2>2. \A j: On(j, b)' <=> On(j, b)
    BY <1>1 DEF On
  <2>3. On("step", b) /\ (encLid[b] => On("lidStep", b))
    BY <1>4, <2>1, EncKinds DEF BuildOwns, Setting, GlbSwap, StepSwap, LidGlbSwap, LidStepSwap,
       LidSteps, GlbSwapped
  <2>4. CASE k = "glb"
    <3>1. On("glb", b) /\ to = "check:step"
      BY <1>2, <1>4, <2>1, <2>4 DEF BuildOwns, Setting, GlbSwap
    <3>2. QED
      BY <1>1, <1>4, <1>5, <2>2, <2>3, <2>4, <3>1, EncKinds DEF BuildOwns, SwapsAnother, Swapped,
         Removing, Setting, GlbSwap, StepSwap, LidGlbSwap, LidStepSwap, LidSteps, GlbSwapped,
         StepSwapped
  <2>5. CASE k = "step"
    <3>1. Swapped(b, "glb")
      BY <1>4, <2>1, <2>5 DEF BuildOwns, Setting, StepSwap, GlbSwapped
    <3>2. Swapped(b, "glb")' /\ Swapped(b, "step")'
      BY <1>5, <2>2, <2>3, <2>5, <3>1, EncKinds DEF Swapped
    <3>3. to \in {"lidGlb", "clean:result"} /\ (to = "clean:result" => ~encLid[b])
      BY <1>2, <2>5
    <3>4. QED
      BY <1>1, <1>4, <2>2, <2>3, <3>2, <3>3, EncKinds DEF BuildOwns, SwapsAnother,
         Removing, Setting, GlbSwap, StepSwap, LidGlbSwap, LidStepSwap, LidSteps, GlbSwapped,
         StepSwapped
  <2>6. CASE k = "lidGlb"
    <3>1. Swapped(b, "glb") /\ Swapped(b, "step") /\ On("lidGlb", b)
      BY <1>4, <2>1, <2>6 DEF BuildOwns, Setting, LidGlbSwap, LidSteps, GlbSwapped, StepSwapped
    <3>2. Swapped(b, "glb")' /\ Swapped(b, "step")' /\ Swapped(b, "lidGlb")'
      BY <1>5, <2>2, <2>6, <3>1, EncKinds DEF Swapped
    <3>3. to = "check:lidStep"
      BY <1>2, <2>6
    <3>4. QED
      BY <1>1, <1>4, <2>2, <2>3, <3>2, <3>3, EncKinds DEF BuildOwns, SwapsAnother,
         Removing, Setting, GlbSwap, StepSwap, LidGlbSwap, LidStepSwap, LidSteps, GlbSwapped,
         StepSwapped
  <2>7. CASE k = "lidStep"
    <3>1. Swapped(b, "glb") /\ Swapped(b, "step") /\ Swapped(b, "lidGlb")
      BY <1>4, <2>1, <2>7 DEF BuildOwns, Setting, LidStepSwap, LidSteps, GlbSwapped, StepSwapped
    <3>2. /\ Swapped(b, "glb")' /\ Swapped(b, "step")' /\ Swapped(b, "lidGlb")'
          /\ encLid[b] => Swapped(b, "lidStep")'
      BY <1>5, <2>2, <2>3, <2>7, <3>1, EncKinds DEF Swapped
    <3>3. to = "clean:result"
      BY <1>2, <2>7
    <3>4. QED
      BY <1>1, <1>4, <2>2, <2>3, <3>2, <3>3, EncKinds DEF BuildOwns, SwapsAnother,
         Removing, Setting, GlbSwap, StepSwap, LidGlbSwap, LidStepSwap, LidSteps, GlbSwapped,
         StepSwapped
  <2>8. QED
    BY <2>4, <2>5, <2>6, <2>7, EncKinds
<1>9. ASSUME ~crossed, NEW c \in Builds, c # b, encPc[c] = "result", NEW j \in OutputKinds, On(j, c)'
      PROVE  lastOutput'[j] = c
  <2>1. lastOutput[j] = c
    BY <1>1, <1>9 DEF EncIInv, Uncrossed, On
  <2>2. j # k
    <3>1. lastOutput[k] \in {NoBuild, b} \/ ~On(k, lastOutput[k])
      BY <1>4, <1>9 DEF EncIInv, Uncrossed, SwapsAnother
    <3>2. c # NoBuild /\ On(j, c)
      BY <1>1, <1>9, EnclosureAssumption DEF On
    <3>3. QED
      BY <1>9, <2>1, <3>1, <3>2
  <2>3. QED
    BY <1>5, <2>1, <2>2
<1>10. Setting[k] \in BuildSteps \ (Ended \cup {"idle", "start", "wait"})
  BY SwapSteps
<1> HIDE DEF to
<1>11. QED
  BY <1>1, <1>3, <1>5, <1>7, <1>8, <1>9, <1>10, AdvanceKeeps

\* The end of a build: what was temporary is gone, and a result is the preview.
LEMMA CleanKeeps ==
  ASSUME EncIInv, NEW b \in Builds, NEW how \in Ended, CleanUp(b, how)
  PROVE  EncIInv'
<1>1. /\ Advance(b, Cleaning[how], how)
      /\ encFiles' = encFiles \ {<<k, b>> : k \in Temporary}
      /\ preview' = IF how = "result" THEN b ELSE preview
      /\ UNCHANGED <<encLid, freecad, lastOutput, crossed>>
  BY DEF CleanUp
<1>2. how \in BuildSteps
  BY DEF BuildSteps, Ended
<1>3. /\ encPc[b] = Cleaning[how] /\ encPc'[b] = how
      /\ \A c \in Builds: c # b => encPc'[c] = encPc[c]
      /\ encPc' \in [Builds -> BuildSteps]
  BY <1>1, <1>2, OneAdvances DEF EncIInv
<1>4. /\ encPc[b] \in {"clean:result", "clean:failed", "clean:cancelled"}
      /\ how = "result" => encPc[b] = "clean:result"
  BY <1>3 DEF Cleaning, Ended
<1>5. /\ \A c \in Builds: \A k: On(k, c)' <=> On(k, c) /\ ~(c = b /\ k \in Temporary)
  BY <1>1 DEF On
<1>6. EncTyped'
  <2>1. encFiles' \subseteq encFiles /\ preview' \in Builds \cup {NoBuild}
    BY <1>1 DEF EncIInv, EncTyped
  <2>2. QED
    BY <1>1, <1>3, <2>1 DEF EncIInv, EncTyped
<1>7. EncPlaced'
  <2>1. \A c \in Builds: freecad'[c] = "running" => c # b
    BY <1>1, <1>4, OnlyWhileWaiting
  <2>2. how \notin {"idle", "start"} /\ how \notin LidSteps
    BY DEF Ended, LidSteps, LidGlbSwap, LidStepSwap
  <2>3. preview' # NoBuild => encPc'[preview'] = "result"
    BY <1>1, <1>3, <1>4 DEF EncIInv, EncPlaced, EncTyped
  <2>4. \A c \in Builds:
          /\ \A k \in Temporary \cup OutputKinds: On(k, c)' =>
                /\ encPc'[c] \notin {"idle", "start"}
                /\ k \in Temporary => encPc'[c] \notin Ended
                /\ k \in {"lidStl", "lidGlb", "lidStep"} => encLid'[c]
          /\ encPc'[c] \in LidSteps => encLid'[c]
    BY <1>1, <1>3, <1>5, <2>2 DEF EncIInv, EncPlaced
  <2>5. \A c \in Builds: freecad'[c] = "running" => encPc'[c] = "wait" /\ On("script", c)'
    BY <1>1, <1>3, <1>5, <2>1 DEF EncIInv, EncPlaced
  <2>6. QED
    BY <2>3, <2>4, <2>5 DEF EncPlaced
<1>8. ASSUME ~crossed' PROVE Uncrossed'
  <2>1. Uncrossed /\ InJob(b)
    BY <1>1, <1>4, <1>8 DEF EncIInv, InJob
  <2>2. \A c \in Builds: ~InJob(c)'
    BY <1>3, <2>1 DEF InJob, Uncrossed, Ended
  <2>3. \A c \in Builds: BuildOwns(c)' /\ SwapsAnother(c)'
    BY <2>2, EncKinds DEF InJob, BuildOwns, SwapsAnother, Removing, Setting, GlbSwap, StepSwap,
       LidGlbSwap, LidStepSwap, LidSteps, GlbSwapped, StepSwapped
  <2>4. how = "result" => /\ Swapped(b, "glb") /\ Swapped(b, "step")
                          /\ encLid[b] => Swapped(b, "lidGlb") /\ Swapped(b, "lidStep")
                          /\ ~encLid[b] => ~On("lidGlb", b) /\ ~On("lidStep", b)
    <3>1. ~encLid[b] => ~On("lidGlb", b) /\ ~On("lidStep", b)
      BY EncKinds DEF EncIInv, EncPlaced
    <3>2. QED
      BY <1>4, <2>1, <3>1 DEF Uncrossed, BuildOwns, GlbSwapped, StepSwapped
  <2>5. ASSUME NEW c \in Builds, encPc'[c] = "result", NEW k \in OutputKinds, On(k, c)'
        PROVE  lastOutput'[k] = c
    <3>1. CASE c = b
      BY <1>1, <1>3, <1>5, <2>4, <2>5, <3>1, EncKinds DEF Swapped
    <3>2. CASE c # b
      BY <1>1, <1>3, <1>5, <2>1, <2>5, <3>2 DEF Uncrossed
    <3>3. QED
      BY <3>1, <3>2
  <2>6. preview' # NoBuild => preview' = b /\ how = "result"
    BY <1>1, <2>1 DEF Uncrossed
  <2>7. preview' # NoBuild => \A k \in Parts(preview)': On(k, preview)'
    BY <1>1, <1>5, <2>4, <2>6 DEF Parts, Swapped, Temporary
  <2>8. QED
    BY <2>2, <2>3, <2>5, <2>7 DEF Uncrossed
<1>9. QED
  BY <1>6, <1>7, <1>8 DEF EncIInv
\* An export reads the files and changes none.
LEMMA ExportKeeps ==
  ASSUME EncIInv, UNCHANGED <<encFiles, encLid, encPc, freecad, lastOutput, preview, crossed>>
  PROVE  EncIInv'
BY DEF EncIInv, EncTyped, EncPlaced, On, Uncrossed, BuildOwns, SwapsAnother, Swapped, InJob, Parts

\* The invariant is inductive: every step of the builds, of FreeCAD and of the
\* user keeps it.
THEOREM EnclosureInvariant == EnclosureSpec => []EncIInv
<1>1. EnclosureInit => EncIInv
  BY EncInitial
<1>2. EncIInv /\ [EnclosureNext]_enclosureVars => EncIInv'
  <2> SUFFICES ASSUME EncIInv, [EnclosureNext]_enclosureVars PROVE EncIInv'
    OBVIOUS
  <2>1. ASSUME NEW b \in Builds, NEW lid \in BOOLEAN, Generate(b, lid) PROVE EncIInv'
    BY <2>1, GenerateKeeps
  <2>2. ASSUME NEW b \in Builds, FreecadWrites(b) PROVE EncIInv'
    BY <2>2, WritesKeeps
  <2>3. ASSUME NEW b \in Builds, FreecadEnds(b) PROVE EncIInv'
    BY <2>3, EndsKeeps
  <2>4. ASSUME NEW b \in Builds, CancelBuild(b) PROVE EncIInv'
    BY <2>4, CancelKeeps
  <2>5. ASSUME NEW b \in Builds, BuildStep(b) PROVE EncIInv'
    <3>1. CASE StartBuild(b)
      BY <3>1, StartKeeps
    <3>2. CASE WaitForFreecad(b)
      BY <3>2, WaitKeeps
    <3>3. CASE LookForFiles(b)
      BY <3>3, LookKeeps
    <3>4. CASE ExportGlb(b, "glb", "stl")
      BY <3>4, GlbKeeps
    <3>5. CASE ExportGlb(b, "lidGlb", "lidStl")
      BY <3>5, GlbKeeps
    <3>6. ASSUME NEW k \in OutputKinds, CheckLast(b, k) \/ RemoveLast(b, k) \/ SetLast(b, k)
          PROVE  EncIInv'
      BY <3>6, CheckKeeps, RemoveKeeps, SetKeeps
    <3>7. ASSUME NEW how \in {"result", "failed", "cancelled"}, CleanUp(b, how) PROVE EncIInv'
      BY <3>7, CleanKeeps DEF Ended
    <3>8. QED
      BY <2>5, <3>1, <3>2, <3>3, <3>4, <3>5, <3>6, <3>7 DEF BuildStep
  <2>6. CASE StartExport
    BY <2>6, ExportKeeps DEF StartExport
  <2>7. CASE CopyExport
    BY <2>7, ExportKeeps DEF CopyExport
  <2>8. CASE UNCHANGED enclosureVars
    BY <2>8, ExportKeeps DEF enclosureVars
  <2>9. QED
    BY <2>1, <2>2, <2>3, <2>4, <2>5, <2>6, <2>7, <2>8 DEF EnclosureNext
<1>3. QED
  BY <1>1, <1>2, PTL DEF EnclosureSpec

\* Every file belongs to a build that was started, the preview to one that
\* succeeded, and FreeCAD runs on a script that is there.
THEOREM EnclosureTypes == EnclosureSpec => []EnclosureTypeOK
<1>1. EncIInv => EnclosureTypeOK
  <2> SUFFICES ASSUME EncIInv PROVE EnclosureTypeOK
    OBVIOUS
  <2>1. ASSUME NEW f \in encFiles
        PROVE  f \in (Temporary \cup OutputKinds) \X {b \in Builds: encPc[b] # "idle"}
    <3>1. PICK k \in Temporary \cup OutputKinds, b \in Builds: f = <<k, b>>
      BY <2>1 DEF EncIInv, EncTyped
    <3>2. encPc[b] # "idle"
      BY <2>1, <3>1 DEF EncIInv, EncPlaced, On
    <3>3. QED
      BY <3>1, <3>2
  <2>2. QED
    BY <2>1 DEF EncIInv, EncPlaced, EnclosureTypeOK
<1>2. QED
  BY <1>1, EnclosureInvariant, PTL

\* The preview the user sees has all of its files as long as no two builds ran
\* at once; a job that has ended leaves no process and no temporary file; and
\* the outputs of builds that succeeded never pile up: for any number of builds
\* and whichever of them fail, are cancelled or time out
\* (generate_enclosure, _wait_with_cancellation).
THEOREM FilesKept == EnclosureSpec => []FilesAsNeeded
<1>1. EncIInv => PreviewIsThere
  BY DEF EncIInv, Uncrossed, PreviewIsThere
<1>2. EncIInv => NothingLeftBehind
  BY DEF EncIInv, EncPlaced, NothingLeftBehind, Ended
<1>3. EncIInv => SuccessesDoNotPileUp
  BY DEF EncIInv, Uncrossed, SuccessesDoNotPileUp, Orphans
<1>4. EncIInv => FilesAsNeeded
  BY <1>1, <1>2, <1>3 DEF FilesAsNeeded
<1>5. QED
  BY <1>4, EnclosureInvariant, PTL

-------------------------------------------------------------------------------
(* Providers, keys and what is saved of them: ModelSetup.                  *)

\* What is saved and kept of records: a null is kept only over a field that the
\* preset states, and nothing is kept that the preset says too.
NullsAreStated(records) ==
    \A id \in DOMAIN records \cap DOMAIN Presets: \A f \in DOMAIN records[id]:
        StatedIfNull(id, f, records[id][f])
Differs(providers) ==
    \A id \in DOMAIN providers \cap DOMAIN Presets: \A f \in DOMAIN providers[id]:
        providers[id][f] # Given(Presets[id], f)
Entries(records) == [id \in DOMAIN records |-> ProviderDelta(id, records[id])]

Bindings == [Roles -> ProviderIds]
Bound(roles) == roles = Unbound \/ roles \in Bindings

\* A config, on disk or as the daemon or a view has it.
DiskFields == {"providers", "roles", "legacy", "model", "onboarded"}
ConfigFields == {"providers", "roles", "legacy", "model", "secrets"}
FileOK(file) ==
    /\ NullsAreStated(file.providers) /\ Differs(file.providers)
    /\ Bound(file.roles) /\ file.legacy \in ProviderIds \cup {Null}

\* What was saved and what the views hold.
SetupFiles ==
    /\ FileOK(disk) /\ DOMAIN disk = DiskFields /\ disk.onboarded \in BOOLEAN
    /\ \A id \in DOMAIN disk.providers: "kind" \in DOMAIN disk.providers[id]
    /\ FileOK(config) /\ DOMAIN config = ConfigFields
    /\ settings.open =>
          /\ NullsAreStated(settings.records) /\ settings.roles \in Bindings
          /\ DOMAIN settings.copy = DiskFields
          /\ settings.copy.legacy \in ProviderIds \cup {Null}
          /\ settings.copy.onboarded \in BOOLEAN

\* The save under way.
SaveOK ==
    /\ saving.is \in {"none", "sent", "answered"}
    /\ saving.is # "none" =>
          /\ saving.next \in {"guided", "settings", "work"} /\ saving.reload \in BOOLEAN
    /\ saving.is = "sent" => (saving.reload => settings.open)
    /\ saving.is = "answered" =>
          /\ FileOK(saving.file) /\ DOMAIN saving.file = DiskFields
          /\ saving.file.onboarded \in BOOLEAN
          /\ saving.reload =>
                /\ NullsAreStated(saving.records) /\ saving.roles \in Bindings
                /\ alive => config.providers = Entries(saving.records)
                            /\ config.roles = saving.roles

\* When the app is off, no view is open and nothing is being saved.
OffIsOff ==
    /\ view \in {"off", "welcome", "guided", "settings", "work"}
    /\ view = "off" => saving.is = "none" /\ ~settings.open /\ ~alive
    /\ changes \in 0..MaxChanges

\* Whom the daemon was asked to look parts up with had claimed it.
ClaimsKept ==
    /\ alive => Claiming(config) \subseteq claimed
    /\ \A id: CheckKey(id, "extract") \in checked => id \in claimed
    /\ PartFactsWereClaimed

\* The pipe is a sequence of lines; without a daemon there is nothing.
QuestionFields == {"is", "agent", "id", "result", "secrets", "used", "without"}
IsSequence(s) == \E S: s \in Seq(S)
PipeOK ==
    /\ IsSequence(stdin) /\ Len(stdin) <= PipeRoom
    /\ DOMAIN question = QuestionFields
    /\ ~alive => /\ stdin = <<>> /\ config.secrets = {}
                /\ question.is = "none" /\ question.agent = Null

\* A save that waits in the pipe is the one under way, and the only one.
SaveKinds == {"providers", "bind"}
SavesSent ==
    /\ \A i \in 1..Len(stdin):
          /\ stdin[i].is = "providers" =>
                /\ saving.is = "sent" /\ saving.reload = TRUE
                /\ NullsAreStated(stdin[i].records) /\ stdin[i].roles \in Bindings
          /\ stdin[i].is = "bind" =>
                saving.is = "sent" /\ saving.reload = FALSE /\ stdin[i].id \in DOMAIN Presets
    /\ \A i, j \in 1..Len(stdin):
          stdin[i].is \in SaveKinds /\ stdin[j].is \in SaveKinds => i = j

\* The keys of the i-th line of s, or those that the daemon has, which are k;
\* and: whoever reads the first m lines of s, and any more, then has no key of X.
KeysAt(s, k, i) == IF i = 0 THEN k ELSE s[i].secrets
Safe(s, k, X, m) ==
    \A i \in 0..Len(s):
        (i # 0 => s[i].is = "secrets") /\ (\A j \in (i + 1)..m: s[j].is # "secrets")
            => KeysAt(s, k, i) \cap X = {}

\* A key that was cleared is not in the keychain, and the question that was put
\* afterwards stands behind what tells the daemon so.
KeysKept ==
    /\ cleared \cap keychain = {} /\ question.without \cap keychain = {}
    /\ pushing # NoPush => pushing.cleared \cap keychain = {}
    /\ Safe(stdin, config.secrets, cleared, Len(stdin))
    /\ \A m \in 1..Len(stdin): stdin[m].is = "ask" =>
          question.is = "sent" /\ Safe(stdin, config.secrets, question.without, m - 1)
    /\ \A m, n \in 1..Len(stdin): stdin[m].is = "ask" /\ stdin[n].is = "ask" => m = n
    /\ question.is = "started" => Safe(stdin, config.secrets, question.without, 0)
    /\ question.is = "keyed" => question.secrets \cap question.without = {}
    /\ ClearedKeyNotUsed

\* The inductive invariant.
SetupIInv ==
    SetupFiles /\ SaveOK /\ OffIsOff /\ ClaimsKept /\ PipeOK /\ SavesSent /\ KeysKept

\* A line at the end of the pipe.
LEMMA AppendLine ==
  ASSUME NEW s, IsSequence(s), NEW line
  PROVE  /\ IsSequence(Append(s, line)) /\ Len(s) \in Nat
         /\ Len(Append(s, line)) = Len(s) + 1
         /\ Append(s, line)[Len(s) + 1] = line
         /\ \A i \in 1..Len(s): Append(s, line)[i] = s[i]
<1>1. PICK S: s \in Seq(S)
  BY DEF IsSequence
<1>2. s \in Seq(S \cup {line})
  BY <1>1
<1>3. Append(s, line) \in Seq(S \cup {line})
  BY <1>2
<1>4. QED
  BY <1>2, <1>3 DEF IsSequence

\* The first line is read.
LEMMA TailLine ==
  ASSUME NEW s, IsSequence(s), s # <<>>
  PROVE  /\ IsSequence(Tail(s)) /\ Len(s) \in Nat \ {0} /\ Head(s) = s[1]
         /\ Len(Tail(s)) = Len(s) - 1
         /\ \A i \in 1..(Len(s) - 1): Tail(s)[i] = s[i + 1]
<1>1. PICK S: s \in Seq(S)
  BY DEF IsSequence
<1>2. Tail(s) \in Seq(S) /\ Len(s) \in Nat \ {0} /\ Len(Tail(s)) = Len(s) - 1
  BY <1>1
<1>3. QED
  BY <1>1, <1>2 DEF IsSequence

\* A line is appended.
LEMMA SafeAppend ==
  ASSUME NEW s, IsSequence(s), NEW k, NEW X, NEW m \in 0..Len(s), Safe(s, k, X, m),
         NEW line, line.is = "secrets" => line.secrets \cap X = {}
  PROVE  Safe(Append(s, line), k, X, m)
<1> DEFINE t == Append(s, line)
<1>1. /\ Len(s) \in Nat /\ Len(t) = Len(s) + 1 /\ t[Len(s) + 1] = line
      /\ \A i \in 1..Len(s): t[i] = s[i]
  BY AppendLine
<1> HIDE DEF t
<1> SUFFICES ASSUME NEW i \in 0..Len(t), i # 0 => t[i].is = "secrets",
                    \A j \in (i + 1)..m: t[j].is # "secrets"
             PROVE  KeysAt(t, k, i) \cap X = {}
  BY DEF Safe, t
<1>2. CASE i = Len(s) + 1
  BY <1>1, <1>2 DEF KeysAt
<1>3. CASE i \in 0..Len(s)
  <2>1. (i # 0 => s[i].is = "secrets") /\ (\A j \in (i + 1)..m: s[j].is # "secrets")
    BY <1>1, <1>3
  <2>2. KeysAt(s, k, i) \cap X = {}
    BY <1>3, <2>1 DEF Safe
  <2>3. KeysAt(t, k, i) = KeysAt(s, k, i)
    BY <1>1, <1>3 DEF KeysAt
  <2>4. QED
    BY <2>2, <2>3
<1>4. QED
  BY <1>1, <1>2, <1>3

\* What is known at the end, when another line is there.
LEMMA SafeAtEnd ==
  ASSUME NEW s, IsSequence(s), NEW k, NEW X, NEW line,
         IF line.is = "secrets" THEN line.secrets \cap X = {} ELSE Safe(s, k, X, Len(s))
  PROVE  Safe(Append(s, line), k, X, Len(s) + 1)
<1> DEFINE t == Append(s, line)
<1>1. /\ Len(s) \in Nat /\ Len(t) = Len(s) + 1 /\ t[Len(s) + 1] = line
      /\ \A i \in 1..Len(s): t[i] = s[i]
  BY AppendLine
<1> HIDE DEF t
<1> SUFFICES ASSUME NEW i \in 0..Len(t), i # 0 => t[i].is = "secrets",
                    \A j \in (i + 1)..(Len(s) + 1): t[j].is # "secrets"
             PROVE  KeysAt(t, k, i) \cap X = {}
  BY DEF Safe, t
<1>2. CASE i = Len(s) + 1
  BY <1>1, <1>2 DEF KeysAt
<1>3. CASE i \in 0..Len(s)
  <2>1. line.is # "secrets"
    BY <1>1, <1>3
  <2>2. (i # 0 => s[i].is = "secrets") /\ (\A j \in (i + 1)..Len(s): s[j].is # "secrets")
    BY <1>1, <1>3
  <2>3. KeysAt(s, k, i) \cap X = {}
    BY <1>3, <2>1, <2>2 DEF Safe
  <2>4. KeysAt(t, k, i) = KeysAt(s, k, i)
    BY <1>1, <1>3 DEF KeysAt
  <2>5. QED
    BY <2>3, <2>4
<1>4. QED
  BY <1>1, <1>2, <1>3

\* The first line is read: there is one less to read.
LEMMA SafeRead ==
  ASSUME NEW s, IsSequence(s), s # <<>>, NEW k, NEW X, NEW m \in 0..Len(s),
         Safe(s, k, X, m)
  PROVE  Safe(Tail(s), IF Head(s).is = "secrets" THEN Head(s).secrets ELSE k, X,
              IF m = 0 THEN 0 ELSE m - 1)
<1> DEFINE t == Tail(s)
           now == IF Head(s).is = "secrets" THEN Head(s).secrets ELSE k
           left == IF m = 0 THEN 0 ELSE m - 1
<1>1. /\ Len(s) \in Nat \ {0} /\ Head(s) = s[1] /\ Len(t) = Len(s) - 1
      /\ \A i \in 1..(Len(s) - 1): t[i] = s[i + 1]
  BY TailLine
<1>2. left \in 0..Len(t) /\ (m # 0 => left = m - 1) /\ (m = 0 => left = 0)
  BY <1>1
<1>3. /\ s[1].is = "secrets" => now = s[1].secrets
      /\ s[1].is # "secrets" => now = k
  BY <1>1
<1> HIDE DEF t, now, left
<1> SUFFICES ASSUME NEW i \in 0..Len(t), i # 0 => t[i].is = "secrets",
                    \A j \in (i + 1)..left: t[j].is # "secrets"
             PROVE  KeysAt(t, now, i) \cap X = {}
  BY DEF Safe, t, now, left
<1>4. \A j \in 2..m: j > i + 1 => s[j].is # "secrets"
  <2> SUFFICES ASSUME NEW j \in 2..m, j > i + 1 PROVE s[j].is # "secrets"
    OBVIOUS
  <2>1. j - 1 \in (i + 1)..left /\ j - 1 \in 1..(Len(s) - 1)
    BY <1>1, <1>2
  <2>2. t[j - 1] = s[(j - 1) + 1] /\ (j - 1) + 1 = j
    BY <1>1, <2>1
  <2>3. QED
    BY <2>1, <2>2
<1>5. CASE i = 0 /\ s[1].is # "secrets"
  <2>1. \A j \in (0 + 1)..m: s[j].is # "secrets"
    BY <1>4, <1>5
  <2>2. KeysAt(s, k, 0) \cap X = {}
    BY <1>1, <2>1 DEF Safe
  <2>3. QED
    BY <1>3, <1>5, <2>2 DEF KeysAt
<1>6. CASE i = 0 /\ s[1].is = "secrets"
  <2>1. 1 \in 0..Len(s) /\ \A j \in (1 + 1)..m: s[j].is # "secrets"
    BY <1>1, <1>4, <1>6
  <2>2. KeysAt(s, k, 1) \cap X = {}
    BY <1>6, <2>1 DEF Safe
  <2>3. QED
    BY <1>3, <1>6, <2>2 DEF KeysAt
<1>7. CASE i # 0
  <2>1. i + 1 \in 0..Len(s) /\ t[i] = s[i + 1] /\ i + 1 # 0
    BY <1>1, <1>7
  <2>2. \A j \in (i + 1 + 1)..m: s[j].is # "secrets"
    BY <1>4, <1>7
  <2>3. KeysAt(s, k, i + 1) \cap X = {}
    BY <1>7, <2>1, <2>2 DEF Safe
  <2>4. QED
    BY <1>7, <2>1, <2>3 DEF KeysAt
<1>8. QED
  BY <1>5, <1>6, <1>7

\* Of fewer keys.
LEMMA SafeOfFewer ==
  ASSUME NEW s, NEW k, NEW X, NEW Y \in SUBSET X, NEW m, Safe(s, k, X, m)
  PROVE  Safe(s, k, Y, m)
BY DEF Safe

LEMMA OverIs ==
  ASSUME NEW f, NEW g
  PROVE  /\ DOMAIN Over(f, g) = DOMAIN f \cup DOMAIN g
         /\ \A x \in DOMAIN f: Over(f, g)[x] = f[x]
         /\ \A x \in DOMAIN g \ DOMAIN f: Over(f, g)[x] = g[x]
BY DEF Over

\* The delta of a record, laid over the preset, is the record again, where the
\* preset states its nulls.
LEMMA DeltaGivesBack ==
  ASSUME NEW id \in DOMAIN Presets, NEW record,
         \A f \in DOMAIN record: StatedIfNull(id, f, record[f]),
         NEW f \in DOMAIN record
  PROVE  MergeOverPreset(id, ProviderDelta(id, record))[f] = record[f]
<1> DEFINE delta == ProviderDelta(id, record)
<1>1. /\ DOMAIN delta = {g \in DOMAIN record: record[g] # Given(Presets[id], g)}
      /\ \A g \in DOMAIN delta: delta[g] = record[g]
  BY DEF ProviderDelta, Restrict
<1>2. MergeOverPreset(id, delta) = Over(delta, Presets[id])
  BY DEF MergeOverPreset
<1> HIDE DEF delta
<1> SUFFICES MergeOverPreset(id, delta)[f] = record[f]
  BY DEF delta
<1>3. CASE f \in DOMAIN delta
  BY <1>1, <1>2, <1>3 DEF Over
<1>4. CASE f \notin DOMAIN delta
  <2>1. record[f] = Given(Presets[id], f)
    BY <1>1, <1>4
  <2>2. f \in DOMAIN Presets[id]
    BY <2>1 DEF StatedIfNull, Given
  <2>3. QED
    BY <1>2, <1>4, <2>1, <2>2 DEF Over, Given
<1>5. QED
  BY <1>3, <1>4

\* What is saved of records keeps no null that the preset leaves out, and
\* nothing that it says.
LEMMA EntriesOK ==
  ASSUME NEW records, NullsAreStated(records)
  PROVE  NullsAreStated(Entries(records)) /\ Differs(Entries(records))
<1>1. ASSUME NEW id \in DOMAIN records \cap DOMAIN Presets, NEW f \in DOMAIN Entries(records)[id]
      PROVE  /\ f \in DOMAIN records[id] /\ Entries(records)[id][f] = records[id][f]
             /\ records[id][f] # Given(Presets[id], f)
  BY <1>1 DEF Entries, ProviderDelta, Restrict
<1>2. DOMAIN Entries(records) = DOMAIN records
  BY DEF Entries
<1>3. QED
  BY <1>1, <1>2 DEF NullsAreStated, Differs

\* Rust's round trip drops nulls and gives each record a kind, which no preset
\* has as an empty string.
LEMMA WrittenOK ==
  ASSUME NEW file, FileOK(file), DOMAIN file = DiskFields
  PROVE  /\ FileOK(Written(file)) /\ DOMAIN Written(file) = DiskFields
         /\ Written(file).onboarded = file.onboarded
         /\ \A id \in DOMAIN Written(file).providers: "kind" \in DOMAIN Written(file).providers[id]
<1> DEFINE w == [id \in DOMAIN file.providers |-> RoundTripped(file.providers[id])]
<1>1. /\ DOMAIN Written(file) = DiskFields /\ Written(file).providers = w
      /\ Written(file).roles = file.roles /\ Written(file).legacy = file.legacy
      /\ Written(file).onboarded = file.onboarded
  BY DEF Written, DiskFields
<1>2. DOMAIN w = DOMAIN file.providers
  OBVIOUS
<1>3. ASSUME NEW id \in DOMAIN w
      PROVE  /\ "kind" \in DOMAIN w[id]
             /\ \A f \in DOMAIN w[id]:
                   \/ f \in DOMAIN file.providers[id] /\ w[id][f] = file.providers[id][f]
                   \/ f = "kind" /\ w[id][f] = ""
  BY DEF RoundTripped
<1> HIDE DEF w
<1>4. NullsAreStated(w)
  <2>1. "" # Null
    BY DEF Null
  <2>2. QED
    BY <1>2, <1>3, <2>1 DEF FileOK, NullsAreStated, StatedIfNull
<1>5. Differs(w)
  <2> SUFFICES ASSUME NEW id \in DOMAIN w \cap DOMAIN Presets, NEW f \in DOMAIN w[id]
               PROVE  w[id][f] # Given(Presets[id], f)
    BY DEF Differs
  <2>1. CASE f \in DOMAIN file.providers[id] /\ w[id][f] = file.providers[id][f]
    BY <1>2, <2>1 DEF FileOK, Differs
  <2>2. CASE f = "kind" /\ w[id][f] = ""
    BY <2>2, SetupAssumption DEF Given
  <2>3. QED
    BY <1>3, <2>1, <2>2
<1>6. QED
  BY <1>1, <1>3, <1>4, <1>5 DEF FileOK

\* No record, no entry.
LEMMA NoEntries ==
  NullsAreStated(<<>>) /\ Differs(<<>>) /\ Bound(Unbound) /\ Null \in ProviderIds \cup {Null}
BY DEF NullsAreStated, Differs, Bound

\* The initial state.

\* The records of a config depend on four of its fields.
LEMMA SameRecords ==
  ASSUME NEW a, NEW b, a.providers = b.providers, a.roles = b.roles, a.legacy = b.legacy,
         a.model = b.model
  PROVE  RecordsOf(a) = RecordsOf(b) /\ RolesBound(a) = RolesBound(b) /\ Claiming(a) = Claiming(b)
<1>1. LegacyOf(a) = LegacyOf(b)
  BY DEF LegacyOf
<1>2. Migrated(a) = Migrated(b)
  BY <1>1 DEF Migrated
<1>3. RecordsOf(a) = RecordsOf(b)
  BY <1>2 DEF RecordsOf
<1>4. QED
  BY <1>1, <1>3 DEF RolesBound, Claiming

\* The binding in force is of ids of records, whatever it comes from.
LEMMA RolesBoundOK ==
  ASSUME NEW setup, Bound(setup.roles), setup.legacy \in ProviderIds \cup {Null}
  PROVE  RolesBound(setup) \in Bindings
<1>1. LegacyOf(setup) \in ProviderIds
  BY SetupAssumption DEF LegacyOf, ProviderIds
<1>2. CASE setup.roles # Unbound
  BY <1>2 DEF RolesBound, Bound
<1>3. CASE setup.roles = Unbound
  BY <1>1, <1>3 DEF RolesBound, Bindings
<1>4. QED
  BY <1>2, <1>3

\* No binding of the editor is the empty one.
LEMMA BindingsAreBound == \A roles \in Bindings: roles # Unbound
<1>1. Null \notin ProviderIds
  BY SetupAssumption DEF ProviderIds
<1>2. ASSUME NEW roles \in Bindings PROVE roles["fast"] # Unbound["fast"]
  BY <1>1, <1>2 DEF Bindings, Unbound, Roles
<1>3. QED
  BY <1>2

\* The records in force have a null only where the preset states one, an older
\* release's model included.
LEMMA RecordsOK ==
  ASSUME NEW setup, NullsAreStated(setup.providers)
  PROVE  NullsAreStated(RecordsOf(setup))
<1> DEFINE entries == Migrated(setup)
           old == LegacyOf(setup)
<1>1. ASSUME NEW id \in DOMAIN entries \cap DOMAIN Presets, NEW f \in DOMAIN entries[id]
      PROVE  StatedIfNull(id, f, entries[id][f])
  <2>1. CASE entries = setup.providers
    BY <1>1, <2>1 DEF NullsAreStated
  <2>2. CASE /\ setup.model # Null
             /\ entries = Over(Only(old, OverrideRecord(old, setup.model)), setup.providers)
    <3> HIDE DEF old
    <3>1. CASE id = old
      <4>1. entries[id] = OverrideRecord(old, setup.model)
        BY <2>2, <3>1 DEF Over, Only
      <4>2. entries[id] = Over(Only("reasoning", setup.model), Presets[id])
        BY <3>1, <4>1 DEF OverrideRecord
      <4> HIDE DEF entries
      <4>3. (f = "reasoning" /\ entries[id][f] = setup.model) \/ f \in DOMAIN Presets[id]
        BY <4>2 DEF Over, Only
      <4>4. QED
        BY <2>2, <4>3 DEF StatedIfNull
    <3>2. CASE id # old
      <4>1. id \in DOMAIN setup.providers /\ entries[id] = setup.providers[id]
        BY <2>2, <3>2 DEF Over, Only
      <4>2. QED
        BY <4>1 DEF NullsAreStated
    <3>3. QED
      BY <3>1, <3>2
  <2>3. QED
    BY <2>1, <2>2 DEF Migrated
<1> HIDE DEF entries
<1> SUFFICES NullsAreStated(ProviderRecords(entries))
  BY DEF RecordsOf, entries
<1> SUFFICES ASSUME NEW id \in DOMAIN Presets, NEW f \in DOMAIN ProviderRecords(entries)[id]
             PROVE  StatedIfNull(id, f, ProviderRecords(entries)[id][f])
  BY DEF NullsAreStated
<1>2. CASE id \notin DOMAIN entries
  BY <1>2 DEF ProviderRecords, StatedIfNull
<1>3. CASE id \in DOMAIN entries
  <2>1. ProviderRecords(entries)[id] = Over(entries[id], Presets[id])
    BY <1>3 DEF ProviderRecords, MergeOverPreset
  <2>2. f \in DOMAIN entries[id] => StatedIfNull(id, f, entries[id][f])
    BY <1>1, <1>3
  <2>3. QED
    BY <2>1, <2>2 DEF Over, StatedIfNull
<1>4. QED
  BY <1>2, <1>3

\* The pipe has room for a line, and may be empty.
LEMMA RoomForOne == PipeRoom \in Nat /\ PipeRoom >= 1
<1>1. PipeRoom \in Nat \ {0}
  BY SetupAssumption
<1>2. QED
  BY <1>1

LEMMA EmptyPipe == IsSequence(<<>>) /\ Len(<<>>) = 0
<1>1. <<>> \in Seq(Nat) /\ Len(<<>>) = 0
  OBVIOUS
<1>2. QED
  BY <1>1 DEF IsSequence

\* The initial state.
LEMMA SetupInitial == SetupInit => SetupIInv
<1> SUFFICES ASSUME SetupInit PROVE SetupIInv
  OBVIOUS
<1> USE DEF SetupInit
<1>1. SetupFiles
  BY NoEntries DEF SetupFiles, FileOK, DiskFields, ConfigFields, Closed, NoConfig
<1>2. SaveOK
  BY DEF SaveOK, NoSave
<1>3. OffIsOff
  <2>1. changes \in 0..MaxChanges
    <3>1. MaxChanges \in Nat
      BY SetupAssumption
    <3>2. QED
      BY <3>1
  <2>2. view = "off" /\ saving.is = "none" /\ ~settings.open /\ ~alive
    BY DEF Closed, NoSave
  <2>3. QED
    BY <2>1, <2>2 DEF OffIsOff
<1>4. ClaimsKept
  BY DEF ClaimsKept, PartFactsWereClaimed, NoQuestion, Null
<1>5. PipeOK
  <2>1. IsSequence(stdin) /\ Len(stdin) = 0
    BY EmptyPipe
  <2>2. DOMAIN question = QuestionFields /\ question.is = "none" /\ question.agent = Null
    BY DEF NoQuestion, QuestionFields
  <2>3. config.secrets = {}
    BY DEF NoConfig
  <2>4. QED
    BY <2>1, <2>2, <2>3, RoomForOne DEF PipeOK
<1>6. SavesSent
  BY DEF SavesSent
<1>7. KeysKept
  <2>1. Safe(stdin, config.secrets, cleared, Len(stdin))
    BY DEF Safe
  <2>2. question.is = "none" /\ question.without = {} /\ question.used = {} /\ Len(stdin) = 0
    BY DEF NoQuestion
  <2>3. QED
    BY <2>1, <2>2 DEF KeysKept, ClearedKeyNotUsed
<1>8. QED
  BY <1>1, <1>2, <1>3, <1>4, <1>5, <1>6, <1>7 DEF SetupIInv

-------------------------------------------------------------------------------
(* What the pipe holds. *)

\* A line at the end: the other lines are as before.
LEMMA SentIs ==
  ASSUME PipeOK, NEW line, Len(stdin) < PipeRoom, stdin' = Append(stdin, line)
  PROVE  /\ IsSequence(stdin') /\ Len(stdin') <= PipeRoom
         /\ Len(stdin) \in Nat /\ Len(stdin') = Len(stdin) + 1
         /\ \A i \in 1..Len(stdin'):
               IF i = Len(stdin) + 1 THEN stdin'[i] = line
               ELSE i \in 1..Len(stdin) /\ stdin'[i] = stdin[i]
<1>1. IsSequence(stdin)
  BY DEF PipeOK
<1>2. /\ IsSequence(stdin') /\ Len(stdin) \in Nat /\ Len(stdin') = Len(stdin) + 1
      /\ stdin'[Len(stdin) + 1] = line /\ \A i \in 1..Len(stdin): stdin'[i] = stdin[i]
  BY <1>1, AppendLine
<1>3. PipeRoom \in Nat
  BY SetupAssumption
<1>4. QED
  BY <1>2, <1>3

\* The first line is read: the others move up.
LEMMA ReadIs ==
  ASSUME PipeOK, stdin # <<>>, stdin' = Tail(stdin)
  PROVE  /\ IsSequence(stdin') /\ Len(stdin') <= PipeRoom /\ Head(stdin) = stdin[1]
         /\ Len(stdin) \in Nat \ {0} /\ Len(stdin') = Len(stdin) - 1 /\ 1 \in 1..Len(stdin)
         /\ \A i \in 1..Len(stdin'): i + 1 \in 1..Len(stdin) /\ stdin'[i] = stdin[i + 1]
<1>1. IsSequence(stdin) /\ Len(stdin) <= PipeRoom
  BY DEF PipeOK
<1>2. /\ IsSequence(stdin') /\ Len(stdin) \in Nat \ {0} /\ Head(stdin) = stdin[1]
      /\ Len(stdin') = Len(stdin) - 1
      /\ \A i \in 1..(Len(stdin) - 1): stdin'[i] = stdin[i + 1]
  BY <1>1, TailLine
<1>3. PipeRoom \in Nat
  BY SetupAssumption
<1>4. QED
  BY <1>1, <1>2, <1>3

\* A save is sent while none is under way.
LEMMA SaveIsSent ==
  ASSUME PipeOK, SavesSent, saving.is = "none", NEW line, Len(stdin) < PipeRoom,
         stdin' = Append(stdin, line), saving'.is = "sent",
         \/ /\ line.is = "providers" /\ saving'.reload = TRUE
            /\ NullsAreStated(line.records) /\ line.roles \in Bindings
         \/ /\ line.is = "bind" /\ saving'.reload = FALSE /\ line.id \in DOMAIN Presets
  PROVE  SavesSent'
<1>1. \A i \in 1..Len(stdin): stdin[i].is \notin SaveKinds
  BY DEF SavesSent, SaveKinds
<1>2. \A i \in 1..Len(stdin'):
         IF i = Len(stdin) + 1 THEN stdin'[i] = line
         ELSE i \in 1..Len(stdin) /\ stdin'[i] = stdin[i]
  BY SentIs
<1>3. \A i \in 1..Len(stdin'): stdin'[i].is \in SaveKinds =>
         i = Len(stdin) + 1 /\ stdin'[i] = line
  BY <1>1, <1>2
<1>4. QED
  BY <1>3 DEF SavesSent, SaveKinds

\* Another line is sent.
LEMMA OtherIsSent ==
  ASSUME PipeOK, SavesSent, NEW line, line.is \notin SaveKinds, Len(stdin) < PipeRoom,
         stdin' = Append(stdin, line), UNCHANGED saving
  PROVE  SavesSent'
<1>1. \A i \in 1..Len(stdin'):
         IF i = Len(stdin) + 1 THEN stdin'[i] = line
         ELSE i \in 1..Len(stdin) /\ stdin'[i] = stdin[i]
  BY SentIs
<1>2. \A i \in 1..Len(stdin'): stdin'[i].is \in SaveKinds =>
         i \in 1..Len(stdin) /\ stdin'[i] = stdin[i]
  BY <1>1
<1>3. QED
  BY <1>2 DEF SavesSent, SaveKinds

\* A line is read; the save that it may have been was the only one.
LEMMA SavesAreRead ==
  ASSUME PipeOK, SavesSent, stdin # <<>>, stdin' = Tail(stdin),
         saving' = saving \/ Head(stdin).is \in SaveKinds
  PROVE  SavesSent'
<1>1. /\ Head(stdin) = stdin[1] /\ 1 \in 1..Len(stdin) /\ Len(stdin) \in Nat
      /\ \A i \in 1..Len(stdin'): i + 1 \in 1..Len(stdin) /\ stdin'[i] = stdin[i + 1]
  BY ReadIs
<1>2. CASE saving' = saving
  <2>1. \A i, j \in 1..Len(stdin'): i + 1 = j + 1 => i = j
    OBVIOUS
  <2>2. QED
    BY <1>1, <1>2, <2>1 DEF SavesSent
<1>3. CASE Head(stdin).is \in SaveKinds
  <2>1. \A i \in 1..Len(stdin'): stdin'[i].is \notin SaveKinds
    <3> SUFFICES ASSUME NEW i \in 1..Len(stdin'), stdin'[i].is \in SaveKinds PROVE FALSE
      OBVIOUS
    <3>1. i + 1 = 1
      BY <1>1, <1>3 DEF SavesSent
    <3>2. QED
      BY <3>1
  <2>2. QED
    BY <2>1 DEF SavesSent, SaveKinds
<1>4. QED
  BY <1>2, <1>3

\* A line that has no keys is sent; a question is put with the keys that were
\* cleared before.
LEMMA KeysWhenSent ==
  ASSUME PipeOK, KeysKept, NEW line, line.is # "secrets", Len(stdin) < PipeRoom,
         stdin' = Append(stdin, line), config'.secrets = config.secrets,
         UNCHANGED <<keychain, cleared, pushing>>,
         \/ line.is # "ask" /\ question' = question
         \/ /\ question = NoQuestion /\ question'.is = "sent" /\ question'.used = {}
            /\ question'.without = cleared
  PROVE  KeysKept'
<1>1. /\ Len(stdin) \in Nat /\ Len(stdin') = Len(stdin) + 1
      /\ \A i \in 1..Len(stdin'):
            IF i = Len(stdin) + 1 THEN stdin'[i] = line
            ELSE i \in 1..Len(stdin) /\ stdin'[i] = stdin[i]
  BY SentIs
<1>2. IsSequence(stdin) /\ Safe(stdin, config.secrets, cleared, Len(stdin))
  BY DEF PipeOK, KeysKept
<1>3. \A X: \A m \in 0..Len(stdin):
         Safe(stdin, config.secrets, X, m) => Safe(stdin', config'.secrets, X, m)
  BY <1>2, SafeAppend
<1>4. Safe(stdin', config'.secrets, cleared', Len(stdin'))
  BY <1>1, <1>2, SafeAtEnd
<1>5. CASE line.is # "ask" /\ question' = question
  <2>1. \A m \in 1..Len(stdin'): stdin'[m].is = "ask" =>
           m \in 1..Len(stdin) /\ stdin[m].is = "ask"
    BY <1>1, <1>5
  <2>2. \A m \in 1..Len(stdin'): stdin'[m].is = "ask" =>
           question'.is = "sent" /\ Safe(stdin', config'.secrets, question'.without, m - 1)
    <3> SUFFICES ASSUME NEW m \in 1..Len(stdin'), stdin'[m].is = "ask"
                 PROVE  question'.is = "sent"
                        /\ Safe(stdin', config'.secrets, question'.without, m - 1)
      OBVIOUS
    <3>1. question.is = "sent" /\ Safe(stdin, config.secrets, question.without, m - 1)
      BY <2>1 DEF KeysKept
    <3>2. m - 1 \in 0..Len(stdin)
      BY <1>1
    <3>3. QED
      BY <1>3, <1>5, <3>1, <3>2
  <2>3. question'.is = "started" => Safe(stdin', config'.secrets, question'.without, 0)
    <3>1. 0 \in 0..Len(stdin)
      BY <1>1
    <3>2. QED
      BY <1>3, <1>5, <3>1 DEF KeysKept
  <2>4. \A m, n \in 1..Len(stdin'): stdin'[m].is = "ask" /\ stdin'[n].is = "ask" => m = n
    BY <2>1 DEF KeysKept
  <2>5. QED
    BY <1>4, <1>5, <2>2, <2>3, <2>4 DEF KeysKept, ClearedKeyNotUsed
<1>6. CASE /\ question = NoQuestion /\ question'.is = "sent" /\ question'.used = {}
           /\ question'.without = cleared
  <2>1. question.is = "none"
    BY <1>6 DEF NoQuestion
  <2>2. \A m \in 1..Len(stdin): stdin[m].is # "ask"
    BY <2>1 DEF KeysKept
  <2>3. \A m \in 1..Len(stdin'): stdin'[m].is = "ask" => m = Len(stdin) + 1
    BY <1>1, <2>2
  <2>4. Len(stdin) \in 0..Len(stdin) /\ (Len(stdin) + 1) - 1 = Len(stdin)
    BY <1>1
  <2>5. Safe(stdin', config'.secrets, question'.without, Len(stdin))
    BY <1>2, <1>3, <1>6, <2>4
  <2>6. \A m \in 1..Len(stdin'): stdin'[m].is = "ask" =>
           question'.is = "sent" /\ Safe(stdin', config'.secrets, question'.without, m - 1)
    BY <1>6, <2>3, <2>4, <2>5
  <2>7. QED
    BY <1>4, <1>6, <2>3, <2>6 DEF KeysKept, ClearedKeyNotUsed
<1>7. QED
  BY <1>5, <1>6

\* A line is read: a question that it was is started, with what is left to read.
LEMMA KeysWhenRead ==
  ASSUME PipeOK, KeysKept, stdin # <<>>, stdin' = Tail(stdin),
         config'.secrets = (IF Head(stdin).is = "secrets" THEN Head(stdin).secrets
                            ELSE config.secrets),
         UNCHANGED <<keychain, cleared, pushing>>,
         IF Head(stdin).is = "ask" THEN question' = [question EXCEPT !.is = "started"]
         ELSE question' = question
  PROVE  KeysKept'
<1>1. /\ Head(stdin) = stdin[1] /\ 1 \in 1..Len(stdin) /\ Len(stdin) \in Nat \ {0}
      /\ Len(stdin') = Len(stdin) - 1
      /\ \A i \in 1..Len(stdin'): i + 1 \in 1..Len(stdin) /\ stdin'[i] = stdin[i + 1]
  BY ReadIs
<1>2. IsSequence(stdin) /\ DOMAIN question = QuestionFields
  BY DEF PipeOK
<1>3. \A X: Safe(stdin, config.secrets, X, 0) => Safe(stdin', config'.secrets, X, 0)
  <2>1. 0 \in 0..Len(stdin)
    BY <1>1
  <2>2. QED
    BY <1>2, <2>1, SafeRead
<1>4. \A X: \A m \in 1..Len(stdin):
         Safe(stdin, config.secrets, X, m) => Safe(stdin', config'.secrets, X, m - 1)
  <2>1. \A m \in 1..Len(stdin): m \in 0..Len(stdin) /\ m # 0
    BY <1>1
  <2>2. QED
    BY <1>2, <2>1, SafeRead
<1>5. Safe(stdin', config'.secrets, cleared', Len(stdin'))
  <2>1. Safe(stdin, config.secrets, cleared, Len(stdin)) /\ Len(stdin) \in 1..Len(stdin)
    BY <1>1 DEF KeysKept
  <2>2. QED
    BY <1>1, <1>4, <2>1
<1>6. \A m, n \in 1..Len(stdin'): stdin'[m].is = "ask" /\ stdin'[n].is = "ask" => m = n
  <2> SUFFICES ASSUME NEW m \in 1..Len(stdin'), NEW n \in 1..Len(stdin'),
                      stdin'[m].is = "ask", stdin'[n].is = "ask"
               PROVE  m = n
    OBVIOUS
  <2>1. m + 1 = n + 1
    BY <1>1 DEF KeysKept
  <2>2. QED
    BY <2>1
<1>7. \A m \in 1..Len(stdin'): stdin'[m].is = "ask" =>
         question'.is = "sent" /\ Safe(stdin', config'.secrets, question'.without, m - 1)
  <2> SUFFICES ASSUME NEW m \in 1..Len(stdin'), stdin'[m].is = "ask"
               PROVE  question'.is = "sent"
                      /\ Safe(stdin', config'.secrets, question'.without, m - 1)
    OBVIOUS
  <2>1. m + 1 \in 1..Len(stdin) /\ stdin[m + 1].is = "ask" /\ m \in 1..Len(stdin)
    BY <1>1
  <2>2. question.is = "sent" /\ Safe(stdin, config.secrets, question.without, (m + 1) - 1)
    BY <2>1 DEF KeysKept
  <2>3. (m + 1) - 1 = m
    OBVIOUS
  <2>4. Safe(stdin', config'.secrets, question.without, m - 1)
    BY <1>4, <2>1, <2>2, <2>3
  <2>5. Head(stdin).is # "ask"
    <3>1. stdin[1].is = "ask" => m + 1 = 1
      BY <1>1, <2>1 DEF KeysKept
    <3>2. QED
      BY <1>1, <3>1
  <2>6. QED
    BY <2>2, <2>4, <2>5
<1>8. CASE Head(stdin).is = "ask"
  <2>1. /\ question'.is = "started" /\ question'.without = question.without
        /\ question'.used = question.used
    BY <1>2, <1>8 DEF QuestionFields
  <2>2. Safe(stdin, config.secrets, question.without, 1 - 1)
    BY <1>1, <1>8 DEF KeysKept
  <2>3. Safe(stdin', config'.secrets, question'.without, 0)
    BY <1>3, <2>1, <2>2
  <2>4. QED
    BY <1>5, <1>6, <1>7, <2>1, <2>3 DEF KeysKept, ClearedKeyNotUsed
<1>9. CASE Head(stdin).is # "ask"
  <2>1. question' = question
    BY <1>9
  <2>2. question'.is = "started" => Safe(stdin', config'.secrets, question'.without, 0)
    BY <1>3, <2>1 DEF KeysKept
  <2>3. QED
    BY <1>5, <1>6, <1>7, <2>1, <2>2 DEF KeysKept, ClearedKeyNotUsed
<1>10. QED
  BY <1>8, <1>9

\* The views, the file and the save change, the daemon and the keys do not.
LEMMA DaemonSame ==
  ASSUME SetupIInv, UNCHANGED <<keyVars, daemonVars>>, saving' = saving \/ saving.is # "sent"
  PROVE  ClaimsKept' /\ PipeOK' /\ SavesSent' /\ KeysKept'
<1>1. UNCHANGED <<keychain, pushing, cleared, config, alive, stdin, question, checked, claimed>>
  BY DEF keyVars, daemonVars
<1>2. ClaimsKept' /\ PipeOK'
  BY <1>1 DEF SetupIInv, ClaimsKept, PartFactsWereClaimed, PipeOK
<1>3. SavesSent'
  <2>1. CASE saving' = saving
    BY <1>1, <2>1 DEF SetupIInv, SavesSent
  <2>2. CASE saving.is # "sent"
    BY <1>1, <2>2 DEF SetupIInv, SavesSent, SaveKinds
  <2>3. QED
    BY <2>1, <2>2
<1>4. KeysKept'
  BY <1>1 DEF SetupIInv, KeysKept, ClearedKeyNotUsed
<1>5. QED
  BY <1>2, <1>3, <1>4

-------------------------------------------------------------------------------
(* The steps. *)

\* An install of an older release.
LEMMA OlderKeeps ==
  ASSUME SetupIInv, NEW old \in OldInstalls, OlderInstall(old[1], old[2])
  PROVE  SetupIInv'
<1>1. /\ disk' = [disk EXCEPT !.legacy = old[1], !.model = old[2]]
      /\ UNCHANGED <<keyVars, daemonVars, viewVars>>
  BY DEF OlderInstall
<1>2. UNCHANGED <<config, alive, view, settings, saving, changes>>
  BY <1>1 DEF daemonVars, viewVars
<1>3. /\ disk'.providers = disk.providers /\ disk'.roles = disk.roles
      /\ disk'.legacy = old[1] /\ disk'.onboarded = disk.onboarded /\ DOMAIN disk' = DiskFields
  BY <1>1 DEF SetupIInv, SetupFiles, DiskFields
<1>4. old[1] \in ProviderIds
  BY SetupAssumption DEF ProviderIds
<1>5. SetupFiles'
  BY <1>2, <1>3, <1>4 DEF SetupIInv, SetupFiles, FileOK
<1>6. SaveOK' /\ OffIsOff'
  BY <1>2 DEF SetupIInv, SaveOK, FileOK, OffIsOff
<1>7. QED
  BY <1>1, <1>2, <1>5, <1>6, DaemonSame DEF SetupIInv

\* The app starts: the daemon has what config.json says, and the keys are the
\* first line that it reads.
LEMMA SetupStartKeeps ==
  ASSUME SetupIInv, Start
  PROVE  SetupIInv'
<1>1. /\ view = "off" /\ view' \in {"work", "welcome"} /\ alive'
      /\ config' = [providers |-> disk.providers, roles |-> disk.roles, legacy |-> disk.legacy,
                    model |-> disk.model, secrets |-> {}]
      /\ checked' = {} /\ claimed' = Claiming(config')
      /\ UNCHANGED <<disk, keychain, pushing, cleared, question, settings, saving, changes>>
  BY DEF Start, keyVars
<1>2. PICK readable \in {keychain, {}}: stdin' = <<SecretsLine(readable)>>
  BY DEF Start
<1> DEFINE line == SecretsLine(readable)
<1>3. line.is = "secrets" /\ line.secrets \subseteq keychain
  BY DEF SecretsLine, Collected
<1> HIDE DEF line
<1>4. stdin' = <<line>> /\ Len(stdin') = 1 /\ stdin'[1] = line /\ IsSequence(stdin')
  <2>1. stdin' = <<line>>
    BY <1>2 DEF line
  <2>2. <<line>> \in Seq({line})
    OBVIOUS
  <2>3. QED
    BY <2>1, <2>2 DEF IsSequence
<1>5. /\ config'.providers = disk.providers /\ config'.roles = disk.roles
      /\ config'.legacy = disk.legacy /\ config'.secrets = {} /\ DOMAIN config' = ConfigFields
  BY <1>1 DEF ConfigFields
<1>6. saving.is = "none" /\ ~settings.open /\ ~alive
  BY <1>1 DEF SetupIInv, OffIsOff
<1>7. question.is = "none" /\ question.agent = Null
  BY <1>6 DEF SetupIInv, PipeOK
<1>8. SetupFiles'
  BY <1>1, <1>5, <1>6 DEF SetupIInv, SetupFiles, FileOK
<1>9. SaveOK' /\ OffIsOff'
  BY <1>1, <1>6 DEF SetupIInv, SaveOK, OffIsOff
<1>10. ClaimsKept'
  BY <1>1, <1>7 DEF ClaimsKept, PartFactsWereClaimed, Null
<1>11. PipeOK'
  BY <1>1, <1>4, RoomForOne DEF SetupIInv, PipeOK
<1>12. SavesSent'
  BY <1>3, <1>4 DEF SavesSent, SaveKinds
<1>13. KeysKept'
  <2>1. /\ cleared \cap keychain = {} /\ question.without \cap keychain = {}
        /\ pushing # NoPush => pushing.cleared \cap keychain = {}
        /\ ClearedKeyNotUsed
    BY DEF SetupIInv, KeysKept
  <2>2. Safe(stdin', config'.secrets, cleared', Len(stdin'))
    <3>1. \A i \in 0..1: KeysAt(stdin', {}, i) \cap cleared = {}
      <4>1. KeysAt(stdin', {}, 0) = {} /\ KeysAt(stdin', {}, 1) = line.secrets
        BY <1>4 DEF KeysAt
      <4>2. QED
        BY <1>3, <2>1, <4>1
    <3>2. QED
      BY <1>1, <1>4, <1>5, <3>1 DEF Safe
  <2>3. QED
    BY <1>1, <1>3, <1>4, <1>7, <2>1, <2>2 DEF KeysKept, ClearedKeyNotUsed
<1>14. QED
  BY <1>8, <1>9, <1>10, <1>11, <1>12, <1>13 DEF SetupIInv

\* The daemon forgets everything when it ends, and nobody is answered.
LEMMA GoneKeeps ==
  ASSUME SetupIInv, DaemonGone, UNCHANGED <<keyVars, disk>>
  PROVE  /\ FileOK(config') /\ DOMAIN config' = ConfigFields /\ ~alive'
         /\ ClaimsKept' /\ PipeOK' /\ SavesSent' /\ KeysKept'
<1>1. /\ config'.providers = <<>> /\ config'.roles = Unbound /\ config'.legacy = Null
      /\ config'.secrets = {} /\ DOMAIN config' = ConfigFields
      /\ ~alive' /\ stdin' = <<>> /\ question' = NoQuestion /\ checked' = {}
      /\ UNCHANGED <<keychain, pushing, cleared>>
  BY DEF DaemonGone, NoConfig, ConfigFields, keyVars
<1>2. FileOK(config')
  BY <1>1, NoEntries DEF FileOK
<1>3. /\ question'.is = "none" /\ question'.agent = Null /\ DOMAIN question' = QuestionFields
      /\ question'.without = {} /\ question'.used = {}
  BY <1>1 DEF NoQuestion, QuestionFields
<1>4. ClaimsKept'
  BY <1>1, <1>3 DEF ClaimsKept, PartFactsWereClaimed, Null
<1>5. Len(stdin') = 0 /\ IsSequence(stdin')
  BY <1>1, EmptyPipe
<1>6. PipeOK'
  BY <1>1, <1>3, <1>5, RoomForOne DEF PipeOK
<1>7. SavesSent'
  BY <1>5 DEF SavesSent
<1>8. Safe(stdin', config'.secrets, cleared', Len(stdin'))
  BY <1>1, <1>5 DEF Safe, KeysAt
<1>9. KeysKept'
  BY <1>1, <1>3, <1>5, <1>8 DEF SetupIInv, KeysKept, ClearedKeyNotUsed
<1>10. QED
  BY <1>1, <1>2, <1>4, <1>6, <1>7, <1>9

\* The daemon dies, or the app ends and the views forget everything too.
LEMMA EndKeeps ==
  ASSUME SetupIInv, DaemonDies \/ Quit
  PROVE  SetupIInv'
<1>1. DaemonGone /\ UNCHANGED <<keyVars, disk, changes>>
  BY DEF DaemonDies, Quit, viewVars
<1>2. /\ FileOK(config') /\ DOMAIN config' = ConfigFields /\ ~alive'
      /\ ClaimsKept' /\ PipeOK' /\ SavesSent' /\ KeysKept'
  BY <1>1, GoneKeeps
<1>3. CASE DaemonDies
  <2>1. UNCHANGED <<view, settings, saving>>
    BY <1>3 DEF DaemonDies, viewVars
  <2>2. SetupFiles' /\ SaveOK' /\ OffIsOff'
    BY <1>1, <1>2, <2>1 DEF SetupIInv, SetupFiles, FileOK, SaveOK, OffIsOff
  <2>3. QED
    BY <1>2, <2>2 DEF SetupIInv
<1>4. CASE Quit
  <2>1. /\ view' = "off" /\ ~settings'.open /\ saving'.is = "none"
    BY <1>4 DEF Quit, Closed, NoSave
  <2>2. SetupFiles' /\ SaveOK' /\ OffIsOff'
    BY <1>1, <1>2, <2>1 DEF SetupIInv, SetupFiles, FileOK, SaveOK, OffIsOff
  <2>3. QED
    BY <1>2, <2>2 DEF SetupIInv
<1>5. QED
  BY <1>3, <1>4

\* A save or a change of keys is counted.
LEMMA OneMore ==
  ASSUME SetupIInv, changes < MaxChanges, changes' = changes + 1
  PROVE  changes' \in 0..MaxChanges
<1>1. MaxChanges \in Nat
  BY SetupAssumption
<1>2. QED
  BY <1>1 DEF SetupIInv, OffIsOff

\* The views change and nothing is saved.
LEMMA ViewsKeep ==
  ASSUME SetupIInv, ChooseGuided \/ Navigate \/ OpenSettings
  PROVE  SetupIInv'
<1>1. /\ UNCHANGED <<disk, keyVars, daemonVars, saving, changes>>
      /\ view # "off" /\ view' \in {"guided", "settings", "work"}
  BY DEF ChooseGuided, Navigate, OpenSettings
<1>2. \/ settings' = settings
      \/ settings' = Closed /\ saving = NoSave
      \/ settings' = [open |-> TRUE, records |-> RecordsOf(config),
                      roles |-> RolesBound(config), copy |-> disk]
  BY DEF ChooseGuided, Navigate, OpenSettings
<1>3. UNCHANGED <<config, alive>>
  BY <1>1 DEF daemonVars
<1>4. NullsAreStated(RecordsOf(config)) /\ RolesBound(config) \in Bindings
  BY RecordsOK, RolesBoundOK DEF SetupIInv, SetupFiles, FileOK
<1>5. SetupFiles' /\ SaveOK'
  <2>1. CASE settings' = settings
    BY <1>1, <1>3, <2>1 DEF SetupIInv, SetupFiles, FileOK, SaveOK
  <2>2. CASE settings' = Closed /\ saving = NoSave
    <3>1. ~settings'.open /\ saving.is = "none"
      BY <2>2 DEF Closed, NoSave
    <3>2. QED
      BY <1>1, <1>3, <3>1 DEF SetupIInv, SetupFiles, FileOK, SaveOK
  <2>3. CASE settings' = [open |-> TRUE, records |-> RecordsOf(config),
                          roles |-> RolesBound(config), copy |-> disk]
    <3>1. /\ settings'.open /\ settings'.records = RecordsOf(config)
          /\ settings'.roles = RolesBound(config) /\ settings'.copy = disk
      BY <2>3
    <3>2. SetupFiles'
      BY <1>1, <1>3, <1>4, <3>1 DEF SetupIInv, SetupFiles, FileOK
    <3>3. SaveOK'
      BY <1>1, <1>3, <3>1 DEF SetupIInv, SaveOK, FileOK
    <3>4. QED
      BY <3>2, <3>3
  <2>4. QED
    BY <1>2, <2>1, <2>2, <2>3
<1>6. OffIsOff'
  BY <1>1 DEF SetupIInv, OffIsOff
<1>7. QED
  BY <1>1, <1>5, <1>6, DaemonSame DEF SetupIInv

\* The views of the first start save the mark that setup was offered.
LEMMA FirstStartKeeps ==
  ASSUME SetupIInv, FinishSetup \/ ChooseManual
  PROVE  SetupIInv'
<1> DEFINE patched == [disk EXCEPT !.onboarded = TRUE]
<1>1. PICK next \in {"settings", "work"}: UpdateConfig(patched, next)
  BY DEF FinishSetup, ChooseManual
<1>2. /\ UNCHANGED <<disk, keyVars, daemonVars, settings>>
      /\ view # "off" /\ view' \in {"welcome", "guided", "settings"}
  BY DEF FinishSetup, ChooseManual
<1>3. UNCHANGED <<config, alive>>
  BY <1>2 DEF daemonVars
<1>4. /\ saving.is = "none" /\ saving'.is = "answered" /\ saving'.file = patched
      /\ saving'.reload = FALSE /\ saving'.next \in {"settings", "work"}
  BY <1>1 DEF UpdateConfig, NoSave
<1>5. /\ patched.providers = disk.providers /\ patched.roles = disk.roles
      /\ patched.legacy = disk.legacy /\ patched.onboarded = TRUE
      /\ DOMAIN patched = DiskFields
  BY DEF SetupIInv, SetupFiles, DiskFields
<1>6. changes' \in 0..MaxChanges
  BY <1>1, OneMore DEF UpdateConfig
<1> HIDE DEF patched
<1>7. SetupFiles'
  BY <1>2, <1>3 DEF SetupIInv, SetupFiles, FileOK
<1>8. SaveOK'
  BY <1>4, <1>5 DEF SetupIInv, SetupFiles, FileOK, SaveOK
<1>9. OffIsOff'
  BY <1>2, <1>6 DEF OffIsOff
<1>10. QED
  BY <1>2, <1>4, <1>7, <1>8, <1>9, DaemonSame DEF SetupIInv

\* A save is sent to the daemon.
LEMMA SendKeeps ==
  ASSUME SetupIInv, NEW line, Dispatch(line), saving = NoSave, saving'.is = "sent",
         saving'.next \in {"guided", "settings"},
         \/ /\ line.is = "providers" /\ saving'.reload = TRUE /\ settings.open
            /\ NullsAreStated(line.records) /\ line.roles \in Bindings
         \/ /\ line.is = "bind" /\ saving'.reload = FALSE /\ line.id \in DOMAIN Presets,
         changes < MaxChanges, changes' = changes + 1,
         UNCHANGED <<disk, keyVars, config, alive, question, checked, claimed, view, settings>>
  PROVE  SetupIInv'
<1>1. /\ alive /\ Len(stdin) < PipeRoom /\ stdin' = Append(stdin, line)
      /\ UNCHANGED <<keychain, pushing, cleared>>
  BY DEF Dispatch, keyVars
<1>2. saving.is = "none" /\ line.is # "secrets" /\ line.is # "ask" /\ saving'.reload \in BOOLEAN
  BY DEF NoSave
<1>3. SetupFiles' /\ SaveOK'
  BY <1>2 DEF SetupIInv, SetupFiles, FileOK, SaveOK
<1>4. OffIsOff'
  BY <1>1, OneMore DEF SetupIInv, OffIsOff
<1>5. ClaimsKept'
  BY DEF SetupIInv, ClaimsKept, PartFactsWereClaimed
<1>6. PipeOK'
  BY <1>1, SentIs DEF SetupIInv, PipeOK
<1>7. SavesSent'
  BY <1>1, <1>2, SaveIsSent DEF SetupIInv
<1>8. KeysKept'
  BY <1>1, <1>2, KeysWhenSent DEF SetupIInv
<1>9. QED
  BY <1>3, <1>4, <1>5, <1>6, <1>7, <1>8 DEF SetupIInv

\* The guided set-up binds both roles.
LEMMA BindKeeps ==
  ASSUME SetupIInv, NEW id \in DOMAIN Presets, BindBothRolesTo(id)
  PROVE  SetupIInv'
<1> DEFINE line == [is |-> "bind", id |-> id]
<1>1. /\ Dispatch(line) /\ saving = NoSave
      /\ saving' = [is |-> "sent", reload |-> FALSE, next |-> "guided"]
      /\ changes < MaxChanges /\ changes' = changes + 1
      /\ UNCHANGED <<disk, keyVars, config, alive, question, checked, claimed, view, settings>>
  BY DEF BindBothRolesTo
<1>2. line.is = "bind" /\ line.id \in DOMAIN Presets
  OBVIOUS
<1>3. saving'.is = "sent" /\ saving'.reload = FALSE /\ saving'.next = "guided"
  BY <1>1
<1> HIDE DEF line
<1>4. QED
  BY <1>1, <1>2, <1>3, SendKeeps

\* The editor saves records.
LEMMA EditorSaves ==
  ASSUME SetupIInv, NEW records, NEW roles \in Bindings, NullsAreStated(records),
         SaveProviderConfig(records, roles)
  PROVE  SetupIInv'
<1> DEFINE line == [is |-> "providers", records |-> records, roles |-> roles]
<1>1. /\ settings.open /\ Dispatch(line) /\ saving = NoSave
      /\ saving' = [is |-> "sent", reload |-> TRUE, next |-> "settings"]
      /\ changes < MaxChanges /\ changes' = changes + 1
      /\ UNCHANGED <<disk, keyVars, config, alive, question, checked, claimed, view, settings>>
  BY DEF SaveProviderConfig
<1>2. line.is = "providers" /\ line.records = records /\ line.roles = roles
  OBVIOUS
<1>3. saving'.is = "sent" /\ saving'.reload = TRUE /\ saving'.next = "settings"
  BY <1>1
<1> HIDE DEF line
<1>4. QED
  BY <1>1, <1>2, <1>3, SendKeeps

\* The steps of the editor save records that state no null the preset leaves
\* out.
LEMMA EditorKeeps ==
  ASSUME SetupIInv, NEW id \in ProviderIds, EditorStep(id)
  PROVE  SetupIInv'
<1>1. settings.open => NullsAreStated(settings.records) /\ settings.roles \in Bindings
  BY DEF SetupIInv, SetupFiles
<1>2. CASE AddRecord(id)
  <2> DEFINE records == Over(Only(id, Additions[id]), settings.records)
  <2>1. /\ id \in DOMAIN Additions \ DOMAIN settings.records /\ settings.open
        /\ SaveProviderConfig(records, settings.roles)
    BY <1>2 DEF AddRecord, SaveProviderConfig
  <2>2. /\ DOMAIN records = DOMAIN settings.records \cup {id} /\ records[id] = Additions[id]
        /\ \A i \in DOMAIN settings.records \ {id}: records[i] = settings.records[i]
    BY DEF Over, Only
  <2> HIDE DEF records
  <2>3. id \in DOMAIN Presets => \A f \in DOMAIN Additions[id]: StatedIfNull(id, f, Additions[id][f])
    BY <2>1, SetupAssumption
  <2>4. NullsAreStated(records)
    BY <1>1, <2>1, <2>2, <2>3 DEF NullsAreStated
  <2>5. QED
    BY <1>1, <2>1, <2>4, EditorSaves
<1>3. CASE DeleteRecord(id)
  <2> DEFINE records == Restrict(settings.records, DOMAIN settings.records \ {id})
  <2>1. settings.open /\ SaveProviderConfig(records, settings.roles)
    BY <1>3 DEF DeleteRecord, SaveProviderConfig
  <2>2. /\ DOMAIN records = DOMAIN settings.records \ {id}
        /\ \A i \in DOMAIN records: records[i] = settings.records[i]
    BY DEF Restrict
  <2> HIDE DEF records
  <2>3. NullsAreStated(records)
    BY <1>1, <2>1, <2>2 DEF NullsAreStated
  <2>4. QED
    BY <1>1, <2>1, <2>3, EditorSaves
<1>4. ASSUME NEW edit \in Edits, EditRecord(id, edit) PROVE SetupIInv'
  <2> DEFINE record == Over(Only(edit[1], edit[2]), settings.records[id])
             records == [settings.records EXCEPT ![id] = record]
  <2>1. /\ id \in DOMAIN settings.records /\ settings.open
        /\ SaveProviderConfig(records, settings.roles)
    BY <1>4 DEF EditRecord, SaveProviderConfig
  <2>2. \A f \in DOMAIN record: \/ f = edit[1] /\ record[f] = edit[2]
                                \/ f \in DOMAIN settings.records[id]
                                   /\ record[f] = settings.records[id][f]
    BY DEF Over, Only
  <2> HIDE DEF record
  <2>3. /\ DOMAIN records = DOMAIN settings.records
        /\ records[id] = record
        /\ \A i \in DOMAIN records \ {id}: records[i] = settings.records[i]
    BY <2>1
  <2> HIDE DEF records
  <2>4. id \in DOMAIN Presets => StatedIfNull(id, edit[1], edit[2])
    BY SetupAssumption
  <2>5. NullsAreStated(records)
    BY <1>1, <2>1, <2>2, <2>3, <2>4 DEF NullsAreStated
  <2>6. QED
    BY <1>1, <2>1, <2>5, EditorSaves
<1>5. ASSUME NEW role \in Roles, ChangeRole(role, id) PROVE SetupIInv'
  <2>1. settings.open /\ SaveProviderConfig(settings.records, [settings.roles EXCEPT ![role] = id])
    BY <1>5 DEF ChangeRole, SaveProviderConfig
  <2>2. [settings.roles EXCEPT ![role] = id] \in Bindings
    BY <1>1, <2>1 DEF Bindings
  <2>3. QED
    BY <1>1, <2>1, <2>2, EditorSaves
<1>6. QED
  BY <1>2, <1>3, <1>4, <1>5 DEF EditorStep

\* config.json is written.
LEMMA WriteKeeps ==
  ASSUME SetupIInv, WriteConfig
  PROVE  SetupIInv'
<1>1. /\ saving.is = "answered" /\ disk' = Written(saving.file)
      /\ view' = saving.next /\ saving' = NoSave
      /\ settings' = IF saving.reload
                     THEN [open |-> TRUE, records |-> saving.records, roles |-> saving.roles,
                           copy |-> disk']
                     ELSE settings
      /\ UNCHANGED <<keyVars, daemonVars, changes>>
  BY DEF WriteConfig
<1>2. UNCHANGED <<config, alive>>
  BY <1>1 DEF daemonVars
<1>3. /\ FileOK(disk') /\ DOMAIN disk' = DiskFields /\ disk'.onboarded \in BOOLEAN
      /\ \A id \in DOMAIN disk'.providers: "kind" \in DOMAIN disk'.providers[id]
  BY <1>1, WrittenOK DEF SetupIInv, SaveOK
<1>4. SetupFiles'
  <2>1. CASE saving.reload
    <3>1. /\ settings'.records = saving.records /\ settings'.roles = saving.roles
          /\ settings'.copy = disk'
      BY <1>1, <2>1
    <3>2. QED
      BY <1>1, <1>2, <1>3, <2>1, <3>1 DEF SetupIInv, SetupFiles, SaveOK, FileOK
  <2>2. CASE ~saving.reload
    <3>1. settings' = settings
      BY <1>1, <2>2
    <3>2. QED
      BY <1>1, <1>2, <1>3, <3>1 DEF SetupIInv, SetupFiles, FileOK
  <2>3. QED
    BY <2>1, <2>2
<1>5. SaveOK'
  BY <1>1 DEF SaveOK, NoSave
<1>6. view' \in {"guided", "settings", "work"}
  BY <1>1 DEF SetupIInv, SaveOK
<1>7. OffIsOff'
  BY <1>1, <1>6 DEF SetupIInv, OffIsOff
<1>8. QED
  BY <1>1, <1>4, <1>5, <1>7, DaemonSame DEF SetupIInv

\* Or not.
LEMMA WriteFailsKeeps ==
  ASSUME SetupIInv, WriteConfigFails
  PROVE  SetupIInv'
<1>1. /\ saving.is = "answered" /\ saving' = NoSave
      /\ view' = IF saving.next = "work" THEN "work" ELSE view
      /\ UNCHANGED <<disk, keyVars, daemonVars, settings, changes>>
  BY DEF WriteConfigFails
<1>2. UNCHANGED <<config, alive>>
  BY <1>1 DEF daemonVars
<1>3. view # "off" /\ view' # "off" /\ view' \in {"off", "welcome", "guided", "settings", "work"}
  BY <1>1 DEF SetupIInv, OffIsOff
<1>4. saving'.is = "none"
  BY <1>1 DEF NoSave
<1>5. SetupFiles' /\ SaveOK' /\ OffIsOff'
  BY <1>1, <1>2, <1>3, <1>4 DEF SetupIInv, SetupFiles, FileOK, SaveOK, OffIsOff
<1>6. QED
  BY <1>1, <1>5, DaemonSame DEF SetupIInv

\* The keychain has or has not a key, and the push is owed.
LEMMA ChangeKeeps ==
  ASSUME SetupIInv, NEW ref, SaveSecret(ref) \/ ClearSecret(ref)
  PROVE  SetupIInv'
<1>1. /\ pushing = NoPush /\ changes' \in 0..MaxChanges
      /\ UNCHANGED <<disk, config, alive, stdin, checked, claimed, view, settings, saving>>
  BY OneMore DEF SaveSecret, ClearSecret, MayChange, daemonVars
<1>2. SetupFiles' /\ SaveOK' /\ OffIsOff' /\ SavesSent'
  BY <1>1 DEF SetupIInv, SetupFiles, FileOK, SaveOK, OffIsOff, SavesSent
<1>3. CASE SaveSecret(ref)
  <2>1. /\ keychain' = keychain \cup {ref} /\ cleared' = cleared \ {ref}
        /\ pushing'.cleared = {}
        /\ question' = [question EXCEPT !.without = @ \ {ref}]
    BY <1>3 DEF SaveSecret
  <2>2. DOMAIN question = QuestionFields
    BY DEF SetupIInv, PipeOK
  <2>3. /\ question'.without = question.without \ {ref} /\ question'.is = question.is
        /\ question'.agent = question.agent /\ question'.id = question.id
        /\ question'.result = question.result /\ question'.secrets = question.secrets
        /\ question'.used = question.used /\ DOMAIN question' = QuestionFields
    BY <2>1, <2>2 DEF QuestionFields
  <2>4. ClaimsKept' /\ PipeOK'
    BY <1>1, <2>3 DEF SetupIInv, ClaimsKept, PartFactsWereClaimed, PipeOK
  <2>5. /\ cleared' \in SUBSET cleared /\ question'.without \in SUBSET question.without
    BY <2>1, <2>3
  <2>6. \A m: Safe(stdin, config.secrets, cleared, m) => Safe(stdin, config.secrets, cleared', m)
    BY <2>5, SafeOfFewer
  <2>7. \A m: Safe(stdin, config.secrets, question.without, m)
                => Safe(stdin, config.secrets, question'.without, m)
    BY <2>5, SafeOfFewer
  <2>8. /\ cleared' \cap keychain' = {} /\ question'.without \cap keychain' = {}
        /\ pushing'.cleared \cap keychain' = {}
        /\ question'.used \cap question'.without = {}
        /\ question'.is = "keyed" => question'.secrets \cap question'.without = {}
    BY <2>1, <2>3 DEF SetupIInv, KeysKept, ClearedKeyNotUsed
  <2>9. /\ Safe(stdin', config'.secrets, cleared', Len(stdin'))
        /\ \A m \in 1..Len(stdin'): stdin'[m].is = "ask" =>
              question'.is = "sent" /\ Safe(stdin', config'.secrets, question'.without, m - 1)
        /\ \A m, n \in 1..Len(stdin'): stdin'[m].is = "ask" /\ stdin'[n].is = "ask" => m = n
        /\ question'.is = "started" => Safe(stdin', config'.secrets, question'.without, 0)
    BY <1>1, <2>3, <2>6, <2>7 DEF SetupIInv, KeysKept
  <2>10. KeysKept'
    BY <2>8, <2>9 DEF KeysKept, ClearedKeyNotUsed
  <2>11. QED
    BY <1>2, <2>4, <2>10 DEF SetupIInv
<1>4. CASE ClearSecret(ref)
  <2>1. /\ keychain' = keychain \ {ref} /\ pushing'.cleared = {ref}
        /\ UNCHANGED <<cleared, question>>
    BY <1>4 DEF ClearSecret, daemonVars
  <2>2. ClaimsKept' /\ PipeOK'
    BY <1>1, <2>1 DEF SetupIInv, ClaimsKept, PartFactsWereClaimed, PipeOK
  <2>3. /\ cleared' \cap keychain' = {} /\ question'.without \cap keychain' = {}
        /\ pushing'.cleared \cap keychain' = {}
    BY <2>1 DEF SetupIInv, KeysKept
  <2>4. KeysKept'
    BY <1>1, <2>1, <2>3 DEF SetupIInv, KeysKept, ClearedKeyNotUsed
  <2>5. QED
    BY <1>2, <2>2, <2>4 DEF SetupIInv
<1>5. QED
  BY <1>3, <1>4

\* The keys are a line of the pipe, or nobody is told.
LEMMA SyncKeeps ==
  ASSUME SetupIInv, SyncSecrets
  PROVE  SetupIInv'
<1>1. /\ pushing # NoPush /\ pushing' = NoPush /\ cleared' = cleared \cup pushing.cleared
      /\ UNCHANGED <<disk, keychain, config, alive, question, checked, claimed, viewVars>>
  BY DEF SyncSecrets
<1>2. UNCHANGED <<view, settings, saving, changes>>
  BY <1>1 DEF viewVars
<1>3. SetupFiles' /\ SaveOK' /\ OffIsOff' /\ ClaimsKept'
  <2>1. SetupFiles' /\ SaveOK'
    BY <1>1, <1>2 DEF SetupIInv, SetupFiles, FileOK, SaveOK
  <2>2. OffIsOff' /\ ClaimsKept'
    BY <1>1, <1>2 DEF SetupIInv, OffIsOff, ClaimsKept, PartFactsWereClaimed
  <2>3. QED
    BY <2>1, <2>2
<1>4. cleared' \cap keychain = {} /\ question.without \cap keychain = {}
  BY <1>1 DEF SetupIInv, KeysKept
<1>5. CASE ~alive /\ UNCHANGED stdin
  <2>1. stdin = <<>> /\ config.secrets = {} /\ Len(stdin) = 0
    BY <1>5, EmptyPipe DEF SetupIInv, PipeOK
  <2>2. Safe(stdin', config'.secrets, cleared', Len(stdin'))
    BY <1>1, <1>5, <2>1 DEF Safe, KeysAt
  <2>3. KeysKept'
    BY <1>1, <1>4, <1>5, <2>2 DEF SetupIInv, KeysKept, ClearedKeyNotUsed
  <2>4. PipeOK' /\ SavesSent'
    BY <1>1, <1>2, <1>5 DEF SetupIInv, PipeOK, SavesSent
  <2>5. QED
    BY <1>3, <2>3, <2>4 DEF SetupIInv
<1>6. ASSUME alive, Len(stdin) < PipeRoom, NEW readable \in {keychain, {}},
             stdin' = Append(stdin, SecretsLine(readable))
      PROVE  SetupIInv'
  <2> DEFINE line == SecretsLine(readable)
  <2>1. line.is = "secrets" /\ line.secrets \subseteq keychain
    BY <1>6 DEF SecretsLine, Collected
  <2>2. stdin' = Append(stdin, line)
    BY <1>6
  <2> HIDE DEF line
  <2>3. IsSequence(stdin)
    BY DEF SetupIInv, PipeOK
  <2>4. /\ IsSequence(stdin') /\ Len(stdin') <= PipeRoom
        /\ Len(stdin) \in Nat /\ Len(stdin') = Len(stdin) + 1
        /\ \A i \in 1..Len(stdin'):
              IF i = Len(stdin) + 1 THEN stdin'[i] = line
              ELSE i \in 1..Len(stdin) /\ stdin'[i] = stdin[i]
    BY <1>6, <2>2, SentIs DEF SetupIInv
  <2>5. PipeOK'
    BY <1>1, <1>6, <2>4 DEF SetupIInv, PipeOK
  <2>6. line.is \notin SaveKinds
    BY <2>1 DEF SaveKinds
  <2>7. SavesSent'
    BY <1>2, <1>6, <2>2, <2>6, OtherIsSent DEF SetupIInv
  <2>8. line.secrets \cap cleared' = {} /\ line.secrets \cap question.without = {}
    BY <1>4, <2>1
  <2>9. Safe(stdin', config'.secrets, cleared', Len(stdin'))
    <3>1. IF line.is = "secrets" THEN line.secrets \cap cleared' = {}
          ELSE Safe(stdin, config.secrets, cleared', Len(stdin))
      BY <2>1, <2>8
    <3>2. Safe(Append(stdin, line), config.secrets, cleared', Len(stdin) + 1)
      BY <2>3, <3>1, SafeAtEnd
    <3>3. QED
      BY <1>1, <2>2, <2>4, <3>2
  <2>10. \A m \in 0..Len(stdin): Safe(stdin, config.secrets, question.without, m)
            => Safe(stdin', config'.secrets, question'.without, m)
    BY <1>1, <2>2, <2>3, <2>8, SafeAppend
  <2>11. \A m \in 1..Len(stdin'): stdin'[m].is = "ask" =>
            m \in 1..Len(stdin) /\ stdin[m].is = "ask"
    BY <2>1, <2>4
  <2>12. \A m \in 1..Len(stdin'): stdin'[m].is = "ask" =>
            question'.is = "sent" /\ Safe(stdin', config'.secrets, question'.without, m - 1)
    <3> SUFFICES ASSUME NEW m \in 1..Len(stdin'), stdin'[m].is = "ask"
                 PROVE  question'.is = "sent"
                        /\ Safe(stdin', config'.secrets, question'.without, m - 1)
      OBVIOUS
    <3>1. m \in 1..Len(stdin) /\ question.is = "sent"
          /\ Safe(stdin, config.secrets, question.without, m - 1)
      BY <2>11 DEF SetupIInv, KeysKept
    <3>2. m - 1 \in 0..Len(stdin)
      BY <2>4, <3>1
    <3>3. QED
      BY <1>1, <2>10, <3>1, <3>2
  <2>13. \A m, n \in 1..Len(stdin'): stdin'[m].is = "ask" /\ stdin'[n].is = "ask" => m = n
    BY <2>11 DEF SetupIInv, KeysKept
  <2>14. question'.is = "started" => Safe(stdin', config'.secrets, question'.without, 0)
    <3>1. 0 \in 0..Len(stdin)
      BY <2>4
    <3>2. QED
      BY <1>1, <2>10, <3>1 DEF SetupIInv, KeysKept
  <2>15. KeysKept'
    BY <1>1, <1>4, <2>9, <2>12, <2>13, <2>14 DEF SetupIInv, KeysKept, ClearedKeyNotUsed
  <2>16. QED
    BY <1>3, <2>5, <2>7, <2>15 DEF SetupIInv
<1>7. QED
  BY <1>5, <1>6 DEF SyncSecrets

\* A line that the daemon reads is the head of the pipe.
LEMMA ReadKeeps ==
  ASSUME SetupIInv, NEW kind, Reads(kind)
  PROVE  /\ stdin # <<>> /\ stdin' = Tail(stdin) /\ Head(stdin).is = kind /\ alive
         /\ 1 \in 1..Len(stdin) /\ Head(stdin) = stdin[1]
         /\ IsSequence(stdin') /\ Len(stdin') <= PipeRoom
<1>1. stdin # <<>> /\ stdin' = Tail(stdin) /\ Head(stdin).is = kind /\ alive
  BY DEF Reads
<1>2. QED
  BY <1>1, ReadIs DEF SetupIInv

\* The keys that the daemon is told are all that it has.
LEMMA SecretsAreRead ==
  ASSUME SetupIInv, ReadSecrets
  PROVE  SetupIInv'
<1>1. /\ Reads("secrets") /\ config' = [config EXCEPT !.secrets = Head(stdin).secrets]
      /\ UNCHANGED <<disk, keyVars, alive, question, checked, claimed, viewVars>>
  BY DEF ReadSecrets, Replaced
<1>2. UNCHANGED <<view, settings, saving, changes, keychain, pushing, cleared>>
  BY <1>1 DEF viewVars, keyVars
<1>3. /\ stdin # <<>> /\ stdin' = Tail(stdin) /\ Head(stdin).is = "secrets" /\ alive
      /\ IsSequence(stdin') /\ Len(stdin') <= PipeRoom
  BY <1>1, ReadKeeps
<1>4. /\ config'.providers = config.providers /\ config'.roles = config.roles
      /\ config'.legacy = config.legacy /\ config'.model = config.model
      /\ config'.secrets = Head(stdin).secrets /\ DOMAIN config' = ConfigFields
  BY <1>1 DEF SetupIInv, SetupFiles, ConfigFields
<1>5. SetupFiles' /\ SaveOK'
  BY <1>1, <1>2, <1>4 DEF SetupIInv, SetupFiles, FileOK, SaveOK
<1>6. Claiming(config') = Claiming(config)
  BY <1>4, SameRecords
<1>7. OffIsOff' /\ ClaimsKept'
  BY <1>1, <1>2, <1>6 DEF SetupIInv, OffIsOff, ClaimsKept, PartFactsWereClaimed
<1>8. PipeOK'
  BY <1>1, <1>3 DEF SetupIInv, PipeOK
<1>9. SavesSent'
  BY <1>2, <1>3, SavesAreRead DEF SetupIInv
<1>10. KeysKept'
  BY <1>1, <1>2, <1>3, <1>4, KeysWhenRead DEF SetupIInv
<1>11. QED
  BY <1>5, <1>7, <1>8, <1>9, <1>10 DEF SetupIInv

\* A save is read: the daemon has other records or another binding, and what the
\* view writes is that.
LEMMA SaveIsRead ==
  ASSUME SetupIInv, NEW kind \in SaveKinds, Reads(kind),
         FileOK(config'), DOMAIN config' = ConfigFields, config'.secrets = config.secrets,
         claimed' = claimed \cup Claiming(config'), saving'.is = "answered",
         saving'.next = saving.next, SaveOK',
         UNCHANGED <<disk, keyVars, alive, question, checked, view, settings, changes>>
  PROVE  SetupIInv'
<1>1. UNCHANGED <<keychain, pushing, cleared>>
  BY DEF keyVars
<1>2. /\ stdin # <<>> /\ stdin' = Tail(stdin) /\ Head(stdin).is = kind /\ alive
      /\ IsSequence(stdin') /\ Len(stdin') <= PipeRoom
  BY ReadKeeps
<1>3. kind # "secrets" /\ kind # "ask"
  BY DEF SaveKinds
<1>4. SetupFiles'
  BY DEF SetupIInv, SetupFiles, FileOK
<1>5. OffIsOff' /\ ClaimsKept'
  BY <1>2 DEF SetupIInv, OffIsOff, ClaimsKept, PartFactsWereClaimed
<1>6. PipeOK'
  BY <1>2 DEF SetupIInv, PipeOK
<1>7. SavesSent'
  BY <1>2, SavesAreRead DEF SetupIInv
<1>8. KeysKept'
  BY <1>1, <1>2, <1>3, KeysWhenRead DEF SetupIInv
<1>9. QED
  BY <1>4, <1>5, <1>6, <1>7, <1>8 DEF SetupIInv

\* Records from the editor: their deltas are kept.
LEMMA ProvidersAreRead ==
  ASSUME SetupIInv, ReadProviders
  PROVE  SetupIInv'
<1> DEFINE line == Head(stdin)
           entries == Entries(line.records)
<1>1. /\ Reads("providers")
      /\ config' = [config EXCEPT !.providers = entries, !.roles = line.roles]
      /\ saving' = [is |-> "answered", reload |-> TRUE, next |-> saving.next,
                    file |-> [settings.copy EXCEPT !.providers = entries, !.roles = line.roles],
                    records |-> line.records, roles |-> line.roles]
      /\ claimed' = claimed \cup Claiming(config')
      /\ UNCHANGED <<disk, keyVars, alive, question, checked, view, settings, changes>>
  BY DEF ReadProviders, Entries
<1>2. line = stdin[1] /\ 1 \in 1..Len(stdin) /\ line.is = "providers" /\ alive
  BY <1>1, ReadKeeps
<1>3. /\ saving.is = "sent" /\ saving.reload = TRUE
      /\ NullsAreStated(line.records) /\ line.roles \in Bindings
  BY <1>2 DEF SetupIInv, SavesSent
<1>4. settings.open /\ saving.next \in {"guided", "settings", "work"}
  BY <1>3 DEF SetupIInv, SaveOK
<1>5. NullsAreStated(entries) /\ Differs(entries)
  BY <1>3, EntriesOK
<1>6. /\ DOMAIN settings.copy = DiskFields /\ settings.copy.onboarded \in BOOLEAN
      /\ settings.copy.legacy \in ProviderIds \cup {Null}
  BY <1>4 DEF SetupIInv, SetupFiles
<1> HIDE DEF line, entries
<1>7. /\ config'.providers = entries /\ config'.roles = line.roles
      /\ config'.legacy = config.legacy /\ config'.secrets = config.secrets
      /\ DOMAIN config' = ConfigFields
  BY <1>1 DEF SetupIInv, SetupFiles, ConfigFields
<1>8. FileOK(config')
  BY <1>3, <1>5, <1>7 DEF SetupIInv, SetupFiles, FileOK, Bound
<1> DEFINE file == [settings.copy EXCEPT !.providers = entries, !.roles = line.roles]
<1>9. /\ DOMAIN file = DiskFields /\ file.providers = entries /\ file.roles = line.roles
      /\ file.legacy = settings.copy.legacy /\ file.onboarded = settings.copy.onboarded
  BY <1>6 DEF DiskFields
<1>10. /\ saving'.is = "answered" /\ saving'.reload = TRUE /\ saving'.next = saving.next
       /\ saving'.file = file /\ saving'.records = line.records /\ saving'.roles = line.roles
  BY <1>1
<1> HIDE DEF file
<1>11. FileOK(file)
  BY <1>3, <1>5, <1>6, <1>9 DEF FileOK, Bound
<1>12. SaveOK'
  BY <1>3, <1>4, <1>6, <1>7, <1>9, <1>10, <1>11 DEF SaveOK, entries
<1>13. QED
  BY <1>1, <1>7, <1>8, <1>10, <1>12, SaveIsRead DEF SaveKinds

\* A binding from the guided set-up.
LEMMA BindIsRead ==
  ASSUME SetupIInv, ReadBind
  PROVE  SetupIInv'
<1> DEFINE id == Head(stdin).id
           both == [role \in Roles |-> id]
           file == [disk EXCEPT !.roles = both, !.legacy = id]
<1>1. /\ Reads("bind")
      /\ config' = [config EXCEPT !.roles = both, !.legacy = id]
      /\ saving' = [is |-> "answered", reload |-> FALSE, next |-> saving.next, file |-> file]
      /\ claimed' = claimed \cup Claiming(config')
      /\ UNCHANGED <<disk, keyVars, alive, question, checked, view, settings, changes>>
  BY DEF ReadBind
<1>2. Head(stdin) = stdin[1] /\ 1 \in 1..Len(stdin) /\ Head(stdin).is = "bind" /\ alive
  BY <1>1, ReadKeeps
<1>3. saving.is = "sent" /\ saving.reload = FALSE /\ id \in DOMAIN Presets
  BY <1>2 DEF SetupIInv, SavesSent
<1>4. saving.next \in {"guided", "settings", "work"}
  BY <1>3 DEF SetupIInv, SaveOK
<1>5. id \in ProviderIds /\ both \in Bindings
  BY <1>3 DEF ProviderIds, Bindings
<1> HIDE DEF id, both
<1>6. /\ config'.providers = config.providers /\ config'.roles = both
      /\ config'.legacy = id /\ config'.secrets = config.secrets
      /\ DOMAIN config' = ConfigFields
  BY <1>1 DEF SetupIInv, SetupFiles, ConfigFields
<1>7. FileOK(config')
  BY <1>5, <1>6 DEF SetupIInv, SetupFiles, FileOK, Bound
<1>8. /\ DOMAIN file = DiskFields /\ file.providers = disk.providers /\ file.roles = both
      /\ file.legacy = id /\ file.onboarded = disk.onboarded
  BY DEF SetupIInv, SetupFiles, DiskFields
<1>9. /\ saving'.is = "answered" /\ saving'.reload = FALSE /\ saving'.next = saving.next
      /\ saving'.file = file
  BY <1>1
<1> HIDE DEF file
<1>10. SaveOK'
  BY <1>4, <1>5, <1>8, <1>9 DEF SetupIInv, SetupFiles, SaveOK, FileOK, Bound
<1>11. QED
  BY <1>1, <1>6, <1>7, <1>9, <1>10, SaveIsRead DEF SaveKinds

\* The agent is asked: its question is in the pipe.
LEMMA AskKeeps ==
  ASSUME SetupIInv, NEW agent \in Agents, Ask(agent)
  PROVE  SetupIInv'
<1> DEFINE line == [is |-> "ask"]
<1>1. /\ question = NoQuestion /\ Dispatch(line)
      /\ question' = [NoQuestion EXCEPT !.is = "sent", !.agent = agent, !.without = cleared]
      /\ UNCHANGED <<disk, keyVars, config, alive, checked, claimed, viewVars>>
  BY DEF Ask
<1>2. UNCHANGED <<keychain, pushing, cleared, view, settings, saving, changes>>
  BY <1>1 DEF keyVars, viewVars
<1>3. alive /\ Len(stdin) < PipeRoom /\ stdin' = Append(stdin, line)
  BY <1>1 DEF Dispatch
<1>4. line.is = "ask" /\ line.is # "secrets" /\ line.is \notin SaveKinds
  BY DEF SaveKinds
<1> HIDE DEF line
<1>5. /\ question'.is = "sent" /\ question'.without = cleared /\ question'.used = {}
      /\ question'.result = "none" /\ DOMAIN question' = QuestionFields
  BY <1>1 DEF NoQuestion, QuestionFields
<1>6. SetupFiles' /\ SaveOK'
  BY <1>1, <1>2 DEF SetupIInv, SetupFiles, FileOK, SaveOK
<1>7. OffIsOff'
  BY <1>1, <1>2 DEF SetupIInv, OffIsOff
<1>8. ClaimsKept'
  BY <1>1, <1>5 DEF SetupIInv, ClaimsKept, PartFactsWereClaimed
<1>9. PipeOK'
  BY <1>1, <1>3, <1>5, SentIs DEF SetupIInv, PipeOK
<1>10. SavesSent'
  BY <1>2, <1>3, <1>4, OtherIsSent DEF SetupIInv
<1>11. KeysKept'
  BY <1>1, <1>2, <1>3, <1>4, <1>5, KeysWhenSent DEF SetupIInv
<1>12. QED
  BY <1>6, <1>7, <1>8, <1>9, <1>10, <1>11 DEF SetupIInv

\* The question alone goes on.
LEMMA OnlyTheQuestion ==
  ASSUME SetupIInv, UNCHANGED <<disk, keyVars, config, alive, claimed, viewVars>>
  PROVE  SetupFiles' /\ SaveOK' /\ OffIsOff'
<1>1. UNCHANGED <<view, settings, saving, changes>>
  BY DEF viewVars
<1>2. SetupFiles' /\ SaveOK'
  BY <1>1 DEF SetupIInv, SetupFiles, FileOK, SaveOK
<1>3. OffIsOff'
  BY <1>1 DEF SetupIInv, OffIsOff
<1>4. QED
  BY <1>2, <1>3

\* Its thread is started.
LEMMA AskIsRead ==
  ASSUME SetupIInv, ReadAsk
  PROVE  SetupIInv'
<1>1. /\ Reads("ask") /\ question' = [question EXCEPT !.is = "started"]
      /\ UNCHANGED <<disk, keyVars, config, alive, checked, claimed, viewVars>>
  BY DEF ReadAsk
<1>2. UNCHANGED <<saving, keychain, pushing, cleared>>
  BY <1>1 DEF keyVars, viewVars
<1>3. /\ stdin # <<>> /\ stdin' = Tail(stdin) /\ Head(stdin).is = "ask" /\ alive
      /\ IsSequence(stdin') /\ Len(stdin') <= PipeRoom
  BY <1>1, ReadKeeps
<1>4. /\ DOMAIN question' = QuestionFields /\ question'.agent = question.agent
      /\ question'.id = question.id /\ question'.result = question.result
  BY <1>1 DEF SetupIInv, PipeOK, QuestionFields
<1>5. ClaimsKept' /\ PipeOK'
  <2>1. ClaimsKept'
    <3>1. UNCHANGED <<config, alive, checked, claimed>>
      BY <1>1
    <3>2. QED
      BY <1>4, <3>1 DEF SetupIInv, ClaimsKept, PartFactsWereClaimed
  <2>2. PipeOK'
    BY <1>1, <1>3, <1>4 DEF SetupIInv, PipeOK
  <2>3. QED
    BY <2>1, <2>2
<1>6. SavesSent'
  BY <1>2, <1>3, SavesAreRead DEF SetupIInv
<1>7. KeysKept'
  BY <1>1, <1>2, <1>3, KeysWhenRead DEF SetupIInv
<1>8. QED
  BY <1>1, <1>5, <1>6, <1>7, OnlyTheQuestion DEF SetupIInv

\* It takes the keys, or the view has the answer: no line is touched, and no key
\* is used.
LEMMA QuestionKeeps ==
  ASSUME SetupIInv, TakeSecrets \/ Answered
  PROVE  SetupIInv'
<1>1. UNCHANGED <<disk, keyVars, config, alive, stdin, checked, claimed, viewVars>>
  BY DEF TakeSecrets, Answered
<1>2. UNCHANGED <<saving, keychain, pushing, cleared>>
  BY <1>1 DEF keyVars, viewVars
<1>3. SavesSent'
  BY <1>1, <1>2 DEF SetupIInv, SavesSent
<1>4. \A m \in 1..Len(stdin): question.is # "sent" => stdin[m].is # "ask"
  BY DEF SetupIInv, KeysKept
<1>5. CASE TakeSecrets
  <2>1. question.is = "started" /\ question' = [question EXCEPT !.is = "keyed", !.secrets = config.secrets]
    BY <1>5 DEF TakeSecrets
  <2>2. /\ DOMAIN question' = QuestionFields /\ question'.agent = question.agent
        /\ question'.id = question.id /\ question'.result = question.result
        /\ question'.is = "keyed" /\ question'.secrets = config.secrets
        /\ question'.without = question.without /\ question'.used = question.used
    BY <2>1 DEF SetupIInv, PipeOK, QuestionFields
  <2>3. config.secrets \cap question.without = {}
    <3>1. Safe(stdin, config.secrets, question.without, 0) /\ IsSequence(stdin)
      BY <2>1 DEF SetupIInv, KeysKept, PipeOK
    <3>2. 0 \in 0..Len(stdin) /\ \A j \in (0 + 1)..0: FALSE
      <4>1. Len(stdin) \in Nat
        BY <3>1, AppendLine
      <4>2. QED
        BY <4>1
    <3>3. QED
      BY <3>1, <3>2 DEF Safe, KeysAt
  <2>4. ClaimsKept' /\ PipeOK'
    <3>1. ClaimsKept'
      BY <1>1, <2>2 DEF SetupIInv, ClaimsKept, PartFactsWereClaimed
    <3>2. PipeOK'
      BY <1>1, <2>1, <2>2 DEF SetupIInv, PipeOK
    <3>3. QED
      BY <3>1, <3>2
  <2>5. KeysKept'
    BY <1>1, <1>2, <1>4, <2>1, <2>2, <2>3 DEF SetupIInv, KeysKept, ClearedKeyNotUsed
  <2>6. QED
    BY <1>1, <1>3, <2>4, <2>5, OnlyTheQuestion DEF SetupIInv
<1>6. CASE Answered
  <2>1. question.is = "answered" /\ question' = NoQuestion
    BY <1>6 DEF Answered
  <2>2. /\ DOMAIN question' = QuestionFields /\ question'.is = "none"
        /\ question'.agent = Null /\ question'.result = "none"
        /\ question'.without = {} /\ question'.used = {}
    BY <2>1 DEF NoQuestion, QuestionFields
  <2>3. ClaimsKept' /\ PipeOK'
    BY <1>1, <2>2 DEF SetupIInv, ClaimsKept, PartFactsWereClaimed, PipeOK
  <2>4. KeysKept'
    BY <1>1, <1>2, <1>4, <2>1, <2>2 DEF SetupIInv, KeysKept, ClearedKeyNotUsed
  <2>5. QED
    BY <1>1, <1>3, <2>3, <2>4, OnlyTheQuestion DEF SetupIInv
<1>7. QED
  BY <1>5, <1>6

\* The model is resolved: what looks parts up had claimed that, now or when it
\* was checked; and the key is one that the question took.
LEMMA ResolveKeeps ==
  ASSUME SetupIInv, Resolve
  PROVE  SetupIInv'
<1> DEFINE agent == question.agent
           setup == [config EXCEPT !.secrets = question.secrets]
           id == RolesBound(setup)[ModelRole[agent]]
           result == Resolved(setup, agent)
           record == RecordsOf(setup)[id]
<1>1. /\ question.is = "keyed"
      /\ question' = [question EXCEPT
            !.is = "answered", !.id = id, !.result = result, !.secrets = {},
            !.used = IF result = "answers"
                     THEN {Given(RecordsOf(setup)[id], "api_key_ref")} \cap question.secrets
                     ELSE {}]
      /\ \/ checked' = checked
         \/ /\ checked' = checked \cup {CheckKey(id, agent)}
            /\ result \notin {"unknown provider", "no model", "not capable"}
      /\ UNCHANGED <<disk, keyVars, config, alive, stdin, claimed, viewVars>>
  BY DEF Resolve
<1>2. UNCHANGED <<saving, keychain, pushing, cleared>>
  BY <1>1 DEF keyVars, viewVars
<1>3. result \notin {"unknown provider", "no model", "not capable"} =>
         id \in DOMAIN RecordsOf(setup) /\ Capable(agent, id, record)
  BY DEF Resolved
<1>4. Claiming(setup) = Claiming(config)
  <2>1. /\ setup.providers = config.providers /\ setup.roles = config.roles
        /\ setup.legacy = config.legacy /\ setup.model = config.model
    BY DEF SetupIInv, SetupFiles, ConfigFields
  <2>2. QED
    BY <2>1, SameRecords
<1>5. alive
  BY <1>1 DEF SetupIInv, PipeOK
<1>6. Given(record, "part_facts") = "yes" /\ id \in DOMAIN RecordsOf(setup) => id \in claimed
  <2>1. Given(record, "part_facts") = "yes" /\ id \in DOMAIN RecordsOf(setup)
           => id \in Claiming(setup)
    BY DEF Claiming
  <2>2. QED
    BY <1>4, <1>5, <2>1 DEF SetupIInv, ClaimsKept
<1>7. /\ DOMAIN question' = QuestionFields /\ question'.is = "answered"
      /\ question'.agent = agent /\ question'.id = id /\ question'.result = result
      /\ question'.without = question.without /\ question'.used \subseteq question.secrets
  BY <1>1 DEF SetupIInv, PipeOK, QuestionFields
<1> HIDE DEF agent, setup, id, result, record
<1>8. agent = "extract" /\ result \notin {"unknown provider", "no model", "not capable"} =>
         id \in claimed
  <2> SUFFICES ASSUME agent = "extract",
                      result \notin {"unknown provider", "no model", "not capable"}
               PROVE  id \in claimed
    OBVIOUS
  <2>1. CASE CheckKey(id, "extract") \in checked
    BY <2>1 DEF SetupIInv, ClaimsKept
  <2>2. CASE Given(record, "part_facts") = "yes"
    BY <1>3, <1>6, <2>2
  <2>3. Requires["extract"] = {"part_facts"}
    BY DEF Requires
  <2>4. QED
    BY <1>3, <2>1, <2>2, <2>3 DEF Capable
<1>9. \A i: CheckKey(i, "extract") \in checked' => i \in claimed'
  <2>1. \A i: CheckKey(i, "extract") = CheckKey(id, agent) => i = id /\ agent = "extract"
    BY DEF CheckKey
  <2>2. QED
    BY <1>1, <1>8, <2>1 DEF SetupIInv, ClaimsKept
<1>10. PartFactsWereClaimed'
  <2>1. UNCHANGED claimed
    BY <1>1
  <2>2. result \in {"answers", "no key"} =>
           result \notin {"unknown provider", "no model", "not capable"}
    OBVIOUS
  <2>3. QED
    BY <1>7, <1>8, <2>1, <2>2 DEF PartFactsWereClaimed
<1>11. ClaimsKept'
  BY <1>1, <1>9, <1>10 DEF SetupIInv, ClaimsKept
<1>12. PipeOK'
  BY <1>1, <1>5, <1>7 DEF SetupIInv, PipeOK
<1>13. SavesSent'
  BY <1>1, <1>2 DEF SetupIInv, SavesSent
<1>14. KeysKept'
  <2>1. question.secrets \cap question.without = {}
    BY <1>1 DEF SetupIInv, KeysKept
  <2>2. \A m \in 1..Len(stdin): stdin[m].is # "ask"
    BY <1>1 DEF SetupIInv, KeysKept
  <2>3. QED
    BY <1>1, <1>2, <1>7, <2>1, <2>2 DEF SetupIInv, KeysKept, ClearedKeyNotUsed
<1>15. QED
  BY <1>1, <1>11, <1>12, <1>13, <1>14, OnlyTheQuestion DEF SetupIInv

\* The invariant is inductive.
THEOREM SetupInvariant == SetupSpec => []SetupIInv
<1>1. SetupInit => SetupIInv
  BY SetupInitial
<1>2. SetupIInv /\ [SetupNext]_setupVars => SetupIInv'
  <2> SUFFICES ASSUME SetupIInv, [SetupNext]_setupVars PROVE SetupIInv'
    OBVIOUS
  <2>1. CASE Start \/ Quit
    BY <2>1, SetupStartKeeps, EndKeeps
  <2>2. CASE ViewStep
    <3>1. CASE ChooseGuided \/ Navigate \/ OpenSettings
      BY <3>1, ViewsKeep
    <3>2. CASE FinishSetup \/ ChooseManual
      BY <3>2, FirstStartKeeps
    <3>3. CASE WriteConfig \/ WriteConfigFails
      BY <3>3, WriteKeeps, WriteFailsKeeps
    <3>4. ASSUME NEW id \in DOMAIN Presets, BindBothRolesTo(id) PROVE SetupIInv'
      BY <3>4, BindKeeps
    <3>5. ASSUME NEW id \in ProviderIds, EditorStep(id) PROVE SetupIInv'
      BY <3>5, EditorKeeps
    <3>6. QED
      BY <2>2, <3>1, <3>2, <3>3, <3>4, <3>5 DEF ViewStep
  <2>3. CASE DaemonStep
    <3>1. CASE ReadSecrets \/ ReadProviders \/ ReadBind \/ ReadAsk
      BY <3>1, SecretsAreRead, ProvidersAreRead, BindIsRead, AskIsRead
    <3>2. CASE TakeSecrets \/ Resolve \/ Answered
      BY <3>2, QuestionKeeps, ResolveKeeps
    <3>3. CASE DaemonDies
      BY <3>3, EndKeeps
    <3>4. QED
      BY <2>3, <3>1, <3>2, <3>3 DEF DaemonStep
  <2>4. ASSUME NEW old \in OldInstalls, OlderInstall(old[1], old[2]) PROVE SetupIInv'
    BY <2>4, OlderKeeps
  <2>5. ASSUME NEW ref \in Refs, SaveSecret(ref) \/ ClearSecret(ref) PROVE SetupIInv'
    BY <2>5, ChangeKeeps
  <2>6. CASE SyncSecrets
    BY <2>6, SyncKeeps
  <2>7. ASSUME NEW agent \in Agents, Ask(agent) PROVE SetupIInv'
    BY <2>7, AskKeeps
  <2>8. CASE UNCHANGED setupVars
    <3>1. UNCHANGED <<disk, keyVars, daemonVars, viewVars>>
      BY <2>8 DEF setupVars
    <3>2. UNCHANGED <<config, alive, view, settings, saving, changes, claimed>>
      BY <3>1 DEF daemonVars, viewVars
    <3>3. SetupFiles' /\ SaveOK' /\ OffIsOff'
      BY <3>1, <3>2, OnlyTheQuestion
    <3>4. QED
      BY <3>1, <3>2, <3>3, DaemonSame DEF SetupIInv
  <2>9. QED
    BY <2>1, <2>2, <2>3, <2>4, <2>5, <2>6, <2>7, <2>8 DEF SetupNext
<1>3. QED
  BY <1>1, <1>2, PTL DEF SetupSpec

\* The binding of the roles and the views are what they may be, a record that
\* was saved names its kind, and the pipe holds no more than it has room for.
THEOREM SetupTypes == SetupSpec => []SetupTypeOK
<1>1. ASSUME SetupIInv PROVE SetupTypeOK
  <2>1. Len(stdin) \in 0..PipeRoom
    <3>1. IsSequence(stdin) /\ Len(stdin) <= PipeRoom
      BY <1>1 DEF SetupIInv, PipeOK
    <3>2. Len(stdin) \in Nat
      BY <3>1, AppendLine
    <3>3. QED
      BY <3>1, <3>2, RoomForOne
  <2>2. QED
    BY <1>1, <2>1 DEF SetupIInv, SetupFiles, FileOK, Bound, Bindings, OffIsOff, SetupTypeOK
<1>2. QED
  BY <1>1, SetupInvariant, PTL

\* No question is answered with a key that clear_secret was done with before it
\* was put, however long the pipe is, whatever lines wait in it, when the push
\* is refused, when the daemon dies and when the app is started again
\* (secrets.rs, sync_secrets_to_daemon, daemon_configure).
THEOREM ClearedKeysAreNotUsed == SetupSpec => []ClearedKeyNotUsed
<1>1. SetupIInv => ClearedKeyNotUsed
  BY DEF SetupIInv, KeysKept
<1>2. QED
  BY <1>1, SetupInvariant, PTL

\* A record that the editor saves comes back whole from the delta that is kept,
\* and neither the daemon nor config.json ever restates what is shipped
\* (provider_delta, _merge_over_preset, ProviderRecord).
THEOREM DeltasAreExact == SetupSpec => []DeltasExact
<1>1. ASSUME SetupIInv PROVE SavedAsSent
  <2> SUFFICES ASSUME alive, saving.is = "answered", saving.reload,
                      NEW id \in DOMAIN saving.records, NEW f \in DOMAIN saving.records[id]
               PROVE  RecordsOf(config)[id][f] = saving.records[id][f]
    BY DEF SavedAsSent
  <2>1. /\ config.providers = Entries(saving.records) /\ NullsAreStated(saving.records)
        /\ config.roles = saving.roles /\ saving.roles \in Bindings
    BY <1>1 DEF SetupIInv, SaveOK
  <2>2. Migrated(config) = config.providers
    BY <2>1, BindingsAreBound DEF Migrated
  <2>3. RecordsOf(config)[id] = MergeOverPreset(id, ProviderDelta(id, saving.records[id]))
    BY <2>1, <2>2 DEF RecordsOf, Entries, ProviderRecords
  <2>4. CASE id \in DOMAIN Presets
    <3>1. \A g \in DOMAIN saving.records[id]: StatedIfNull(id, g, saving.records[id][g])
      BY <2>1, <2>4 DEF NullsAreStated
    <3>2. QED
      BY <2>3, <2>4, <3>1, DeltaGivesBack
  <2>5. CASE id \notin DOMAIN Presets
    BY <2>3, <2>5 DEF MergeOverPreset, ProviderDelta
  <2>6. QED
    BY <2>4, <2>5
<1>2. SetupIInv => DefaultsStayMovable
  BY DEF SetupIInv, SetupFiles, FileOK, Differs, DefaultsStayMovable
<1>3. SetupIInv => DeltasExact
  BY <1>1, <1>2 DEF DeltasExact
<1>4. QED
  BY <1>3, SetupInvariant, PTL

\* While the banner says that the roles are ready, no agent is refused for want
\* of a provider, a model or a key, and while it does not some agent is; and a
\* part is looked up only by a model whose record claimed that it can
\* (roles_ready, resolve, _preflight_checked).
THEOREM ReadyIsTrue == SetupSpec => []ReadinessTruthful
<1>1. RolesReady(config) => \A agent \in Agents:
          Resolved(config, agent) \notin {"unknown provider", "no model", "no key"}
  <2> SUFFICES ASSUME RolesReady(config), NEW agent \in Agents
               PROVE  Resolved(config, agent) \notin {"unknown provider", "no model", "no key"}
    OBVIOUS
  <2> DEFINE role == ModelRole[agent]
             id == RolesBound(config)[role]
             records == RecordsOf(config)
  <2>1. role \in Roles
    BY DEF Agents, ModelRole, Roles
  <2>2. /\ id \in DOMAIN records /\ Given(records[id], role) # Null
        /\ ~KeyMissing(records[id], config.secrets)
    BY <2>1 DEF RolesReady
  <2>3. QED
    BY <2>2 DEF Resolved
<1>2. ~RolesReady(config) => \E agent \in Agents:
          Resolved(config, agent) \in {"unknown provider", "no model", "no key", "not capable"}
  <2> SUFFICES ASSUME ~RolesReady(config)
               PROVE  \E agent \in Agents: Resolved(config, agent) \in
                        {"unknown provider", "no model", "no key", "not capable"}
    OBVIOUS
  <2>1. PICK role \in Roles:
          LET id == RolesBound(config)[role]
              records == RecordsOf(config)
          IN  ~ (/\ id \in DOMAIN records
                 /\ Given(records[id], role) # Null
                 /\ ~KeyMissing(records[id], config.secrets))
    BY DEF RolesReady
  <2>2. PICK agent \in Agents: ModelRole[agent] = role
    BY DEF Agents, ModelRole, Roles
  <2>3. Resolved(config, agent) \in {"unknown provider", "no model", "no key", "not capable"}
    BY <2>1, <2>2 DEF Resolved
  <2>4. QED
    BY <2>3
<1>3. ReadyMeansSetUp
  BY <1>1, <1>2 DEF ReadyMeansSetUp
<1>4. SetupIInv => ReadinessTruthful
  BY <1>3 DEF SetupIInv, ClaimsKept, ReadinessTruthful
<1>5. QED
  BY <1>4, SetupInvariant, PTL

-------------------------------------------------------------------------------
(* The arithmetic of a supply: PowerPacks.                                 *)

\* Nothing is shown before the packs ran, and then what they found; and what the
\* project is made of is from the sets it was chosen from.
PackIInv ==
    /\ packStep \in {"choose", "run", "done"}
    /\ packStep # "done" => attention = {} /\ clearedItems = {}
    /\ packStep = "done" => attention = Raisable(RunPacks) /\ clearedItems = Cleared(RunPacks)
    /\ project.pins \subseteq ToSet(PinList)
    /\ project.quotes = <<>> \/ project.quotes \in QuoteLists
    /\ \A s, t \in project.symbols: s.ref = t.ref => s.volts = t.volts

\* The packs are functions of the project.
LEMMA SameProject ==
    ASSUME project' = project
    PROVE  /\ Raisable(RunPacks)' = Raisable(RunPacks)
           /\ Cleared(RunPacks)' = Cleared(RunPacks)
  <1>1. /\ LedSeriesResistor' = LedSeriesResistor
        /\ ComponentWithoutValue' = ComponentWithoutValue
    BY DEF LedSeriesResistor, ComponentWithoutValue, Nets, Anodes, OnNet
  <1>2. \A ref: SupplyPins(ref)' = SupplyPins(ref) /\ OutputPins(ref)' = OutputPins(ref)
    BY DEF SupplyPins, OutputPins, PowerPins
  <1>3. RegulatedRailIntoModuleInput' = RegulatedRailIntoModuleInput
    BY <1>2 DEF RegulatedRailIntoModuleInput, Made
  <1>4. \A ref: SupplyVolts(ref)' = SupplyVolts(ref)
    BY <1>2 DEF SupplyVolts, RailsOf, FirstRail
  <1>5. RegulatorDissipation' = RegulatorDissipation
    BY <1>4 DEF RegulatorDissipation, Regulators
  <1>6. TraceTooNarrow' = TraceTooNarrow
    BY DEF TraceTooNarrow, CurrentNets, TooNarrow, Narrowest
  <1>7. ReversiblePowerInput' = ReversiblePowerInput
    BY DEF ReversiblePowerInput, FeedsBoard
  <1>8. CurrentBudgetAgainstSource' = CurrentBudgetAgainstSource
    BY DEF CurrentBudgetAgainstSource
  <1>9. SupplyExceedsMaximum' = SupplyExceedsMaximum
    BY <1>2 DEF SupplyExceedsMaximum
  <1> QED
    BY <1>1, <1>3, <1>5, <1>6, <1>7, <1>8, <1>9 DEF RunPacks, Raisable, Cleared

\* Nothing is known at the start.
LEMMA PackStarts == PackInit => PackIInv
  BY DEF PackInit, PackIInv, NoProject

\* A project is chosen, then reviewed.
LEMMA PackSteps == PackIInv /\ [PackNext]_packVars => PackIInv'
  <1> SUFFICES ASSUME PackIInv, [PackNext]_packVars PROVE PackIInv'
    OBVIOUS
  <1>1. CASE ChooseProject
    <2>1. /\ project'.pins \subseteq ToSet(PinList) /\ project'.quotes \in QuoteLists
          /\ project'.symbols \in SymbolSets
      BY <1>1 DEF ChooseProject
    <2>2. \A s, t \in project'.symbols: s.ref = t.ref => s.volts = t.volts
      BY <2>1, PackAssumption
    <2> QED BY <1>1, <2>1, <2>2 DEF ChooseProject, PackIInv
  <1>2. CASE ProjectConsiderations
    <2>1. project' = project
      BY <1>2 DEF ProjectConsiderations
    <2> QED BY <1>2, <2>1, SameProject DEF ProjectConsiderations, PackIInv
  <1>3. CASE UNCHANGED packVars
    <2>1. project' = project
      BY <1>3 DEF packVars
    <2> QED BY <1>3, <2>1, SameProject DEF packVars, PackIInv
  <1> QED BY <1>1, <1>2, <1>3 DEF PackNext

\* What each pack says, by its id.
LEMMA ByPack ==
    ASSUME NEW c \in RunPacks
    PROVE  /\ c.id = "regulated_rail_into_module_input" => c \in RegulatedRailIntoModuleInput
           /\ c.id = "supply_exceeds_absolute_maximum" => c \in SupplyExceedsMaximum
           /\ c.id \in {"regulator_dissipation_unanswerable", "regulator_dissipation"} =>
                 c \in RegulatorDissipation
           /\ c.id = "trace_too_narrow_for_current" => c \in TraceTooNarrow
           /\ c.id = "current_budget_against_source" => c \in CurrentBudgetAgainstSource
  <1>1. c \in LedSeriesResistor =>
            c.id \in {"led_series_resistor", "led_without_series_resistor"}
    BY DEF LedSeriesResistor, Item, Computed
  <1>2. c \in ComponentWithoutValue => c.id = "component_without_value"
    BY DEF ComponentWithoutValue, Item, Computed
  <1>3. c \in RegulatedRailIntoModuleInput => c.id = "regulated_rail_into_module_input"
    BY DEF RegulatedRailIntoModuleInput, Item, Computed
  <1>4. c \in RegulatorDissipation =>
            c.id \in {"regulator_dissipation_unanswerable", "regulator_dissipation"}
    BY DEF RegulatorDissipation, Item, Computed
  <1>5. c \in TraceTooNarrow => c.id = "trace_too_narrow_for_current"
    BY DEF TraceTooNarrow, Item, Cited
  <1>6. c \in ReversiblePowerInput => c.id = "reversible_power_input"
    BY DEF ReversiblePowerInput, Item, Computed
  <1>7. c \in CurrentBudgetAgainstSource => c.id = "current_budget_against_source"
    BY DEF CurrentBudgetAgainstSource, Item
  <1>8. c \in SupplyExceedsMaximum => c.id = "supply_exceeds_absolute_maximum"
    BY DEF SupplyExceedsMaximum, Item, Cited
  <1> QED
    BY <1>1, <1>2, <1>3, <1>4, <1>5, <1>6, <1>7, <1>8 DEF RunPacks

\* A claim has a standing of two, and a class that needs no question.
LEMMA Standing ==
    ASSUME NEW c \in RunPacks
    PROVE  /\ c.state \in {"raised", "satisfied"}
           /\ c.class \in {"computed", "cited"}
  <1>1. c \in LedSeriesResistor \cup ComponentWithoutValue \cup RegulatedRailIntoModuleInput =>
            c.state \in {"raised", "satisfied"} /\ c.class \in {"computed", "cited"}
    BY DEF LedSeriesResistor, ComponentWithoutValue, RegulatedRailIntoModuleInput,
           Item, Computed
  <1>2. c \in RegulatorDissipation \cup TraceTooNarrow \cup ReversiblePowerInput =>
            c.state \in {"raised", "satisfied"} /\ c.class \in {"computed", "cited"}
    BY DEF RegulatorDissipation, TraceTooNarrow, ReversiblePowerInput, Item, Computed, Cited
  <1>3. c \in CurrentBudgetAgainstSource \cup SupplyExceedsMaximum =>
            c.state \in {"raised", "satisfied"} /\ c.class \in {"computed", "cited"}
    BY DEF CurrentBudgetAgainstSource, SupplyExceedsMaximum, Item, Cited
  <1> QED
    BY <1>1, <1>2, <1>3 DEF RunPacks

\* What is shown or cleared is what the packs found.
LEMMA ShownIsFound ==
    ASSUME PackIInv
    PROVE  /\ packStep = "done" => attention \cup clearedItems = RunPacks
           /\ attention \cap clearedItems = {}
           /\ attention \cup clearedItems \subseteq RunPacks
  BY Standing DEF PackIInv, Raisable, Cleared

\* Each pack names a part of the project.
LEMMA Triggered ==
    ASSUME NEW c \in RunPacks
    PROVE  \/ c.ref \in Nets \cup {t.net: t \in project.tracks}
           \/ c.ref \in {s.ref: s \in project.symbols} \cup {p.ref: p \in project.pins}
           \/ c.ref = "input_supply" /\ project.supply.source = "usb"
  <1>1. c \in LedSeriesResistor => c.ref \in Nets
    BY DEF LedSeriesResistor, Item, Computed
  <1>2. c \in ComponentWithoutValue => c.ref \in {s.ref: s \in project.symbols}
    BY DEF ComponentWithoutValue, Item, Computed
  <1>3. c \in RegulatedRailIntoModuleInput => c.ref \in Nets
    BY DEF RegulatedRailIntoModuleInput, Nets, Item, Computed
  <1>4. c \in RegulatorDissipation => c.ref \in {s.ref: s \in project.symbols}
    BY DEF RegulatorDissipation, Regulators, Item, Computed
  <1>5. c \in TraceTooNarrow => c.ref \in {t.net: t \in project.tracks}
    BY DEF TraceTooNarrow, CurrentNets, Item, Cited
  <1>6. c \in ReversiblePowerInput => c.ref \in {p.ref: p \in project.pins}
    BY DEF ReversiblePowerInput, Item, Computed
  <1>7. c \in CurrentBudgetAgainstSource =>
            c.ref = "input_supply" /\ project.supply.source = "usb"
    BY DEF CurrentBudgetAgainstSource, Item
  <1>8. c \in SupplyExceedsMaximum => c.ref \in Nets
    BY DEF SupplyExceedsMaximum, Nets, Item, Cited
  <1> QED
    BY <1>1, <1>2, <1>3, <1>4, <1>5, <1>6, <1>7, <1>8 DEF RunPacks

\* No voltage is written in the name of ground.
LEMMA GroundHasNoVolts ==
    ASSUME NEW name, NominalVolts(name) # NotStated
    PROVE  ~IsGround(name)
  BY DEF NominalVolts

\* A figure is a positive number.
LEMMA Figures == \A v \in PlausibleVolts: v \in Nat /\ v # 0
  BY DEF PlausibleVolts

\* The largest of some figures is one of them.
LEMMA LargestFigure ==
    ASSUME NEW V, V \subseteq PlausibleVolts, V # {}
    PROVE  Max(V) \in V
  <1> DEFINE short == {60 - v: v \in V}
  <1>1. \A v \in V: v \in 1..60 /\ 60 - v \in Nat
    BY DEF PlausibleVolts
  <1>2. short \in SUBSET Nat /\ short # {}
    BY <1>1
  <1>3. PICK x \in short: \A y \in short: x <= y
    BY <1>2, SomeLeast
  <1>4. PICK top \in V: x = 60 - top
    BY <1>3
  <1>5. \A v \in V: 60 - top <= 60 - v
    BY <1>3, <1>4
  <1>6. \A v \in V: top >= v
    BY <1>1, <1>5
  <1> QED BY <1>4, <1>6 DEF Max

\* The smallest of some places is one of them.
LEMMA FirstPlace ==
    ASSUME NEW T \in SUBSET Nat, T # {}
    PROVE  Min(T) \in T /\ \A x \in T: Min(T) <= x
  <1>1. \E x \in T: \A y \in T: x <= y
    BY SomeLeast
  <1> QED BY <1>1 DEF Min

\* A rating is a figure of its row, or not stated.
LEMMA MaximumIsANumber ==
    ASSUME NEW quotes, quotes = <<>> \/ quotes \in QuoteLists
    PROVE  SupplyMaximum(quotes) \in Nat \cup {NotStated}
  <1> DEFINE rows == MaximumRows(quotes)
  <1>1. CASE rows = {}
    BY <1>1 DEF SupplyMaximum
  <1>2. CASE rows # {}
    <2>1. quotes \in QuoteLists
      BY <1>2 DEF MaximumRows, AnySupplyRows
    <2>2. /\ DOMAIN quotes = 1..Len(quotes) /\ Len(quotes) \in Nat
          /\ \A i \in DOMAIN quotes: quotes[i].volts \subseteq PlausibleVolts
      BY <2>1, PackAssumption
    <2>3. rows \in SUBSET Nat
          /\ \A i \in rows: quotes[i].volts \subseteq PlausibleVolts /\ quotes[i].volts # {}
      BY <2>2 DEF MaximumRows, AnySupplyRows
    <2>4. SupplyMaximum(quotes) = Max(quotes[Min(rows)].volts)
      BY <1>2 DEF SupplyMaximum
    <2> HIDE DEF rows
    <2>5. Min(rows) \in rows
      BY <1>2, <2>3, FirstPlace
    <2>6. Max(quotes[Min(rows)].volts) \in quotes[Min(rows)].volts
      BY <2>3, <2>5, LargestFigure
    <2>7. quotes[Min(rows)].volts \subseteq PlausibleVolts
      BY <2>3, <2>5
    <2>8. SupplyMaximum(quotes) \in PlausibleVolts
      BY <2>4, <2>6, <2>7
    <2> QED BY <2>8, Figures
  <1> QED BY <1>1, <1>2

\* The rating of the supply's first row, if no row before it is one.
LEMMA FirstRowDecides ==
    ASSUME NEW quotes \in QuoteLists, NEW i \in DOMAIN quotes,
           quotes[i].supply, ~quotes[i].otherPin, quotes[i].volts # {},
           \A j \in 1..(i - 1): quotes[j].otherPin
    PROVE  SupplyMaximum(quotes) \in quotes[i].volts
  <1> DEFINE rows == MaximumRows(quotes)
  <1>1. /\ DOMAIN quotes = 1..Len(quotes) /\ Len(quotes) \in Nat
        /\ quotes[i].volts \subseteq PlausibleVolts
    BY PackAssumption
  <1>2. rows \in SUBSET Nat /\ i \in rows /\ \A j \in rows: ~quotes[j].otherPin /\ j \in Nat \ {0}
    BY <1>1 DEF MaximumRows, AnySupplyRows
  <1> HIDE DEF rows
  <1>3. \A j \in rows: i <= j
    BY <1>1, <1>2
  <1>4. Min(rows) = i
    <2>1. Min(rows) \in rows /\ Min(rows) <= i
      BY <1>2, FirstPlace
    <2> DEFINE first == Min(rows)
    <2>2. first \in rows /\ first <= i
      BY <2>1
    <2> HIDE DEF first
    <2>3. first \in Nat /\ i \in Nat /\ i <= first
      BY <1>2, <1>3, <2>2
    <2>4. first = i
      BY <2>2, <2>3
    <2> QED BY <2>4 DEF first
  <1>5. SupplyMaximum(quotes) = Max(quotes[i].volts)
    BY <1>2, <1>4 DEF SupplyMaximum, rows
  <1> QED BY <1>1, <1>5, LargestFigure

\* A linear regulator on a rail with a stated voltage has a supply.
LEMMA RailGivesVolts ==
    ASSUME NEW ref, NEW p \in SupplyPins(ref), project.pins \subseteq ToSet(PinList),
           NetIsReal(p.net), NominalVolts(p.net) # NotStated
    PROVE  SupplyVolts(ref) # NotStated
  <1> DEFINE rails == RailsOf(ref)
  <1>1. DOMAIN PinList = 1..Len(PinList) /\ Len(PinList) \in Nat
    BY PackAssumption
  <1>2. p \in ToSet(PinList)
    BY DEF SupplyPins, PowerPins
  <1>3. PICK i \in DOMAIN PinList: PinList[i] = p
    BY <1>2 DEF ToSet
  <1>4. rails \in SUBSET Nat /\ rails # {}
        /\ \A j \in rails: NominalVolts(PinList[j].net) # NotStated
    BY <1>1, <1>3 DEF RailsOf
  <1>5. SupplyVolts(ref) = NominalVolts(PinList[Min(rails)].net)
    BY <1>4 DEF SupplyVolts, FirstRail
  <1> HIDE DEF rails
  <1>7. Min(rails) \in rails
    BY <1>4, FirstPlace
  <1> QED BY <1>4, <1>5, <1>7

\* The packs claim what is so and leave out nothing that they can tell, for any
\* project, whatever its netlist, symbols, tracks, quotes and answers
\* (consideration_packs.run).
THEOREM ClaimsAreTrue == PackSpec => []ConsiderationsTruthful
  <1>1. PackSpec => []PackIInv
    BY PackStarts, PackSteps, PTL DEF PackSpec
  <1>2. PackIInv => ConsiderationsTruthful
    <2> SUFFICES ASSUME PackIInv PROVE ConsiderationsTruthful
      OBVIOUS
    <2>1. \A id: \A c \in Claims(id): c \in RunPacks /\ c.id = id
      BY ShownIsFound DEF Claims
    <2>2. TriggersAreReal
      BY ShownIsFound, Triggered DEF TriggersAreReal
    <2>3. GroundIsNoSupply
      <3> SUFFICES ASSUME NEW c \in Claims("regulated_rail_into_module_input")
                                    \cup Claims("supply_exceeds_absolute_maximum")
                   PROVE  ~IsGround(c.on.name) /\ ~IsGround(c.on.net)
        BY DEF GroundIsNoSupply
      <3>1. CASE c \in Claims("regulated_rail_into_module_input")
        <4>1. c \in RegulatedRailIntoModuleInput
          BY <2>1, <3>1, ByPack
        <4>2. PICK q \in project.pins: /\ q \in SupplyPins(q.ref) /\ c.on = q
                                       /\ NominalVolts(q.net) \in 0..Max(Made(q.ref))
          BY <4>1 DEF RegulatedRailIntoModuleInput, Computed, Item
        <4>3. NominalVolts(q.net) # NotStated
          BY <4>2 DEF NotStated
        <4> QED BY <4>2, <4>3, GroundHasNoVolts DEF SupplyPins, PowerPins
      <3>2. CASE c \in Claims("supply_exceeds_absolute_maximum")
        <4>1. c \in SupplyExceedsMaximum
          BY <2>1, <3>2, ByPack
        <4>2. PICK q \in project.pins: /\ q \in SupplyPins(q.ref) /\ c.on = q
                                       /\ SupplyMaximum(project.quotes) # NotStated
                                       /\ NominalVolts(q.net) > SupplyMaximum(project.quotes)
          BY <4>1 DEF SupplyExceedsMaximum, Cited, Item
        <4>3. NominalVolts(q.net) # NotStated
          BY <4>2, MaximumIsANumber DEF PackIInv, NotStated
        <4> QED BY <4>2, <4>3, GroundHasNoVolts DEF SupplyPins, PowerPins
      <3> QED BY <3>1, <3>2
    <2>4. NothingFoundIsHidden
      BY ShownIsFound DEF NothingFoundIsHidden
    <2>5. CurrentAskedOnce
      <3> SUFFICES ASSUME project.budget = NotStated
                   PROVE  /\ Claims("trace_too_narrow_for_current") = {}
                          /\ Claims("current_budget_against_source") = {}
                          /\ Claims("regulator_dissipation") = {}
        BY DEF CurrentAskedOnce
      <3>1. TraceTooNarrow = {} /\ CurrentBudgetAgainstSource = {}
        BY DEF TraceTooNarrow, CurrentBudgetAgainstSource
      <3>2. \A c \in RegulatorDissipation: c.id = "regulator_dissipation_unanswerable"
        BY DEF RegulatorDissipation, Computed, Item
      <3>3. "regulator_dissipation" # "regulator_dissipation_unanswerable"
        OBVIOUS
      <3> QED BY <2>1, <3>1, <3>2, <3>3, ByPack
    <2>6. AnswerableIsAnswered
      <3> SUFFICES ASSUME packStep = "done", NEW s \in project.symbols,
                          s.lib = "linear", NotStated \notin {s.volts, project.budget},
                          NEW p \in project.pins, p.ref = s.ref, p.type = "power_in",
                          ~IsGround(p.name), NetIsReal(p.net),
                          NominalVolts(p.net) # NotStated,
                          NEW c \in Claims("regulator_dissipation_unanswerable"),
                          c.ref = s.ref
                   PROVE  FALSE
        BY DEF AnswerableIsAnswered
      <3>1. p \in SupplyPins(s.ref)
        BY DEF SupplyPins, PowerPins
      <3>2. SupplyVolts(s.ref) # NotStated
        BY <3>1, RailGivesVolts DEF PackIInv
      <3>3. c \in RegulatorDissipation /\ c.id = "regulator_dissipation_unanswerable"
        BY <2>1, ByPack
      <3>4. PICK r \in Regulators: /\ r.ref = c.ref
                                   /\ NotStated \in {r.volts, SupplyVolts(r.ref)}
        BY <3>3 DEF RegulatorDissipation, Computed, Item
      <3>5. r \in project.symbols
        BY DEF Regulators
      <3>6. r.volts = s.volts
        BY <3>4, <3>5 DEF PackIInv
      <3> QED BY <3>2, <3>4, <3>6
    <2>7. OverMaximumIsSaid
      <3> SUFFICES ASSUME packStep = "done", NEW s \in project.symbols,
                          NEW p \in project.pins, NEW i \in 1..Len(project.quotes),
                          s.linked, p.ref = s.ref, p.type = "power_in",
                          ~IsGround(p.name), NetIsReal(p.net),
                          project.quotes[i].supply, ~project.quotes[i].otherPin,
                          project.quotes[i].volts # {},
                          \A j \in 1..(i - 1): project.quotes[j].otherPin,
                          \A v \in project.quotes[i].volts: NominalVolts(p.net) > v
                   PROVE  \E c \in Claims("supply_exceeds_absolute_maximum"): c.ref = p.net
        BY DEF OverMaximumIsSaid
      <3>1. project.quotes \in QuoteLists
        <4>1. project.quotes # <<>>
          OBVIOUS
        <4> QED BY <4>1 DEF PackIInv
      <3>2. /\ i \in DOMAIN project.quotes
            /\ project.quotes[i].volts \subseteq PlausibleVolts
        BY <3>1, PackAssumption
      <3>3. SupplyMaximum(project.quotes) \in project.quotes[i].volts
        BY <3>1, <3>2, FirstRowDecides
      <3> DEFINE most == SupplyMaximum(project.quotes)
      <3>10. most \in PlausibleVolts
        BY <3>2, <3>3
      <3> HIDE DEF most
      <3>11. most # NotStated
        BY <3>10, Figures DEF NotStated
      <3> USE DEF most
      <3>4. most # NotStated /\ NominalVolts(p.net) > most
        BY <3>3, <3>11
      <3>5. p \in SupplyPins(p.ref)
        BY DEF SupplyPins, PowerPins
      <3> DEFINE c == Cited("supply_exceeds_absolute_maximum", p.net, p)
      <3>6. c \in SupplyExceedsMaximum
        BY <3>4, <3>5 DEF SupplyExceedsMaximum
      <3>7. c \in RunPacks
        BY <3>6 DEF RunPacks
      <3>8. c.id = "supply_exceeds_absolute_maximum" /\ c.ref = p.net
        BY DEF Cited, Item
      <3>9. c \in Claims("supply_exceeds_absolute_maximum")
        BY <3>7, <3>8, ShownIsFound DEF Claims
      <3> QED BY <3>8, <3>9
    <2> QED BY <2>2, <2>3, <2>4, <2>5, <2>6, <2>7 DEF ConsiderationsTruthful
  <1> QED BY <1>1, <1>2, PTL

-------------------------------------------------------------------------------
(* What is made of a model's answers: ComponentPipeline.                   *)

\* Of two findings one goes before the other, and never each before the other
\* (the key and the stability of sorted()).
LEMMA FindingsAreOrdered ==
  ASSUME NEW n \in Nat, NEW f
  PROVE  /\ \A i \in 1..n: ~Precedes(f, i, i)
         /\ \A i, j \in 1..n: i # j => Precedes(f, i, j) \/ Precedes(f, j, i)
         /\ \A i, j, k \in 1..n: Precedes(f, i, j) /\ Precedes(f, j, k) => Precedes(f, i, k)
         /\ \A i, j \in 1..n: Precedes(f, i, j) => SeverityOrder(f[i]) <= SeverityOrder(f[j])
<1> DEFINE o(i) == SeverityOrder(f[i])
<1>1. \A i: o(i) \in Nat
  BY DEF SeverityOrder
<1>2. \A i, j: Precedes(f, i, j) <=> o(i) < o(j) \/ (o(i) = o(j) /\ i < j)
  BY DEF Precedes
<1> HIDE DEF o
<1> QED
  BY <1>1, <1>2 DEF o

\* How many findings are ahead of one tells the findings apart.
LEMMA Ranks ==
  ASSUME NEW n \in Nat, NEW f, DOMAIN f = 1..n
  PROVE  /\ \A i \in 1..n: Cardinality(Ahead(f, i)) \in 0..(n - 1)
         /\ \A i, j \in 1..n: Precedes(f, i, j)
               => Cardinality(Ahead(f, i)) < Cardinality(Ahead(f, j))
<1>1. IsFiniteSet(1..n) /\ Cardinality(1..n) = n
  BY FS_Interval
<1>2. \A i: Ahead(f, i) = {j \in 1..n: Precedes(f, j, i)}
  BY DEF Ahead
<1>3. \A i: IsFiniteSet(Ahead(f, i)) /\ Cardinality(Ahead(f, i)) \in Nat
  <2>1. \A i: Ahead(f, i) \in SUBSET (1..n)
    BY <1>2
  <2>2. \A i: IsFiniteSet(Ahead(f, i))
    BY <1>1, <2>1, FS_Subset
  <2> QED
    BY <2>2, FS_CardinalityType
<1>4. ASSUME NEW i \in 1..n PROVE Cardinality(Ahead(f, i)) <= n - 1
  <2>1. IsFiniteSet((1..n) \ {i}) /\ Cardinality((1..n) \ {i}) = n - 1
    BY <1>1, FS_RemoveElement
  <2>2. Ahead(f, i) \in SUBSET ((1..n) \ {i})
    BY <1>2, FindingsAreOrdered
  <2> QED
    BY <2>1, <2>2, FS_Subset
<1>5. ASSUME NEW i \in 1..n, NEW j \in 1..n, Precedes(f, i, j)
      PROVE  Cardinality(Ahead(f, i)) < Cardinality(Ahead(f, j))
  <2>1. i \notin Ahead(f, i) /\ i \in Ahead(f, j)
    BY <1>2, <1>5, FindingsAreOrdered
  <2>2. Ahead(f, i) \subseteq Ahead(f, j)
    BY <1>2, <1>5, FindingsAreOrdered
  <2>3. /\ IsFiniteSet(Ahead(f, i) \cup {i})
        /\ Cardinality(Ahead(f, i) \cup {i}) = Cardinality(Ahead(f, i)) + 1
    BY <1>3, <2>1, FS_AddElement
  <2>4. Ahead(f, i) \cup {i} \in SUBSET Ahead(f, j)
    BY <2>1, <2>2
  <2>5. Cardinality(Ahead(f, i) \cup {i}) <= Cardinality(Ahead(f, j))
    BY <1>3, <2>4, FS_Subset
  <2> QED
    BY <1>3, <2>3, <2>5
<1> QED
  BY <1>3, <1>4, <1>5

\* The findings in the order of their severity are all of them, each once, and
\* each after those that go before it.
LEMMA PrioritizedIs ==
  ASSUME NEW n \in Nat, NEW f, DOMAIN f = 1..n
  PROVE  /\ Prioritized(f) \in [1..n -> 1..n]
         /\ \A i \in 1..n: \E k \in 1..n: Prioritized(f)[k] = i
         /\ \A k, l \in 1..n: k < l => Precedes(f, Prioritized(f)[k], Prioritized(f)[l])
<1> DEFINE rank(i) == Cardinality(Ahead(f, i))
           order == Prioritized(f)
<1>1. /\ \A i \in 1..n: rank(i) \in 0..(n - 1)
      /\ \A i, j \in 1..n: Precedes(f, i, j) => rank(i) < rank(j)
  BY Ranks
<1>2. order = [k \in 1..n |-> CHOOSE i \in 1..n: rank(i) = k - 1]
  BY DEF Prioritized
<1> HIDE DEF rank, order
<1>3. \A i, j \in 1..n: rank(i) = rank(j) => i = j
  <2> SUFFICES ASSUME NEW i \in 1..n, NEW j \in 1..n, rank(i) = rank(j), i # j PROVE FALSE
    OBVIOUS
  <2>1. rank(i) < rank(j) \/ rank(j) < rank(i)
    BY <1>1, FindingsAreOrdered
  <2>2. rank(i) \in Nat /\ rank(j) \in Nat
    BY <1>1
  <2> QED
    BY <2>1, <2>2
<1>4. \A k \in 1..n: \E i \in 1..n: rank(i) = k - 1
  <2> DEFINE r == [i \in 1..n |-> rank(i)]
             T == 0..(n - 1)
  <2>1. r \in Injection(1..n, T)
    BY <1>1, <1>3 DEF Injection, IsInjective
  <2>2. IsFiniteSet(T) /\ Cardinality(T) = n
    <3>1. n - 1 \in Int /\ n - 1 - 0 + 1 = n /\ (0 > n - 1 => n = 0)
      OBVIOUS
    <3> QED BY <3>1, FS_Interval
  <2>5. Cardinality(1..n) = n
    BY FS_Interval
  <2>3. r \in Surjection(1..n, T)
    <3> HIDE DEF r, T
    <3> QED BY <2>1, <2>2, <2>5, FS_Injection
  <2>4. \A k \in 1..n: k - 1 \in T
    OBVIOUS
  <2> QED BY <2>3, <2>4 DEF Surjection
<1>5. \A k \in 1..n: order[k] \in 1..n /\ rank(order[k]) = k - 1
  BY <1>2, <1>4
<1>6. \A i \in 1..n: \E k \in 1..n: order[k] = i
  <2> SUFFICES ASSUME NEW i \in 1..n PROVE \E k \in 1..n: order[k] = i
    OBVIOUS
  <2>1. rank(i) + 1 \in 1..n /\ (rank(i) + 1) - 1 = rank(i)
    BY <1>1
  <2>2. order[rank(i) + 1] = i
    BY <1>3, <1>5, <2>1
  <2> QED BY <2>1, <2>2
<1>7. ASSUME NEW k \in 1..n, NEW l \in 1..n, k < l PROVE Precedes(f, order[k], order[l])
  <2>1. order[k] # order[l]
    BY <1>5, <1>7
  <2>2. ~Precedes(f, order[l], order[k])
    <3>1. ~(rank(order[l]) < rank(order[k]))
      BY <1>5, <1>7
    <3> QED BY <1>1, <1>5, <3>1
  <2> QED BY <1>5, <2>1, <2>2, FindingsAreOrdered
<1> QED
  BY <1>2, <1>5, <1>6, <1>7 DEF order

\* As many of them are shown to the model as it is asked about at once.
LEMMA ForTheModelIs ==
  ASSUME NEW n \in Nat, NEW f, f \in Seq(ToSet(f)), Len(f) = n
  PROVE  /\ Len(ForTheModel(f)) \in 0..n
         /\ \A i \in 1..Len(ForTheModel(f)): ForTheModel(f)[i] = Prioritized(f)[i]
         /\ f # <<>> => Len(ForTheModel(f)) > 0
<1> DEFINE m == IF n < MaxExplained THEN n ELSE MaxExplained
<1>1. DOMAIN f = 1..n
  OBVIOUS
<1>2. Prioritized(f) \in [1..n -> 1..n]
  BY <1>1, PrioritizedIs
<1>3. Prioritized(f) \in Seq(1..n) /\ Len(Prioritized(f)) = n
  BY <1>2
<1>4. m \in 0..n /\ (n > 0 => m > 0)
  BY PipelineAssumption
<1>5. ForTheModel(f) = SubSeq(Prioritized(f), 1, m)
  BY DEF ForTheModel
<1>6. f # <<>> => n > 0
  OBVIOUS
<1> HIDE DEF m
<1>7. Len(ForTheModel(f)) = m /\ \A i \in 1..m: ForTheModel(f)[i] = Prioritized(f)[i]
  BY <1>3, <1>4, <1>5
<1> QED
  BY <1>4, <1>6, <1>7

-------------------------------------------------------------------------------
(* The pads. *)

\* As many things as there are places, when no two places have the same.
LEMMA OneForEach ==
  ASSUME NEW T, IsFiniteSet(T), NEW g,
         \A p, q \in T: g[p] = g[q] => p = q
  PROVE  Cardinality({g[p]: p \in T}) = Cardinality(T)
<1> DEFINE h == [p \in T |-> g[p]]
           R == {g[p]: p \in T}
<1>1. h \in Surjection(T, R)
  BY DEF Surjection
<1>2. h \in Injection(T, R)
  BY DEF Injection, IsInjective
<1> HIDE DEF h, R
<1> QED
  BY <1>1, <1>2, FS_Surjection DEF R

\* Pads in two rows, in places of their own in each.
InTwoRows(g, rows) ==
  \E span \in Int:
    /\ span > 0
    /\ \A p \in 1..(2 * rows): g[p].number = p
    /\ \A p \in 1..rows: g[p].x = -span
    /\ \A p \in (rows + 1)..(2 * rows): g[p].x = span
    /\ \A p, q \in 1..(2 * rows): p # q /\ (p <= rows <=> q <= rows) => g[p].y # g[q].y

\* Each pad in a place of its own, and as many on the one side as on the other.
WellPlaced(pads, n) ==
  /\ Cardinality(pads) = n
  /\ \A p, q \in pads: p # q => <<p.x, p.y>> # <<q.x, q.y>>
  /\ Cardinality({p \in pads: p.x * 1 > 0}) = Cardinality({p \in pads: p.x * (-1) > 0})

LEMMA RowsArePlaced ==
  ASSUME NEW rows \in Nat, rows > 0, NEW g, InTwoRows(g, rows),
         NEW pads, pads = {g[p]: p \in 1..(2 * rows)}
  PROVE  WellPlaced(pads, 2 * rows)
<1>1. PICK span \in Int:
    /\ span > 0
    /\ \A p \in 1..(2 * rows): g[p].number = p
    /\ \A p \in 1..rows: g[p].x = -span
    /\ \A p \in (rows + 1)..(2 * rows): g[p].x = span
    /\ \A p, q \in 1..(2 * rows): p # q /\ (p <= rows <=> q <= rows) => g[p].y # g[q].y
  BY DEF InTwoRows
<1> DEFINE n == 2 * rows
           L == 1..rows
           R == (rows + 1)..n
<1>0. n \in Nat /\ n >= rows + 1 /\ n - (rows + 1) + 1 = rows
  OBVIOUS
<1>2. \A p, q \in 1..n: g[p] = g[q] => p = q
  BY <1>1
<1>3. /\ IsFiniteSet(1..n) /\ Cardinality(1..n) = n
  BY <1>0, FS_Interval
<1>4. /\ IsFiniteSet(L) /\ Cardinality(L) = rows
  <2>1. rows \in Int /\ ~(1 > rows) /\ rows - 1 + 1 = rows
    OBVIOUS
  <2> QED BY <2>1, FS_Interval
<1>5. /\ IsFiniteSet(R) /\ Cardinality(R) = rows
  <2>1. rows + 1 \in Int /\ n \in Int /\ ~(rows + 1 > n)
    BY <1>0
  <2>2. Cardinality(R) = n - (rows + 1) + 1 /\ IsFiniteSet(R)
    BY <2>1, FS_Interval
  <2> QED BY <1>0, <2>2
<1>6. L \subseteq 1..n /\ R \subseteq 1..n /\ 1..n = L \cup R
  BY <1>0
<1>7. Cardinality(pads) = n
  BY <1>2, <1>3, OneForEach
<1>8. {p \in pads: p.x * (-1) > 0} = {g[p]: p \in L}
  <2>1. \A p \in L: g[p].x * (-1) > 0
    BY <1>1
  <2>2. \A p \in R: ~(g[p].x * (-1) > 0)
    BY <1>1
  <2> QED BY <1>6, <2>1, <2>2
<1>9. {p \in pads: p.x * 1 > 0} = {g[p]: p \in R}
  <2>1. \A p \in R: g[p].x * 1 > 0
    BY <1>1
  <2>2. \A p \in L: ~(g[p].x * 1 > 0)
    BY <1>1
  <2> QED BY <1>6, <2>1, <2>2
<1>10. Cardinality({g[p]: p \in L}) = rows /\ Cardinality({g[p]: p \in R}) = rows
  <2>1. \A p, q \in L: g[p] = g[q] => p = q
    BY <1>2, <1>6
  <2>2. \A p, q \in R: g[p] = g[q] => p = q
    BY <1>2, <1>6
  <2> HIDE DEF L, R
  <2> QED BY <1>4, <1>5, <2>1, <2>2, OneForEach
<1>11. ASSUME NEW p \in 1..n, NEW q \in 1..n, p # q
       PROVE  <<g[p].x, g[p].y>> # <<g[q].x, g[q].y>>
  <2>1. CASE p <= rows <=> q <= rows
    BY <1>1, <1>11, <2>1
  <2>2. CASE p <= rows /\ ~(q <= rows)
    <3>1. p \in L /\ q \in R
      BY <1>0, <2>2
    <3> QED BY <1>1, <3>1
  <2>3. CASE ~(p <= rows) /\ q <= rows
    <3>1. q \in L /\ p \in R
      BY <1>0, <2>3
    <3> QED BY <1>1, <3>1
  <2> QED BY <2>1, <2>2, <2>3
<1>12. \A p, q \in pads: p # q => <<p.x, p.y>> # <<q.x, q.y>>
  BY <1>11
<1> QED
  BY <1>7, <1>8, <1>9, <1>10, <1>12 DEF WellPlaced

\* A row's places differ when its pitch is not zero.
LEMMA PitchTellsApart ==
  ASSUME NEW a \in Int, NEW b \in Int, NEW t \in Int, t > 0, a # b
  PROVE  a * t # b * t
<1>1. a < b \/ b < a
  OBVIOUS
<1>2. ASSUME NEW c \in Nat, c > 0 PROVE c * t > 0
  BY <1>2
<1>3. CASE a < b
  <2>1. (b - a) * t > 0
    BY <1>2, <1>3
  <2>2. (b - a) * t = b * t - a * t
    OBVIOUS
  <2>3. a * t \in Int /\ b * t \in Int
    OBVIOUS
  <2> QED BY <2>1, <2>2, <2>3
<1>4. CASE b < a
  <2>1. (a - b) * t > 0
    BY <1>2, <1>4
  <2>2. (a - b) * t = a * t - b * t
    OBVIOUS
  <2>3. a * t \in Int /\ b * t \in Int
    OBVIOUS
  <2> QED BY <2>1, <2>2, <2>3
<1> QED
  BY <1>1, <1>3, <1>4

\* A part that is accepted and can be drawn has pads that can be soldered, if its
\* body has a length and a width (generate_pad_layout).
LEMMA PadsArePlaced ==
  ASSUME NEW s \in Schemas, ValidSchema(s), Placeable(s), Apart(s) > 0
  PROVE  LET pads == Pads(s)
             sideOf(sign) == {p \in pads : p.x * sign > 0}
         IN /\ Cardinality(pads) = Len(s.pins)
            /\ \A p, q \in pads : p # q => <<p.x, p.y>> # <<q.x, q.y>>
            /\ Cardinality(sideOf(1)) = Cardinality(sideOf(-1))
<1> DEFINE ref == PackageReference[s.package]
           n == Len(s.pins)
<1>1. /\ s.pins \in Seq(ToSet(s.pins))
      /\ s.pitch \in Int /\ s.length \in Int /\ s.width \in Int
  BY PipelineAssumption
<1>2. n \in Nat /\ ToSet(s.pins) = 1..n
  BY <1>1 DEF Placeable, SimplyNumbered
<1>3. /\ s.package \in DOMAIN PackageReference
      /\ n \in {ref.count} \cup IF ref.exposed THEN {ref.count + 1} ELSE {}
      /\ ref.high = 0 \/ s.pitch \in ref.low..ref.high
  BY DEF ValidSchema, PinCountFits, PitchFits
<1>4. /\ ref.low \in Int /\ ref.high \in Int
      /\ ref.layout = "two" => ref.count = 2 /\ ~ref.exposed
      /\ ref.layout \in {"dual", "through"} =>
            /\ \E rows \in 1..ref.count: ref.count = 2 * rows
            /\ ~ref.exposed /\ ref.low > 0 /\ ref.high # 0
  BY <1>3, PipelineAssumption
<1>5. ref.layout = LayoutOf(s) /\ ref.layout \in {"two", "dual", "through"}
  BY DEF LayoutOf, Placeable
<1>6. CASE ref.layout = "two"
  <2> DEFINE g == [p \in 1..2 |-> TwoPinPad(s, p)]
             span == s.length - (s.length * 35) \div 100
  <2>1. n = 2
    BY <1>3, <1>4, <1>6
  <2>2. Pads(s) = {g[p]: p \in 1..(2 * 1)}
    BY <1>2, <1>5, <1>6, <2>1 DEF Pads
  <2>3. span \in Int /\ span > 0
    <3>1. s.length \in Int /\ s.length > 0
      BY <1>1, <1>5, <1>6 DEF Apart
    <3> QED BY <3>1
  <2>4. /\ g[1].number = 1 /\ g[2].number = 2
        /\ g[1].x = -span /\ g[2].x = span
    BY DEF TwoPinPad
  <2>5. InTwoRows(g, 1)
    <3> HIDE DEF g, span
    <3>1. \A p \in 1..2: p = 1 \/ p = 2
      OBVIOUS
    <3> QED BY <2>3, <2>4, <3>1 DEF InTwoRows
  <2> DEFINE pads == Pads(s)
  <2> HIDE DEF g
  <2>6. WellPlaced(pads, 2 * 1)
    <3> HIDE DEF pads
    <3>1. pads = {g[p]: p \in 1..(2 * 1)}
      BY <2>2 DEF pads
    <3> QED BY <2>5, <3>1, RowsArePlaced
  <2> QED BY <2>1, <2>6 DEF WellPlaced
<1>7. CASE ref.layout \in {"dual", "through"}
  <2>1. PICK rows \in Nat: rows > 0 /\ n = 2 * rows
    BY <1>3, <1>4, <1>7
  <2>2. s.pitch > 0
    BY <1>1, <1>3, <1>4, <1>7
  <2> DEFINE g == [p \in 1..n |-> DualRowPad(s, p)]
             span == RowSpan(s)
  <2>3. Pads(s) = {g[p]: p \in 1..(2 * rows)}
    BY <1>2, <1>5, <1>7, <2>1 DEF Pads
  <2>4. span \in Int /\ span > 0
    <3>1. Apart(s) = span
      BY <1>5, <1>7 DEF Apart
    <3> QED BY <1>1, <3>1 DEF RowSpan
  <2>5. Rows(s) = rows
    BY <2>1 DEF Rows
  <2>6. ASSUME NEW p \in 1..n
        PROVE  /\ g[p].number = p
               /\ g[p].x = (IF p <= rows THEN -span ELSE span)
               /\ g[p].y = (2 * RowIndex(s, p) - (rows - 1)) * s.pitch
    <3>1. g[p] = DualRowPad(s, p)
      OBVIOUS
    <3> HIDE DEF g
    <3> QED BY <2>5, <3>1 DEF DualRowPad
  <2>7. ASSUME NEW p \in 1..n, NEW q \in 1..n, p # q, p <= rows <=> q <= rows
        PROVE  g[p].y # g[q].y
    <3> DEFINE a == 2 * RowIndex(s, p) - (rows - 1)
               b == 2 * RowIndex(s, q) - (rows - 1)
    <3>1. a \in Int /\ b \in Int /\ a # b
      BY <2>1, <2>5, <2>7 DEF RowIndex
    <3>2. g[p].y = a * s.pitch /\ g[q].y = b * s.pitch
      BY <2>6
    <3> HIDE DEF a, b, g
    <3>3. a * s.pitch # b * s.pitch
      BY <1>1, <2>2, <3>1, PitchTellsApart
    <3> QED BY <3>2, <3>3
  <2>8. InTwoRows(g, rows)
    <3> HIDE DEF g, span
    <3>1. /\ \A p \in 1..rows: p \in 1..n /\ p <= rows
          /\ \A p \in (rows + 1)..(2 * rows): p \in 1..n /\ ~(p <= rows)
      BY <2>1
    <3>2. \A p \in 1..rows: g[p].x = -span
      BY <2>6, <3>1
    <3>3. \A p \in (rows + 1)..(2 * rows): g[p].x = span
      BY <2>6, <3>1
    <3> QED BY <2>1, <2>4, <2>6, <2>7, <3>2, <3>3 DEF InTwoRows
  <2> DEFINE pads == Pads(s)
  <2> HIDE DEF g
  <2>9. WellPlaced(pads, 2 * rows)
    <3> HIDE DEF pads
    <3>1. pads = {g[p]: p \in 1..(2 * rows)}
      BY <2>3 DEF pads
    <3> QED BY <2>1, <2>8, <3>1, RowsArePlaced
  <2> QED BY <2>1, <2>9 DEF WellPlaced
<1> QED
  BY <1>5, <1>6, <1>7

-------------------------------------------------------------------------------
(* What is made of the answers. *)

\* What a route makes of the answer that it does not ask again after.
Settled(answer) ==
  CASE request.kind = "component" ->
         IF answer.is = "schema" /\ ValidSchema(answer.schema)
         THEN [is |-> "schema", schema |-> answer.schema] ELSE Failed(answer)
    [] request.kind = "suggest" -> OnSuggestions(answer)
    [] request.kind \in ListKinds -> OnList(answer)
    [] OTHER -> OnExplanation(answer)

AskedNoModel ==
  /\ request.kind = "explain" /\ request.findings = <<>> /\ replies = <<>>
  /\ outcome = [is |-> "findings", failed |-> FALSE, told |-> <<>>]

MadeOf(answer) ==
  /\ answer \in AnswersTo(request)
  /\ \/ replies = <<answer>>
     \/ request.kind = "component" /\ replies = <<Unreadable, answer>>
  /\ outcome = Settled(answer)

\* The inductive invariant: what came out was made of the last answer, and one
\* before it was an extraction's that could not be read.
PipeIInv ==
  /\ request \in {NoRequest} \cup Questions
  /\ request = NoRequest => replies = <<>> /\ outcome = NoOutcome
  /\ outcome = NoOutcome =>
        \/ replies = <<>>
        \/ request.kind = "component" /\ replies = <<Unreadable>>
  /\ outcome # NoOutcome => AskedNoModel \/ \E answer \in AnswersTo(request): MadeOf(answer)

\* The answers of a route are at most two.
LEMMA OneOrTwo ==
  ASSUME NEW a, NEW b
  PROVE  /\ Append(<<>>, b) = <<b>> /\ Append(<<a>>, b) = <<a, b>>
         /\ Last(<<b>>) = b /\ Last(<<a, b>>) = b
         /\ Len(<<b>>) = 1 /\ Len(<<a, b>>) = 2 /\ <<a, b>>[1] = a
<1>1. <<>> \in Seq({a, b}) /\ <<a>> \in Seq({a, b}) /\ <<a, b>> \in Seq({a, b})
  OBVIOUS
<1>2. Len(<<b>>) = 1 /\ Len(<<a, b>>) = 2 /\ <<a, b>>[1] = a /\ <<a, b>>[2] = b /\ <<b>>[1] = b
  OBVIOUS
<1>3. Append(<<>>, b) = <<b>>
  OBVIOUS
<1>4. Append(<<a>>, b) = <<a, b>>
  <2> DEFINE s == <<a>>
             t == Append(s, b)
             u == <<a, b>>
  <2>1. s \in Seq({a, b}) /\ Len(s) = 1 /\ s[1] = a
    OBVIOUS
  <2> HIDE DEF s
  <2>2. t \in Seq({a, b}) /\ Len(t) = 2 /\ t[1] = a /\ t[2] = b
    <3>1. /\ t \in Seq({a, b}) /\ Len(t) = Len(s) + 1
          /\ \A i \in 1..Len(s): t[i] = s[i]
          /\ t[Len(s) + 1] = b
      <4> DEFINE S == {a, b}
      <4>1. s \in Seq(S) /\ b \in S
        BY <2>1
      <4> HIDE DEF S
      <4>2. t \in Seq(S) /\ Len(t) = Len(s) + 1
        BY <4>1
      <4>3. \A i \in 1..Len(s): t[i] = s[i]
        BY <4>1
      <4>4. t[Len(s) + 1] = b
        BY <4>1
      <4> QED BY <4>2, <4>3, <4>4 DEF S
    <3> HIDE DEF t
    <3> QED BY <2>1, <3>1
  <2>3. u \in Seq({a, b}) /\ Len(u) = 2 /\ u[1] = a /\ u[2] = b
    BY <1>1, <1>2
  <2> HIDE DEF t, u
  <2>4. t = u
    <3>1. \A i \in 1..2: i = 1 \/ i = 2
      OBVIOUS
    <3>2. \A i \in 1..2: t[i] = u[i]
      BY <2>2, <2>3, <3>1
    <3> QED BY <2>2, <2>3, <3>2
  <2> QED BY <2>4 DEF s, t, u
<1>5. Last(<<b>>) = b /\ Last(<<a, b>>) = b
  BY <1>2 DEF Last
<1> QED
  BY <1>2, <1>3, <1>4, <1>5

LEMMA FunctionsAreLists ==
  ASSUME NEW n \in Nat, NEW S, NEW t \in [1..n -> S]
  PROVE  t \in Seq(S) /\ Len(t) = n /\ DOMAIN t = 1..n
OBVIOUS

LEMMA RepliesAreKept ==
  ASSUME PipeIInv, ModelReplies
  PROVE  PipeIInv'
<1> USE DEF PipeIInv
<1>1. /\ request # NoRequest /\ outcome = NoOutcome /\ UNCHANGED request
      /\ request \in Questions
  BY DEF ModelReplies
<1>2. PICK answer \in AnswersTo(request):
         replies' = Append(replies, answer) /\ outcome' = OutcomeOf(answer)
  BY DEF ModelReplies
<1>3. \/ replies = <<>> /\ replies' = <<answer>>
      \/ request.kind = "component" /\ replies = <<Unreadable>> /\ replies' = <<Unreadable, answer>>
  <2>1. replies = <<>> \/ (request.kind = "component" /\ replies = <<Unreadable>>)
    BY <1>1
  <2> QED BY <1>2, <2>1, OneOrTwo
<1>4. AnswersTo(request') = AnswersTo(request)
  BY <1>1
<1>5. CASE outcome' = Settled(answer) /\ outcome' # NoOutcome
  <2>1. Settled(answer)' = Settled(answer)
    BY <1>1 DEF Settled, OnSuggestions, OnList, OnExplanation
  <2>2. MadeOf(answer)'
    <3>1. answer \in AnswersTo(request)'
      BY <1>2, <1>4
    <3>2. outcome' = (Settled(answer))'
      BY <1>5, <2>1
    <3> HIDE DEF PipeIInv
    <3> QED BY <1>1, <1>3, <3>1, <3>2 DEF MadeOf
  <2>3. \E a \in AnswersTo(request)': MadeOf(a)'
    BY <1>2, <1>4, <2>2
  <2> QED BY <1>1, <1>5, <2>3
<1>6. CASE request.kind = "component"
  <2>1. OutcomeOf(answer) = OnExtraction(answer)
    BY <1>6 DEF OutcomeOf, ListKinds
  <2>2. Settled(answer) = IF answer.is = "schema" /\ ValidSchema(answer.schema)
                          THEN [is |-> "schema", schema |-> answer.schema] ELSE Failed(answer)
    BY <1>6 DEF Settled, ListKinds
  <2>3. Settled(answer) # NoOutcome
    BY <2>2 DEF Failed, NoOutcome
  <2>4. CASE ~(answer.is = "schema" /\ ValidSchema(answer.schema))
             /\ Retryable(answer) /\ Len(replies) + 1 < MaxAttempts
    <3>1. outcome' = NoOutcome /\ answer = Unreadable
      BY <1>2, <2>1, <2>4 DEF OnExtraction, Retryable
    <3>2. replies = <<>>
      <4>1. Len(<<Unreadable>>) + 1 = 2
        OBVIOUS
      <4> QED BY <1>3, <2>4, <4>1 DEF MaxAttempts
    <3> QED BY <1>1, <1>3, <1>6, <3>1, <3>2
  <2>5. CASE ~(~(answer.is = "schema" /\ ValidSchema(answer.schema))
               /\ Retryable(answer) /\ Len(replies) + 1 < MaxAttempts)
    <3>1. OnExtraction(answer) = Settled(answer)
      BY <2>2, <2>5 DEF OnExtraction
    <3> QED BY <1>2, <1>5, <2>1, <2>3, <3>1
  <2> QED BY <2>4, <2>5
<1>7. CASE request.kind # "component"
  <2>1. OutcomeOf(answer) = Settled(answer)
    BY <1>7 DEF OutcomeOf, Settled
  <2>2. Settled(answer) # NoOutcome
    <3>1. OnList(answer) # NoOutcome
      BY DEF OnList, Failed, NoOutcome
    <3>2. OnSuggestions(answer) # NoOutcome
      BY DEF OnSuggestions, Suggestions, Listed, Asked, Failed, NoOutcome
    <3>3. OnExplanation(answer) # NoOutcome
      BY DEF OnExplanation, NoOutcome
    <3> QED BY <1>7, <3>1, <3>2, <3>3 DEF Settled
  <2> QED BY <1>2, <1>5, <2>1, <2>2
<1> QED
  BY <1>6, <1>7

THEOREM PipeInvariant == PipelineSpec => []PipeIInv
<1>1. PipelineInit => PipeIInv
  BY DEF PipelineInit, PipeIInv
<1>2. PipeIInv /\ [PipelineNext]_pipelineVars => PipeIInv'
  <2> SUFFICES ASSUME PipeIInv, [PipelineNext]_pipelineVars PROVE PipeIInv'
    OBVIOUS
  <2>1. CASE UNCHANGED pipelineVars
    <3>1. UNCHANGED <<request, replies, outcome>>
      BY <2>1 DEF pipelineVars
    <3> QED BY <3>1 DEF PipeIInv, AskedNoModel, MadeOf, Settled, OnSuggestions, OnList,
                        OnExplanation
  <2>2. CASE Submit
    BY <2>2 DEF Submit, PipeIInv
  <2>3. CASE CleanCheck
    <3>1. /\ AskedNoModel' /\ UNCHANGED request /\ request # NoRequest
          /\ outcome' # NoOutcome
      BY <2>3 DEF CleanCheck, AskedNoModel, PipeIInv, NoRequest, NoOutcome
    <3> QED BY <3>1 DEF PipeIInv
  <2>4. CASE ModelReplies
    BY <2>4, RepliesAreKept
  <2> QED BY <2>1, <2>2, <2>3, <2>4 DEF PipelineNext
<1> QED
  BY <1>1, <1>2, PTL DEF PipelineSpec

\* An accepted part whose package can be laid out, and whose body has a size where
\* its pads go, gets one pad for each pin, the pads in places of their own, and as
\* many on the one side as on the other, whatever schemas the models answer with
\* (validate_schema and generate_pad_layout).
THEOREM PartsArePlaced == PipelineSpec => []AcceptedCanBePlaced
<1>1. PipeIInv => AcceptedCanBePlaced
  <2> SUFFICES ASSUME PipeIInv, outcome.is = "schema", Placeable(outcome.schema),
                      Apart(outcome.schema) > 0
               PROVE  AcceptedCanBePlaced
    BY DEF AcceptedCanBePlaced
  <2>1. outcome # NoOutcome /\ ~AskedNoModel
    BY DEF NoOutcome, AskedNoModel
  <2>2. PICK answer \in AnswersTo(request): MadeOf(answer)
    BY <2>1 DEF PipeIInv
  <2>3. outcome = Settled(answer)
    BY <2>2 DEF MadeOf
  <2>4. /\ OnSuggestions(answer).is # "schema" /\ OnExplanation(answer).is # "schema"
        /\ OnList(answer).is # "schema" /\ Failed(answer).is # "schema"
    BY DEF OnSuggestions, Suggestions, Listed, Asked, OnExplanation, OnList, Failed
  <2>5. /\ request.kind = "component" /\ answer.is = "schema" /\ ValidSchema(answer.schema)
        /\ outcome = [is |-> "schema", schema |-> answer.schema]
    BY <2>3, <2>4 DEF Settled
  <2>6. answer.schema \in Schemas
    BY <2>5 DEF AnswersTo, Answers, Unreadable, NoSetup
  <2>7. outcome.schema = answer.schema
    BY <2>5
  <2> QED BY <2>5, <2>6, <2>7, PadsArePlaced DEF AcceptedCanBePlaced
<1> QED
  BY <1>1, PipeInvariant, PTL

LEMMA MadeOfTheLast ==
  ASSUME NEW answer, MadeOf(answer)
  PROVE  /\ Len(replies) \in {1, 2} /\ Last(replies) = answer
         /\ Len(replies) = 2 => replies[1] = Unreadable /\ request.kind = "component"
         /\ outcome = Settled(answer)
<1>1. outcome = Settled(answer)
  BY DEF MadeOf
<1>2. CASE replies = <<answer>>
  <2>1. Len(replies) = 1 /\ Last(replies) = answer
    BY <1>2, OneOrTwo
  <2> QED BY <1>1, <2>1
<1>3. CASE request.kind = "component" /\ replies = <<Unreadable, answer>>
  <2>1. Len(replies) = 2 /\ Last(replies) = answer /\ replies[1] = Unreadable
    BY <1>3, OneOrTwo
  <2> QED BY <1>1, <1>3, <2>1
<1> QED
  BY <1>2, <1>3 DEF MadeOf

LEMMA RetriesAreRight ==
  ASSUME PipeIInv PROVE AskedAgainOnlyWhenUnreadable
<1>1. CASE outcome = NoOutcome
  <2>1. outcome.is \notin {"schema", "list", "setup"}
    BY <1>1 DEF NoOutcome
  <2>2. Len(replies) \in {0, 1}
    BY <1>1 DEF PipeIInv
  <2>3. \A i: i \notin 1..(Len(replies) - 1)
    <3>1. CASE Len(replies) = 0
      BY <3>1
    <3>2. CASE Len(replies) = 1
      BY <3>2
    <3> QED BY <2>2, <3>1, <3>2
  <2> QED BY <2>1, <2>2, <2>3 DEF AskedAgainOnlyWhenUnreadable, MaxAttempts
<1>2. CASE AskedNoModel
  <2>1. outcome.is \notin {"schema", "list", "setup"} /\ Len(replies) = 0
    BY <1>2 DEF AskedNoModel
  <2> QED BY <2>1 DEF AskedAgainOnlyWhenUnreadable, MaxAttempts
<1>3. ASSUME NEW answer \in AnswersTo(request), MadeOf(answer)
      PROVE  AskedAgainOnlyWhenUnreadable
  <2>1. /\ Len(replies) \in {1, 2} /\ Last(replies) = answer
        /\ Len(replies) = 2 => replies[1] = Unreadable /\ request.kind = "component"
    BY <1>3, MadeOfTheLast
  <2>2. outcome = Settled(answer)
    BY <1>3 DEF MadeOf
  <2>3. /\ Failed(answer).is \in {"setup", "refused"}
        /\ Failed(answer).is = "setup" => answer = NoSetup
    BY DEF Failed
  <2>4. /\ OnList(answer).is = "list" => OnList(answer).list = answer.list
        /\ OnList(answer).is # "schema"
        /\ OnList(answer).is = "setup" => answer = NoSetup
    BY <2>3 DEF OnList
  <2>5. /\ OnSuggestions(answer).is \notin {"schema", "list"}
        /\ OnSuggestions(answer).is = "setup" => answer = NoSetup
    BY <2>3 DEF OnSuggestions, Suggestions, Listed, Asked
  <2>6. OnExplanation(answer).is \notin {"schema", "list", "setup"}
    BY DEF OnExplanation
  <2>7. /\ outcome.is = "schema" => answer.schema = outcome.schema
        /\ outcome.is = "list" => answer.list = outcome.list
        /\ outcome.is = "setup" => answer = NoSetup
    <3>1. CASE request.kind = "component"
      BY <2>2, <2>3, <3>1 DEF Settled, ListKinds
    <3>2. CASE request.kind # "component"
      BY <2>2, <2>4, <2>5, <2>6, <3>2 DEF Settled
    <3> QED BY <3>1, <3>2
  <2>8. \A i \in 1..(Len(replies) - 1): i = 1 /\ Len(replies) = 2
    <3>1. CASE Len(replies) = 1
      BY <3>1
    <3>2. CASE Len(replies) = 2
      BY <3>2
    <3> QED BY <2>1, <3>1, <3>2
  <2> QED BY <2>1, <2>7, <2>8 DEF AskedAgainOnlyWhenUnreadable, MaxAttempts
<1> QED
  BY <1>1, <1>2, <1>3 DEF PipeIInv

\* The last of the entries of an index, when there is one.
LEMMA EntryIs ==
  ASSUME NEW m \in Nat, NEW entries, DOMAIN entries = 1..m, NEW i,
         \E k \in 1..m: entries[k] = i
  PROVE  EntryOf(entries, i) \in 1..m /\ entries[EntryOf(entries, i)] = i
<1> DEFINE T == {m - k: k \in {k \in 1..m: entries[k] = i}}
<1>1. T \in SUBSET Nat /\ T # {}
  OBVIOUS
<1>2. PICK x \in T: \A y \in T: x <= y
  BY <1>1, SomeLeast
<1>3. PICK k \in 1..m: entries[k] = i /\ x = m - k
  OBVIOUS
<1>4. \A j \in 1..m: entries[j] = i => j <= k
  <2> SUFFICES ASSUME NEW j \in 1..m, entries[j] = i PROVE j <= k
    OBVIOUS
  <2>1. m - j \in T
    OBVIOUS
  <2>2. m - k <= m - j
    BY <1>2, <1>3, <2>1
  <2> QED BY <2>2
<1>5. \E k1 \in DOMAIN entries: entries[k1] = i /\ \A j \in DOMAIN entries: entries[j] = i => j <= k1
  BY <1>3, <1>4
<1> QED
  BY <1>5 DEF EntryOf

\* What is told of the findings of a check, and with which texts.
Tells(f, told, failed, entries) ==
  /\ Len(told) = Len(f)
  /\ {told[i].finding: i \in DOMAIN told} = DOMAIN f
  /\ ~failed =>
        \A i \in DOMAIN told:
           IF told[i].entry # 0
           THEN Prioritized(f)[entries[told[i].entry] + 1] = told[i].finding
           ELSE \A j \in DOMAIN told: told[j].entry # 0 =>
                   SeverityOrder(f[told[j].finding]) <= SeverityOrder(f[told[i].finding])

LEMMA ExplainedTells ==
  ASSUME NEW f, f \in Seq(ToSet(f)), NEW entries, NEW m \in Nat, DOMAIN entries = 1..m,
         ExplainsAll(entries, Len(ForTheModel(f)))
  PROVE  Tells(f, Explained(f, entries), FALSE, entries)
<1> DEFINE n == Len(f)
           shown == Len(ForTheModel(f))
           order == Prioritized(f)
           told == Explained(f, entries)
<1>1. n \in Nat /\ DOMAIN f = 1..n
  OBVIOUS
<1>2. /\ order \in [1..n -> 1..n]
      /\ \A i \in 1..n: \E k \in 1..n: order[k] = i
      /\ \A k, l \in 1..n: k < l => Precedes(f, order[k], order[l])
  BY <1>1, PrioritizedIs
<1>3. shown \in 0..n
  BY <1>1, ForTheModelIs
<1>4. told = [i \in 1..n |-> [finding |-> order[i],
                              entry |-> IF i <= shown THEN EntryOf(entries, i - 1) ELSE 0]]
  BY <1>2 DEF Explained
<1>5. ToSet(entries) = 0..(shown - 1)
  BY DEF ExplainsAll
<1> HIDE DEF n, shown, order, told
<1>6. ASSUME NEW i \in 1..n, i <= shown
      PROVE  /\ EntryOf(entries, i - 1) \in 1..m
             /\ entries[EntryOf(entries, i - 1)] = i - 1
  <2>1. i - 1 \in ToSet(entries)
    BY <1>1, <1>3, <1>5, <1>6
  <2>2. \E k \in 1..m: entries[k] = i - 1
    BY <2>1 DEF ToSet
  <2> QED BY <2>2, EntryIs
<1>7. told \in Seq([finding: 1..n, entry: Nat]) /\ Len(told) = n /\ DOMAIN told = 1..n
  <2>1. \A i \in 1..n: (IF i <= shown THEN EntryOf(entries, i - 1) ELSE 0) \in Nat
    BY <1>6
  <2>2. told \in [1..n -> [finding: 1..n, entry: Nat]]
    BY <1>2, <1>4, <2>1
  <2> QED BY <1>1, <2>2, FunctionsAreLists
<1>8. {told[i].finding: i \in 1..n} = 1..n
  BY <1>2, <1>4
<1>9. ASSUME NEW i \in 1..n
      PROVE  IF told[i].entry # 0
             THEN order[entries[told[i].entry] + 1] = told[i].finding
             ELSE \A j \in 1..n: told[j].entry # 0 =>
                     SeverityOrder(f[told[j].finding]) <= SeverityOrder(f[told[i].finding])
  <2>1. CASE i <= shown
    <3>1. told[i].entry \in 1..m /\ entries[told[i].entry] = i - 1
      BY <1>4, <1>6, <2>1
    <3>2. told[i].finding = order[i] /\ told[i].entry # 0 /\ (i - 1) + 1 = i
      BY <1>4, <3>1
    <3> QED BY <3>1, <3>2
  <2>2. CASE ~(i <= shown)
    <3>1. told[i].entry = 0 /\ told[i].finding = order[i]
      BY <1>4, <2>2
    <3>2. ASSUME NEW j \in 1..n, told[j].entry # 0
          PROVE  SeverityOrder(f[told[j].finding]) <= SeverityOrder(f[told[i].finding])
      <4>1. j <= shown /\ told[j].finding = order[j]
        BY <1>4, <3>2
      <4>2. j < i
        BY <1>1, <1>3, <2>2, <4>1
      <4>3. Precedes(f, order[j], order[i]) /\ order[i] \in 1..n /\ order[j] \in 1..n
        BY <1>2, <4>2
      <4> QED BY <1>1, <3>1, <4>1, <4>3, FindingsAreOrdered
    <3> QED BY <3>1, <3>2
  <2> QED BY <2>1, <2>2
<1> QED
  BY <1>1, <1>7, <1>8, <1>9 DEF Tells, n, order, told

LEMMA FindingsAreTold ==
  ASSUME PipeIInv PROVE EveryFindingTold /\ ExplanationFits
<1> SUFFICES ASSUME outcome.is = "findings" PROVE EveryFindingTold /\ ExplanationFits
  BY DEF EveryFindingTold, ExplanationFits
<1>1. outcome # NoOutcome
  BY DEF NoOutcome
<1>2. CASE AskedNoModel
  <2>1. /\ outcome.told = <<>> /\ request.findings = <<>>
    BY <1>2 DEF AskedNoModel
  <2> QED BY <2>1 DEF EveryFindingTold, ExplanationFits
<1>3. ASSUME NEW answer \in AnswersTo(request), MadeOf(answer)
      PROVE  EveryFindingTold /\ ExplanationFits
  <2> DEFINE f == request.findings
             good == answer.is = "entries" /\ ExplainsAll(answer.entries, Len(ForTheModel(f)))
  <2>1. /\ Last(replies) = answer /\ outcome = Settled(answer)
    BY <1>3, MadeOfTheLast
  <2>2. /\ OnList(answer).is # "findings" /\ OnSuggestions(answer).is # "findings"
        /\ Failed(answer).is # "findings"
    BY DEF OnList, OnSuggestions, Suggestions, Listed, Asked, Failed
  <2>3. /\ request.kind \notin {"component", "suggest"} \cup ListKinds
        /\ outcome = OnExplanation(answer)
    BY <2>1, <2>2 DEF Settled
  <2>4. request \in Questions /\ f \in FindingLists
    <3>1. request # NoRequest
      BY <1>1 DEF PipeIInv
    <3>2. request \in Questions
      BY <3>1 DEF PipeIInv
    <3> QED BY <2>3, <3>2 DEF Questions
  <2>5. f \in Seq(ToSet(f))
    BY <2>4, PipelineAssumption
  <2>6. outcome = [is |-> "findings", failed |-> ~good,
                   told |-> IF good THEN Explained(f, answer.entries) ELSE Plainly(f)]
    BY <2>3 DEF OnExplanation
  <2>7. CASE good
    <3>1. answer \in {[is |-> "entries", entries |-> e]:
                        e \in ExplanationLists(Len(ForTheModel(f)))}
      BY <2>3, <2>7 DEF AnswersTo, Answers, Unreadable, NoSetup
    <3>2. Len(ForTheModel(f)) \in Nat
      BY <2>5, ForTheModelIs
    <3>3. \E m \in Nat: DOMAIN answer.entries = 1..m
      BY <3>1, <3>2 DEF ExplanationLists
    <3>4. Tells(f, Explained(f, answer.entries), FALSE, answer.entries)
      BY <2>5, <2>7, <3>3, ExplainedTells
    <3>5. outcome.told = Explained(f, answer.entries)
      BY <2>6, <2>7
    <3> HIDE DEF good
    <3> QED BY <2>1, <3>4, <3>5 DEF Tells, EveryFindingTold, ExplanationFits
  <2>8. CASE ~good
    <3>1. outcome.told = Plainly(f) /\ outcome.failed
      BY <2>6, <2>8
    <3>2. Len(Plainly(f)) = Len(f) /\ DOMAIN Plainly(f) = DOMAIN f
      <4>1. Plainly(f) \in [1..Len(f) -> [finding: 1..Len(f), entry: {0}]]
        BY <2>5 DEF Plainly
      <4> QED BY <2>5, <4>1
    <3>3. {Plainly(f)[i].finding: i \in DOMAIN f} = DOMAIN f
      BY DEF Plainly
    <3> QED BY <3>1, <3>2, <3>3 DEF EveryFindingTold, ExplanationFits
  <2> QED BY <2>7, <2>8
<1> QED
  BY <1>1, <1>2, <1>3 DEF PipeIInv

LEMMA SuggestionsFollow ==
  ASSUME PipeIInv PROVE SuggestionsAreHonest
<1> SUFFICES ASSUME outcome.is = "suggestions" PROVE SuggestionsAreHonest
  BY DEF SuggestionsAreHonest
<1>1. outcome # NoOutcome /\ ~AskedNoModel
  BY DEF NoOutcome, AskedNoModel
<1>2. PICK answer \in AnswersTo(request): MadeOf(answer)
  BY <1>1 DEF PipeIInv
<1>3. Last(replies) = answer /\ outcome = Settled(answer)
  BY <1>2, MadeOfTheLast
<1>4. /\ OnList(answer).is # "suggestions" /\ OnExplanation(answer).is # "suggestions"
      /\ Failed(answer).is # "suggestions"
  BY DEF OnList, OnExplanation, Failed
<1>5. request.kind = "suggest" /\ outcome = OnSuggestions(answer)
  BY <1>3, <1>4 DEF Settled
<1>6. answer.is = "suggestions" /\ outcome = Suggestions(answer.reply)
  BY <1>4, <1>5 DEF OnSuggestions
<1>7. answer.reply \in SuggestionLists
  BY <1>2, <1>5, <1>6 DEF AnswersTo, Answers, Unreadable, NoSetup
<1> DEFINE r == answer.reply
<1>8. r.ready \in BOOLEAN
  BY <1>7, PipelineAssumption
<1>9. CASE r.ready
  <2>1. outcome = Listed(r)
    BY <1>6, <1>9 DEF Suggestions
  <2>2. /\ outcome.ready = TRUE
        /\ outcome.given = {i \in DOMAIN r.entries: r.entries[i] = "kind"}
        /\ outcome.rejected = {i \in DOMAIN r.entries: r.entries[i] # "kind"}
    BY <1>8, <1>9, <2>1 DEF Listed
  <2> QED BY <1>3, <2>2 DEF SuggestionsAreHonest
<1>10. CASE ~r.ready
  <2>1. r.question /\ outcome = Asked
    BY <1>6, <1>10 DEF Suggestions
  <2>2. outcome.ready = FALSE /\ outcome.given = {}
    BY <2>1 DEF Asked
  <2> QED BY <1>3, <2>1, <2>2 DEF SuggestionsAreHonest
<1> QED
  BY <1>9, <1>10

\* What a route tells of a model's answers is what they say, for any findings,
\* entries and limits: only what could not be read is asked for again, every
\* finding is told once and with its own text, and each suggestion is shown or
\* named as rejected.
THEOREM AnswersAreTrue == PipelineSpec => []AnswersTruthful
<1>1. PipeIInv => AnswersTruthful
  BY RetriesAreRight, FindingsAreTold, SuggestionsFollow DEF AnswersTruthful
<1> QED
  BY <1>1, PipeInvariant, PTL

-------------------------------------------------------------------------------
(* All the parts: MCDevices.                                               *)

\* A behaviour of the parts together is one of each part: a step of one leaves
\* the others as they are.
LEMMA EachPart ==
    DevicesSpec => /\ DruSpec /\ EnclosureSpec /\ LinkSpec
                   /\ PackSpec /\ PipelineSpec /\ SetupSpec
  <1>1. DevicesInit => /\ DruInit /\ EnclosureInit /\ LinkInit
                       /\ PackInit /\ PipelineInit /\ SetupInit
    BY DEF DevicesInit
  <1>2. [DevicesNext]_devicesVars => [DruNext]_druVars
    BY DEF DevicesNext, devicesVars, DruOnly, EnclosureOnly, LinkOnly, PacksOnly,
           PipelineOnly, SetupOnly
  <1>3. [DevicesNext]_devicesVars => [EnclosureNext]_enclosureVars
    BY DEF DevicesNext, devicesVars, DruOnly, EnclosureOnly, LinkOnly, PacksOnly,
           PipelineOnly, SetupOnly
  <1>4. [DevicesNext]_devicesVars => [LinkNext]_linkVars
    BY DEF DevicesNext, devicesVars, DruOnly, EnclosureOnly, LinkOnly, PacksOnly,
           PipelineOnly, SetupOnly
  <1>5. [DevicesNext]_devicesVars => [SetupNext]_setupVars
    BY DEF DevicesNext, devicesVars, DruOnly, EnclosureOnly, LinkOnly, PacksOnly,
           PipelineOnly, SetupOnly
  <1>6. [DevicesNext]_devicesVars => [PackNext]_packVars
    BY DEF DevicesNext, devicesVars, DruOnly, EnclosureOnly, LinkOnly, PacksOnly,
           PipelineOnly, SetupOnly
  <1>7. [DevicesNext]_devicesVars => [PipelineNext]_pipelineVars
    BY DEF DevicesNext, devicesVars, DruOnly, EnclosureOnly, LinkOnly, PacksOnly,
           PipelineOnly, SetupOnly
  <1> QED
    BY <1>1, <1>2, <1>3, <1>4, <1>5, <1>6, <1>7, PTL
       DEF DevicesSpec, DruSpec, EnclosureSpec, LinkSpec, PackSpec, PipelineSpec, SetupSpec

\* Every variable of every part has its type, with one check at a time.
THEOREM DevicesTypes ==
    ASSUME NEW CONSTANT one, Checks = {one}
    PROVE  DevicesSpec => []DevicesTypeOK
  <1>1. DruSpec => []DruTypeOK
    BY DruTypes
  <1>2. DruTypeOK /\ EnclosureTypeOK /\ LinkTypeOK /\ SetupTypeOK => DevicesTypeOK
    BY DEF DevicesTypeOK
  <1> QED
    BY <1>1, <1>2, EachPart, EnclosureTypes, LinkTypeCorrect, SetupTypes, PTL

===============================================================================
