----------------------------- MODULE EnclosureJobs -----------------------------
(***************************************************************************)
(* freecad.generate_enclosure and freecad.export_enclosure                  *)
(* (freecad_bridge.py, daemon.py, EnclosurePanel.tsx).  Each build is a job *)
(* thread that writes a script, runs FreeCAD on it, polls it, turns what it *)
(* left into a preview, removes the preview before, and cleans up.  FreeCAD *)
(* is a process of its own.  The panel's button starts one build at a time; *)
(* its menu command starts one whatever runs.                               *)
(*                                                                         *)
(* A file is its kind and the build whose id is in its name.  A read of a   *)
(* module global, a removal and a write are steps of their own.             *)
(***************************************************************************)
EXTENDS Integers, Sequences, FiniteSets, SequencesExt

CONSTANTS
    Builds,   \* the builds, each started at most once
    MayExport \* whether the user exports a preview (bound)

NoBuild == "no build"
ASSUME EnclosureAssumption == NoBuild \notin Builds /\ MayExport \in BOOLEAN

VARIABLES
    encFiles,   \* the files on disk, <<kind, build>>
    encLid,     \* encLid[b]: build b has a lid
    encPc,      \* encPc[b]: the next step of its job thread
    freecad,    \* freecad[b]: "none", "running", "ok", "bad": how it has ended
    cancelled,  \* the builds whose cancel_event is set
    lastOutput, \* lastOutput[kind]: _last_glb_path and the like
    preview,    \* the build that the panel shows, or NoBuild
    exportJob,  \* the export: its step, its build
    crossed     \* two builds have run at once

enclosureVars == <<encFiles, encLid, encPc, freecad, cancelled, lastOutput, preview,
                   exportJob, crossed>>

-------------------------------------------------------------------------------
(* Files.  The temporary ones are removed at the end, the others are output. *)

Temporary == {"script", "stl", "lidStl"}
Outputs == <<"glb", "step", "lidGlb", "lidStep">>
OutputKinds == ToSet(Outputs)

On(kind, b) == <<kind, b>> \in encFiles

\* What the script makes FreeCAD write, in order (_BUILD_SCRIPT_TEMPLATE,
\* _HOLLOW_SHELL_SCRIPT_TEMPLATE, _LID_BODY_LINES_TEMPLATE).
Scripted(b) ==
    IF encLid[b] THEN <<"stl", "step", "lidStl", "lidStep">> ELSE <<"stl", "step">>

\* The steps of a swap, by the kind of the output, and of the end.
Checking == [glb |-> "check:glb", step |-> "check:step",
             lidGlb |-> "check:lidGlb", lidStep |-> "check:lidStep"]
Removing == [glb |-> "remove:glb", step |-> "remove:step",
             lidGlb |-> "remove:lidGlb", lidStep |-> "remove:lidStep"]
Setting == [glb |-> "set:glb", step |-> "set:step",
            lidGlb |-> "set:lidGlb", lidStep |-> "set:lidStep"]
Cleaning == [result |-> "clean:result", failed |-> "clean:failed",
            cancelled |-> "clean:cancelled"]

InJob(b) == encPc[b] \notin {"idle", "result", "failed", "cancelled"}

\* The order of the swaps: glb and step, then the lid's if there is one.
AfterSwap(b, kind) ==
    CASE kind = "glb" -> "check:step"
      [] kind = "step" -> IF encLid[b] THEN "lidGlb" ELSE "clean:result"
      [] kind = "lidGlb" -> "check:lidStep"
      [] OTHER -> "clean:result"

-------------------------------------------------------------------------------

EnclosureInit ==
    /\ encFiles = {} /\ preview = NoBuild /\ cancelled = {} /\ crossed = FALSE
    /\ encLid = [b \in Builds |-> FALSE]
    /\ encPc = [b \in Builds |-> "idle"]
    /\ freecad = [b \in Builds |-> "none"]
    /\ lastOutput = [k \in OutputKinds |-> NoBuild]
    /\ exportJob = [at |-> "idle", of |-> NoBuild]

Advance(b, from, to) == encPc[b] = from /\ encPc' = [encPc EXCEPT ![b] = to]

\* handleGenerate: the preview goes.  The button is disabled while a build
\* runs, the menu's command is not.
Generate(b, lid) ==
    /\ Advance(b, "idle", "start")
    /\ encLid' = [encLid EXCEPT ![b] = lid]
    /\ preview' = NoBuild
    /\ crossed' = (crossed \/ \E c \in Builds: InJob(c))
    /\ UNCHANGED <<encFiles, freecad, cancelled, lastOutput, exportJob>>

\* The outline is read and the volumes are measured, as far as they can be
\* (freecad_generate_enclosure); with no board, or no FreeCAD, the job fails
\* before anything is written; else the script is, and FreeCAD runs.
StartBuild(b) ==
    /\ \/ /\ Advance(b, "start", "wait")
          /\ encFiles' = encFiles \cup {<<"script", b>>}
          /\ freecad' = [freecad EXCEPT ![b] = "running"]
       \/ Advance(b, "start", "failed") /\ UNCHANGED <<encFiles, freecad>>
    /\ UNCHANGED <<encLid, cancelled, lastOutput, preview, exportJob, crossed>>

\* FreeCAD writes the next file, or ends: with all of them, or too early, with
\* an error or without.
FreecadWrites(b) ==
    /\ freecad[b] = "running"
    /\ \E i \in 1..Len(Scripted(b)):
          /\ ~On(Scripted(b)[i], b)
          /\ \A j \in 1..(i - 1): On(Scripted(b)[j], b)
          /\ encFiles' = encFiles \cup {<<Scripted(b)[i], b>>}
    /\ UNCHANGED <<encLid, encPc, freecad, cancelled, lastOutput, preview, exportJob,
                   crossed>>
FreecadEnds(b) ==
    /\ freecad[b] = "running"
    /\ \E how \in {"ok", "bad"}: freecad' = [freecad EXCEPT ![b] = how]
    /\ UNCHANGED <<encFiles, encLid, encPc, cancelled, lastOutput, preview, exportJob,
                   crossed>>

\* job.cancel.
CancelBuild(b) ==
    /\ InJob(b) /\ b \notin cancelled /\ cancelled' = cancelled \cup {b}
    /\ UNCHANGED <<encFiles, encLid, encPc, freecad, lastOutput, preview, exportJob,
                   crossed>>

\* _wait_with_cancellation: FreeCAD has ended; or it has not, and the event is
\* set or the time is over, and it is killed.  Mutant: it is left running.
WaitNoKill(b) ==
    /\ \/ /\ freecad[b] \in {"ok", "bad"}
          /\ Advance(b, "wait", IF freecad[b] = "ok" THEN "look" ELSE "clean:failed")
       \/ /\ freecad[b] = "running"
          /\ Advance(b, "wait", IF b \in cancelled THEN "clean:cancelled" ELSE "clean:failed")
    /\ UNCHANGED <<encFiles, encLid, freecad, cancelled, lastOutput, preview, exportJob,
                   crossed>>
WaitForFreecad(b) ==
    /\ \/ /\ freecad[b] \in {"ok", "bad"}
          /\ Advance(b, "wait", IF freecad[b] = "ok" THEN "look" ELSE "clean:failed")
          /\ UNCHANGED freecad
       \/ /\ freecad[b] = "running"
          /\ Advance(b, "wait", IF b \in cancelled THEN "clean:cancelled" ELSE "clean:failed")
          /\ freecad' = [freecad EXCEPT ![b] = "bad"]
    /\ UNCHANGED <<encFiles, encLid, cancelled, lastOutput, preview, exportJob, crossed>>

\* Every file must be there, whatever FreeCAD's exit code said.  Mutant: the
\* code is enough.
LookAtCodeOnly(b) ==
    /\ Advance(b, "look", "glb")
    /\ UNCHANGED <<encFiles, encLid, freecad, cancelled, lastOutput, preview, exportJob,
                   crossed>>
LookForFiles(b) ==
    /\ Advance(b, "look", IF \A k \in ToSet(Scripted(b)): On(k, b) THEN "glb"
                                                                 ELSE "clean:failed")
    /\ UNCHANGED <<encFiles, encLid, freecad, cancelled, lastOutput, preview, exportJob,
                   crossed>>

\* _export_glb, of the shell or of the lid, from its STL; it may raise.
ExportGlb(b, kind, stl) ==
    /\ \/ /\ On(stl, b) /\ Advance(b, kind, Checking[kind])
          /\ encFiles' = encFiles \cup {<<kind, b>>}
       \/ Advance(b, kind, "clean:failed") /\ UNCHANGED encFiles
    /\ UNCHANGED <<encLid, freecad, cancelled, lastOutput, preview, exportJob, crossed>>

\* The previous output of this kind: is there one that is not this build's?  It
\* is removed, if nobody else did meanwhile, and this one is the last.
\* Mutant: only the .glb is ("applies to .step now too").
CheckLastGlb(b, kind) ==
    /\ LET last == lastOutput[kind]
       IN Advance(b, Checking[kind],
                  IF kind = "glb" /\ last \notin {NoBuild, b} /\ On(kind, last)
                    THEN Removing[kind] ELSE Setting[kind])
    /\ UNCHANGED <<encFiles, encLid, freecad, cancelled, lastOutput, preview, exportJob,
                   crossed>>
CheckLast(b, kind) ==
    /\ LET last == lastOutput[kind]
       IN Advance(b, Checking[kind],
                  IF last \notin {NoBuild, b} /\ On(kind, last) THEN Removing[kind]
                                                               ELSE Setting[kind])
    /\ UNCHANGED <<encFiles, encLid, freecad, cancelled, lastOutput, preview, exportJob,
                   crossed>>
RemoveLast(b, kind) ==
    LET last == lastOutput[kind]
    IN /\ IF On(kind, last)
            THEN /\ Advance(b, Removing[kind], Setting[kind])
                 /\ encFiles' = encFiles \ {<<kind, last>>}
            ELSE Advance(b, Removing[kind], "clean:failed") /\ UNCHANGED encFiles
       /\ UNCHANGED <<encLid, freecad, cancelled, lastOutput, preview, exportJob, crossed>>
SetLast(b, kind) ==
    /\ Advance(b, Setting[kind], AfterSwap(b, kind))
    /\ lastOutput' = [lastOutput EXCEPT ![kind] = b]
    /\ UNCHANGED <<encFiles, encLid, freecad, cancelled, preview, exportJob, crossed>>

\* The finally branch.  The panel shows the result that came last.
\* Mutant: the script stays when the build failed.
CleanOnSuccess(b, how) ==
    /\ Advance(b, Cleaning[how], how)
    /\ encFiles' = IF how = "result" THEN encFiles \ {<<k, b>> : k \in Temporary}
                                     ELSE encFiles
    /\ preview' = IF how = "result" THEN b ELSE preview
    /\ UNCHANGED <<encLid, freecad, cancelled, lastOutput, exportJob, crossed>>
CleanUp(b, how) ==
    /\ Advance(b, Cleaning[how], how)
    /\ encFiles' = encFiles \ {<<k, b>> : k \in Temporary}
    /\ preview' = IF how = "result" THEN b ELSE preview
    /\ UNCHANGED <<encLid, freecad, cancelled, lastOutput, exportJob, crossed>>

BuildStep(b) ==
    \/ StartBuild(b)
    \/ WaitForFreecad(b)
    \/ LookForFiles(b)
    \/ ExportGlb(b, "glb", "stl")
    \/ ExportGlb(b, "lidGlb", "lidStl")
    \/ \E k \in OutputKinds: CheckLast(b, k) \/ RemoveLast(b, k) \/ SetLast(b, k)
    \/ \E how \in {"result", "failed", "cancelled"}: CleanUp(b, how)

-------------------------------------------------------------------------------
(* freecad.export_enclosure: the preview's own files are copied or read. *)

StartExport ==
    /\ MayExport /\ preview # NoBuild /\ exportJob.at = "idle"
    /\ exportJob' = [at |-> "copy", of |-> preview]
    /\ UNCHANGED <<encFiles, encLid, encPc, freecad, cancelled, lastOutput, preview,
                   crossed>>
\* All of it is there, or the export raises.
CopyExport ==
    /\ exportJob.at = "copy"
    /\ \E kinds \in {{"glb"}, {"step"}, {"glb", "lidGlb"}, {"step", "lidStep"}}:
          /\ kinds \cap {"lidGlb", "lidStep"} # {} => encLid[exportJob.of]
          /\ exportJob' = [exportJob EXCEPT
                  !.at = IF \A k \in kinds: On(k, exportJob.of) THEN "saved" ELSE "lost"]
    /\ UNCHANGED <<encFiles, encLid, encPc, freecad, cancelled, lastOutput, preview,
                   crossed>>

EnclosureNext ==
    \/ \E b \in Builds:
          \/ \E lid \in BOOLEAN: Generate(b, lid)
          \/ FreecadWrites(b) \/ FreecadEnds(b) \/ CancelBuild(b)
          \/ BuildStep(b)
    \/ StartExport \/ CopyExport

EnclosureSpec == EnclosureInit /\ [][EnclosureNext]_enclosureVars

-------------------------------------------------------------------------------
(* What is checked. *)

\* The type of the files: every one belongs to a build that was started, and
\* FreeCAD runs on a script that is there.
EnclosureTypeOK ==
    /\ encFiles \subseteq (Temporary \cup OutputKinds) \X {b \in Builds: encPc[b] # "idle"}
    /\ preview # NoBuild => encPc[preview] = "result"
    /\ \A b \in Builds: freecad[b] = "running" => On("script", b)

Parts(b) == {"glb", "step"} \cup IF encLid[b] THEN {"lidGlb", "lidStep"} ELSE {}

\* The preview the user sees has all of its files, until another build is under
\* way: nothing but the next success removes it (generate_enclosure), if no two
\* builds ran at once.
PreviewIsThere ==
    preview # NoBuild /\ ~crossed => \A k \in Parts(preview): On(k, preview)

\* A job that has ended leaves no process and no temporary file, whatever it was
\* stopped by (_wait_with_cancellation kills and waits, then the finally).
NothingLeftBehind ==
    \A b \in Builds: encPc[b] \in {"result", "failed", "cancelled"} =>
        /\ freecad[b] # "running"
        /\ \A k \in Temporary: ~On(k, b)

\* Outputs that no job has promised to remove: neither the last ones, nor of a
\* build that still runs.
Orphans(kind) == {b \in Builds: On(kind, b) /\ lastOutput[kind] # b /\ ~InJob(b)}

\* A build that succeeds removes the one before: its outputs never pile up, if
\* no two ran at once.
SuccessesDoNotPileUp ==
    ~crossed => \A k \in OutputKinds: \A b \in Orphans(k): encPc[b] # "result"

\* What is on disk is what somebody still needs, and all of that.
FilesAsNeeded == PreviewIsThere /\ NothingLeftBehind /\ SuccessesDoNotPileUp

\* "Deleting the previous successful output on each new success bounds the leak
\* to at most one extra file at a time" (generate_enclosure): beside the last
\* output of a kind there is at most one.
LeakBounded == \A k \in OutputKinds: Cardinality(Orphans(k)) <= 1
===============================================================================
