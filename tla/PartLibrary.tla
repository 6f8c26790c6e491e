------------------------------ MODULE PartLibrary ------------------------------
(***************************************************************************)
(* One part of the library (library_store.py, daemon.py, PartDetail.tsx):   *)
(* its record, the symbol and the footprints it names, the libraries it is  *)
(* tagged with, its cached datasheet, and the two jobs that write guidance  *)
(* into its record.                                                         *)
(*                                                                         *)
(* The user's routes run one at a time on the main thread; each job runs on *)
(* a thread of its own and loads the record again before it saves it.  A    *)
(* load, a save, a fetch and a call of the model are steps.                 *)
(***************************************************************************)
EXTENDS Integers, Sequences, SequencesExt

CONSTANTS
    Pinouts,      \* what an extraction may find: pins, of one package and count
    Documents,    \* the contents that the datasheet's address may serve
    Slugs,        \* the names that a library may be given, as _slugify leaves them
    MaxLibraries, \* bound: custom libraries
    MaxEdits,     \* bound: routes and jobs that start
    GuidanceCategories \* the categories with candidate pages, a number

WebPage == "page"  \* an error page served with status 200
Nothing == "none"
DefaultLibrary == "default"

ASSUME PartAssumption ==
    /\ {WebPage, Nothing} \cap (Documents \cup Pinouts) = {}
    /\ MaxLibraries \in Nat /\ MaxEdits \in Nat
    /\ GuidanceCategories \in Nat \ {0}

VARIABLES
    partFile,   \* the record of the part, or NoPart
    symbolFile, \* the pins of the symbol that its package and pin count name
    footprints, \* the footprints with a record
    libraries,  \* libraries.json: the ids of the custom libraries
    pdfFile,    \* the cached datasheet
    website,    \* what the datasheet's address serves
    panel,      \* savedPart, the copy of the record that the webview holds
    partPc,     \* partPc[w]: the next step of a worker
    partRead,   \* partRead[w]: the record it has loaded
    partInput,  \* partInput[w]: what it was called with, or has from the model
    guideStop,  \* the cancel_event of the guidance job
    partEdits   \* how many routes and jobs have started

partVars == <<partFile, symbolFile, footprints, libraries, pdfFile, website, panel,
              partPc, partRead, partInput, guideStop, partEdits>>

Disk == <<partFile, symbolFile, footprints, libraries, pdfFile>>

Workers == {"user", "guidance", "wiring"}

-------------------------------------------------------------------------------
(* Records. *)

NoPart == [is |-> "absent"]
NoGuidance == [by |-> Nothing]

\* A record: its pins, whether every required field has a provenance, the
\* libraries it is in, its footprint, and what was added to it since.
Fresh(pins) ==
    [is |-> "part", pins |-> pins, traced |-> TRUE, tags |-> {DefaultLibrary},
     footprint |-> Nothing, notes |-> FALSE,
     guidance |-> NoGuidance, wiring |-> NoGuidance]

\* A part saved before package_dimensions were kept.
Untraced(pins) == [Fresh(pins) EXCEPT !.traced = FALSE]

\* _normalize_library_ids.
Normalized(ids) == ids \cup {DefaultLibrary}

\* save_part: refused without provenance, else the whole record is written.
\* Mutant: the record is written without Default.
CanBeSaved(rec) == rec.traced
SaveAsGiven(rec) == IF CanBeSaved(rec) THEN partFile' = rec ELSE UNCHANGED partFile
SavePart(rec) ==
    IF CanBeSaved(rec) THEN partFile' = [rec EXCEPT !.tags = Normalized(@)]
                       ELSE UNCHANGED partFile

\* create_library: the slug, or the first free number after it.  Mutant: the
\* implicit library is not among the ids that are taken.
Numbered(slug, n) == IF n = 1 THEN slug ELSE slug \o "-" \o ToString(n)
ASSUME NumberedAssumption ==
    \A s \in Slugs: \A m, n \in 1..(MaxLibraries + 2):
        Numbered(s, m) = Numbered(s, n) => m = n
FirstFree(slug, taken) ==
    Numbered(slug, CHOOSE n \in 1..(MaxLibraries + 2):
                       /\ Numbered(slug, n) \notin taken
                       /\ \A m \in 1..(n - 1): Numbered(slug, m) \in taken)
NewIdLoose(slug) == FirstFree(slug, ToSet(libraries))
NewId(slug) == FirstFree(slug, ToSet(libraries) \cup {DefaultLibrary})

-------------------------------------------------------------------------------

PartInit ==
    /\ partFile = NoPart /\ symbolFile = Nothing /\ footprints = {}
    /\ libraries = <<>> /\ pdfFile = Nothing /\ website = WebPage
    /\ panel = NoPart
    /\ partPc = [w \in Workers |-> "undrawn"]
    /\ partRead = [w \in Workers |-> NoPart]
    /\ partInput = [w \in Workers |-> Nothing]
    /\ guideStop = FALSE /\ partEdits = 0

\* The library is empty, or holds a part from before provenance was kept.
PartBegin ==
    /\ partPc["user"] = "undrawn"
    /\ \E p \in Pinouts:
          \/ UNCHANGED <<partFile, symbolFile>>
          \/ partFile' = Untraced(p) /\ symbolFile' = p
    /\ website' \in Documents
    /\ partPc' = [w \in Workers |-> "idle"]
    /\ UNCHANGED <<footprints, libraries, pdfFile, panel, partRead, partInput,
                   guideStop, partEdits>>

Moves(w, from, to) ==
    /\ partPc[w] = from
    /\ partPc' = [partPc EXCEPT ![w] = to]

\* A route or a job is called with "in".
Starts(w, to, in) ==
    /\ partEdits < MaxEdits
    /\ partEdits' = partEdits + 1
    /\ Moves(w, "idle", to)
    /\ partInput' = [partInput EXCEPT ![w] = in]

\* load_part, as part of a step of w; the part is there.
Loads(w) ==
    /\ partFile # NoPart
    /\ partRead' = [partRead EXCEPT ![w] = partFile]

-------------------------------------------------------------------------------
(* The main thread's routes, called from the panel. *)

\* library.load_part: the panel shows what is on disk.
OpenPart ==
    /\ partPc["user"] = "idle" /\ partFile # NoPart /\ panel # partFile
    /\ panel' = partFile
    /\ UNCHANGED <<Disk, website, partPc, partRead, partInput, guideStop, partEdits>>

\* library.save_confirmed_part: a part that is confirmed, or whose measurements
\* are read again.  The symbol first.
Confirm(pins) ==
    /\ Starts("user", "confirmSymbol", pins)
    /\ UNCHANGED <<Disk, website, panel, partRead, guideStop>>
SaveSymbol ==
    /\ Moves("user", "confirmSymbol", "confirmPart")
    /\ symbolFile' = partInput["user"]
    /\ UNCHANGED <<partFile, footprints, libraries, pdfFile, website, panel,
                   partRead, partInput, guideStop, partEdits>>
SaveConfirmed ==
    /\ Moves("user", "confirmPart", "idle")
    /\ SavePart(Fresh(partInput["user"]))
    /\ panel' = partFile'
    /\ UNCHANGED <<symbolFile, footprints, libraries, pdfFile, website,
                   partRead, partInput, guideStop, partEdits>>

\* attachFootprintToPart, attachCommunityFootprintToPart,
\* generateFootprintFromPart: two routes, the second with the panel's copy.  A
\* footprint is drawn only from a part that has its measurements.
\* Mutant: the part is saved first.
AttachPartFirst(f) ==
    /\ panel # NoPart /\ Starts("user", "attach", f)
    /\ SavePart([panel EXCEPT !.footprint = f])
    /\ UNCHANGED <<symbolFile, footprints, libraries, pdfFile, website, panel,
                   partRead, guideStop>>
Attach(f) ==
    /\ panel # NoPart
    /\ f = "generated" => partFile.traced
    /\ Starts("user", "attach", f)
    /\ footprints' = footprints \cup {f}
    /\ UNCHANGED <<partFile, symbolFile, libraries, pdfFile, website, panel,
                   partRead, guideStop>>
SaveAttached ==
    LET updated == [panel EXCEPT !.footprint = partInput["user"]]
    IN /\ Moves("user", "attach", "idle")
       /\ SavePart(updated)
       /\ footprints' = footprints \cup {partInput["user"]}
       /\ panel' = IF CanBeSaved(updated) THEN updated ELSE panel
       /\ UNCHANGED <<symbolFile, libraries, pdfFile, website, partRead, partInput,
                      guideStop, partEdits>>

\* library.tag_object: known ids replace the part's; the panel keeps its copy.
Tag(ids) ==
    /\ Starts("user", "tag", ids) /\ Loads("user")
    /\ UNCHANGED <<Disk, website, panel, guideStop>>
SaveTagged ==
    /\ Moves("user", "tag", "idle")
    /\ SavePart([partRead["user"] EXCEPT !.tags = partInput["user"]])
    /\ UNCHANGED <<symbolFile, footprints, libraries, pdfFile, website, panel,
                   partRead, partInput, guideStop, partEdits>>

\* add_part_note, for chat.promote_turn.
Promotes ==
    /\ Starts("user", "note", Nothing) /\ Loads("user")
    /\ UNCHANGED <<Disk, website, panel, guideStop>>
SaveNote ==
    /\ Moves("user", "note", "idle")
    /\ SavePart([partRead["user"] EXCEPT !.notes = TRUE])
    /\ UNCHANGED <<symbolFile, footprints, libraries, pdfFile, website, panel,
                   partRead, partInput, guideStop, partEdits>>

CreateLibrary(slug) ==
    /\ partPc["user"] = "idle" /\ Len(libraries) < MaxLibraries
    /\ libraries' = Append(libraries, NewId(slug))
    /\ UNCHANGED <<partFile, symbolFile, footprints, pdfFile, website, panel, partPc,
                   partRead, partInput, guideStop, partEdits>>

-------------------------------------------------------------------------------
(* The datasheet. *)

\* cache_datasheet: nothing but a PDF is written, and it replaces what is there.
Fetched == IF website = WebPage THEN pdfFile ELSE website

\* component.cache_datasheet, a job: for a citation, the file is fetched again.
OpenCitation ==
    /\ partPc["user"] # "undrawn" /\ partEdits < MaxEdits /\ Fetched # pdfFile
    /\ pdfFile' = Fetched /\ partEdits' = partEdits + 1
    /\ UNCHANGED <<partFile, symbolFile, footprints, libraries, website, panel,
                   partPc, partRead, partInput, guideStop>>

WebsiteChanges ==
    /\ partPc["user"] # "undrawn" /\ partEdits < MaxEdits
    /\ website' \in (Documents \cup {WebPage}) \ {website}
    /\ partEdits' = partEdits + 1
    /\ UNCHANGED <<Disk, panel, partPc, partRead, partInput, guideStop>>

-------------------------------------------------------------------------------
(* datasheet.generate_guidance, a job. *)

OnlyGuidance == UNCHANGED <<symbolFile, footprints, libraries, website, partEdits>>

\* The part is loaded, and refused if it could not be saved.  Mutant: it is not.
GuideAnyPart ==
    /\ Starts("guidance", "cache", Nothing) /\ Loads("guidance")
    /\ guideStop' = FALSE
    /\ UNCHANGED <<Disk, website, panel>>
GuideStart ==
    /\ partFile # NoPart /\ CanBeSaved(partFile)
    /\ Starts("guidance", "cache", Nothing) /\ Loads("guidance")
    /\ guideStop' = FALSE
    /\ UNCHANGED <<Disk, website, panel>>

\* ensure_datasheet_cached; a page that is no PDF ends the job.
GuideCache ==
    LET file == IF pdfFile # Nothing THEN pdfFile ELSE Fetched
    IN /\ Moves("guidance", "cache", IF file = Nothing THEN "idle" ELSE "extract")
       /\ pdfFile' = file
       /\ OnlyGuidance
       /\ UNCHANGED <<partFile, panel, partRead, partInput, guideStop>>

\* Guidance with this file's hash is returned as it is; else its pages are read.
GuideExtract ==
    LET g == partRead["guidance"].guidance
    IN /\ partPc["guidance"] = "extract"
       /\ IF g.by # Nothing /\ g.hash = pdfFile
            THEN /\ Moves("guidance", "extract", "idle")
                 /\ panel' = partRead["guidance"]
                 /\ UNCHANGED partInput
            ELSE /\ Moves("guidance", "extract", "model")
                 /\ partInput' = [partInput EXCEPT !["guidance"] =
                                    [by |-> pdfFile, done |-> 0]]
                 /\ UNCHANGED panel
       /\ OnlyGuidance /\ UNCHANGED <<partFile, pdfFile, partRead, guideStop>>

\* _run_all_categories_and_close: before each category the event is looked at; a
\* model that fails ends the job, one that is cancelled returns what it has.
GuideCategory ==
    /\ partPc["guidance"] = "model"
    /\ ~guideStop /\ partInput["guidance"].done < GuidanceCategories
    /\ \/ /\ Moves("guidance", "model", "model")
          /\ partInput' = [partInput EXCEPT !["guidance"].done = @ + 1]
       \/ Moves("guidance", "model", "idle") /\ UNCHANGED partInput
    /\ OnlyGuidance /\ UNCHANGED <<partFile, pdfFile, panel, partRead, guideStop>>
GuideReturns ==
    /\ Moves("guidance", "model", "hash")
    /\ guideStop \/ partInput["guidance"].done = GuidanceCategories
    /\ OnlyGuidance
    /\ UNCHANGED <<partFile, pdfFile, panel, partRead, partInput, guideStop>>

\* content_hash_of_file, and the record is loaded again
\* (save_part_design_guidance).
GuideReload ==
    /\ Moves("guidance", "hash", "save") /\ Loads("guidance")
    /\ partInput' = [partInput EXCEPT !["guidance"] =
                       [by |-> @.by, done |-> @.done, hash |-> pdfFile]]
    /\ OnlyGuidance /\ UNCHANGED <<partFile, pdfFile, panel, guideStop>>

\* The record is saved; the job's answer is the panel's new copy.
GuideSave ==
    LET updated == [partRead["guidance"] EXCEPT !.guidance = partInput["guidance"]]
    IN /\ Moves("guidance", "save", "idle")
       /\ SavePart(updated)
       /\ panel' = IF CanBeSaved(updated) THEN partFile' ELSE panel
       /\ OnlyGuidance /\ UNCHANGED <<pdfFile, partRead, partInput, guideStop>>

\* job.cancel.
CancelGuidance ==
    /\ partPc["guidance"] \in {"cache", "extract", "model"} /\ ~guideStop
    /\ guideStop' = TRUE
    /\ UNCHANGED <<Disk, website, panel, partPc, partRead, partInput, partEdits>>

Guidance == \/ GuideStart \/ GuideCache \/ GuideExtract \/ GuideCategory
            \/ GuideReturns \/ GuideReload \/ GuideSave \/ CancelGuidance

-------------------------------------------------------------------------------
(* kicad.generate_connection_guidance, a job. *)

WireStart ==
    /\ Starts("wiring", "model", Nothing) /\ Loads("wiring")
    /\ UNCHANGED <<Disk, website, panel, guideStop>>
\* The model answers for the pins it was given; the record is loaded again.
WireAnswer ==
    /\ Moves("wiring", "model", "save") /\ Loads("wiring")
    /\ partInput' = [partInput EXCEPT !["wiring"] = [by |-> partRead["wiring"].pins]]
    /\ UNCHANGED <<Disk, website, panel, guideStop, partEdits>>
WireFails ==
    /\ Moves("wiring", "model", "idle")
    /\ UNCHANGED <<Disk, website, panel, partRead, partInput, guideStop, partEdits>>
\* pins_hash is of the pins that were loaded last; the panel keeps its copy.
WireSave ==
    /\ Moves("wiring", "save", "idle")
    /\ SavePart([partRead["wiring"] EXCEPT
                   !.wiring = [by |-> partInput["wiring"].by,
                               hash |-> partRead["wiring"].pins]])
    /\ UNCHANGED <<symbolFile, footprints, libraries, pdfFile, website, panel,
                   partRead, partInput, guideStop, partEdits>>

Wiring == WireStart \/ WireAnswer \/ WireFails \/ WireSave

-------------------------------------------------------------------------------

\* The daemon is killed and started again.
PartKill ==
    /\ \E w \in Workers: partPc[w] \notin {"undrawn", "idle"}
    /\ partPc' = [w \in Workers |-> "idle"]
    /\ UNCHANGED <<Disk, website, panel, partRead, partInput, guideStop, partEdits>>

User ==
    \/ OpenPart
    \/ \E p \in Pinouts: Confirm(p)
    \/ SaveSymbol \/ SaveConfirmed
    \/ \E f \in {"found", "generated"}: Attach(f)
    \/ SaveAttached
    \/ \E ids \in SUBSET ToSet(libraries): Tag(ids)
    \/ SaveTagged
    \/ Promotes \/ SaveNote
    \/ \E s \in Slugs: CreateLibrary(s)
    \/ OpenCitation

PartNext == PartBegin \/ User \/ WebsiteChanges \/ Guidance \/ Wiring \/ PartKill

PartSpec == PartInit /\ [][PartNext]_partVars

-------------------------------------------------------------------------------
(* What is checked. *)

\* A library's id is its own, and never that of the default library
\* (create_library), so a part's tags say where it is.
LibraryIdsUnique ==
    /\ \A i, j \in 1..Len(libraries): libraries[i] = libraries[j] => i = j
    /\ DefaultLibrary \notin ToSet(libraries)

\* The pipeline never runs for a part whose result could not be saved: "check
\* first, generate second" (datasheet_generate_guidance), though the part may be
\* written by others while the model runs.
GeneratedCanBeSaved ==
    partPc["guidance"] \in {"model", "hash", "save"} => CanBeSaved(partFile)

\* The type of the records; each part is in the default library, a
\* library has an id of its own, and no guidance is made in vain.
PartTypeOK ==
    /\ partFile # NoPart =>
          /\ partFile.pins \in Pinouts /\ partFile.traced \in BOOLEAN
          /\ DefaultLibrary \in partFile.tags
    /\ pdfFile \in Documents \cup {Nothing}
    /\ LibraryIdsUnique
    /\ GeneratedCanBeSaved

\* What a part names is on disk, whatever is killed when: the symbol and the
\* footprint are saved before the part (save_confirmed_part,
\* attachFootprintToPart).
ReferencesResolve ==
    partFile # NoPart =>
        /\ symbolFile # Nothing
        /\ partFile.footprint # Nothing => partFile.footprint \in footprints

\* "every one of those existing re-save paths would silently wipe a real custom
\* tag" (_resolve_library_ids): only tag_object takes a tag away.
TagsKept ==
    [][partFile # NoPart /\ partPc["user"] # "tag"
          => partFile.tags \subseteq partFile'.tags]_partVars

\* Guidance that is stored has been through every category, so that an empty one
\* says that nothing was found (_backfill_design_guidance).
GuidanceComplete ==
    partFile # NoPart /\ partFile.guidance.by # Nothing
        => partFile.guidance.done = GuidanceCategories
===============================================================================
