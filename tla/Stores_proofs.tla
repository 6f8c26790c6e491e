---------------------------- MODULE Stores_proofs -----------------------------
(****************************************************************************)
(* Proofs about the stores: PartLibrary, HouseLibrary, ChatThread and       *)
(* ReviewArea, for any parts, libraries, files of houses, sends, designs and*)
(* replies, and about the run of all the stores, MCStores.                  *)
(*                                                                          *)
(* Each part starts with the inductive invariant of its module: the types,  *)
(* where each worker can be, and what the files hold at that place.         *)
(****************************************************************************)
EXTENDS MCStores, ContextIndex_proofs,
        FiniteSetTheorems, WellFoundedInduction, TLAPS

-------------------------------------------------------------------------------
(* Parts, their libraries, and what was derived from them: PartLibrary.    *)

\* Every id that a library may be given.
LibraryIds == {Numbered(s, n): s \in Slugs, n \in 1..(MaxLibraries + 2)}
Tags == LibraryIds \cup {DefaultLibrary}

Footprints == {"found", "generated"}
GuidanceRecord == [by: Documents, done: Nat, hash: Documents]
WiringRecord == [by: Pinouts, hash: Pinouts]
PartRecord == [is: {"part"}, pins: Pinouts, traced: BOOLEAN, tags: SUBSET Tags,
               footprint: Footprints \cup {Nothing}, notes: BOOLEAN,
               guidance: GuidanceRecord \cup {NoGuidance},
               wiring: WiringRecord \cup {NoGuidance}]
AnyPart == PartRecord \cup {NoPart}

PartSteps == {"undrawn", "idle", "confirmSymbol", "confirmPart", "attach", "tag", "note",
              "cache", "extract", "model", "hash", "save"}

\* The values of the variables.
PartTyped ==
    /\ partFile \in AnyPart /\ panel \in AnyPart
    /\ partFile # NoPart => DefaultLibrary \in partFile.tags
    /\ symbolFile \in Pinouts \cup {Nothing}
    /\ footprints \subseteq Footprints
    /\ libraries \in Seq(LibraryIds) /\ Len(libraries) <= MaxLibraries
    /\ pdfFile \in Documents \cup {Nothing}
    /\ website \in Documents \cup {WebPage}
    /\ partPc \in [Workers -> PartSteps]
    /\ partRead \in [Workers -> AnyPart]
    /\ DOMAIN partInput = Workers
    /\ partEdits \in Nat

\* What each worker has in hand at its step.
PartInHand ==
    /\ partPc["user"] \in {"confirmSymbol", "confirmPart"} => partInput["user"] \in Pinouts
    /\ partPc["user"] = "attach" => panel # NoPart /\ partInput["user"] \in footprints
    /\ partPc["user"] = "tag" => partInput["user"] \subseteq Tags
    /\ partPc["user"] \in {"tag", "note"} => partRead["user"] # NoPart
    /\ partPc["wiring"] \in {"model", "save"} => partRead["wiring"] # NoPart
    /\ partPc["wiring"] = "save" => partInput["wiring"] \in [by: Pinouts]
    /\ partPc["guidance"] \in {"cache", "extract", "model", "hash", "save"} =>
          /\ partRead["guidance"] # NoPart
          /\ partFile # NoPart /\ CanBeSaved(partFile)
    /\ partPc["guidance"] \in {"extract", "model", "hash", "save"} => pdfFile # Nothing
    /\ partPc["guidance"] \in {"model", "hash"} =>
          partInput["guidance"] \in [by: Documents, done: Nat]
    /\ partPc["guidance"] = "save" => partInput["guidance"] \in GuidanceRecord

\* What the records name, on disk, in the panel and in a worker's hands.
NamesKnown(r) ==
    r # NoPart => symbolFile # Nothing /\ r.footprint \in footprints \cup {Nothing}
PartReferences ==
    /\ NamesKnown(partFile) /\ NamesKnown(panel)
    /\ \A w \in Workers: NamesKnown(partRead[w])
    /\ partPc["user"] = "confirmPart" => symbolFile # Nothing

\* The inductive invariant.
PartIInv == PartTyped /\ PartInHand /\ PartReferences /\ LibraryIdsUnique
\* Records and what is not one.
LEMMA PartRecords ==
  /\ NoPart \notin PartRecord /\ NoPart \in AnyPart
  /\ \A r \in AnyPart: r # NoPart => r \in PartRecord
  /\ Nothing \notin Pinouts /\ Nothing \notin Documents
  /\ WebPage \notin Documents /\ Nothing \notin Footprints
BY PartAssumption DEF NoPart, PartRecord, AnyPart, Footprints, Nothing, WebPage

\* The initial state.
LEMMA PartInitial == PartInit => PartIInv
<1> SUFFICES ASSUME PartInit PROVE PartIInv
  OBVIOUS
<1>1. partFile = NoPart /\ panel = NoPart /\ \A w \in Workers: partRead[w] = NoPart
  BY DEF PartInit
<1>2. \A w \in Workers: partPc[w] = "undrawn"
  BY DEF PartInit
<1>3. libraries = <<>> /\ Len(libraries) = 0
  BY DEF PartInit
<1>4. PartTyped
  BY <1>1, <1>3, PartRecords, PartAssumption DEF PartInit, PartTyped, PartSteps
<1>5. PartInHand
  BY <1>2 DEF PartInHand, Workers
<1>6. PartReferences
  BY <1>1, <1>2 DEF PartReferences, NamesKnown, Workers
<1>7. LibraryIdsUnique
  BY <1>3 DEF LibraryIdsUnique, ToSet
<1>8. QED
  BY <1>4, <1>5, <1>6, <1>7 DEF PartIInv

\* One worker goes on.
LEMMA OneMoves ==
  ASSUME PartTyped, NEW w \in Workers, NEW from, NEW to \in PartSteps, Moves(w, from, to)
  PROVE  /\ partPc[w] = from /\ partPc'[w] = to
         /\ \A v \in Workers: v # w => partPc'[v] = partPc[v]
         /\ partPc' \in [Workers -> PartSteps]
BY DEF PartTyped, Moves

\* A saved record is the old one or the new one, with the default library.
LEMMA SavedRecord ==
  ASSUME PartTyped, NEW r \in PartRecord, SavePart(r)
  PROVE  /\ partFile' \in AnyPart
         /\ partFile' # NoPart => DefaultLibrary \in partFile'.tags
         /\ partFile # NoPart => partFile' # NoPart
         /\ partFile # NoPart /\ CanBeSaved(partFile) => CanBeSaved(partFile')
         /\ CanBeSaved(r) => /\ partFile' # NoPart /\ CanBeSaved(partFile')
                             /\ partFile'.footprint = r.footprint
         /\ ~CanBeSaved(r) => partFile' = partFile
<1>1. CASE ~CanBeSaved(r)
  BY <1>1 DEF SavePart, PartTyped
<1>2. CASE CanBeSaved(r)
  <2> DEFINE n == [r EXCEPT !.tags = r.tags \cup {DefaultLibrary}]
  <2>1. partFile' = n
    BY <1>2 DEF SavePart, Normalized
  <2>2. r.tags \cup {DefaultLibrary} \in SUBSET Tags
    BY DEF PartRecord, Tags
  <2>3. /\ n \in PartRecord /\ DefaultLibrary \in n.tags
        /\ n.footprint = r.footprint /\ n.traced = r.traced
    BY <2>2 DEF PartRecord
  <2> HIDE DEF n
  <2>4. CanBeSaved(n)
    BY <1>2, <2>3 DEF CanBeSaved
  <2>5. QED
    BY <1>2, <2>1, <2>3, <2>4, PartRecords DEF AnyPart
<1>3. QED
  BY <1>1, <1>2

\* A worker saves a record whose names are known, and is done.
LEMMA SaveKeeps ==
  ASSUME PartIInv, NEW w \in Workers, NEW from, Moves(w, from, "idle"),
         NEW r \in PartRecord, SavePart(r), NamesKnown(r)',
         UNCHANGED <<symbolFile, libraries, pdfFile, website, partRead, partInput, partEdits>>,
         footprints \subseteq footprints', footprints' \subseteq Footprints,
         panel' \in AnyPart, panel # NoPart => panel' # NoPart, NamesKnown(panel)'
  PROVE  PartIInv'
<1>1. /\ partPc'[w] = "idle" /\ \A v \in Workers: v # w => partPc'[v] = partPc[v]
      /\ partPc' \in [Workers -> PartSteps]
  BY OneMoves DEF PartIInv, PartSteps
<1>2. /\ partFile' \in AnyPart
      /\ partFile' # NoPart => DefaultLibrary \in partFile'.tags
      /\ partFile # NoPart => partFile' # NoPart
      /\ partFile # NoPart /\ CanBeSaved(partFile) => CanBeSaved(partFile')
      /\ CanBeSaved(r) => partFile' # NoPart /\ partFile'.footprint = r.footprint
      /\ ~CanBeSaved(r) => partFile' = partFile
  BY SavedRecord DEF PartIInv
<1>3. PartTyped'
  BY <1>1, <1>2 DEF PartIInv, PartTyped
<1>4. PartInHand'
  BY <1>1, <1>2 DEF PartIInv, PartInHand, Workers
<1>5. PartReferences'
  BY <1>1, <1>2, PartRecords DEF PartIInv, PartReferences, NamesKnown, Workers
<1>6. LibraryIdsUnique'
  BY DEF PartIInv, LibraryIdsUnique
<1>7. QED
  BY <1>3, <1>4, <1>5, <1>6 DEF PartIInv
\* A new record of some pins.
LEMMA FreshRecord ==
  ASSUME NEW p \in Pinouts
  PROVE  Fresh(p) \in PartRecord /\ Fresh(p).footprint = Nothing
BY DEF Fresh, PartRecord, Tags, Footprints, NoGuidance

\* save_confirmed_part, after the symbol.
LEMMA SaveConfirmedKeeps ==
  ASSUME PartIInv, SaveConfirmed
  PROVE  PartIInv'
<1>1. /\ Moves("user", "confirmPart", "idle") /\ panel' = partFile'
      /\ UNCHANGED <<symbolFile, footprints, libraries, pdfFile, website, partRead,
                     partInput, partEdits>>
  BY DEF SaveConfirmed
<1>2. partPc["user"] = "confirmPart" /\ partInput["user"] \in Pinouts /\ symbolFile # Nothing
  BY <1>1 DEF Moves, PartIInv, PartInHand, PartReferences
<1>3. PICK r \in PartRecord: SavePart(r) /\ CanBeSaved(r) /\ r.footprint = Nothing
  <2>1. CanBeSaved(Fresh(partInput["user"]))
    BY DEF CanBeSaved, Fresh
  <2>2. QED
    BY <1>2, <2>1, FreshRecord DEF SaveConfirmed
<1>4. partFile' \in AnyPart /\ partFile' # NoPart /\ partFile'.footprint = Nothing
  BY <1>3, SavedRecord DEF PartIInv
<1>5. NamesKnown(r)' /\ NamesKnown(panel)'
  BY <1>1, <1>2, <1>3, <1>4 DEF NamesKnown
<1>6. "user" \in Workers /\ footprints' \subseteq Footprints
  BY <1>1 DEF Workers, PartIInv, PartTyped
<1>7. QED
  BY <1>1, <1>3, <1>4, <1>5, <1>6, SaveKeeps

\* The record that a worker has read, saved with something changed that no name
\* depends on.
LEMMA SaveReadKeeps ==
  ASSUME PartIInv, NEW w \in Workers, NEW from, Moves(w, from, "idle"), partRead[w] # NoPart,
         NEW r \in PartRecord, SavePart(r), r.footprint = partRead[w].footprint,
         UNCHANGED <<symbolFile, footprints, libraries, pdfFile, website, partRead,
                     partInput, partEdits>>,
         panel' \in {panel, partFile'}, panel' = partFile' => CanBeSaved(r) \/ panel' = panel
  PROVE  PartIInv'
<1>1. NamesKnown(r)'
  BY DEF PartIInv, PartReferences, NamesKnown
<1>2. footprints' \subseteq Footprints /\ panel \in AnyPart
  BY DEF PartIInv, PartTyped
<1>3. panel' \in AnyPart /\ (panel # NoPart => panel' # NoPart)
  BY <1>2, SavedRecord DEF PartIInv
<1>4. NamesKnown(panel)'
  <2>1. CASE panel' = panel
    BY <2>1 DEF PartIInv, PartReferences, NamesKnown
  <2>2. CASE panel' # panel
    BY <1>1, <2>2, SavedRecord, PartRecords DEF PartIInv, NamesKnown
  <2>3. QED
    BY <2>1, <2>2
<1>5. QED
  BY <1>1, <1>2, <1>3, <1>4, SaveKeeps

\* tag_object and add_part_note, of a record just read.
LEMMA SaveTaggedKeeps ==
  ASSUME PartIInv, SaveTagged
  PROVE  PartIInv'
<1> DEFINE old == partRead["user"]
<1>1. /\ Moves("user", "tag", "idle") /\ SavePart([old EXCEPT !.tags = partInput["user"]])
      /\ UNCHANGED <<symbolFile, footprints, libraries, pdfFile, website, partRead,
                     partInput, partEdits, panel>>
  BY DEF SaveTagged
<1>2. "user" \in Workers /\ old # NoPart /\ old \in PartRecord /\ partInput["user"] \subseteq Tags
  BY <1>1, PartRecords DEF Workers, Moves, PartIInv, PartInHand, PartTyped
<1>3. PICK r \in PartRecord: SavePart(r) /\ r.footprint = partRead["user"].footprint
  <2>1. /\ [old EXCEPT !.tags = partInput["user"]] \in PartRecord
        /\ [old EXCEPT !.tags = partInput["user"]].footprint = old.footprint
    BY <1>2 DEF PartRecord
  <2>2. QED
    BY <1>1, <2>1
<1>4. QED
  BY <1>1, <1>2, <1>3, SaveReadKeeps

LEMMA SaveNoteKeeps ==
  ASSUME PartIInv, SaveNote
  PROVE  PartIInv'
<1> DEFINE old == partRead["user"]
<1>1. /\ Moves("user", "note", "idle") /\ SavePart([old EXCEPT !.notes = TRUE])
      /\ UNCHANGED <<symbolFile, footprints, libraries, pdfFile, website, partRead,
                     partInput, partEdits, panel>>
  BY DEF SaveNote
<1>2. "user" \in Workers /\ old # NoPart /\ old \in PartRecord
  BY <1>1, PartRecords DEF Workers, Moves, PartIInv, PartInHand, PartTyped
<1>3. PICK r \in PartRecord: SavePart(r) /\ r.footprint = partRead["user"].footprint
  <2>1. /\ [old EXCEPT !.notes = TRUE] \in PartRecord
        /\ [old EXCEPT !.notes = TRUE].footprint = old.footprint
    BY <1>2 DEF PartRecord
  <2>2. QED
    BY <1>1, <2>1
<1>4. QED
  BY <1>1, <1>2, <1>3, SaveReadKeeps

\* The guidance that a job has generated, in the record that it read again.
LEMMA GuideSaveKeeps ==
  ASSUME PartIInv, GuideSave
  PROVE  PartIInv'
<1> DEFINE old == partRead["guidance"]
           new == [old EXCEPT !.guidance = partInput["guidance"]]
<1>1. /\ Moves("guidance", "save", "idle") /\ SavePart(new)
      /\ UNCHANGED <<symbolFile, footprints, libraries, pdfFile, website, partRead,
                     partInput, partEdits>>
      /\ panel' = IF CanBeSaved(new) THEN partFile' ELSE panel
  BY DEF GuideSave, OnlyGuidance
<1>2. "guidance" \in Workers /\ old # NoPart /\ old \in PartRecord
      /\ partInput["guidance"] \in GuidanceRecord
  BY <1>1, PartRecords DEF Workers, Moves, PartIInv, PartInHand, PartTyped
<1>3. new \in PartRecord /\ new.footprint = old.footprint
  BY <1>2 DEF PartRecord
<1> HIDE DEF new
<1>4. PICK r \in PartRecord: r = new
  BY <1>3
<1>5. SavePart(r) /\ r.footprint = partRead["guidance"].footprint
  BY <1>1, <1>3, <1>4
<1>6. panel' \in {panel, partFile'} /\ (panel' = partFile' => CanBeSaved(r) \/ panel' = panel)
  BY <1>1, <1>4
<1>7. QED
  BY <1>1, <1>2, <1>5, <1>6, SaveReadKeeps

LEMMA WireSaveKeeps ==
  ASSUME PartIInv, WireSave
  PROVE  PartIInv'
<1> DEFINE old == partRead["wiring"]
           wires == [by |-> partInput["wiring"].by, hash |-> old.pins]
           new == [old EXCEPT !.wiring = wires]
<1>1. /\ Moves("wiring", "save", "idle") /\ SavePart(new)
      /\ UNCHANGED <<symbolFile, footprints, libraries, pdfFile, website, partRead,
                     partInput, partEdits, panel>>
  BY DEF WireSave
<1>2. "wiring" \in Workers /\ old # NoPart /\ old \in PartRecord
      /\ partInput["wiring"] \in [by: Pinouts]
  BY <1>1, PartRecords DEF Workers, Moves, PartIInv, PartInHand, PartTyped
<1>3. wires \in WiringRecord
  BY <1>2 DEF PartRecord, WiringRecord
<1> HIDE DEF wires
<1>4. new \in PartRecord /\ new.footprint = old.footprint
  BY <1>2, <1>3 DEF PartRecord
<1>5. PICK r \in PartRecord: SavePart(r) /\ r.footprint = partRead["wiring"].footprint
  BY <1>1, <1>4
<1>6. QED
  BY <1>1, <1>2, <1>5, SaveReadKeeps

\* The part is saved with the footprint, whose record is there already.
LEMMA SaveAttachedKeeps ==
  ASSUME PartIInv, SaveAttached
  PROVE  PartIInv'
<1> DEFINE f == partInput["user"]
           new == [panel EXCEPT !.footprint = f]
<1>1. /\ Moves("user", "attach", "idle") /\ SavePart(new)
      /\ footprints' = footprints \cup {f}
      /\ panel' = IF CanBeSaved(new) THEN new ELSE panel
      /\ UNCHANGED <<symbolFile, libraries, pdfFile, website, partRead, partInput, partEdits>>
  BY DEF SaveAttached
<1>2. /\ "user" \in Workers /\ panel # NoPart /\ panel \in PartRecord
      /\ f \in footprints /\ footprints \subseteq Footprints
  BY <1>1, PartRecords DEF Workers, Moves, PartIInv, PartInHand, PartTyped
<1>3. new \in PartRecord /\ new.footprint = f
  BY <1>2 DEF PartRecord
<1> HIDE DEF new
<1>4. PICK r \in PartRecord: r = new
  BY <1>3
<1>5. footprints' = footprints /\ symbolFile' # Nothing
  BY <1>1, <1>2 DEF PartIInv, PartReferences, NamesKnown
<1>6. NamesKnown(r)' /\ panel' \in AnyPart /\ panel' # NoPart /\ NamesKnown(panel)'
  <2>1. panel' \in {r, panel}
    BY <1>1, <1>4
  <2>2. r.footprint \in footprints'
    BY <1>2, <1>3, <1>4, <1>5
  <2>3. NamesKnown(r)'
    BY <1>5, <2>2 DEF NamesKnown
  <2>4. panel.footprint \in footprints' \cup {Nothing}
    BY <1>2, <1>5 DEF PartIInv, PartReferences, NamesKnown
  <2>5. NamesKnown(panel)'
    BY <1>5, <2>1, <2>2, <2>4 DEF NamesKnown
  <2>6. QED
    BY <1>2, <2>1, <2>3, <2>5, PartRecords DEF AnyPart
<1>7. SavePart(r)
  BY <1>1, <1>4
<1>8. QED
  BY <1>1, <1>2, <1>5, <1>6, <1>7, SaveKeeps
\* A worker starts, called with something.
LEMMA OneStarts ==
  ASSUME PartTyped, NEW w \in Workers, NEW to \in PartSteps, NEW in, Starts(w, to, in)
  PROVE  /\ partPc[w] = "idle" /\ partPc'[w] = to
         /\ \A v \in Workers: v # w => partPc'[v] = partPc[v]
         /\ partPc' \in [Workers -> PartSteps]
         /\ DOMAIN partInput' = Workers /\ partInput'[w] = in
         /\ \A v \in Workers: v # w => partInput'[v] = partInput[v]
         /\ partEdits' \in Nat
BY OneMoves DEF PartTyped, Starts

\* A worker reads the record.
LEMMA OneLoads ==
  ASSUME PartIInv, NEW w \in Workers, Loads(w), UNCHANGED <<symbolFile, footprints>>
  PROVE  /\ partFile # NoPart /\ partRead'[w] = partFile
         /\ \A v \in Workers: v # w => partRead'[v] = partRead[v]
         /\ partRead' \in [Workers -> AnyPart]
         /\ \A v \in Workers: NamesKnown(partRead[v])'
<1>1. /\ partFile # NoPart /\ partRead'[w] = partFile
      /\ \A v \in Workers: v # w => partRead'[v] = partRead[v]
      /\ partRead' \in [Workers -> AnyPart]
  BY DEF Loads, PartIInv, PartTyped
<1>2. QED
  BY <1>1 DEF PartIInv, PartReferences, NamesKnown

\* Starts and answers of what reads the record: a tag, a note, the two jobs.
LEMMA TagKeeps ==
  ASSUME PartIInv, NEW ids \in SUBSET ToSet(libraries), Tag(ids)
  PROVE  PartIInv'
<1>1. "user" \in Workers /\ "tag" \in PartSteps /\ Starts("user", "tag", ids) /\ Loads("user")
      /\ UNCHANGED <<partFile, symbolFile, footprints, libraries, pdfFile, website, panel>>
  BY DEF Tag, Disk, Workers, PartSteps
<1>2. ids \subseteq Tags
  BY DEF PartIInv, PartTyped, ToSet, Tags
<1>3. PartTyped'
  BY <1>1, OneStarts, OneLoads DEF PartIInv, PartTyped
<1>4. PartInHand'
  BY <1>1, <1>2, OneStarts, OneLoads DEF PartIInv, PartInHand, Workers
<1>5. PartReferences'
  BY <1>1, OneStarts, OneLoads DEF PartIInv, PartReferences, NamesKnown
<1>6. QED
  BY <1>1, <1>3, <1>4, <1>5 DEF PartIInv, LibraryIdsUnique

LEMMA PromotesKeeps ==
  ASSUME PartIInv, Promotes
  PROVE  PartIInv'
<1>1. "user" \in Workers /\ "note" \in PartSteps /\ Starts("user", "note", Nothing)
      /\ Loads("user")
      /\ UNCHANGED <<partFile, symbolFile, footprints, libraries, pdfFile, website, panel>>
  BY DEF Promotes, Disk, Workers, PartSteps
<1>2. PartTyped'
  BY <1>1, OneStarts, OneLoads DEF PartIInv, PartTyped
<1>3. PartInHand'
  BY <1>1, OneStarts, OneLoads DEF PartIInv, PartInHand, Workers
<1>4. PartReferences'
  BY <1>1, OneStarts, OneLoads DEF PartIInv, PartReferences, NamesKnown
<1>5. QED
  BY <1>1, <1>2, <1>3, <1>4 DEF PartIInv, LibraryIdsUnique

LEMMA GuideStartKeeps ==
  ASSUME PartIInv, GuideStart
  PROVE  PartIInv'
<1>1. "guidance" \in Workers /\ "cache" \in PartSteps /\ Starts("guidance", "cache", Nothing)
      /\ Loads("guidance") /\ CanBeSaved(partFile)
      /\ UNCHANGED <<partFile, symbolFile, footprints, libraries, pdfFile, website, panel>>
  BY DEF GuideStart, Disk, Workers, PartSteps
<1>2. PartTyped'
  BY <1>1, OneStarts, OneLoads DEF PartIInv, PartTyped
<1>3. PartInHand'
  BY <1>1, OneStarts, OneLoads DEF PartIInv, PartInHand, Workers
<1>4. PartReferences'
  BY <1>1, OneStarts, OneLoads DEF PartIInv, PartReferences, NamesKnown, Workers
<1>5. QED
  BY <1>1, <1>2, <1>3, <1>4 DEF PartIInv, LibraryIdsUnique

LEMMA WireStartKeeps ==
  ASSUME PartIInv, WireStart
  PROVE  PartIInv'
<1>1. "wiring" \in Workers /\ "model" \in PartSteps /\ Starts("wiring", "model", Nothing)
      /\ Loads("wiring")
      /\ UNCHANGED <<partFile, symbolFile, footprints, libraries, pdfFile, website, panel>>
  BY DEF WireStart, Disk, Workers, PartSteps
<1>2. PartTyped'
  BY <1>1, OneStarts, OneLoads DEF PartIInv, PartTyped
<1>3. PartInHand'
  BY <1>1, OneStarts, OneLoads DEF PartIInv, PartInHand, Workers
<1>4. PartReferences'
  BY <1>1, OneStarts, OneLoads DEF PartIInv, PartReferences, NamesKnown, Workers
<1>5. QED
  BY <1>1, <1>2, <1>3, <1>4 DEF PartIInv, LibraryIdsUnique

LEMMA WireAnswerKeeps ==
  ASSUME PartIInv, WireAnswer
  PROVE  PartIInv'
<1>1. "wiring" \in Workers /\ "save" \in PartSteps /\ Moves("wiring", "model", "save")
      /\ Loads("wiring")
      /\ UNCHANGED <<partFile, symbolFile, footprints, libraries, pdfFile, website, panel,
                     partEdits>>
      /\ partInput' = [partInput EXCEPT !["wiring"] = [by |-> partRead["wiring"].pins]]
  BY DEF WireAnswer, Disk, Workers, PartSteps
<1>2. partRead["wiring"] \in PartRecord
  BY <1>1, PartRecords DEF Moves, PartIInv, PartInHand, PartTyped
<1>3. /\ DOMAIN partInput' = Workers /\ partInput'["wiring"] \in [by: Pinouts]
      /\ \A v \in Workers: v # "wiring" => partInput'[v] = partInput[v]
  BY <1>1, <1>2 DEF PartIInv, PartTyped, PartRecord
<1>4. PartTyped'
  BY <1>1, <1>3, OneMoves, OneLoads DEF PartIInv, PartTyped
<1>5. PartInHand'
  BY <1>1, <1>3, OneMoves, OneLoads DEF PartIInv, PartInHand, Workers
<1>6. PartReferences'
  BY <1>1, OneMoves, OneLoads DEF PartIInv, PartReferences, NamesKnown, Workers
<1>7. QED
  BY <1>1, <1>4, <1>5, <1>6 DEF PartIInv, LibraryIdsUnique

LEMMA GuideReloadKeeps ==
  ASSUME PartIInv, GuideReload
  PROVE  PartIInv'
<1> DEFINE in == [by |-> partInput["guidance"].by, done |-> partInput["guidance"].done,
                  hash |-> pdfFile]
<1>1. "guidance" \in Workers /\ "save" \in PartSteps /\ Moves("guidance", "hash", "save")
      /\ Loads("guidance")
      /\ UNCHANGED <<partFile, symbolFile, footprints, libraries, pdfFile, website, panel,
                     partEdits>>
      /\ partInput' = [partInput EXCEPT !["guidance"] = in]
  BY DEF GuideReload, OnlyGuidance, Workers, PartSteps
<1>2. in \in GuidanceRecord
  BY <1>1 DEF Moves, PartIInv, PartInHand, PartTyped, GuidanceRecord
<1> HIDE DEF in
<1>3. /\ DOMAIN partInput' = Workers /\ partInput'["guidance"] \in GuidanceRecord
      /\ \A v \in Workers: v # "guidance" => partInput'[v] = partInput[v]
  BY <1>1, <1>2 DEF PartIInv, PartTyped
<1>4. PartTyped'
  BY <1>1, <1>3, OneMoves, OneLoads DEF PartIInv, PartTyped
<1>5. PartInHand'
  BY <1>1, <1>3, OneMoves, OneLoads DEF PartIInv, PartInHand, Workers
<1>6. PartReferences'
  BY <1>1, OneMoves, OneLoads DEF PartIInv, PartReferences, NamesKnown, Workers
<1>7. QED
  BY <1>1, <1>4, <1>5, <1>6 DEF PartIInv, LibraryIdsUnique
\* A worker goes on with the records as they are: what it was called with may
\* change, and the datasheet's file, which stays when it is there.
LEMMA RecordsStay ==
  ASSUME PartIInv, NEW w \in Workers, NEW from, NEW to \in PartSteps \ {"confirmPart"},
         Moves(w, from, to),
         UNCHANGED <<partFile, symbolFile, footprints, libraries, website, partRead,
                     partEdits>>,
         pdfFile' \in Documents \cup {Nothing},
         panel' \in {panel, partRead[w]},
         DOMAIN partInput' = Workers,
         PartInHand'
  PROVE  PartIInv'
<1>1. PartTyped'
  BY OneMoves DEF PartIInv, PartTyped
<1>2. NamesKnown(panel)' /\ NamesKnown(partFile)' /\ \A v \in Workers: NamesKnown(partRead[v])'
  BY DEF PartIInv, PartReferences, NamesKnown
<1>3. partPc'["user"] = "confirmPart" => partPc["user"] = "confirmPart"
  BY OneMoves DEF PartIInv, Workers
<1>4. PartReferences'
  BY <1>2, <1>3 DEF PartIInv, PartReferences
<1>5. QED
  BY <1>1, <1>4 DEF PartIInv, LibraryIdsUnique

\* The steps of a guidance job that save nothing.
LEMMA GuideCacheKeeps ==
  ASSUME PartIInv, GuideCache
  PROVE  PartIInv'
<1> DEFINE file == IF pdfFile # Nothing THEN pdfFile ELSE Fetched
<1>1. PICK to \in {"idle", "extract"}: /\ Moves("guidance", "cache", to)
                                       /\ to = "extract" => file # Nothing
  BY DEF GuideCache
<1>2. /\ pdfFile' = file
      /\ UNCHANGED <<partFile, symbolFile, footprints, libraries, website, partRead,
                     partInput, partEdits, panel>>
  BY DEF GuideCache, OnlyGuidance
<1>3. file \in Documents \cup {Nothing}
  BY DEF Fetched, PartIInv, PartTyped
<1> HIDE DEF file
<1>4. "guidance" \in Workers /\ to \in PartSteps \ {"confirmPart"}
  BY DEF Workers, PartSteps
<1>5. PartInHand'
  BY <1>1, <1>2, <1>4, OneMoves DEF PartIInv, PartInHand, Workers
<1>6. QED
  BY <1>1, <1>2, <1>3, <1>4, <1>5, RecordsStay DEF PartIInv, PartTyped

LEMMA GuideExtractKeeps ==
  ASSUME PartIInv, GuideExtract
  PROVE  PartIInv'
<1> DEFINE in == [by |-> pdfFile, done |-> 0]
<1>1. PICK to \in {"idle", "model"}:
         /\ Moves("guidance", "extract", to)
         /\ to = "idle" => panel' = partRead["guidance"] /\ UNCHANGED partInput
         /\ to = "model" => UNCHANGED panel /\ partInput' = [partInput EXCEPT !["guidance"] = in]
  BY DEF GuideExtract
<1>2. UNCHANGED <<partFile, pdfFile, symbolFile, footprints, libraries, website, partRead,
                  partEdits>>
  BY DEF GuideExtract, OnlyGuidance
<1>3. "guidance" \in Workers /\ to \in PartSteps \ {"confirmPart"}
  BY DEF Workers, PartSteps
<1>4. in \in [by: Documents, done: Nat] /\ partRead["guidance"] # NoPart
  BY <1>1 DEF Moves, PartIInv, PartInHand, PartTyped
<1> HIDE DEF in
<1>5. /\ DOMAIN partInput' = Workers
      /\ \A v \in Workers: v # "guidance" => partInput'[v] = partInput[v]
      /\ to = "model" => partInput'["guidance"] = in
      /\ panel' \in {panel, partRead["guidance"]} /\ (panel # NoPart => panel' # NoPart)
  BY <1>1, <1>3, <1>4 DEF PartIInv, PartTyped
<1>6. PartInHand'
  BY <1>1, <1>2, <1>3, <1>4, <1>5, OneMoves DEF PartIInv, PartInHand, Workers
<1>7. QED
  BY <1>1, <1>2, <1>3, <1>5, <1>6, RecordsStay DEF PartIInv, PartTyped

LEMMA GuideCategoryKeeps ==
  ASSUME PartIInv, GuideCategory
  PROVE  PartIInv'
<1>1. PICK to \in {"idle", "model"}:
         /\ Moves("guidance", "model", to)
         /\ to = "model" => partInput' = [partInput EXCEPT !["guidance"].done = @ + 1]
         /\ to = "idle" => UNCHANGED partInput
  BY DEF GuideCategory
<1>2. UNCHANGED <<partFile, pdfFile, symbolFile, footprints, libraries, website, partRead,
                  partEdits, panel>>
  BY DEF GuideCategory, OnlyGuidance
<1>3. "guidance" \in Workers /\ to \in PartSteps \ {"confirmPart"}
  BY DEF Workers, PartSteps
<1>4. partInput["guidance"] \in [by: Documents, done: Nat] /\ DOMAIN partInput = Workers
  BY <1>1 DEF Moves, PartIInv, PartInHand, PartTyped
<1>5. /\ DOMAIN partInput' = Workers
      /\ \A v \in Workers: v # "guidance" => partInput'[v] = partInput[v]
      /\ partInput'["guidance"] \in [by: Documents, done: Nat]
  BY <1>1, <1>3, <1>4
<1>6. PartInHand'
  BY <1>1, <1>2, <1>3, <1>5, OneMoves DEF PartIInv, PartInHand, Workers
<1>7. QED
  BY <1>1, <1>2, <1>3, <1>5, <1>6, RecordsStay DEF PartIInv, PartTyped

LEMMA GuideReturnsKeeps ==
  ASSUME PartIInv, GuideReturns
  PROVE  PartIInv'
<1>1. /\ Moves("guidance", "model", "hash")
      /\ UNCHANGED <<partFile, pdfFile, symbolFile, footprints, libraries, website, partRead,
                     partEdits, panel, partInput>>
  BY DEF GuideReturns, OnlyGuidance
<1>2. "guidance" \in Workers /\ "hash" \in PartSteps \ {"confirmPart"}
  BY DEF Workers, PartSteps
<1>3. PartInHand'
  BY <1>1, <1>2, OneMoves DEF PartIInv, PartInHand, Workers
<1>4. QED
  BY <1>1, <1>2, <1>3, RecordsStay DEF PartIInv, PartTyped

LEMMA WireFailsKeeps ==
  ASSUME PartIInv, WireFails
  PROVE  PartIInv'
<1>1. /\ Moves("wiring", "model", "idle")
      /\ UNCHANGED <<partFile, pdfFile, symbolFile, footprints, libraries, website, partRead,
                     partEdits, panel, partInput>>
  BY DEF WireFails, Disk
<1>2. "wiring" \in Workers /\ "idle" \in PartSteps \ {"confirmPart"}
  BY DEF Workers, PartSteps
<1>3. PartInHand'
  BY <1>1, <1>2, OneMoves DEF PartIInv, PartInHand, Workers
<1>4. QED
  BY <1>1, <1>2, <1>3, RecordsStay DEF PartIInv, PartTyped

\* What the user does that saves no record.
LEMMA ConfirmKeeps ==
  ASSUME PartIInv, NEW p \in Pinouts, Confirm(p)
  PROVE  PartIInv'
<1>1. "user" \in Workers /\ "confirmSymbol" \in PartSteps /\ Starts("user", "confirmSymbol", p)
      /\ UNCHANGED <<partFile, symbolFile, footprints, libraries, pdfFile, website, panel,
                     partRead>>
  BY DEF Confirm, Disk, Workers, PartSteps
<1>2. PartTyped'
  BY <1>1, OneStarts DEF PartIInv, PartTyped
<1>3. PartInHand'
  BY <1>1, OneStarts DEF PartIInv, PartInHand, Workers
<1>4. PartReferences'
  BY <1>1, OneStarts DEF PartIInv, PartReferences, NamesKnown
<1>5. QED
  BY <1>1, <1>2, <1>3, <1>4 DEF PartIInv, LibraryIdsUnique

LEMMA SaveSymbolKeeps ==
  ASSUME PartIInv, SaveSymbol
  PROVE  PartIInv'
<1>1. "user" \in Workers /\ "confirmPart" \in PartSteps
      /\ Moves("user", "confirmSymbol", "confirmPart")
      /\ symbolFile' = partInput["user"]
      /\ UNCHANGED <<partFile, footprints, libraries, pdfFile, website, panel, partRead,
                     partInput, partEdits>>
  BY DEF SaveSymbol, Workers, PartSteps
<1>2. symbolFile' \in Pinouts /\ symbolFile' # Nothing
  BY <1>1, PartRecords DEF Moves, PartIInv, PartInHand
<1>3. PartTyped'
  BY <1>1, <1>2, OneMoves DEF PartIInv, PartTyped
<1>4. PartInHand'
  BY <1>1, OneMoves DEF PartIInv, PartInHand, Workers
<1>5. PartReferences'
  BY <1>1, <1>2 DEF PartIInv, PartReferences, NamesKnown
<1>6. QED
  BY <1>1, <1>3, <1>4, <1>5 DEF PartIInv, LibraryIdsUnique

LEMMA AttachKeeps ==
  ASSUME PartIInv, NEW f \in Footprints, Attach(f)
  PROVE  PartIInv'
<1>1. "user" \in Workers /\ "attach" \in PartSteps /\ Starts("user", "attach", f)
      /\ panel # NoPart /\ footprints' = footprints \cup {f}
      /\ UNCHANGED <<partFile, symbolFile, libraries, pdfFile, website, panel, partRead>>
  BY DEF Attach, Workers, PartSteps
<1>2. PartTyped'
  BY <1>1, OneStarts DEF PartIInv, PartTyped
<1>3. PartInHand'
  BY <1>1, OneStarts DEF PartIInv, PartInHand, Workers
<1>4. PartReferences'
  BY <1>1, OneStarts DEF PartIInv, PartReferences, NamesKnown
<1>5. QED
  BY <1>1, <1>2, <1>3, <1>4 DEF PartIInv, LibraryIdsUnique
\* Some number is the least of any that there are.
Below == {p \in Nat \X Nat: p[1] < p[2]}
LEMMA SomeLeast ==
  ASSUME NEW T \in SUBSET Nat, T # {}
  PROVE  \E x \in T: \A y \in T: x <= y
<1>1. IsWellFoundedOn(Below, Nat)
  BY NatLessThanWellFounded DEF Below, OpToRel
<1>2. PICK x \in T: \A y \in T: <<y, x>> \notin Below
  BY <1>1, WFMin
<1>3. \A y \in T: y \in Nat /\ x \in Nat
  OBVIOUS
<1>4. \A y \in T: y < x => <<y, x>> \in Below
  BY <1>3 DEF Below
<1>5. ASSUME NEW y \in T PROVE x <= y
  <2>1. ~(y < x)
    BY <1>2, <1>4
  <2>2. QED
    BY <1>3, <2>1
<1>6. QED
  BY <1>5

\* Among one number more than there are ids, one is free; the first that is gives
\* an id that nothing has.
LEMMA FirstFreeIsFree ==
  ASSUME NEW slug \in Slugs, NEW taken, IsFiniteSet(taken),
         Cardinality(taken) <= MaxLibraries + 1
  PROVE  FirstFree(slug, taken) \in LibraryIds /\ FirstFree(slug, taken) \notin taken
<1> DEFINE S == 1..(MaxLibraries + 2)
           T == {n \in S: Numbered(slug, n) \notin taken}
           f == [n \in S |-> Numbered(slug, n)]
<1>1. MaxLibraries \in Nat /\ MaxLibraries + 2 \in Nat
  BY PartAssumption
<1>2. T # {}
  <2>1. SUFFICES ASSUME T = {} PROVE FALSE
    OBVIOUS
  <2>2. \A n \in S: f[n] \in taken
    BY <2>1
  <2>3. \A m, n \in S: f[m] = f[n] => m = n
    BY NumberedAssumption
  <2>4. f \in Injection(S, taken)
    BY <2>2, <2>3 DEF Injection, IsInjective
  <2>5. Cardinality(S) <= Cardinality(taken)
    BY <2>4, FS_Injection
  <2>6. Cardinality(S) = MaxLibraries + 2
    BY <1>1, FS_Interval
  <2>7. Cardinality(taken) \in Nat
    BY FS_CardinalityType
  <2>8. QED
    BY <1>1, <2>5, <2>6, <2>7
<1>3. PICK n \in T: \A m \in T: n <= m
  <2>1. T \in SUBSET Nat
    BY <1>1
  <2> HIDE DEF T
  <2>2. QED
    BY <1>2, <2>1, SomeLeast
<1>4. /\ n \in S /\ Numbered(slug, n) \notin taken
      /\ \A m \in 1..(n - 1): Numbered(slug, m) \in taken
  BY <1>1, <1>3
<1>5. PICK k \in S: /\ FirstFree(slug, taken) = Numbered(slug, k)
                    /\ Numbered(slug, k) \notin taken
  BY <1>4 DEF FirstFree
<1>6. QED
  BY <1>5 DEF LibraryIds
\* A library is created with an id of its own.
LEMMA CreateLibraryKeeps ==
  ASSUME PartIInv, NEW slug \in Slugs, CreateLibrary(slug)
  PROVE  PartIInv'
<1> DEFINE taken == ToSet(libraries) \cup {DefaultLibrary}
           n == Len(libraries)
<1>1. libraries \in Seq(LibraryIds) /\ n \in Nat /\ n < MaxLibraries
  BY DEF PartIInv, PartTyped, CreateLibrary
<1>2. IsFiniteSet(taken) /\ Cardinality(taken) <= MaxLibraries + 1
  <2>1. libraries \in Surjection(1..n, ToSet(libraries))
    BY <1>1 DEF Surjection, ToSet
  <2>2. IsFiniteSet(1..n) /\ Cardinality(1..n) = n
    BY <1>1, FS_Interval
  <2>3. IsFiniteSet(ToSet(libraries)) /\ Cardinality(ToSet(libraries)) <= n
    BY <2>1, <2>2, FS_Surjection
  <2>4. /\ IsFiniteSet(taken)
        /\ Cardinality(taken) \in {Cardinality(ToSet(libraries)),
                                   Cardinality(ToSet(libraries)) + 1}
    BY <2>3, FS_AddElement
  <2>5. Cardinality(ToSet(libraries)) \in Nat
    BY <2>3, FS_CardinalityType
  <2>6. QED
    BY <1>1, <2>3, <2>4, <2>5, PartAssumption
<1>3. PICK id \in LibraryIds: id \notin taken /\ libraries' = Append(libraries, id)
  <2>1. NewId(slug) \in LibraryIds /\ NewId(slug) \notin taken
    BY <1>2, FirstFreeIsFree DEF NewId
  <2>2. QED
    BY <2>1 DEF CreateLibrary
<1>4. UNCHANGED <<partFile, symbolFile, footprints, pdfFile, website, panel, partPc,
                  partRead, partInput, partEdits>>
  BY DEF CreateLibrary
<1>5. libraries' \in Seq(LibraryIds) /\ Len(libraries') = n + 1 /\ libraries'[n + 1] = id
      /\ \A i \in 1..n: libraries'[i] = libraries[i]
  BY <1>1, <1>3
<1>6. Len(libraries') <= MaxLibraries
  BY <1>1, <1>5, PartAssumption
<1>7. PartTyped'
  BY <1>4, <1>5, <1>6 DEF PartIInv, PartTyped
<1>8. PartInHand' /\ PartReferences'
  BY <1>4 DEF PartIInv, PartInHand, PartReferences, NamesKnown
<1>9. LibraryIdsUnique'
  <2>1. \A i \in 1..n: libraries[i] # id /\ libraries[i] # DefaultLibrary
    BY <1>1, <1>3 DEF PartIInv, LibraryIdsUnique, ToSet
  <2>2. \A i \in 1..Len(libraries'): i = n + 1 \/ i \in 1..n
    BY <1>1, <1>5
  <2>3. \A i, j \in 1..Len(libraries'): libraries'[i] = libraries'[j] => i = j
    BY <1>5, <2>1, <2>2 DEF PartIInv, LibraryIdsUnique
  <2>4. \A i \in 1..Len(libraries'): libraries'[i] # DefaultLibrary
    BY <1>3, <1>5, <2>1, <2>2
  <2>5. DefaultLibrary \notin ToSet(libraries')
    BY <1>5, <2>4 DEF ToSet
  <2>6. QED
    BY <2>3, <2>5 DEF LibraryIdsUnique
<1>10. QED
  BY <1>7, <1>8, <1>9 DEF PartIInv

\* The panel, the datasheet's address and the cancel event change no record.
LEMMA OpenPartKeeps ==
  ASSUME PartIInv, OpenPart
  PROVE  PartIInv'
<1>1. /\ panel' = partFile /\ partFile # NoPart
      /\ UNCHANGED <<partFile, symbolFile, footprints, libraries, pdfFile, website, partPc,
                     partRead, partInput, partEdits>>
  BY DEF OpenPart, Disk
<1>2. QED
  BY <1>1 DEF PartIInv, PartTyped, PartInHand, PartReferences, NamesKnown, LibraryIdsUnique

LEMMA DatasheetKeeps ==
  ASSUME PartIInv, OpenCitation \/ WebsiteChanges \/ CancelGuidance
  PROVE  PartIInv'
<1>1. UNCHANGED <<partFile, symbolFile, footprints, libraries, panel, partPc, partRead,
                  partInput>>
  BY DEF OpenCitation, WebsiteChanges, CancelGuidance, Disk
<1>2. /\ website' \in Documents \cup {WebPage} /\ partEdits' \in Nat
      /\ pdfFile' \in Documents \cup {Nothing} /\ (pdfFile # Nothing => pdfFile' # Nothing)
  BY PartRecords DEF OpenCitation, WebsiteChanges, CancelGuidance, Disk, Fetched, PartIInv, PartTyped
<1>3. PartTyped'
  BY <1>1, <1>2 DEF PartIInv, PartTyped
<1>4. PartInHand' /\ PartReferences'
  BY <1>1, <1>2 DEF PartIInv, PartInHand, PartReferences, NamesKnown
<1>5. QED
  BY <1>1, <1>3, <1>4 DEF PartIInv, LibraryIdsUnique

\* After a kill nothing is under way.
LEMMA PartKillKeeps ==
  ASSUME PartIInv, PartKill
  PROVE  PartIInv'
<1>1. UNCHANGED <<partFile, symbolFile, footprints, libraries, pdfFile, website, panel,
                  partRead, partInput, partEdits>>
  BY DEF PartKill, Disk
<1>2. partPc' \in [Workers -> PartSteps] /\ \A w \in Workers: partPc'[w] = "idle"
  BY DEF PartKill, PartSteps
<1>3. PartTyped'
  BY <1>1, <1>2 DEF PartIInv, PartTyped
<1>4. PartInHand'
  BY <1>2 DEF PartInHand, Workers
<1>5. PartReferences'
  BY <1>1, <1>2 DEF PartIInv, PartReferences, NamesKnown, Workers
<1>6. QED
  BY <1>1, <1>3, <1>4, <1>5 DEF PartIInv, LibraryIdsUnique

\* The library is empty, or holds a part whose symbol is there.
LEMMA PartBeginKeeps ==
  ASSUME PartIInv, PartBegin
  PROVE  PartIInv'
<1>1. UNCHANGED <<footprints, libraries, pdfFile, panel, partRead, partInput, partEdits>>
      /\ website' \in Documents
  BY DEF PartBegin
<1>2. partPc' \in [Workers -> PartSteps] /\ \A w \in Workers: partPc'[w] = "idle"
  BY DEF PartBegin, PartSteps
<1>3. PICK p \in Pinouts: \/ UNCHANGED <<partFile, symbolFile>>
                          \/ partFile' = Untraced(p) /\ symbolFile' = p
  BY DEF PartBegin
<1>4. Untraced(p) \in PartRecord /\ Untraced(p).footprint = Nothing
      /\ DefaultLibrary \in Untraced(p).tags
  <2>1. Fresh(p) \in PartRecord /\ Fresh(p).footprint = Nothing
        /\ DefaultLibrary \in Fresh(p).tags
    BY FreshRecord DEF Fresh
  <2> HIDE DEF Fresh
  <2>2. QED
    BY <2>1 DEF Untraced, PartRecord
<1>5. PartTyped'
  BY <1>1, <1>2, <1>3, <1>4 DEF PartIInv, PartTyped, AnyPart
<1>6. PartInHand'
  BY <1>2 DEF PartInHand, Workers
<1>7. PartReferences'
  <2>1. NamesKnown(partFile)'
    BY <1>1, <1>3, <1>4, PartRecords DEF PartIInv, PartReferences, NamesKnown
  <2>2. symbolFile # Nothing => symbolFile' # Nothing
    BY <1>3, PartRecords
  <2>3. QED
    BY <1>1, <1>2, <2>1, <2>2 DEF PartIInv, PartReferences, NamesKnown, Workers
<1>8. QED
  BY <1>1, <1>5, <1>6, <1>7 DEF PartIInv, LibraryIdsUnique

\* The invariant holds always.
THEOREM PartInvariant == PartSpec => []PartIInv
<1>1. ASSUME PartIInv, [PartNext]_partVars PROVE PartIInv'
  <2>1. CASE UNCHANGED partVars
    BY <1>1, <2>1 DEF partVars, PartIInv, PartTyped, PartInHand, PartReferences, NamesKnown,
                      LibraryIdsUnique
  <2>2. CASE User
    <3>1. \A f \in {"found", "generated"}: f \in Footprints
      BY DEF Footprints
    <3>2. QED
      BY <1>1, <2>2, <3>1, OpenPartKeeps, ConfirmKeeps, SaveSymbolKeeps, SaveConfirmedKeeps,
         AttachKeeps, SaveAttachedKeeps, TagKeeps, SaveTaggedKeeps, PromotesKeeps,
         SaveNoteKeeps, CreateLibraryKeeps, DatasheetKeeps DEF User
  <2>3. CASE Guidance
    BY <1>1, <2>3, GuideStartKeeps, GuideCacheKeeps, GuideExtractKeeps, GuideCategoryKeeps,
       GuideReturnsKeeps, GuideReloadKeeps, GuideSaveKeeps, DatasheetKeeps DEF Guidance
  <2>4. CASE Wiring
    BY <1>1, <2>4, WireStartKeeps, WireAnswerKeeps, WireFailsKeeps, WireSaveKeeps DEF Wiring
  <2>5. QED
    BY <1>1, <2>1, <2>2, <2>3, <2>4, PartBeginKeeps, DatasheetKeeps, PartKillKeeps DEF PartNext
<1>2. QED
  BY <1>1, PartInitial, PTL DEF PartSpec

\* Each part is in the default library, every library has an id of its own
\* (create_library), and guidance is made only for a part that can be saved
\* (datasheet_generate_guidance).
THEOREM PartTypes == PartSpec => []PartTypeOK
<1>1. ASSUME PartIInv PROVE PartTypeOK
  <2>1. partFile # NoPart => partFile \in PartRecord
    BY <1>1, PartRecords DEF PartIInv, PartTyped
  <2>2. GeneratedCanBeSaved
    BY <1>1 DEF PartIInv, PartInHand, GeneratedCanBeSaved
  <2>3. QED
    BY <1>1, <2>1, <2>2 DEF PartIInv, PartTyped, PartTypeOK, PartRecord
<1>2. QED
  BY <1>1, PartInvariant, PTL

\* What a part names is on disk, whatever is killed when: the symbol and the
\* footprint are saved before the part (save_confirmed_part,
\* attachFootprintToPart).
THEOREM NamesResolve == PartSpec => []ReferencesResolve
<1>1. ASSUME PartIInv PROVE ReferencesResolve
  BY <1>1 DEF PartIInv, PartReferences, NamesKnown, ReferencesResolve
<1>2. QED
  BY <1>1, PartInvariant, PTL

-------------------------------------------------------------------------------
(* The board houses: HouseLibrary.                                         *)

Payloads == Seq(Entry \cup {Dropped})
Modes == {"report", "overwrite", "rename"}

\* The states of an import are there, one for each entry.
LEMMA ImportsAre ==
    ASSUME NEW payload \in Payloads, NEW mode
    PROVE  Imports(payload, mode) =
             [i \in 0..Len(payload) |->
                IF i = 0 THEN Begun(library)
                ELSE ImportOne(Imports(payload, mode)[i - 1], payload[i], i, mode)]
  <1> DEFINE After(f, i) == IF i = 0 THEN Begun(library)
                            ELSE ImportOne(f[i - 1], payload[i], i, mode)
             Runs(f, n) == f = [i \in 0..n |-> After(f, i)]
             Bad == {n \in Nat: ~\E f: Runs(f, n)}
  <1>1. Bad = {}
    <2> SUFFICES ASSUME Bad # {} PROVE FALSE
      OBVIOUS
    <2>1. PICK n \in Bad: \A m \in Bad: n <= m
      <3> Bad \in SUBSET Nat
        OBVIOUS
      <3> HIDE DEF Bad
      <3> QED BY SomeLeast
    <2>2. n \in Nat /\ ~\E f: Runs(f, n)
      BY <2>1
    <2>3. CASE n = 0
      <3> DEFINE g == [i \in 0..0 |-> Begun(library)]
      <3>1. g = [i \in 0..0 |-> After(g, i)]
        OBVIOUS
      <3> QED BY <2>2, <2>3, <3>1
    <2>4. CASE n # 0
      <3>1. n - 1 \in Nat /\ n - 1 \notin Bad
        BY <2>1, <2>2, <2>4
      <3>2. PICK f: Runs(f, n - 1)
        BY <3>1
      <3> DEFINE g == [i \in 0..n |-> IF i = n THEN ImportOne(f[n - 1], payload[n], n, mode) ELSE f[i]]
      <3>3. \A i \in 0..(n - 1): f[i] = After(f, i)
        BY <3>2
      <3>4. \A i \in 0..(n - 1): g[i] = f[i]
        BY <2>2
      <3>5. \A i \in 0..n: g[i] = After(g, i)
        <4> SUFFICES ASSUME NEW i \in 0..n PROVE g[i] = After(g, i)
          OBVIOUS
        <4>1. CASE i = 0
          <5>1. g[0] = f[0] /\ f[0] = Begun(library)
            BY <2>2, <2>4, <3>3, <3>4
          <5> QED BY <4>1, <5>1
        <4>2. CASE i # 0
          <5>1. i - 1 \in 0..(n - 1) /\ g[i - 1] = f[i - 1]
            BY <2>2, <3>4, <4>2
          <5>2. i # n => i \in 0..(n - 1) /\ g[i] = f[i] /\ f[i] = After(f, i)
            BY <2>2, <3>3, <3>4
          <5>3. i = n => g[i] = ImportOne(f[n - 1], payload[n], n, mode)
            BY <2>2
          <5> HIDE DEF g
          <5> QED BY <4>2, <5>1, <5>2, <5>3
        <4> QED BY <4>1, <4>2
      <3>6. g = [i \in 0..n |-> After(g, i)]
        <4>1. g = [i \in 0..n |-> g[i]]
          OBVIOUS
        <4> HIDE DEF g, After
        <4> QED BY <3>5, <4>1
      <3> HIDE DEF g
      <3> QED BY <2>2, <3>6
    <2> QED BY <2>3, <2>4
  <1>2. Len(payload) \in Nat
    BY DEF Payloads
  <1>3. \E f: Runs(f, Len(payload))
    BY <1>1, <1>2
  <1>4. Imports(payload, mode) = CHOOSE f: Runs(f, Len(payload))
    BY DEF Imports
  <1>5. Runs(Imports(payload, mode), Len(payload))
    <2> HIDE DEF Runs
    <2> QED BY <1>3, <1>4
  <1> QED BY <1>5

-------------------------------------------------------------------------------
House == [is: {"house"}, value: Values \cup {NoValue}, sourced: BOOLEAN,
          from: HouseIds \cup {NoId}]

\* The library holds houses that the checker would pass, none its own origin.
LibraryOK(lib) ==
    /\ lib \in [HouseIds -> House \cup {NoHouseAt}]
    /\ \A id \in HouseIds: Has(lib, id) =>
          (lib[id].value # NoValue => lib[id].sourced) /\ lib[id].from # id

\* The report so far accounts for the first i places, each in one way.
Accounts(s, places) ==
    LET done == {p[1] : p \in s.imported}
    IN /\ done \cup s.skipped \cup s.rejected = places
       /\ done \cap s.skipped = {}
       /\ (done \cup s.skipped) \cap s.rejected = {}
       /\ \A p, q \in s.imported: p[1] = q[1] => p = q

FirstPlaces(payload, i) == {j \in 1..i: payload[j] # Dropped}

\* Only what is asked to be reported is skipped, and what is brought in then
\* has its own id.
Named(payload, mode, s) ==
    /\ mode # "report" => s.skipped = {}
    /\ mode = "report" => \A p \in s.imported: p[2] = payload[p[1]].id
    /\ \A j \in s.skipped: payload[j].id # NoId

\* The houses that were there are there.
Keeps(lib) == \A id \in HouseIds: Has(library, id) => lib[id] = library[id]

AskedToReplace(payload, mode) == mode = "overwrite" \/ (mode = "rename" /\ ~Roomy(payload))

Sound(payload, mode, i, s) ==
    /\ s = [lib |-> s.lib, imported |-> s.imported, skipped |-> s.skipped,
            rejected |-> s.rejected]
    /\ LibraryOK(s.lib)
    /\ Accounts(s, FirstPlaces(payload, i))
    /\ Named(payload, mode, s)
    /\ Keeps(s.lib) \/ AskedToReplace(payload, mode)

-------------------------------------------------------------------------------
\* A free id is one of the library's, and free.
LEMMA UnusedIsFree ==
    ASSUME NEW lib, NEW id \in HouseIds
    PROVE  /\ UnusedHouseId(lib, id) \in HouseIds
           /\ Free(lib, id) # {} => ~Has(lib, UnusedHouseId(lib, id))
  <1>1. Later(id) \subseteq HouseIds
    BY HouseAssumption DEF Later, HouseIds
  <1>2. CASE Free(lib, id) = {}
    BY <1>2 DEF UnusedHouseId
  <1>3. CASE Free(lib, id) # {}
    <2> DEFINE counts == {i[2]: i \in Free(lib, id)}
    <2>1. counts \in SUBSET Nat /\ counts # {}
      BY <1>1, <1>3, HouseAssumption DEF Free, HouseIds
    <2>2. PICK n \in counts: \A m \in counts: n <= m
      <3> HIDE DEF counts
      <3> QED BY <2>1, SomeLeast
    <2>3. PICK i \in Free(lib, id): i[2] = n
      BY <2>2
    <2>4. \A j \in Free(lib, id): i[2] <= j[2]
      BY <2>2, <2>3
    <2> DEFINE u == CHOOSE i1 \in Free(lib, id): \A j \in Free(lib, id): i1[2] <= j[2]
    <2>5. u \in Free(lib, id)
      BY <2>3, <2>4
    <2>6. u = UnusedHouseId(lib, id)
      BY <1>3 DEF UnusedHouseId
    <2> HIDE DEF u
    <2> QED BY <1>1, <2>5, <2>6 DEF Free
  <1> QED BY <1>2, <1>3

\* An entry that the checker passes is stored as a house of the user's.
LEMMA StoredIsHouse ==
    ASSUME NEW e \in Entry, Valid(e), NEW lib, LibraryOK(lib), NEW id \in HouseIds,
           NEW h, h = Stored([e EXCEPT !.from = NoId]), NEW new, new = [lib EXCEPT ![id] = h]
    PROVE  LibraryOK(new) /\ \A j \in HouseIds: j # id => new[j] = lib[j]
  <1>1. h = [is |-> "house", value |-> e.value, sourced |-> e.sourced, from |-> NoId]
    BY DEF Stored, Entry
  <1>2. e.value \in Values \cup {NoValue} /\ e.sourced \in BOOLEAN
        /\ (e.value # NoValue => e.sourced)
    BY DEF Entry, Valid
  <1>3. h \in House
    BY <1>1, <1>2 DEF House
  <1>4. lib \in [HouseIds -> House \cup {NoHouseAt}]
    BY DEF LibraryOK
  <1>5. new \in [HouseIds -> House \cup {NoHouseAt}]
    BY <1>3, <1>4
  <1>6. \A j \in HouseIds: new[j] = IF j = id THEN h ELSE lib[j]
    BY <1>4
  <1>7. NoId # id
    BY HouseAssumption DEF NoId, HouseIds
  <1>8. h.value = e.value /\ h.sourced = e.sourced /\ h.from = NoId
    BY <1>1
  <1>9. ASSUME NEW j \in HouseIds, Has(new, j)
        PROVE  (new[j].value # NoValue => new[j].sourced) /\ new[j].from # j
    <2>1. CASE j = id
      BY <1>2, <1>6, <1>7, <1>8, <2>1
    <2>2. CASE j # id
      BY <1>6, <1>9, <2>2 DEF LibraryOK, Has
    <2> QED BY <2>1, <2>2
  <1> QED BY <1>5, <1>6, <1>9 DEF LibraryOK

\* One entry more.
LEMMA OneMore ==
    ASSUME NEW payload \in Payloads, NEW mode \in Modes, NEW i \in 1..Len(payload),
           LibraryOK(library), Sound(payload, mode, i - 1, Imports(payload, mode)[i - 1])
    PROVE  Sound(payload, mode, i, ImportOne(Imports(payload, mode)[i - 1], payload[i], i, mode))
  <1> DEFINE e == payload[i]
             s == Imports(payload, mode)[i - 1]
  <1>1. i \in Nat /\ i # 0 /\ i - 1 \in Nat /\ e \in Entry \cup {Dropped}
    BY DEF Payloads
  <1>2. Sound(payload, mode, i - 1, s)
    OBVIOUS
  <1>3. CASE e = Dropped
    <2>1. FirstPlaces(payload, i) = FirstPlaces(payload, i - 1)
      BY <1>1, <1>3 DEF FirstPlaces
    <2>2. ImportOne(s, e, i, mode) = s
      BY <1>3 DEF ImportOne
    <2> HIDE DEF s
    <2>3. Sound(payload, mode, i, ImportOne(s, e, i, mode))
      BY <1>2, <2>1, <2>2 DEF Sound
    <2> QED BY <2>3 DEF s
  <1>4. CASE e # Dropped
    <2>1. FirstPlaces(payload, i) = FirstPlaces(payload, i - 1) \cup {i}
          /\ i \notin FirstPlaces(payload, i - 1)
      BY <1>1, <1>4 DEF FirstPlaces
    <2>2. e \in Entry
      BY <1>1, <1>4
    <2>3. AskedToReplace(payload, mode) \/ (mode = "rename" =>
             (e.id # NoId /\ Has(s.lib, e.id) => Free(s.lib, e.id) # {}))
      <3> SUFFICES ASSUME mode = "rename", Roomy(payload)
                   PROVE e.id # NoId /\ Has(s.lib, e.id) => Free(s.lib, e.id) # {}
        BY DEF AskedToReplace
      <3>1. i \in Filled(payload)
        BY <1>4 DEF Filled
      <3> QED BY <3>1 DEF Roomy
    <2> HIDE DEF s
    <2>4. /\ s = [lib |-> s.lib, imported |-> s.imported, skipped |-> s.skipped,
                  rejected |-> s.rejected]
          /\ LibraryOK(s.lib)
          /\ Accounts(s, FirstPlaces(payload, i - 1))
          /\ Named(payload, mode, s)
          /\ Keeps(s.lib) \/ AskedToReplace(payload, mode)
      BY <1>2 DEF Sound
    <2>5. ASSUME NEW t, t = Rejects(s, i) PROVE Sound(payload, mode, i, t)
      <3>1. t = [lib |-> s.lib, imported |-> s.imported, skipped |-> s.skipped,
                 rejected |-> s.rejected \cup {i}]
        BY <2>4, <2>5 DEF Rejects
      <3>2. t.lib = s.lib /\ t.imported = s.imported /\ t.skipped = s.skipped
            /\ t.rejected = s.rejected \cup {i}
        BY <3>1
      <3>3. Accounts(t, FirstPlaces(payload, i))
        BY <2>1, <2>4, <3>2 DEF Accounts
      <3>4. Named(payload, mode, t)
        BY <2>4, <3>2 DEF Named
      <3> QED BY <2>4, <3>1, <3>2, <3>3, <3>4 DEF Sound
    <2>6. ASSUME NEW t, t = Skips(s, i), mode = "report", e.id # NoId
          PROVE Sound(payload, mode, i, t)
      <3>1. t = [lib |-> s.lib, imported |-> s.imported, skipped |-> s.skipped \cup {i},
                 rejected |-> s.rejected]
        BY <2>4, <2>6 DEF Skips
      <3>2. t.lib = s.lib /\ t.imported = s.imported /\ t.skipped = s.skipped \cup {i}
            /\ t.rejected = s.rejected
        BY <3>1
      <3>3. Accounts(t, FirstPlaces(payload, i))
        BY <2>1, <2>4, <3>2 DEF Accounts
      <3>4. Named(payload, mode, t)
        BY <2>4, <2>6, <3>2 DEF Named
      <3> QED BY <2>4, <3>1, <3>2, <3>3, <3>4 DEF Sound
    <2>7. ASSUME e.id # NoId, ~(Has(s.lib, e.id) /\ mode = "report"), Valid(e),
                 NEW to, to = Target(s.lib, e.id, mode), NEW t, t = Brings(s, e, i, to)
          PROVE Sound(payload, mode, i, t)
      <3>1. e.id \in HouseIds
        BY <2>2, <2>7 DEF Entry
      <3>2. to \in HouseIds
        BY <2>7, <3>1, UnusedIsFree DEF Target
      <3>3. mode = "report" => to = e.id
        BY <2>7 DEF Target
      <3>4. AskedToReplace(payload, mode) \/ ~Has(s.lib, to)
        <4>1. CASE Has(s.lib, e.id)
          <5>1. mode \in {"rename", "overwrite"}
            BY <2>7, <4>1 DEF Modes
          <5>2. CASE mode = "rename"
            BY <2>3, <2>7, <3>1, <4>1, <5>2, UnusedIsFree DEF Target
          <5> QED BY <5>1, <5>2 DEF AskedToReplace
        <4>2. CASE ~Has(s.lib, e.id)
          BY <2>7, <4>2 DEF Target
        <4> QED BY <4>1, <4>2
      <3> DEFINE h == Stored([e EXCEPT !.from = NoId])
                 new == [s.lib EXCEPT ![to] = h]
      <3>5. t = [lib |-> new, imported |-> s.imported \cup {<<i, to>>},
                 skipped |-> s.skipped, rejected |-> s.rejected]
        <4> DEFINE w == s.imported \cup {<<i, to>>}
        <4>1. t = [s EXCEPT !.lib[to] = h, !.imported = w]
          BY <2>7 DEF Brings
        <4> HIDE DEF h, w
        <4>2. t = [lib |-> new, imported |-> w, skipped |-> s.skipped, rejected |-> s.rejected]
          BY <2>4, <4>1
        <4> QED BY <4>2 DEF w
      <3>6. LibraryOK(new) /\ \A j \in HouseIds: j # to => new[j] = s.lib[j]
        BY <2>2, <2>4, <2>7, <3>2, StoredIsHouse
      <3> HIDE DEF h, new
      <3>7. t.lib = new /\ t.imported = s.imported \cup {<<i, to>>}
            /\ t.skipped = s.skipped /\ t.rejected = s.rejected
        BY <3>5
      <3>8. Accounts(t, FirstPlaces(payload, i))
        <4> DEFINE done == {p[1]: p \in s.imported}
        <4>1. {p[1]: p \in t.imported} = done \cup {i}
          <5>1. \A x: x \in {p[1]: p \in t.imported} => x \in done \cup {i}
            BY <3>7
          <5>2. \A x: x \in done \cup {i} => x \in {p[1]: p \in t.imported}
            BY <3>7
          <5> QED BY <5>1, <5>2
        <4>2. /\ done \cup s.skipped \cup s.rejected = FirstPlaces(payload, i - 1)
              /\ done \cap s.skipped = {}
              /\ (done \cup s.skipped) \cap s.rejected = {}
              /\ \A p, q \in s.imported: p[1] = q[1] => p = q
          BY <2>4 DEF Accounts
        <4>3. \A p \in s.imported: p[1] # i
          BY <2>1, <4>2
        <4>4. \A p, q \in t.imported: p[1] = q[1] => p = q
          BY <3>7, <4>2, <4>3
        <4> HIDE DEF done
        <4> QED BY <2>1, <3>7, <4>1, <4>2, <4>4 DEF Accounts
      <3>9. Named(payload, mode, t)
        BY <2>4, <3>3, <3>7 DEF Named
      <3>10. Keeps(new) \/ AskedToReplace(payload, mode)
        BY <2>4, <3>4, <3>6 DEF Keeps, Has
      <3> QED BY <3>5, <3>6, <3>7, <3>8, <3>9, <3>10 DEF Sound
    <2> HIDE DEF e
    <2>8. \/ ImportOne(s, e, i, mode) = Rejects(s, i)
          \/ /\ ImportOne(s, e, i, mode) = Skips(s, i)
             /\ mode = "report" /\ e.id # NoId
          \/ /\ ImportOne(s, e, i, mode) = Brings(s, e, i, Target(s.lib, e.id, mode))
             /\ e.id # NoId /\ ~(Has(s.lib, e.id) /\ mode = "report") /\ Valid(e)
      BY <1>4, Zenon DEF ImportOne
    <2>9. Sound(payload, mode, i, ImportOne(s, e, i, mode))
      BY <2>5, <2>6, <2>7, <2>8, Zenon
    <2> QED BY <2>9 DEF s, e
  <1> QED BY <1>3, <1>4

\* So it is after every entry.
LEMMA ImportIsSound ==
    ASSUME NEW payload \in Payloads, NEW mode \in Modes, LibraryOK(library)
    PROVE  Sound(payload, mode, Len(payload), ImportAll(payload, mode))
  <1> DEFINE at(i) == Imports(payload, mode)[i]
             Bad == {i \in 0..Len(payload): ~Sound(payload, mode, i, at(i))}
  <1>1. Len(payload) \in Nat
    BY DEF Payloads
  <1>2. /\ at(0) = Begun(library)
        /\ \A i \in 1..Len(payload): at(i) = ImportOne(at(i - 1), payload[i], i, mode)
    <2> DEFINE f == Imports(payload, mode)
    <2>1. f = [i \in 0..Len(payload) |->
                IF i = 0 THEN Begun(library)
                ELSE ImportOne(f[i - 1], payload[i], i, mode)]
      BY ImportsAre
    <2> HIDE DEF f
    <2>2. f[0] = Begun(library)
      BY <1>1, <2>1
    <2>3. \A i \in 1..Len(payload): f[i] = ImportOne(f[i - 1], payload[i], i, mode)
      BY <1>1, <2>1
    <2> QED BY <2>2, <2>3 DEF f
  <1>3. Sound(payload, mode, 0, Begun(library))
    BY DEF Sound, Begun, Accounts, FirstPlaces, Named, Keeps
  <1>4. Bad = {}
    <2> SUFFICES ASSUME Bad # {} PROVE FALSE
      OBVIOUS
    <2>1. PICK n \in Bad: \A m \in Bad: n <= m
      <3> Bad \in SUBSET Nat
        BY <1>1
      <3> HIDE DEF Bad
      <3> QED BY SomeLeast
    <2>2. n \in 0..Len(payload) /\ ~Sound(payload, mode, n, at(n))
      BY <2>1
    <2>3. n # 0
      BY <1>2, <1>3, <2>2
    <2>4. n \in 1..Len(payload) /\ n - 1 \in 0..Len(payload) /\ ~(n <= n - 1)
      BY <1>1, <2>2, <2>3
    <2>5. Sound(payload, mode, n - 1, at(n - 1))
      BY <2>1, <2>4
    <2> QED BY <1>2, <2>2, <2>4, <2>5, OneMore
  <1>5. Len(payload) \in 0..Len(payload)
    BY <1>1
  <1> QED BY <1>4, <1>5 DEF ImportAll

-------------------------------------------------------------------------------
\* The inductive invariant: the library, and what is open of the last import.
HouseIInv ==
    /\ LibraryOK(library)
    /\ pendingFile \in Payloads
    /\ houseReport.mode \in Modes \cup {"none"}
    /\ Accounts(houseReport, houseReport.places)
    /\ FilesCollideOnlyWithTheLibrary

LEMMA HouseInitSound == HouseInit => HouseIInv
  <1> SUFFICES ASSUME HouseInit PROVE HouseIInv
    OBVIOUS
  <1>1. LibraryOK(library)
    BY DEF HouseInit, LibraryOK, Has
  <1>2. pendingFile \in Payloads
    BY DEF HouseInit, Payloads
  <1> QED BY <1>1, <1>2
      DEF HouseInit, HouseIInv, NoReport, Report, Begun, Accounts, FilesCollideOnlyWithTheLibrary

\* Both ways of choosing entries give a payload; in one of files, no id is at
\* two places.
LEMMA MergedIsPayload ==
    ASSUME NEW p \in HouseFiles, NEW q \in HouseFiles
    PROVE  /\ p \in Payloads
           /\ Merged(p, q) \in Payloads
           /\ \A i, j \in Filled(Merged(p, q)):
                 Merged(p, q)[i].id # NoId /\ Merged(p, q)[i].id = Merged(p, q)[j].id => i = j
  <1> DEFINE all == p \o q
             m == Merged(p, q)
  <1>1. p \in Seq(Entry) /\ q \in Seq(Entry)
    BY HouseAssumption
  <1>2. all \in Seq(Entry)
    BY <1>1
  <1>3. m = [i \in 1..Len(all) |->
               IF all[i].id # NoId /\ \E j \in (i + 1)..Len(all): all[j].id = all[i].id
                 THEN Dropped ELSE all[i]]
    BY DEF Merged
  <1> HIDE DEF all, m
  <1>4. Len(all) \in Nat /\ \A i \in 1..Len(all): all[i] \in Entry
    BY <1>2
  <1>5. m \in Seq(Entry \cup {Dropped}) /\ Len(m) = Len(all)
    <2>1. \A i \in 1..Len(all): m[i] \in Entry \cup {Dropped}
      BY <1>3, <1>4
    <2>2. m \in [1..Len(all) -> Entry \cup {Dropped}]
      BY <1>3, <2>1
    <2> QED BY <1>4, <2>2
  <1>6. ASSUME NEW i \in Filled(m), NEW j \in Filled(m), m[i].id # NoId, m[i].id = m[j].id
        PROVE i = j
    <2>1. /\ i \in 1..Len(all) /\ j \in 1..Len(all)
          /\ m[i] # Dropped /\ m[j] # Dropped
      BY <1>5 DEF Filled
    <2>2. /\ m[i] = all[i] /\ ~\E k \in (i + 1)..Len(all): all[k].id = all[i].id
          /\ m[j] = all[j] /\ ~\E k \in (j + 1)..Len(all): all[k].id = all[j].id
      BY <1>3, <1>6, <2>1
    <2>3. j \notin (i + 1)..Len(all) /\ i \notin (j + 1)..Len(all)
      BY <1>6, <2>2
    <2> QED BY <1>4, <2>1, <2>3
  <1>7. p \in Payloads
    BY <1>1 DEF Payloads
  <1> QED BY <1>5, <1>6, <1>7 DEF Payloads, m

LEMMA FilledAreAll ==
    ASSUME NEW payload \in Payloads
    PROVE  FirstPlaces(payload, Len(payload)) = Filled(payload)
  BY DEF FirstPlaces, Filled

\* What a report says is what the import had.
LEMMA ReportHas ==
    ASSUME NEW source, NEW mode, NEW places, NEW s
    PROVE  LET r == Report(source, mode, places, s)
           IN /\ r.source = source /\ r.mode = mode /\ r.places = places
              /\ r.imported = s.imported /\ r.skipped = s.skipped /\ r.rejected = s.rejected
  BY DEF Report

LEMMA ImportKeeps ==
    ASSUME HouseIInv, NEW payload \in Payloads, NEW source, Import(payload, source),
           source = "files" => \A i, j \in Filled(payload):
               payload[i].id # NoId /\ payload[i].id = payload[j].id => i = j
    PROVE  HouseIInv' /\ houseReport'.mode = "report" /\ Keeps(library')
  <1> DEFINE s == ImportAll(payload, "report")
  <1>1. Sound(payload, "report", Len(payload), s)
    BY ImportIsSound DEF HouseIInv, Modes
  <1>2. /\ library' = s.lib
        /\ houseReport' = Report(source, "report", Filled(payload), s)
        /\ pendingFile' = IF s.skipped = {} THEN <<>> ELSE payload
    BY DEF Import
  <1> HIDE DEF s
  <1>3. /\ LibraryOK(s.lib) /\ Accounts(s, Filled(payload)) /\ Named(payload, "report", s)
        /\ Keeps(s.lib)
    BY <1>1, FilledAreAll DEF Sound, AskedToReplace
  <1>4. /\ houseReport'.source = source /\ houseReport'.mode = "report"
        /\ houseReport'.places = Filled(payload)
        /\ houseReport'.imported = s.imported /\ houseReport'.skipped = s.skipped
        /\ houseReport'.rejected = s.rejected
    BY <1>2, ReportHas
  <1>5. pendingFile' \in Payloads
    <2>1. <<>> \in Payloads
      BY DEF Payloads
    <2> QED BY <1>2, <2>1
  <1>6. Accounts(houseReport', houseReport'.places)
    BY <1>3, <1>4 DEF Accounts
  <1>7. FilesCollideOnlyWithTheLibrary'
    <2> SUFFICES ASSUME source = "files", NEW i \in s.skipped, NEW p \in s.imported
                 PROVE p[2] # pendingFile'[i].id
      BY <1>4 DEF FilesCollideOnlyWithTheLibrary
    <2>1. pendingFile' = payload
      BY <1>2
    <2>2. i \in Filled(payload) /\ p[1] \in Filled(payload) /\ i # p[1]
      BY <1>3 DEF Accounts
    <2>3. payload[i].id # NoId /\ p[2] = payload[p[1]].id
      BY <1>3 DEF Named
    <2> QED BY <2>1, <2>2, <2>3
  <1> QED BY <1>2, <1>3, <1>4, <1>5, <1>6, <1>7 DEF HouseIInv, Modes

LEMMA ResolveKeeps ==
    ASSUME HouseIInv, NEW mode \in {"overwrite", "rename"}, ResolveCollisions(mode)
    PROVE  HouseIInv' /\ houseReport'.mode = mode /\ (mode = "rename" => Keeps(library'))
  <1> DEFINE s == ImportAll(pendingFile, mode)
  <1>1. Sound(pendingFile, mode, Len(pendingFile), s)
    BY ImportIsSound DEF HouseIInv, Modes
  <1>2. /\ library' = s.lib
        /\ houseReport' = Report(houseReport.source, mode, Filled(pendingFile), s)
        /\ pendingFile' = <<>>
        /\ mode = "rename" => Roomy(pendingFile)
    BY DEF ResolveCollisions
  <1> HIDE DEF s
  <1>3. /\ LibraryOK(s.lib) /\ Accounts(s, Filled(pendingFile)) /\ s.skipped = {}
        /\ mode = "rename" => Keeps(s.lib)
    BY <1>1, <1>2, FilledAreAll DEF Sound, AskedToReplace, Named, HouseIInv
  <1>4. /\ houseReport'.mode = mode
        /\ houseReport'.places = Filled(pendingFile)
        /\ houseReport'.imported = s.imported /\ houseReport'.skipped = s.skipped
        /\ houseReport'.rejected = s.rejected
    BY <1>2, ReportHas
  <1>5. pendingFile' \in Payloads
    BY <1>2 DEF Payloads
  <1>6. Accounts(houseReport', houseReport'.places)
    BY <1>3, <1>4 DEF Accounts
  <1>7. FilesCollideOnlyWithTheLibrary'
    BY <1>3, <1>4 DEF FilesCollideOnlyWithTheLibrary
  <1> QED BY <1>2, <1>3, <1>4, <1>5, <1>6, <1>7 DEF HouseIInv, Modes

\* What clears the notice keeps what the report says, or drops it.
LEMMA ClearedKeeps ==
    ASSUME HouseIInv, NoticeCleared, LibraryOK(library)'
    PROVE  HouseIInv' /\ (houseReport' = houseReport \/ houseReport'.mode = "none")
  <1>1. pendingFile' = pendingFile
    BY DEF NoticeCleared
  <1>2. CASE pendingFile = <<>>
    <2>1. /\ houseReport'.source = "none" /\ houseReport'.mode = "none"
          /\ houseReport'.places = {} /\ houseReport'.imported = {}
          /\ houseReport'.skipped = {} /\ houseReport'.rejected = {}
      BY <1>2 DEF NoticeCleared, NoReport, Report, Begun
    <2>2. Accounts(houseReport', houseReport'.places)
      BY <2>1 DEF Accounts
    <2>3. FilesCollideOnlyWithTheLibrary'
      BY <2>1 DEF FilesCollideOnlyWithTheLibrary
    <2> QED BY <1>1, <2>1, <2>2, <2>3 DEF HouseIInv
  <1>3. CASE pendingFile # <<>>
    <2>1. houseReport' = houseReport
      BY <1>3 DEF NoticeCleared
    <2> QED BY <1>1, <2>1 DEF HouseIInv, FilesCollideOnlyWithTheLibrary
  <1> QED BY <1>2, <1>3

\* One house changes: it is dropped, or is one that the checker passes.
LEMMA OneHouse ==
    ASSUME LibraryOK(library), NEW id \in HouseIds, NEW h,
           h = NoHouseAt \/ (/\ h \in House
                             /\ h.value # NoValue => h.sourced
                             /\ h.from # id),
           library' = [library EXCEPT ![id] = h]
    PROVE  LibraryOK(library)'
  <1>1. library \in [HouseIds -> House \cup {NoHouseAt}]
    BY DEF LibraryOK
  <1>2. library' \in [HouseIds -> House \cup {NoHouseAt}]
    BY <1>1
  <1>3. \A j \in HouseIds: library'[j] = IF j = id THEN h ELSE library[j]
    BY <1>1
  <1> QED BY <1>2, <1>3 DEF LibraryOK, Has

LEMMA HouseStep ==
    ASSUME HouseIInv, HouseNext
    PROVE  /\ HouseIInv'
           /\ \/ houseReport' = houseReport
              \/ houseReport'.mode \in {"none", "overwrite"}
              \/ Keeps(library')
  <1>1. LibraryOK(library) /\ \A id \in HouseIds: Has(library, id) => library[id] \in House
    BY DEF HouseIInv, LibraryOK, Has
  <1>2. CASE ImportPaste
    <2>1. PICK p \in HouseFiles: Import(p, "paste")
      BY <1>2 DEF ImportPaste
    <2>2. p \in Payloads
      BY MergedIsPayload
    <2> QED BY <2>1, <2>2, ImportKeeps
  <1>3. CASE ImportFiles
    <2>1. PICK p \in HouseFiles, q \in HouseFiles: Import(Merged(p, q), "files")
      BY <1>3 DEF ImportFiles
    <2> QED BY <2>1, MergedIsPayload, ImportKeeps
  <1>4. ASSUME NEW mode \in {"overwrite", "rename"}, ResolveCollisions(mode)
        PROVE  HouseIInv' /\ (houseReport'.mode \in {"none", "overwrite"} \/ Keeps(library'))
    BY <1>4, ResolveKeeps
  <1>5. ASSUME NEW v \in Values, StartFromTemplate(v)
        PROVE  LibraryOK(library)' /\ NoticeCleared
    <2>1. PICK i \in HouseIds:
             library' = [library EXCEPT ![i] =
                            Stored([id |-> i, value |-> v, sourced |-> TRUE,
                                    from |-> NoId, template |-> FALSE])]
      BY <1>5 DEF StartFromTemplate
    <2> DEFINE h == Stored([id |-> i, value |-> v, sourced |-> TRUE,
                            from |-> NoId, template |-> FALSE])
    <2>2. h = [is |-> "house", value |-> v, sourced |-> TRUE, from |-> NoId]
      BY DEF Stored
    <2>3. NoId # i
      BY HouseAssumption DEF NoId, HouseIds
    <2>4. library' = [library EXCEPT ![i] = h]
      BY <2>1
    <2> HIDE DEF h
    <2>5. h \in House /\ h.sourced /\ h.from # i
      BY <2>2, <2>3 DEF House
    <2>6. LibraryOK(library)'
      BY <1>1, <2>4, <2>5, OneHouse
    <2> QED BY <1>5, <2>6 DEF StartFromTemplate
  <1>6. ASSUME NEW id \in HouseIds, Clone(id)
        PROVE  LibraryOK(library)' /\ NoticeCleared
    <2>1. PICK i \in HouseIds: /\ ~Has(library, i)
                               /\ library' = [library EXCEPT ![i] = [library[id] EXCEPT !.from = id]]
      BY <1>6 DEF Clone, CloneId
    <2> DEFINE h == [library[id] EXCEPT !.from = id]
    <2>2. Has(library, id) /\ library[id] \in House
          /\ (library[id].value # NoValue => library[id].sourced)
      BY <1>1, <1>6 DEF Clone, LibraryOK
    <2>3. h \in House /\ h.from = id /\ h.value = library[id].value
          /\ h.sourced = library[id].sourced
      BY <2>2 DEF House
    <2>4. i # id
      BY <2>1, <2>2
    <2>5. library' = [library EXCEPT ![i] = h]
      BY <2>1
    <2> HIDE DEF h
    <2>6. LibraryOK(library)'
      BY <1>1, <2>2, <2>3, <2>4, <2>5, OneHouse
    <2> QED BY <1>6, <2>6 DEF Clone
  <1>7. ASSUME NEW id \in HouseIds, NEW v \in Values \cup {NoValue}, SaveEdits(id, v)
        PROVE  LibraryOK(library)' /\ NoticeCleared
    <2> DEFINE h == [library[id] EXCEPT !.value = v]
    <2>1. Has(library, id) /\ library[id] \in House /\ library[id].from # id
      BY <1>1, <1>7 DEF SaveEdits, LibraryOK
    <2>2. library' = [library EXCEPT ![id] = h] /\ (v # NoValue => h.sourced)
      BY <1>7 DEF SaveEdits
    <2>3. h \in House /\ h.from # id /\ h.value = v
      BY <2>1 DEF House
    <2> HIDE DEF h
    <2>4. LibraryOK(library)'
      BY <1>1, <2>2, <2>3, OneHouse
    <2> QED BY <1>7, <2>4 DEF SaveEdits
  <1>8. ASSUME NEW id \in HouseIds, ResetHouse(id) \/ DeleteHouse(id)
        PROVE  LibraryOK(library)' /\ NoticeCleared
    <2>1. library' = [library EXCEPT ![id] = NoHouseAt] /\ NoticeCleared
      BY <1>8 DEF ResetHouse, DeleteHouse
    <2> QED BY <1>1, <2>1, OneHouse
  <1>9. LibraryOK(library)' /\ NoticeCleared =>
          HouseIInv' /\ (houseReport' = houseReport \/ houseReport'.mode = "none")
    BY ClearedKeeps
  <1> QED
    BY <1>2, <1>3, <1>4, <1>5, <1>6, <1>7, <1>8, <1>9 DEF HouseNext

LEMMA HouseStutters ==
    ASSUME HouseIInv, UNCHANGED houseVars
    PROVE  HouseIInv'
  BY DEF HouseIInv, houseVars, FilesCollideOnlyWithTheLibrary

LEMMA HouseInvariant == HouseSpec => []HouseIInv
  <1>1. HouseIInv /\ [HouseNext]_houseVars => HouseIInv'
    BY HouseStep, HouseStutters
  <1> QED BY <1>1, HouseInitSound, PTL DEF HouseSpec

\* The library of board houses holds only what the checker passes, and no house
\* is its own origin, whatever was imported, cloned, edited and reset
\* (save_house, reset_house).
THEOREM HouseTypes == HouseSpec => []HouseTypeOK
  <1>1. HouseIInv => HouseTypeOK
    <2> SUFFICES ASSUME HouseIInv PROVE HouseTypeOK
      OBVIOUS
    <2>1. \A id \in HouseIds: Has(library, id) =>
              /\ library[id] \in House
              /\ library[id].value # NoValue => library[id].sourced
              /\ library[id].from # id
      BY DEF HouseIInv, LibraryOK, Has
    <2>2. \A id \in HouseIds: Has(library, id) =>
              /\ library[id].from \in HouseIds \cup {NoId}
              /\ library[id].value \in Values \cup {NoValue}
      BY <2>1 DEF House
    <2> QED BY <2>1, <2>2 DEF HouseIInv, HouseTypeOK, NoHouseFromItself, Payloads, Modes
  <1> QED BY <1>1, HouseInvariant, PTL

\* What the panel is told of an import is what it did, for any files: every entry
\* is accounted for in one way, and files chosen together collide only with what
\* was in the library (import_houses, read_house_files).
THEOREM ImportsAreReported == HouseSpec => []ImportReportTruthful
  <1>1. HouseIInv => ImportReportTruthful
    BY DEF HouseIInv, ImportReportTruthful, ReportAccountsForAll, Accounts
  <1> QED BY <1>1, HouseInvariant, PTL

\* Reporting and renaming leave every house as it was, however many entries of
\* a payload collide with each other and with the library (import_houses).
THEOREM NothingReplacedUnasked == HouseSpec => ReplacesOnlyWhenAsked
  <1>1. HouseIInv /\ [HouseNext]_houseVars =>
          [houseReport' # houseReport /\ houseReport'.mode \in {"report", "rename"} =>
             \A id \in HouseIds: Has(library, id) => library'[id] = library[id]]_houseVars
    BY HouseStep DEF Keeps
  <1> QED BY <1>1, HouseInvariant, PTL DEF HouseSpec, ReplacesOnlyWhenAsked

-------------------------------------------------------------------------------
(* The thread of a chat, and the notes made of it: ChatThread.             *)

TurnRecord == [by: Sends \cup {Legacy}, role: {"user", "assistant", "none"},
               caveat: BOOLEAN, noted: BOOLEAN]

\* Where a send can be, and where it is once its question was written.
Asked == {"model", "caveat", "reply", "replyCaveat", "sent", "failed"}
SendSteps == {"undrawn", "load", "migrate:ask", "copy:ask", "ask"} \cup Asked
MainSteps == {"undrawn", "idle", "find", "note", "read", "truncate", "rewrite",
              "migrate:idle", "copy:idle", "migrate:note"}

\* The values of the variables.
ChatTyped ==
    /\ TurnsIn(chatFile) \in Seq(TurnRecord)
    /\ chatFile \in {NoThread, Mixed, Lines(TurnsIn(chatFile))}
    /\ chatNotes \subseteq Sends
    /\ chatPc \in [Threads -> SendSteps \cup MainSteps]
    /\ chatPc[Main] \in MainSteps /\ \A k \in Sends: chatPc[k] \in SendSteps
    /\ chatRead \in [Threads -> Seq(TurnRecord)]
    /\ chatSetup \in [legacy: BOOLEAN, intent: BOOLEAN]
    /\ promoted \in TurnRecord

\* The turns of a file, or of what was read of it: an old conversation's turn is
\* the first, a send's turn is there once and not before the send wrote it, and
\* a marked turn has its note.
OkTurn(turn, i, pc, notes) ==
    /\ turn.by = Legacy => i = 1 /\ turn.role = "user"
    /\ turn.noted => turn.by \in notes
    /\ turn.caveat => turn.role = "assistant"
    /\ turn.by \in Sends =>
          /\ pc[turn.by] \in Asked
          /\ turn.role # "user" => turn.role = "assistant" /\ pc[turn.by] = "sent"
OkTurns(s, pc, notes) ==
    /\ \A i \in 1..Len(s): OkTurn(s[i], i, pc, notes)
    /\ \A i, j \in 1..Len(s): s[i].by = s[j].by /\ s[i].role = s[j].role => i = j

\* What a thread has in hand at its step.
InHand ==
    /\ chatPc[Main] = "undrawn" => \A k \in Sends: chatPc[k] = "undrawn"
    /\ \A k \in Sends: chatPc[k] = "model" =>
          \A i \in 1..Len(chatRead[k]): chatRead[k][i].by # k
    /\ \A t \in Threads:
          chatPc[t] \in {"migrate:ask", "copy:ask", "migrate:idle", "copy:idle"} =>
             chatRead[t] = LegacyTurns
    /\ chatPc[Main] \in {"find", "note", "migrate:note", "read", "truncate", "rewrite"} =>
          promoted.by \in Sends
    /\ chatPc[Main] \in {"read", "truncate", "rewrite"} => promoted.by \in chatNotes

\* As long as nothing is promoted: no question comes between a caveat and its
\* own reply's caveat, in the file and in what a send is about to append.
CaveatsOk(s, pc) ==
    /\ \A i, j \in 1..Len(s): i < j /\ s[i].caveat /\ s[j].caveat =>
          ~\E q \in i..j: s[q].by = s[j].by /\ s[q].role = "user"
    /\ \A k \in Sends: pc[k] = "replyCaveat" =>
          \A i, q \in 1..Len(s):
              s[i].caveat /\ s[q].by = k /\ s[q].role = "user" => q < i

\* The inductive invariant.
ChatIInv ==
    /\ ChatTyped
    /\ OkTurns(TurnsIn(chatFile), chatPc, chatNotes)
    /\ \A t \in Threads: OkTurns(chatRead[t], chatPc, chatNotes)
    /\ InHand
    /\ chatNotes = {} => CaveatsOk(TurnsIn(chatFile), chatPc)
\* The initial state.
LEMMA ChatInitial == ChatInit => ChatIInv
<1> SUFFICES ASSUME ChatInit PROVE ChatIInv
  OBVIOUS
<1> USE DEF ChatInit, TurnsIn, NoThread
<1>1. TurnsIn(chatFile) = <<>> /\ <<>> \in Seq(TurnRecord)
  OBVIOUS
<1>2. \A t \in Threads: chatPc[t] = "undrawn" /\ chatRead[t] = <<>>
  OBVIOUS
<1>3. Main \in Threads /\ Sends \subseteq Threads
  BY DEF Threads
<1>4. promoted \in TurnRecord
  BY DEF Turn, TurnRecord
<1>5. ChatTyped
  BY <1>1, <1>2, <1>3, <1>4 DEF ChatTyped, MainSteps, SendSteps
<1>6. OkTurns(<<>>, chatPc, chatNotes) /\ CaveatsOk(<<>>, chatPc)
  BY DEF OkTurns, CaveatsOk
<1>7. InHand
  BY <1>2, <1>3 DEF InHand
<1>8. QED
  BY <1>1, <1>2, <1>5, <1>6, <1>7 DEF ChatIInv

\* What a step does to the notes and to where the sends are: nothing is unsaid.
Grows(pc, later, notes, laterNotes) ==
    /\ notes \subseteq laterNotes
    /\ \A k \in Sends: /\ pc[k] \in Asked => later[k] \in Asked
                       /\ pc[k] = "sent" => later[k] = "sent"

\* Turns that are in order stay so.
LEMMA TurnsStayOk ==
  ASSUME NEW s \in Seq(TurnRecord), NEW pc, NEW later, NEW notes, NEW laterNotes,
         Grows(pc, later, notes, laterNotes), OkTurns(s, pc, notes)
  PROVE  OkTurns(s, later, laterNotes)
<1>1. \A i \in 1..Len(s): OkTurn(s[i], i, later, laterNotes)
  BY DEF OkTurns, OkTurn, Grows
<1>2. QED
  BY <1>1 DEF OkTurns

\* So are the old conversation's turn and no turns.
LEMMA LegacyTurnsOk ==
  ASSUME NEW pc, NEW notes
  PROVE  /\ LegacyTurns \in Seq(TurnRecord) /\ OkTurns(LegacyTurns, pc, notes)
         /\ <<>> \in Seq(TurnRecord) /\ OkTurns(<<>>, pc, notes)
         /\ CaveatsOk(LegacyTurns, pc) /\ CaveatsOk(<<>>, pc)
<1>1. /\ Turn(Legacy, "user") \in TurnRecord
      /\ Turn(Legacy, "user").by = Legacy /\ Turn(Legacy, "user").role = "user"
      /\ Turn(Legacy, "user").noted = FALSE /\ Turn(Legacy, "user").caveat = FALSE
  BY DEF Turn, TurnRecord
<1> HIDE DEF Turn
<1>2. /\ LegacyTurns \in Seq(TurnRecord) /\ Len(LegacyTurns) = 1
      /\ LegacyTurns[1] = Turn(Legacy, "user")
  BY <1>1 DEF LegacyTurns
<1>3. OkTurn(LegacyTurns[1], 1, pc, notes)
  BY <1>1, <1>2, ChatAssumption DEF OkTurn
<1>4. \A i \in 1..Len(LegacyTurns): i = 1
  BY <1>2
<1>5. OkTurns(LegacyTurns, pc, notes)
  BY <1>3, <1>4 DEF OkTurns
<1>6. CaveatsOk(LegacyTurns, pc)
  BY <1>1, <1>2, <1>4 DEF CaveatsOk
<1>7. OkTurns(<<>>, pc, notes) /\ CaveatsOk(<<>>, pc)
  BY DEF OkTurns, CaveatsOk
<1>8. QED
  BY <1>2, <1>5, <1>6, <1>7

\* A step of one thread, from one place to another.
LEMMA OneGoes ==
  ASSUME ChatTyped, NEW t \in Threads, NEW from, NEW to, Goes(t, from, to),
         t = Main => to \in MainSteps, t \in Sends => to \in SendSteps
  PROVE  /\ chatPc[t] = from /\ chatPc'[t] = to
         /\ \A u \in Threads: u # t => chatPc'[u] = chatPc[u]
         /\ chatPc' \in [Threads -> SendSteps \cup MainSteps]
         /\ chatPc'[Main] \in MainSteps /\ \A k \in Sends: chatPc'[k] \in SendSteps
         /\ Main \in Threads /\ Sends \subseteq Threads /\ Main \notin Sends
BY ChatAssumption DEF ChatTyped, Goes, Threads

\* Files: what is read of one, and what a write makes of it.
LEMMA FileTurns1 ==
  ASSUME NEW s \in Seq(TurnRecord)
  PROVE  TurnsIn(Lines(s)) = s /\ TurnsIn(Mixed) = <<>> /\ TurnsIn(NoThread) = <<>>
BY DEF TurnsIn, Lines, Mixed, NoThread
\* Where the loads are: at the start of a send, of the panel, and of a promotion.
LoadsAt(t, from, to, onError) ==
    \/ t \in Sends /\ from = "load" /\ to = "ask" /\ onError = "failed"
    \/ t = Main /\ from = "idle" /\ to = "idle" /\ onError = "idle"
    \/ t = Main /\ from = "find" /\ to = "note" /\ onError = "idle"

\* What was read is what the file has, or the old conversation, which is copied.
LEMMA LoadKeeps ==
  ASSUME ChatIInv, NEW t \in Threads, NEW from, NEW to, NEW onError,
         LoadsAt(t, from, to, onError), Load(t, from, to, onError)
  PROVE  ChatIInv'
<1> USE DEF ChatIInv
<1>1. PICK place \in {Migrating[to], to, onError}, turns \in Seq(TurnRecord):
         /\ Goes(t, from, place) /\ chatRead' = [chatRead EXCEPT ![t] = turns]
         /\ OkTurns(turns, chatPc, chatNotes)
         /\ place = Migrating[to] => turns = LegacyTurns
  <2>1. CASE chatFile = NoThread /\ chatSetup.legacy
    <3>1. Goes(t, from, Migrating[to]) /\ chatRead' = [chatRead EXCEPT ![t] = LegacyTurns]
      BY <2>1 DEF Load, Goes, NoThread, Mixed
    <3>2. QED
      BY <3>1, LegacyTurnsOk
  <2>2. CASE chatFile # NoThread \/ ~chatSetup.legacy
    <3>1. Migrating[to] \notin {to, onError}
      BY DEF LoadsAt, Migrating
    <3>2. CASE chatFile = Mixed
      <4>1. Goes(t, from, onError) /\ UNCHANGED chatRead
        BY <2>2, <3>2 DEF Load, NoThread, Mixed, Goes
      <4>2. chatRead[t] \in Seq(TurnRecord) /\ chatRead' = [chatRead EXCEPT ![t] = chatRead[t]]
        BY <4>1 DEF ChatTyped
      <4>3. QED
        BY <3>1, <4>1, <4>2
    <3>3. CASE chatFile # Mixed
      <4>1. Goes(t, from, to) /\ chatRead' = [chatRead EXCEPT ![t] = TurnsIn(chatFile)]
        BY <2>2, <3>3 DEF Load, Goes
      <4>2. QED
        BY <3>1, <4>1 DEF ChatTyped
    <3>4. QED
      BY <3>2, <3>3
  <2>3. QED
    BY <2>1, <2>2
<1>2. /\ t \in Sends => from = "load" /\ place \in {"migrate:ask", "ask", "failed"}
      /\ t = Main => /\ from \in {"idle", "find"}
                     /\ place \in {"migrate:idle", "migrate:note", "idle", "note"}
                     /\ place \in {"migrate:note", "note"} => from = "find"
                     /\ place = "migrate:idle" => turns = LegacyTurns
      /\ t \in Sends /\ place = "migrate:ask" => turns = LegacyTurns
  BY <1>1, ChatAssumption DEF LoadsAt, Migrating
<1>3. /\ chatPc[t] = from /\ chatPc'[t] = place
      /\ \A u \in Threads: u # t => chatPc'[u] = chatPc[u]
      /\ chatPc' \in [Threads -> SendSteps \cup MainSteps]
      /\ chatPc'[Main] \in MainSteps /\ \A k \in Sends: chatPc'[k] \in SendSteps
      /\ Main \in Threads /\ Sends \subseteq Threads /\ Main \notin Sends
  <2>1. (t = Main => place \in MainSteps) /\ (t \in Sends => place \in SendSteps)
    BY <1>2 DEF MainSteps, SendSteps, Asked
  <2>2. QED
    BY <1>1, <2>1, OneGoes
<1>4. UNCHANGED <<chatFile, chatNotes, chatSetup, promoted>>
  BY DEF Load, Quiet
<1>5. /\ chatRead' \in [Threads -> Seq(TurnRecord)] /\ chatRead'[t] = turns
      /\ \A u \in Threads: u # t => chatRead'[u] = chatRead[u]
  BY <1>1 DEF ChatTyped
<1>6. Grows(chatPc, chatPc', chatNotes, chatNotes')
  BY <1>2, <1>3, <1>4 DEF Grows, Asked
<1>7. ChatTyped'
  BY <1>3, <1>4, <1>5 DEF ChatTyped
<1>8. OkTurns(TurnsIn(chatFile'), chatPc', chatNotes')
  BY <1>4, <1>6, TurnsStayOk DEF ChatTyped
<1>9. ASSUME NEW u \in Threads PROVE OkTurns(chatRead'[u], chatPc', chatNotes')
  <2>1. CASE u = t
    BY <1>1, <1>5, <1>6, <2>1, TurnsStayOk
  <2>2. CASE u # t
    BY <1>5, <1>6, <2>2, TurnsStayOk DEF ChatTyped
  <2>3. QED
    BY <2>1, <2>2
<1>10. InHand'
  BY <1>1, <1>2, <1>3, <1>4, <1>5, ChatAssumption DEF InHand, ChatTyped, Threads
<1>11. chatNotes' = {} => CaveatsOk(TurnsIn(chatFile'), chatPc')
  BY <1>2, <1>3, <1>4 DEF CaveatsOk
<1>12. QED
  BY <1>7, <1>8, <1>9, <1>10, <1>11
\* A step of one thread that keeps what is in hand: the notes, what was read, the
\* setup and what is promoted.
LEMMA HandKept ==
  ASSUME ChatIInv, NEW t \in Threads, NEW from, NEW to, Goes(t, from, to),
         UNCHANGED <<chatNotes, chatRead, chatSetup, promoted>>,
         \/ t \in Sends /\ <<from, to>> \in {<<"migrate:ask", "copy:ask">>,
               <<"copy:ask", "ask">>, <<"ask", "model">>, <<"model", "caveat">>,
               <<"model", "failed">>, <<"caveat", "reply">>, <<"caveat", "replyCaveat">>,
               <<"reply", "sent">>, <<"replyCaveat", "sent">>}
         \/ t = Main /\ <<from, to>> \in {<<"migrate:idle", "copy:idle">>,
               <<"copy:idle", "idle">>, <<"truncate", "rewrite">>, <<"rewrite", "idle">>,
               <<"note", "idle">>, <<"read", "idle">>}
  PROVE  /\ Grows(chatPc, chatPc', chatNotes, chatNotes')
         /\ chatPc[t] = from /\ chatPc'[t] = to
         /\ \A u \in Threads: u # t => chatPc'[u] = chatPc[u]
         /\ Main \in Threads /\ Sends \subseteq Threads /\ Main \notin Sends
         /\ (from = "ask" => \A i \in 1..Len(chatRead[t]): chatRead[t][i].by # t)
               => InHand'
         /\ \A s \in Seq(TurnRecord): OkTurns(s, chatPc, chatNotes)
               => OkTurns(s, chatPc', chatNotes')
         /\ \A u \in Threads: OkTurns(chatRead'[u], chatPc', chatNotes')
         /\ TurnsIn(chatFile') \in Seq(TurnRecord)
            /\ chatFile' \in {NoThread, Mixed, Lines(TurnsIn(chatFile'))} => ChatTyped'
<1> USE DEF ChatIInv
<1>1. /\ chatPc[t] = from /\ chatPc'[t] = to
      /\ \A u \in Threads: u # t => chatPc'[u] = chatPc[u]
      /\ chatPc' \in [Threads -> SendSteps \cup MainSteps]
      /\ chatPc'[Main] \in MainSteps /\ \A k \in Sends: chatPc'[k] \in SendSteps
      /\ Main \in Threads /\ Sends \subseteq Threads /\ Main \notin Sends
  <2>1. (t = Main => to \in MainSteps) /\ (t \in Sends => to \in SendSteps)
    BY ChatAssumption DEF MainSteps, SendSteps, Asked
  <2>2. QED
    BY <2>1, OneGoes
<1>2. Grows(chatPc, chatPc', chatNotes, chatNotes')
  BY <1>1 DEF Grows, Asked
<1>3. ASSUME from = "ask" => \A i \in 1..Len(chatRead[t]): chatRead[t][i].by # t
      PROVE  InHand'
  <2>1. chatPc'[Main] = "undrawn" => \A k \in Sends: chatPc'[k] = "undrawn"
    BY <1>1 DEF InHand
  <2>2. ASSUME NEW k \in Sends, chatPc'[k] = "model"
        PROVE  \A i \in 1..Len(chatRead'[k]): chatRead'[k][i].by # k
    BY <1>1, <1>3, <2>2 DEF InHand
  <2>3. ASSUME NEW u \in Threads,
               chatPc'[u] \in {"migrate:ask", "copy:ask", "migrate:idle", "copy:idle"}
        PROVE  chatRead'[u] = LegacyTurns
    BY <1>1, <2>3 DEF InHand
  <2>4. /\ chatPc'[Main] \in {"find", "note", "migrate:note", "read", "truncate", "rewrite"} =>
              promoted'.by \in Sends
        /\ chatPc'[Main] \in {"read", "truncate", "rewrite"} => promoted'.by \in chatNotes'
    BY <1>1 DEF InHand
  <2>5. QED
    BY <2>1, <2>2, <2>3, <2>4 DEF InHand
<1>4. \A s \in Seq(TurnRecord): OkTurns(s, chatPc, chatNotes) => OkTurns(s, chatPc', chatNotes')
  BY <1>2, TurnsStayOk
<1>5. \A u \in Threads: OkTurns(chatRead'[u], chatPc', chatNotes')
  BY <1>4 DEF ChatTyped
<1>6. TurnsIn(chatFile') \in Seq(TurnRecord)
      /\ chatFile' \in {NoThread, Mixed, Lines(TurnsIn(chatFile'))} => ChatTyped'
  BY <1>1 DEF ChatTyped
<1>7. QED
  BY <1>1, <1>2, <1>3, <1>4, <1>5, <1>6

\* Where the file is rewritten: by a migration, and by the mark of a promotion.
RewritesAt(t, from, to) ==
    \/ t \in Sends /\ from = "copy:ask" /\ to = "ask"
    \/ t = Main /\ from \in {"copy:idle", "rewrite"} /\ to = "idle"
TruncatesAt(t, from, to) ==
    \/ t \in Sends /\ from = "migrate:ask" /\ to = "copy:ask"
    \/ t = Main /\ from = "migrate:idle" /\ to = "copy:idle"
    \/ t = Main /\ from = "truncate" /\ to = "rewrite"

\* No turn is out of order in an empty file.
LEMMA TruncateKeeps ==
  ASSUME ChatIInv, NEW t \in Threads, NEW from, NEW to, TruncatesAt(t, from, to),
         Truncate(t, from, to)
  PROVE  ChatIInv'
<1>1. Goes(t, from, to) /\ UNCHANGED <<chatNotes, chatRead, chatSetup, promoted>>
  BY DEF Truncate, Quiet
<1>2. /\ ChatTyped' /\ InHand'
      /\ \A u \in Threads: OkTurns(chatRead'[u], chatPc', chatNotes')
      /\ TurnsIn(chatFile') = <<>>
  <2>1. chatFile' = Lines(<<>>) /\ TurnsIn(chatFile') = <<>>
    BY FileTurns1, LegacyTurnsOk DEF Truncate
  <2>2. from # "ask"
    BY DEF TruncatesAt
  <2>3. QED
    BY <1>1, <2>1, <2>2, HandKept, LegacyTurnsOk DEF TruncatesAt
<1>3. QED
  BY <1>2, LegacyTurnsOk DEF ChatIInv

\* What is written is what was read; while nothing is promoted it is the old
\* conversation, where no turn has a caveat.
LEMMA RewriteKeeps ==
  ASSUME ChatIInv, NEW t \in Threads, NEW from, NEW to, RewritesAt(t, from, to),
         RewriteThread(t, from, to)
  PROVE  ChatIInv'
<1>1. Goes(t, from, to) /\ UNCHANGED <<chatNotes, chatRead, chatSetup, promoted>>
  BY DEF RewriteThread, Quiet
<1>2. chatRead[t] \in Seq(TurnRecord)
  BY DEF ChatIInv, ChatTyped
<1>3. TurnsIn(chatFile') \in {<<>>, chatRead[t]} /\ chatFile' \in {Mixed, Lines(TurnsIn(chatFile'))}
  <2>1. chatFile' \in {Lines(chatRead[t]), Mixed}
    BY DEF RewriteThread, WrittenOver
  <2>2. QED
    BY <1>2, <2>1, FileTurns1
<1>4. /\ chatPc[t] = from /\ InHand' /\ ChatTyped'
      /\ \A u \in Threads: OkTurns(chatRead'[u], chatPc', chatNotes')
  <2>1. from # "ask"
    BY DEF RewritesAt
  <2>2. TurnsIn(chatFile') \in Seq(TurnRecord)
    BY <1>2, <1>3, LegacyTurnsOk
  <2>3. QED
    BY <1>1, <1>3, <2>1, <2>2, HandKept DEF RewritesAt
<1>5. OkTurns(TurnsIn(chatFile'), chatPc', chatNotes')
  <2>1. UNCHANGED chatRead
    BY <1>1
  <2>2. QED
    BY <1>3, <1>4, <2>1, LegacyTurnsOk
<1>6. chatNotes' = {} => CaveatsOk(TurnsIn(chatFile'), chatPc')
  <2>1. chatNotes = {} => chatRead[t] = LegacyTurns
    BY <1>4, ChatAssumption DEF ChatIInv, InHand, RewritesAt, Threads
  <2>2. QED
    BY <1>1, <1>3, <2>1, LegacyTurnsOk
<1>7. QED
  BY <1>4, <1>5, <1>6 DEF ChatIInv
\* A file after a line was appended.
LEMMA AppendedFile ==
  ASSUME ChatTyped, NEW turn \in TurnRecord, chatFile' = Appended(chatFile, turn)
  PROVE  /\ chatFile' \in {Mixed, Lines(TurnsIn(chatFile'))}
         /\ TurnsIn(chatFile') \in Seq(TurnRecord)
         /\ TurnsIn(chatFile') \in {<<>>, Append(TurnsIn(chatFile), turn)}
<1>1. Append(TurnsIn(chatFile), turn) \in Seq(TurnRecord) /\ <<>> \in Seq(TurnRecord)
  BY DEF ChatTyped
<1>2. chatFile' \in {Mixed, Lines(Append(TurnsIn(chatFile), turn))}
  BY DEF Appended
<1>3. QED
  BY <1>1, <1>2, FileTurns1

\* Turns in order, and one more of a send that had no such turn.
LEMMA AppendedOk ==
  ASSUME NEW s \in Seq(TurnRecord), NEW turn \in TurnRecord, NEW pc, NEW notes,
         OkTurns(s, pc, notes), OkTurn(turn, Len(s) + 1, pc, notes),
         \A i \in 1..Len(s): ~(s[i].by = turn.by /\ s[i].role = turn.role)
  PROVE  OkTurns(Append(s, turn), pc, notes)
<1> DEFINE a == Append(s, turn)
<1>1. /\ Len(a) = Len(s) + 1 /\ a[Len(s) + 1] = turn /\ Len(s) \in Nat
      /\ \A i \in 1..Len(s): a[i] = s[i]
  OBVIOUS
<1>2. \A i \in 1..(Len(s) + 1): i = Len(s) + 1 \/ i \in 1..Len(s)
  BY <1>1
<1> HIDE DEF a
<1>3. \A i \in 1..Len(a): OkTurn(a[i], i, pc, notes)
  BY <1>1, <1>2 DEF OkTurns
<1>4. ASSUME NEW i \in 1..Len(a), NEW j \in 1..Len(a), a[i].by = a[j].by, a[i].role = a[j].role
      PROVE  i = j
  BY <1>1, <1>2, <1>4 DEF OkTurns
<1>5. OkTurns(a, pc, notes)
  BY <1>3, <1>4 DEF OkTurns
<1>6. QED
  BY <1>5 DEF a

\* A turn just written, by its fields.
LEMMA NewTurn ==
  ASSUME NEW k \in Sends
  PROVE  /\ Turn(k, "user") \in TurnRecord
         /\ Turn(k, "user").by = k /\ Turn(k, "user").role = "user"
         /\ Turn(k, "user").caveat = FALSE /\ Turn(k, "user").noted = FALSE
BY DEF Turn, TurnRecord

\* Turns of a send that has not asked are nowhere.
LEMMA NotAskedNotThere ==
  ASSUME ChatIInv, NEW k \in Sends, chatPc[k] \notin Asked
  PROVE  /\ \A i \in 1..Len(TurnsIn(chatFile)): TurnsIn(chatFile)[i].by # k
         /\ \A i \in 1..Len(chatRead[k]): chatRead[k][i].by # k
<1>1. OkTurns(TurnsIn(chatFile), chatPc, chatNotes) /\ OkTurns(chatRead[k], chatPc, chatNotes)
  BY DEF ChatIInv, Threads
<1>2. QED
  BY <1>1 DEF OkTurns, OkTurn

\* The question is the send's first turn, after every caveat that is there.
LEMMA QuestionKeeps ==
  ASSUME ChatIInv, NEW k \in Sends, AppendQuestion(k)
  PROVE  ChatIInv'
<1> DEFINE s == TurnsIn(chatFile)
           q == Turn(k, "user")
<1>1. /\ Goes(k, "ask", "model") /\ UNCHANGED <<chatNotes, chatRead, chatSetup, promoted>>
      /\ chatFile' = Appended(chatFile, q)
  BY DEF AppendQuestion, Quiet
<1>2. k \in Threads /\ chatPc[k] = "ask"
  BY <1>1 DEF Goes, Threads
<1>3. q \in TurnRecord /\ q.by = k /\ q.role = "user" /\ q.caveat = FALSE /\ q.noted = FALSE
  BY NewTurn
<1> HIDE DEF q
<1>4. /\ \A i \in 1..Len(s): s[i].by # k
      /\ \A i \in 1..Len(chatRead[k]): chatRead[k][i].by # k
  BY <1>2, NotAskedNotThere DEF Asked
<1>5. /\ chatFile' \in {Mixed, Lines(TurnsIn(chatFile'))}
      /\ TurnsIn(chatFile') \in Seq(TurnRecord) /\ TurnsIn(chatFile') \in {<<>>, Append(s, q)}
  BY <1>1, <1>3, AppendedFile DEF ChatIInv
<1>6. /\ chatPc'[k] = "model" /\ \A u \in Threads: u # k => chatPc'[u] = chatPc[u]
      /\ InHand' /\ ChatTyped' /\ Sends \subseteq Threads
      /\ \A z \in Seq(TurnRecord): OkTurns(z, chatPc, chatNotes) => OkTurns(z, chatPc', chatNotes')
      /\ \A u \in Threads: OkTurns(chatRead'[u], chatPc', chatNotes')
  BY <1>1, <1>2, <1>4, <1>5, HandKept
<1>7. s \in Seq(TurnRecord) /\ OkTurns(s, chatPc', chatNotes')
  BY <1>6 DEF ChatIInv, ChatTyped
<1>8. OkTurn(q, Len(s) + 1, chatPc', chatNotes')
  BY <1>3, <1>6, ChatAssumption DEF OkTurn, Asked
<1>9. OkTurns(TurnsIn(chatFile'), chatPc', chatNotes')
  BY <1>3, <1>4, <1>5, <1>7, <1>8, AppendedOk, LegacyTurnsOk
<1>10. ASSUME chatNotes' = {} PROVE CaveatsOk(TurnsIn(chatFile'), chatPc')
  <2>1. CaveatsOk(s, chatPc)
    BY <1>1, <1>10 DEF ChatIInv
  <2>2. CaveatsOk(Append(s, q), chatPc')
    <3> DEFINE a == Append(s, q)
    <3>1. /\ Len(a) = Len(s) + 1 /\ a[Len(s) + 1] = q /\ Len(s) \in Nat
          /\ \A i \in 1..Len(s): a[i] = s[i]
      BY <1>3, <1>7
    <3> HIDE DEF a, s
    <3>2. \A i \in 1..Len(a): i = Len(s) + 1 \/ i \in 1..Len(s)
      BY <3>1
    <3>3. \A i \in 1..Len(a): a[i].caveat => i \in 1..Len(s)
      BY <1>3, <3>1, <3>2
    <3>4. ASSUME NEW i \in 1..Len(a), NEW j \in 1..Len(a), i < j, a[i].caveat, a[j].caveat,
                 NEW x \in i..j
          PROVE  ~(a[x].by = a[j].by /\ a[x].role = "user")
      <4>1. i \in 1..Len(s) /\ j \in 1..Len(s) /\ x \in 1..Len(s)
        BY <3>3, <3>4, <3>1
      <4>2. QED
        BY <2>1, <3>1, <3>4, <4>1 DEF CaveatsOk
    <3>5. ASSUME NEW u \in Sends, chatPc'[u] = "replyCaveat",
                 NEW i \in 1..Len(a), NEW x \in 1..Len(a),
                 a[i].caveat, a[x].by = u, a[x].role = "user"
          PROVE  x < i
      <4>1. u # k /\ chatPc[u] = "replyCaveat"
        BY <1>6, <3>5
      <4>2. i \in 1..Len(s) /\ x \in 1..Len(s)
        BY <1>3, <3>1, <3>2, <3>3, <3>5, <4>1
      <4>3. QED
        BY <2>1, <3>1, <3>5, <4>1, <4>2 DEF CaveatsOk
    <3>6. CaveatsOk(a, chatPc')
      BY <3>4, <3>5 DEF CaveatsOk
    <3>7. QED
      BY <3>6 DEF a
  <2>3. QED
    BY <1>5, <2>2, LegacyTurnsOk
<1>11. QED
  BY <1>6, <1>9, <1>10 DEF ChatIInv
\* The model's answer changes nothing that is kept.
LEMMA DispatchKeeps ==
  ASSUME ChatIInv, NEW k \in Sends, Dispatch(k)
  PROVE  ChatIInv'
<1>1. PICK to \in {"caveat", "failed"}: Goes(k, "model", to)
  BY DEF Dispatch
<1>2. UNCHANGED <<chatFile, chatNotes, chatRead, chatSetup, promoted>> /\ k \in Threads
  BY DEF Dispatch, Quiet, Threads
<1>3. /\ InHand' /\ ChatTyped' /\ OkTurns(TurnsIn(chatFile'), chatPc', chatNotes')
      /\ \A u \in Threads: OkTurns(chatRead'[u], chatPc', chatNotes')
      /\ chatPc'[k] = to /\ \A u \in Sends: u # k => chatPc'[u] = chatPc[u]
  BY <1>1, <1>2, HandKept DEF ChatIInv, ChatTyped
<1>4. chatNotes' = {} => CaveatsOk(TurnsIn(chatFile'), chatPc')
  BY <1>2, <1>3, <1>1 DEF ChatIInv, CaveatsOk
<1>5. QED
  BY <1>3, <1>4 DEF ChatIInv

\* A send that will say the caveat found none, so none is before its question.
LEMMA CaveatKeeps ==
  ASSUME ChatIInv, NEW k \in Sends, Caveat(k)
  PROVE  ChatIInv'
<1> DEFINE s == TurnsIn(chatFile)
<1>1. PICK to \in {"reply", "replyCaveat"}:
         Goes(k, "caveat", to) /\ (to = "replyCaveat" => ~CaveatSaid(s))
  BY DEF Caveat
<1>2. UNCHANGED <<chatFile, chatNotes, chatRead, chatSetup, promoted>> /\ k \in Threads
  BY DEF Caveat, Quiet, Threads
<1>3. /\ InHand' /\ ChatTyped' /\ OkTurns(TurnsIn(chatFile'), chatPc', chatNotes')
      /\ \A u \in Threads: OkTurns(chatRead'[u], chatPc', chatNotes')
      /\ chatPc'[k] = to /\ \A u \in Sends: u # k => chatPc'[u] = chatPc[u]
  BY <1>1, <1>2, HandKept DEF ChatIInv, ChatTyped
<1>4. ASSUME chatNotes' = {} PROVE CaveatsOk(TurnsIn(chatFile'), chatPc')
  <2>1. CaveatsOk(s, chatPc) /\ TurnsIn(chatFile') = s
    BY <1>2, <1>4 DEF ChatIInv
  <2> HIDE DEF s
  <2>2. QED
    BY <1>1, <1>3, <2>1 DEF CaveatsOk, CaveatSaid
<1>5. QED
  BY <1>3, <1>4 DEF ChatIInv

\* A reply comes last, and its question, when it says the caveat, before every
\* caveat that is there.
LEMMA ReplyKeeps ==
  ASSUME ChatIInv, NEW k \in Sends, NEW c \in BOOLEAN, NEW from \in {"reply", "replyCaveat"},
         c => from = "replyCaveat", AppendReply(k, from, c)
  PROVE  ChatIInv'
<1> DEFINE s == TurnsIn(chatFile)
           r == [Turn(k, "assistant") EXCEPT !.caveat = c]
<1>1. /\ Goes(k, from, "sent") /\ UNCHANGED <<chatNotes, chatRead, chatSetup, promoted>>
      /\ chatFile' = Appended(chatFile, r)
  BY DEF AppendReply, Quiet
<1>2. k \in Threads /\ chatPc[k] = from /\ from # "ask"
  BY <1>1 DEF Goes, Threads
<1>3. r \in TurnRecord /\ r.by = k /\ r.role = "assistant" /\ r.caveat = c /\ r.noted = FALSE
  BY DEF Turn, TurnRecord
<1> HIDE DEF r
<1>4. s \in Seq(TurnRecord) /\ OkTurns(s, chatPc, chatNotes)
  BY DEF ChatIInv, ChatTyped
<1>5. /\ chatFile' \in {Mixed, Lines(TurnsIn(chatFile'))}
      /\ TurnsIn(chatFile') \in Seq(TurnRecord) /\ TurnsIn(chatFile') \in {<<>>, Append(s, r)}
  BY <1>1, <1>3, AppendedFile DEF ChatIInv
<1>6. /\ chatPc'[k] = "sent" /\ \A u \in Threads: u # k => chatPc'[u] = chatPc[u]
      /\ InHand' /\ ChatTyped' /\ Sends \subseteq Threads
      /\ \A z \in Seq(TurnRecord): OkTurns(z, chatPc, chatNotes) => OkTurns(z, chatPc', chatNotes')
      /\ \A u \in Threads: OkTurns(chatRead'[u], chatPc', chatNotes')
  BY <1>1, <1>2, <1>5, HandKept
<1>7. OkTurns(s, chatPc', chatNotes')
  BY <1>4, <1>6
<1>8. OkTurn(r, Len(s) + 1, chatPc', chatNotes')
  BY <1>3, <1>6, ChatAssumption DEF OkTurn, Asked
<1>9. \A i \in 1..Len(s): ~(s[i].by = r.by /\ s[i].role = r.role)
  BY <1>2, <1>3, <1>4 DEF OkTurns, OkTurn
<1>10. OkTurns(TurnsIn(chatFile'), chatPc', chatNotes')
  BY <1>3, <1>4, <1>5, <1>7, <1>8, <1>9, AppendedOk, LegacyTurnsOk
<1>11. ASSUME chatNotes' = {} PROVE CaveatsOk(TurnsIn(chatFile'), chatPc')
  <2>1. CaveatsOk(s, chatPc)
    BY <1>1, <1>11 DEF ChatIInv
  <2>2. CaveatsOk(Append(s, r), chatPc')
    <3> DEFINE a == Append(s, r)
    <3>1. /\ Len(a) = Len(s) + 1 /\ a[Len(s) + 1] = r /\ Len(s) \in Nat
          /\ \A i \in 1..Len(s): a[i] = s[i]
      BY <1>3, <1>4
    <3> HIDE DEF a, s
    <3>2. \A i \in 1..Len(a): i = Len(s) + 1 \/ i \in 1..Len(s)
      BY <3>1
    <3>3. \A x \in 1..Len(a): a[x].role = "user" => x \in 1..Len(s)
      BY <1>3, <3>1, <3>2
    <3>4. ASSUME NEW i \in 1..Len(a), NEW j \in 1..Len(a), i < j, a[i].caveat, a[j].caveat,
                 NEW x \in i..j, a[x].by = a[j].by, a[x].role = "user"
          PROVE  FALSE
      <4>1. i \in 1..Len(s) /\ x \in 1..Len(s)
        BY <3>1, <3>2, <3>3, <3>4
      <4>2. CASE j \in 1..Len(s)
        BY <2>1, <3>1, <3>4, <4>1, <4>2 DEF CaveatsOk
      <4>3. CASE j = Len(s) + 1
        <5>1. chatPc[k] = "replyCaveat" /\ a[x].by = k
          BY <1>2, <1>3, <3>1, <3>4, <4>3
        <5>2. x < i
          BY <2>1, <3>1, <3>4, <4>1, <5>1 DEF CaveatsOk
        <5>3. QED
          BY <3>1, <3>4, <4>1, <5>2
      <4>4. QED
        BY <3>2, <4>2, <4>3
    <3>5. ASSUME NEW u \in Sends, chatPc'[u] = "replyCaveat",
                 NEW i \in 1..Len(a), NEW x \in 1..Len(a),
                 a[i].caveat, a[x].by = u, a[x].role = "user"
          PROVE  x < i
      <4>1. u # k /\ chatPc[u] = "replyCaveat"
        BY <1>6, <3>5
      <4>2. x \in 1..Len(s)
        BY <3>3, <3>5
      <4>3. CASE i \in 1..Len(s)
        BY <2>1, <3>1, <3>5, <4>1, <4>2, <4>3 DEF CaveatsOk
      <4>4. CASE i = Len(s) + 1
        BY <3>1, <4>2, <4>4
      <4>5. QED
        BY <3>2, <4>3, <4>4
    <3>6. CaveatsOk(a, chatPc')
      <4>1. ASSUME NEW i \in 1..Len(a), NEW j \in 1..Len(a), i < j, a[i].caveat, a[j].caveat
            PROVE  ~\E x \in i..j: a[x].by = a[j].by /\ a[x].role = "user"
        BY <3>4, <4>1
      <4>2. QED
        BY <3>5, <4>1 DEF CaveatsOk
    <3>7. QED
      BY <3>6 DEF a
  <2>3. QED
    BY <1>5, <2>2, LegacyTurnsOk
<1>12. QED
  BY <1>6, <1>10, <1>11 DEF ChatIInv
\* Main goes on, and the file is as it was.
LEMMA MainKept ==
  ASSUME ChatIInv, NEW from, NEW to, Goes(Main, from, to), from # "undrawn",
         to \in MainSteps \ {"undrawn"}, UNCHANGED <<chatFile, chatSetup>>,
         chatNotes \subseteq chatNotes', chatNotes' \subseteq Sends
  PROVE  /\ chatPc[Main] = from /\ chatPc'[Main] = to
         /\ \A k \in Sends: chatPc'[k] = chatPc[k]
         /\ Main \in Threads /\ Sends \subseteq Threads /\ Main \notin Sends
         /\ \A s \in Seq(TurnRecord): OkTurns(s, chatPc, chatNotes)
               => OkTurns(s, chatPc', chatNotes')
         /\ OkTurns(TurnsIn(chatFile'), chatPc', chatNotes')
         /\ chatNotes' = {} => CaveatsOk(TurnsIn(chatFile'), chatPc')
         /\ promoted' \in TurnRecord /\ chatRead' \in [Threads -> Seq(TurnRecord)] => ChatTyped'
<1> USE DEF ChatIInv
<1>1. /\ chatPc[Main] = from /\ chatPc'[Main] = to
      /\ \A k \in Sends: chatPc'[k] = chatPc[k]
      /\ chatPc' \in [Threads -> SendSteps \cup MainSteps]
      /\ chatPc'[Main] \in MainSteps /\ \A k \in Sends: chatPc'[k] \in SendSteps
      /\ Main \in Threads /\ Sends \subseteq Threads /\ Main \notin Sends
  BY OneGoes, ChatAssumption DEF Threads
<1>2. Grows(chatPc, chatPc', chatNotes, chatNotes')
  BY <1>1 DEF Grows
<1>3. \A s \in Seq(TurnRecord): OkTurns(s, chatPc, chatNotes) => OkTurns(s, chatPc', chatNotes')
  BY <1>2, TurnsStayOk
<1>4. OkTurns(TurnsIn(chatFile'), chatPc', chatNotes')
  BY <1>3 DEF ChatTyped
<1>5. chatNotes' = {} => CaveatsOk(TurnsIn(chatFile'), chatPc')
  <2>1. chatNotes' = {} => chatNotes = {}
    OBVIOUS
  <2>2. QED
    BY <1>1, <2>1 DEF CaveatsOk
<1>6. promoted' \in TurnRecord /\ chatRead' \in [Threads -> Seq(TurnRecord)] => ChatTyped'
  BY <1>1 DEF ChatTyped
<1>7. QED
  BY <1>1, <1>3, <1>4, <1>5, <1>6

\* What is promoted is a send's reply.
LEMMA PromoteKeeps ==
  ASSUME ChatIInv, NEW k \in Sends, Promote(k)
  PROVE  ChatIInv'
<1>1. /\ Goes(Main, "idle", "find") /\ UNCHANGED <<chatFile, chatNotes, chatRead, chatSetup>>
      /\ promoted' \in TurnRecord /\ promoted'.by = k
  BY DEF Promote, Turn, TurnRecord
<1>2. chatNotes \subseteq Sends /\ chatRead \in [Threads -> Seq(TurnRecord)]
  BY DEF ChatIInv, ChatTyped
<1>3. /\ chatPc'[Main] = "find" /\ \A u \in Sends: chatPc'[u] = chatPc[u]
      /\ ChatTyped' /\ OkTurns(TurnsIn(chatFile'), chatPc', chatNotes')
      /\ chatNotes' = {} => CaveatsOk(TurnsIn(chatFile'), chatPc')
      /\ \A s \in Seq(TurnRecord): OkTurns(s, chatPc, chatNotes) => OkTurns(s, chatPc', chatNotes')
  BY <1>1, <1>2, MainKept DEF MainSteps
<1>4. \A u \in Threads: OkTurns(chatRead'[u], chatPc', chatNotes')
  BY <1>1, <1>2, <1>3 DEF ChatIInv
<1>5. InHand'
  BY <1>1, <1>3, ChatAssumption DEF ChatIInv, InHand, Threads
<1>6. QED
  BY <1>3, <1>4, <1>5 DEF ChatIInv

\* The note is in the record when the turn is about to be marked.
LEMMA AddNoteKeeps ==
  ASSUME ChatIInv, AddNote
  PROVE  ChatIInv'
<1>1. PICK to \in {"read", "idle"}:
         /\ Goes(Main, "note", to)
         /\ to = "read" => chatNotes' = chatNotes \cup {promoted.by}
         /\ to = "idle" => UNCHANGED chatNotes
  BY DEF AddNote
<1>2. UNCHANGED <<chatFile, chatRead, chatSetup, promoted>>
  BY DEF AddNote, Quiet
<1>3. promoted.by \in Sends
  BY <1>1 DEF ChatIInv, InHand, Goes
<1>4. /\ chatNotes \subseteq chatNotes' /\ chatNotes' \subseteq Sends
      /\ chatRead \in [Threads -> Seq(TurnRecord)] /\ promoted \in TurnRecord
  BY <1>1, <1>3 DEF ChatIInv, ChatTyped
<1>5. /\ chatPc'[Main] = to /\ \A u \in Sends: chatPc'[u] = chatPc[u]
      /\ ChatTyped' /\ OkTurns(TurnsIn(chatFile'), chatPc', chatNotes')
      /\ chatNotes' = {} => CaveatsOk(TurnsIn(chatFile'), chatPc')
      /\ \A s \in Seq(TurnRecord): OkTurns(s, chatPc, chatNotes) => OkTurns(s, chatPc', chatNotes')
  BY <1>1, <1>2, <1>4, MainKept DEF MainSteps
<1>6. \A u \in Threads: OkTurns(chatRead'[u], chatPc', chatNotes')
  BY <1>2, <1>4, <1>5 DEF ChatIInv
<1>7. InHand'
  BY <1>1, <1>2, <1>3, <1>5, ChatAssumption DEF ChatIInv, InHand, Threads
<1>8. QED
  BY <1>5, <1>6, <1>7 DEF ChatIInv

\* The marked turn's note is there, and nothing else about the turns changes.
LEMMA MarkKeeps ==
  ASSUME ChatIInv, Mark
  PROVE  ChatIInv'
<1> DEFINE s == TurnsIn(chatFile)
           m == [i \in 1..Len(s) |-> [s[i] EXCEPT !.noted = @ \/ IsPromoted(s[i])]]
<1>1. PICK to \in {"truncate", "idle"}:
         /\ Goes(Main, "read", to)
         /\ to = "truncate" => chatRead' = [chatRead EXCEPT ![Main] = m]
         /\ to = "idle" => UNCHANGED chatRead
  BY DEF Mark
<1>2. UNCHANGED <<chatFile, chatNotes, chatSetup, promoted>> /\ promoted.by \in chatNotes
  BY <1>1 DEF Mark, Quiet, ChatIInv, InHand, Goes
<1>3. s \in Seq(TurnRecord) /\ OkTurns(s, chatPc, chatNotes)
  BY DEF ChatIInv, ChatTyped
<1>4. /\ chatNotes \subseteq Sends /\ chatRead \in [Threads -> Seq(TurnRecord)]
      /\ promoted \in TurnRecord
  BY DEF ChatIInv, ChatTyped
<1>5. m \in Seq(TurnRecord) /\ OkTurns(m, chatPc, chatNotes)
  <2>1. ASSUME NEW i \in 1..Len(s)
        PROVE  /\ m[i] \in TurnRecord
               /\ m[i].by = s[i].by /\ m[i].role = s[i].role /\ m[i].caveat = s[i].caveat
               /\ m[i].noted => m[i].by \in chatNotes
    <3> DEFINE mark == s[i].noted \/ IsPromoted(s[i])
    <3>1. s[i] \in TurnRecord
      BY <1>3
    <3>2. m[i] = [s[i] EXCEPT !.noted = s[i].noted \/ IsPromoted(s[i])]
      OBVIOUS
    <3>3. IsPromoted(s[i]) \in BOOLEAN /\ s[i].noted \in BOOLEAN
      BY <3>1 DEF IsPromoted, TurnRecord
    <3>4. mark => s[i].by \in chatNotes
      BY <1>2, <1>3 DEF IsPromoted, OkTurns, OkTurn
    <3>5. m[i] = [s[i] EXCEPT !.noted = mark] /\ mark \in BOOLEAN
      BY <3>2, <3>3
    <3> HIDE DEF mark, m, s
    <3>6. QED
      BY <3>1, <3>4, <3>5 DEF TurnRecord
  <2>2. Len(s) \in Nat
    BY <1>3
  <2>3. m \in Seq(TurnRecord) /\ Len(m) = Len(s)
    BY <2>1, <2>2
  <2> HIDE DEF m, s
  <2>4. \A i \in 1..Len(m): OkTurn(m[i], i, chatPc, chatNotes)
    BY <1>3, <2>1, <2>3 DEF OkTurns, OkTurn
  <2>5. QED
    BY <1>3, <2>1, <2>3, <2>4 DEF OkTurns
<1> HIDE DEF m
<1>6. chatRead' \in [Threads -> Seq(TurnRecord)] /\ \A t \in Sends: chatRead'[t] = chatRead[t]
  BY <1>1, <1>4, <1>5, ChatAssumption DEF Threads
<1>7. /\ chatPc'[Main] = to /\ \A u \in Sends: chatPc'[u] = chatPc[u]
      /\ ChatTyped' /\ OkTurns(TurnsIn(chatFile'), chatPc', chatNotes')
      /\ chatNotes' = {} => CaveatsOk(TurnsIn(chatFile'), chatPc')
      /\ \A z \in Seq(TurnRecord): OkTurns(z, chatPc, chatNotes) => OkTurns(z, chatPc', chatNotes')
  BY <1>1, <1>2, <1>4, <1>6, MainKept DEF MainSteps
<1>8. ASSUME NEW u \in Threads PROVE OkTurns(chatRead'[u], chatPc', chatNotes')
  <2>1. OkTurns(chatRead[u], chatPc, chatNotes) /\ chatRead[u] \in Seq(TurnRecord)
    BY <1>4 DEF ChatIInv
  <2>2. chatRead'[u] \in {chatRead[u], m} /\ UNCHANGED chatNotes
    BY <1>1, <1>2, <1>4
  <2>3. QED
    BY <1>2, <1>5, <1>7, <2>1, <2>2
<1>9. InHand'
  <2>1. \A t \in Threads: t # Main => t \in Sends
    BY DEF Threads
  <2>2. QED
    BY <1>1, <1>2, <1>4, <1>6, <1>7, <2>1, ChatAssumption DEF ChatIInv, InHand, ChatTyped, Goes
<1>10. QED
  BY <1>7, <1>8, <1>9 DEF ChatIInv
\* A kill ends the sends that had begun; what was sent stays sent.
LEMMA ChatKillKeeps ==
  ASSUME ChatIInv, ChatKill
  PROVE  ChatIInv'
<1>1. UNCHANGED <<chatFile, chatNotes, chatRead, chatSetup, promoted>>
  BY DEF ChatKill
<1>2. /\ Main \in Threads /\ Sends \subseteq Threads /\ Main \notin Sends
      /\ \A u \in Threads: u # Main => u \in Sends
  BY ChatAssumption DEF Threads
<1>3. /\ chatPc' \in [Threads -> SendSteps \cup MainSteps]
      /\ chatPc'[Main] = "idle"
      /\ \A k \in Sends: chatPc'[k] = IF chatPc[k] \in {"load", "sent"} THEN chatPc[k] ELSE "failed"
  BY <1>2 DEF ChatKill, SendSteps, MainSteps, Asked
<1>4. Grows(chatPc, chatPc', chatNotes, chatNotes')
  BY <1>1, <1>3 DEF Grows, Asked
<1>5. ChatTyped'
  BY <1>1, <1>2, <1>3 DEF ChatIInv, ChatTyped, SendSteps, MainSteps, Asked
<1>6. \A s \in Seq(TurnRecord): OkTurns(s, chatPc, chatNotes) => OkTurns(s, chatPc', chatNotes')
  BY <1>4, TurnsStayOk
<1>7. OkTurns(TurnsIn(chatFile'), chatPc', chatNotes')
  BY <1>1, <1>6 DEF ChatIInv, ChatTyped
<1>8. \A u \in Threads: OkTurns(chatRead'[u], chatPc', chatNotes')
  BY <1>1, <1>6 DEF ChatIInv, ChatTyped
<1>9. InHand'
  BY <1>2, <1>3 DEF InHand
<1>10. chatNotes' = {} => CaveatsOk(TurnsIn(chatFile'), chatPc')
  <2>1. \A k \in Sends: chatPc'[k] # "replyCaveat"
    BY <1>3
  <2>2. QED
    BY <1>1, <2>1 DEF ChatIInv, CaveatsOk
<1>11. QED
  BY <1>5, <1>7, <1>8, <1>9, <1>10 DEF ChatIInv

\* At the beginning nothing is there yet that a send wrote.
LEMMA ChatBeginKeeps ==
  ASSUME ChatIInv, ChatBegin
  PROVE  ChatIInv'
<1>1. /\ UNCHANGED <<chatFile, chatNotes, chatRead, promoted>>
      /\ chatSetup' \in [legacy: BOOLEAN, intent: BOOLEAN]
  BY DEF ChatBegin
<1>2. /\ Main \in Threads /\ Sends \subseteq Threads /\ Main \notin Sends
      /\ \A u \in Threads: u # Main => u \in Sends
  BY ChatAssumption DEF Threads
<1>3. /\ chatPc' \in [Threads -> SendSteps \cup MainSteps]
      /\ chatPc'[Main] = "idle" /\ \A k \in Sends: chatPc'[k] = "load"
  BY <1>2 DEF ChatBegin, SendSteps, MainSteps, Asked
<1>4. \A k \in Sends: chatPc[k] = "undrawn"
  BY DEF ChatBegin, ChatIInv, InHand
<1>5. Grows(chatPc, chatPc', chatNotes, chatNotes')
  BY <1>1, <1>4 DEF Grows, Asked
<1>6. ChatTyped'
  BY <1>1, <1>2, <1>3 DEF ChatIInv, ChatTyped, SendSteps, MainSteps, Asked
<1>7. \A s \in Seq(TurnRecord): OkTurns(s, chatPc, chatNotes) => OkTurns(s, chatPc', chatNotes')
  BY <1>5, TurnsStayOk
<1>8. OkTurns(TurnsIn(chatFile'), chatPc', chatNotes')
  BY <1>1, <1>7 DEF ChatIInv, ChatTyped
<1>9. \A u \in Threads: OkTurns(chatRead'[u], chatPc', chatNotes')
  BY <1>1, <1>7 DEF ChatIInv, ChatTyped
<1>10. InHand'
  BY <1>2, <1>3 DEF InHand
<1>11. chatNotes' = {} => CaveatsOk(TurnsIn(chatFile'), chatPc')
  <2>1. \A k \in Sends: chatPc'[k] # "replyCaveat"
    BY <1>3
  <2>2. QED
    BY <1>1, <2>1 DEF ChatIInv, CaveatsOk
<1>12. QED
  BY <1>6, <1>8, <1>9, <1>10, <1>11 DEF ChatIInv

\* Every step of a send.
LEMMA SendKeeps ==
  ASSUME ChatIInv, NEW k \in Sends, Send(k)
  PROVE  ChatIInv'
<1>1. k \in Threads
  BY DEF Threads
<1>2. CASE Load(k, "load", "ask", "failed")
  BY <1>1, <1>2, LoadKeeps DEF LoadsAt
<1>3. CASE Migrate(k, "ask")
  <2>1. Truncate(k, "migrate:ask", "copy:ask") \/ RewriteThread(k, "copy:ask", "ask")
    BY <1>3 DEF Migrate, Migrating, Copying
  <2>2. QED
    BY <1>1, <2>1, TruncateKeeps, RewriteKeeps DEF TruncatesAt, RewritesAt
<1>4. CASE AppendReply(k, "reply", FALSE)
  BY <1>4, ReplyKeeps
<1>5. CASE AppendReply(k, "replyCaveat", TRUE)
  BY <1>5, ReplyKeeps
<1>6. QED
  BY <1>2, <1>3, <1>4, <1>5, QuestionKeeps, DispatchKeeps, CaveatKeeps DEF Send

\* Every step of the main thread.
LEMMA MainKeeps ==
  ASSUME ChatIInv, MainStep
  PROVE  ChatIInv'
<1>1. Main \in Threads
  BY DEF Threads
<1>2. CASE OpenPanel \/ FindTurn
  BY <1>1, <1>2, LoadKeeps DEF OpenPanel, FindTurn, LoadsAt
<1>3. CASE Migrate(Main, "idle")
  <2>1. Truncate(Main, "migrate:idle", "copy:idle") \/ RewriteThread(Main, "copy:idle", "idle")
    BY <1>3 DEF Migrate, Migrating, Copying
  <2>2. QED
    BY <1>1, <2>1, TruncateKeeps, RewriteKeeps DEF TruncatesAt, RewritesAt
<1>4. CASE Truncate(Main, "truncate", "rewrite")
  BY <1>1, <1>4, TruncateKeeps DEF TruncatesAt
<1>5. CASE RewriteThread(Main, "rewrite", "idle")
  BY <1>1, <1>5, RewriteKeeps DEF RewritesAt
<1>6. QED
  BY <1>2, <1>3, <1>4, <1>5, PromoteKeeps, AddNoteKeeps, MarkKeeps DEF MainStep

\* The invariant says what is checked of the file's turns.
LEMMA ChatSafe ==
  ASSUME ChatIInv
  PROVE  ChatTypeOK /\ MarkedHasNote /\ ThreadInOrder /\ CaveatRepeatedOnlyByOverlap
<1> USE DEF ChatIInv
<1>1. ChatTypeOK
  BY DEF ChatTypeOK, ChatTyped, OkTurns, FileTurns, At
<1>2. MarkedHasNote
  BY DEF MarkedHasNote, OkTurns, OkTurn, FileTurns
<1>3. LegacyFirst
  BY DEF LegacyFirst, OkTurns, OkTurn, FileTurns
<1>4. HistoryBeforeQuestion
  BY DEF HistoryBeforeQuestion, InHand
<1>5. CaveatRepeatedOnlyByOverlap
  BY DEF CaveatRepeatedOnlyByOverlap, CaveatsOk, FileTurns, At
<1>6. QED
  BY <1>1, <1>2, <1>3, <1>4, <1>5 DEF ThreadInOrder

\* The invariant holds always.
THEOREM ChatInvariant == ChatSpec => []ChatIInv
<1>1. ASSUME ChatIInv, [ChatNext]_chatVars PROVE ChatIInv'
  <2>1. CASE UNCHANGED chatVars
    BY <1>1, <2>1 DEF chatVars, ChatIInv, ChatTyped, InHand
  <2>2. CASE ChatNext
    BY <1>1, <2>2, ChatBeginKeeps, MainKeeps, SendKeeps, ChatKillKeeps DEF ChatNext
  <2>3. QED
    BY <1>1, <2>1, <2>2
<1>2. QED
  BY <1>1, ChatInitial, PTL DEF ChatSpec

\* A turn is in the thread once (append_thread_turn, _write_thread_turns).
THEOREM ChatTypes == ChatSpec => []ChatTypeOK
BY ChatInvariant, ChatSafe, PTL

\* A turn that is marked as promoted has its note, through every kill and rewrite
\* (promote_turn stores the note before it marks the turn).
THEOREM NotesBeforeMarks == ChatSpec => []MarkedHasNote
BY ChatInvariant, ChatSafe, PTL

\* The history of a question has none of its own turns, and what older versions
\* kept comes first (send, _migrate_legacy_conversation).
THEOREM InOrder == ChatSpec => []ThreadInOrder
BY ChatInvariant, ChatSafe, PTL

\* The caveat is said again only by a send that had asked before it was said
\* (_intent_caveat_for).
THEOREM CaveatOnce == ChatSpec => []CaveatRepeatedOnlyByOverlap
BY ChatInvariant, ChatSafe, PTL

-------------------------------------------------------------------------------
(* A stored review, and the file it was judged on: ReviewArea.             *)

\* What backups hold: files, numbered as they were saved, no two with one stamp.
Stamped ==
    /\ IsFiniteSet(designPast)
    /\ \A f \in designPast:
          /\ f.is = "file"
          /\ f.stamp \in 1..Cardinality(designPast)
          /\ \A g \in designPast: f.stamp = g.stamp => f = g

Past(f) == f = NoFileHere \/ f \in designPast

\* The file, the one a review under way was judged on, and the two a stored
\* review names, are absent or from the past.
FromThePast ==
    /\ Past(design) /\ Past(checkNote.file)
    /\ shelf # NotStored => Past(shelf.source) /\ Past(shelf.judged)

ReviewIInv == Stamped /\ FromThePast

\* A file of the past is one.
LEMMA PastIsThere == ReviewIInv => \A f \in designPast: f # NoFileHere
  BY DEF ReviewIInv, Stamped, NoFileHere

\* What is stored is something.
LEMMA StoredIsStored ==
    ASSUME NEW s, s.is = "review"
    PROVE  s # NotStored
  BY DEF NotStored

\* Nothing was saved yet.
LEMMA ReviewStarts == ReviewInit => ReviewIInv
  <1> SUFFICES ASSUME ReviewInit PROVE ReviewIInv
    OBVIOUS
  <1>1. Stamped
    BY FS_EmptySet DEF ReviewInit, Stamped
  <1>2. FromThePast
    BY DEF ReviewInit, FromThePast, Past
  <1> QED BY <1>1, <1>2 DEF ReviewIInv

\* A step that neither saves nor stores leaves what the invariant is about.
LEMMA ReviewGoesOn ==
    ASSUME ReviewIInv, UNCHANGED <<design, designPast, shelf>>,
           checkNote'.file = checkNote.file \/ checkNote'.file = design
    PROVE  ReviewIInv'
  <1>1. Stamped'
    BY DEF ReviewIInv, Stamped
  <1>2. FromThePast'
    BY DEF ReviewIInv, FromThePast, Past
  <1> QED BY <1>1, <1>2 DEF ReviewIInv

\* A file of the past is put back, or the file is removed.
LEMMA PutBackKeeps ==
    ASSUME ReviewIInv, NEW f, Past(f), Placed(f)
    PROVE  ReviewIInv'
  <1>1. designPast' = designPast
    BY PastIsThere DEF Placed, Past
  <1>2. Stamped'
    BY <1>1 DEF ReviewIInv, Stamped
  <1>3. FromThePast'
    BY <1>1 DEF ReviewIInv, FromThePast, Past, Placed
  <1> QED BY <1>2, <1>3 DEF ReviewIInv

\* A save gives the file a stamp that no file had.
LEMMA SaveStamps ==
    ASSUME ReviewIInv, NEW c \in Designs, SaveDesign(c)
    PROVE  ReviewIInv'
  <1> DEFINE n == Cardinality(designPast)
             new == [is |-> "file", content |-> c, stamp |-> n + 1]
  <1>1. n \in Nat
    BY FS_CardinalityType DEF ReviewIInv, Stamped
  <1>2. new.is = "file" /\ new.stamp = n + 1 /\ new # NoFileHere
    BY DEF NoFileHere
  <1>3. designPast' = designPast \cup {new} /\ design' = new
    BY <1>2 DEF SaveDesign, Placed
  <1>4. new \notin designPast
    <2> SUFFICES ASSUME new \in designPast PROVE FALSE
      OBVIOUS
    <2>1. n + 1 \in 1..n
      BY <1>2 DEF ReviewIInv, Stamped
    <2> QED BY <1>1, <2>1
  <1>5. IsFiniteSet(designPast') /\ Cardinality(designPast') = n + 1
    BY <1>3, <1>4, FS_AddElement DEF ReviewIInv, Stamped
  <1> HIDE DEF new, n
  <1>6. Stamped'
    <2> SUFFICES ASSUME NEW f \in designPast'
                 PROVE  /\ f.is = "file"
                        /\ f.stamp \in 1..(n + 1)
                        /\ \A g \in designPast': f.stamp = g.stamp => f = g
      BY <1>5 DEF Stamped
    <2>1. \A g \in designPast: g.is = "file" /\ g.stamp \in 1..n
      BY DEF ReviewIInv, Stamped, n
    <2>2. CASE f = new
      <3>1. \A g \in designPast: g.stamp # n + 1
        BY <1>1, <2>1
      <3> QED BY <1>1, <1>2, <1>3, <2>2, <3>1
    <2>3. CASE f \in designPast
      <3>1. f.stamp \in 1..n /\ f.is = "file"
        BY <2>1, <2>3
      <3>2. f.stamp # n + 1 /\ f.stamp \in 1..(n + 1)
        BY <1>1, <3>1
      <3>3. \A g \in designPast: f.stamp = g.stamp => f = g
        BY <2>3 DEF ReviewIInv, Stamped
      <3> QED BY <1>2, <1>3, <3>1, <3>2, <3>3
    <2> QED BY <1>3, <2>2, <2>3
  <1>7. FromThePast'
    BY <1>3 DEF ReviewIInv, FromThePast, Past, SaveDesign, Placed
  <1> QED BY <1>6, <1>7 DEF ReviewIInv

\* A review is stored with the file there is, and the one it was judged on.
LEMMA StoreKeeps ==
    ASSUME ReviewIInv, Remember
    PROVE  ReviewIInv'
  <1>1. CASE UNCHANGED shelf
    BY <1>1, ReviewGoesOn DEF Remember
  <1>2. CASE ~UNCHANGED shelf
    <2> DEFINE kept == [is |-> "review",
                        findings |-> Kept(shown.list),
                        omitted |-> Len(shown.list) - Len(Kept(shown.list)),
                        source |-> IF reviewSetup.linked /\ design # NoFileHere
                                     THEN design ELSE NoFileHere,
                        judged |-> checkNote.file]
    <2>0. shelf' = kept
      BY <1>2, Zenon DEF Remember
    <2>1. /\ shelf'.source = design \/ shelf'.source = NoFileHere
          /\ shelf'.judged = checkNote.file
      BY <2>0
    <2>2. Stamped'
      BY DEF ReviewIInv, Stamped, Remember
    <2>3. FromThePast'
      BY <2>1 DEF ReviewIInv, FromThePast, Past, Remember
    <2> QED BY <2>2, <2>3 DEF ReviewIInv
  <1> QED BY <1>1, <1>2

\* Every step keeps the stamps apart.
LEMMA ReviewSteps == ReviewIInv /\ [ReviewNext]_reviewVars => ReviewIInv'
  <1> SUFFICES ASSUME ReviewIInv, [ReviewNext]_reviewVars PROVE ReviewIInv'
    OBVIOUS
  <1>1. CASE SetUp
    BY <1>1, ReviewGoesOn DEF SetUp
  <1>2. CASE \E c \in Designs: SaveDesign(c)
    BY <1>2, SaveStamps
  <1>3. CASE RestoreDesign
    BY <1>3, PutBackKeeps DEF RestoreDesign, Past
  <1>4. CASE RemoveDesign
    BY <1>4, PutBackKeeps DEF RemoveDesign, Past
  <1>5. CASE StartReview
    <2>1. checkNote'.file = design
      BY <1>5 DEF StartReview
    <2> QED BY <1>5, <2>1, ReviewGoesOn DEF StartReview
  <1>6. CASE \E r \in Replies: ModelReplies(r)
    BY <1>6, ReviewGoesOn DEF ModelReplies
  <1>7. CASE ModelRaises
    BY <1>7, ReviewGoesOn DEF ModelRaises
  <1>8. CASE ReadReply
    BY <1>8, ReviewGoesOn DEF ReadReply
  <1>9. CASE Remember
    BY <1>9, StoreKeeps
  <1>10. CASE UNCHANGED reviewVars
    BY <1>10, ReviewGoesOn DEF reviewVars
  <1> QED BY <1>1, <1>2, <1>3, <1>4, <1>5, <1>6, <1>7, <1>8, <1>9, <1>10 DEF ReviewNext

\* Stamps tell contents apart in every state: _source_identity of the file is
\* never that of another content.
THEOREM ReviewInvariant == ReviewSpec => []ReviewIInv
  BY ReviewStarts, ReviewSteps, PTL DEF ReviewSpec

\* A stored review is called current exactly while the file holds what it was
\* judged on, if it was not saved while the review ran
\* (get_project_review_result).
THEOREM StaleExactly == ReviewSpec => []StaleIffChanged
  <1>1. ReviewIInv => StaleIffChanged
    <2> SUFFICES ASSUME ReviewIInv, Identified, shelf.source = shelf.judged
                 PROVE  StaleReason = "none" <=> SameContent(design, shelf.judged)
      BY DEF StaleIffChanged
    <2>1. shelf.source \in designPast /\ shelf.source # NoFileHere
      BY DEF ReviewIInv, FromThePast, Past, Identified
    <2>2. CASE design = NoFileHere
      BY <2>2 DEF StaleReason, SameContent
    <2>3. CASE design # NoFileHere
      <3>1. design \in designPast
        BY <2>3 DEF ReviewIInv, FromThePast, Past
      <3>2. design.stamp = shelf.source.stamp => design.content = shelf.source.content
        BY <2>1, <3>1 DEF ReviewIInv, Stamped
      <3> QED BY <2>1, <2>3, <3>2 DEF StaleReason, SameContent
    <2> QED BY <2>2, <2>3
  <1> QED BY <1>1, ReviewInvariant, PTL

-------------------------------------------------------------------------------
(* What a review shows: selections of lists, the reply, the check. *)

\* The number of a set's places before one of them tells where it comes.
LEMMA PlaceOf ==
    ASSUME NEW n \in Nat, NEW I \in SUBSET (1..n)
    PROVE  LET before(i) == Cardinality({k \in I: k < i})
           IN /\ Cardinality(I) \in Nat
              /\ \A i \in I: before(i) \in 0..(Cardinality(I) - 1) /\ before(i) < i
              /\ \A i, j \in I: before(i) = before(j) => i = j
  <1> DEFINE below(i) == {k \in I: k < i}
             before(i) == Cardinality(below(i))
  <1>1. IsFiniteSet(I)
    <2>1. IsFiniteSet(1..n)
      BY FS_Interval
    <2> QED BY <2>1, FS_Subset
  <1>2. Cardinality(I) \in Nat
    BY <1>1, FS_CardinalityType
  <1>3. \A i: IsFiniteSet(below(i)) /\ before(i) \in Nat
    <2> SUFFICES ASSUME NEW i PROVE IsFiniteSet(below(i)) /\ before(i) \in Nat
      OBVIOUS
    <2>1. below(i) \in SUBSET I
      OBVIOUS
    <2>2. IsFiniteSet(below(i))
      BY <1>1, <2>1, FS_Subset
    <2> QED BY <2>2, FS_CardinalityType
  <1>0. \A i \in I: i \in Nat /\ i >= 1
    OBVIOUS
  <1>4. ASSUME NEW i \in I
        PROVE  before(i) \in 0..(Cardinality(I) - 1) /\ before(i) < i
    <2>1. IsFiniteSet(I \ {i}) /\ Cardinality(I \ {i}) = Cardinality(I) - 1
      BY <1>1, FS_RemoveElement
    <2>2. below(i) \in SUBSET (I \ {i})
      OBVIOUS
    <2>3. before(i) <= Cardinality(I) - 1
      BY <2>1, <2>2, FS_Subset
    <2>4. i \in Nat /\ i >= 1 /\ \A k \in below(i): k \in 1..(i - 1)
      BY <1>0
    <2>5. IsFiniteSet(1..(i - 1)) /\ Cardinality(1..(i - 1)) = i - 1
      BY <2>4, FS_Interval
    <2>6. before(i) <= i - 1
      <3>1. below(i) \in SUBSET (1..(i - 1))
        BY <2>4
      <3> QED BY <2>5, <3>1, FS_Subset
    <2>7. before(i) \in Nat
      BY <1>3
    <2> QED BY <1>2, <2>3, <2>4, <2>6, <2>7
  <1>5. ASSUME NEW i \in I, NEW j \in I, i < j
        PROVE  before(i) < before(j)
    <2>1. below(i) \cup {i} \in SUBSET below(j)
      <3>1. \A k \in I: k < i => k < j
        BY <1>0, <1>5
      <3> QED BY <1>5, <3>1
    <2>2. i \notin below(i)
      OBVIOUS
    <2>3. Cardinality(below(i) \cup {i}) = before(i) + 1
      BY <1>3, <2>2, FS_AddElement
    <2>4. before(i) + 1 <= before(j)
      <3> HIDE DEF below
      <3>1. Cardinality(below(i) \cup {i}) <= Cardinality(below(j))
        BY <1>3, <2>1, FS_Subset
      <3> QED BY <2>3, <3>1
    <2>5. before(i) \in Nat /\ before(j) \in Nat
      BY <1>3
    <2> QED BY <2>4, <2>5
  <1>6. \A i, j \in I: before(i) = before(j) => i = j
    <2> SUFFICES ASSUME NEW i \in I, NEW j \in I, before(i) = before(j) PROVE i = j
      OBVIOUS
    <2>1. ~(before(i) < before(j)) /\ ~(before(j) < before(i))
      <3>1. before(i) \in Nat /\ before(j) \in Nat
        BY <1>3
      <3> QED BY <3>1
    <2>2. ~(i < j) /\ ~(j < i)
      BY <1>5, <2>1
    <2> QED BY <1>0, <2>2
  <1> QED BY <1>2, <1>4, <1>6

\* The j-th place is one of the places, not before the j-th of all; and each
\* place is the j-th for some j.
LEMMA NthIs ==
    ASSUME NEW n \in Nat, NEW I \in SUBSET (1..n)
    PROVE  /\ Cardinality(I) \in Nat
           /\ \A j \in 1..Cardinality(I): Nth(I, j) \in I /\ Nth(I, j) >= j
           /\ \A i \in I: \E j \in 1..Cardinality(I): Nth(I, j) = i
           /\ \A j, k \in 1..Cardinality(I): Nth(I, j) = Nth(I, k) => j = k
  <1> DEFINE before(i) == Cardinality({k \in I: k < i})
             m == Cardinality(I)
  <1>1. /\ m \in Nat
        /\ \A i \in I: before(i) \in 0..(m - 1) /\ before(i) < i
        /\ \A i, j \in I: before(i) = before(j) => i = j
    BY PlaceOf
  <1>2. \A j: Nth(I, j) = CHOOSE i \in I: before(i) = j - 1
    BY DEF Nth
  <1> HIDE DEF before, m
  <1>3. \A t \in 0..(m - 1): \E i \in I: before(i) = t
    <2> DEFINE r == [i \in I |-> before(i)]
               T == 0..(m - 1)
    <2>1. r \in Injection(I, T)
      BY <1>1 DEF Injection, IsInjective
    <2>2. IsFiniteSet(T) /\ Cardinality(T) = m
      BY <1>1, FS_Interval
    <2>3. r \in Surjection(I, T)
      <3> HIDE DEF r, T
      <3> QED BY <2>1, <2>2, FS_Injection DEF m
    <2> QED BY <2>3 DEF Surjection
  <1>4. \A j \in 1..m: Nth(I, j) \in I /\ before(Nth(I, j)) = j - 1
    <2> SUFFICES ASSUME NEW j \in 1..m PROVE Nth(I, j) \in I /\ before(Nth(I, j)) = j - 1
      OBVIOUS
    <2>1. j - 1 \in 0..(m - 1)
      BY <1>1
    <2>2. \E i \in I: before(i) = j - 1
      BY <1>3, <2>1
    <2> QED BY <1>2, <2>2
  <1>5. \A j \in 1..m: Nth(I, j) >= j
    <2> SUFFICES ASSUME NEW j \in 1..m PROVE Nth(I, j) >= j
      OBVIOUS
    <2> DEFINE i == Nth(I, j)
    <2>1. i \in I /\ before(i) = j - 1
      BY <1>4
    <2>3. before(i) < i /\ i \in Nat
      <3>1. \A k \in I: k \in Nat
        OBVIOUS
      <3> HIDE DEF i
      <3> QED BY <1>1, <2>1, <3>1
    <2> HIDE DEF i
    <2>2. i >= j
      BY <1>1, <2>1, <2>3
    <2> QED BY <2>2 DEF i
  <1>6. ASSUME NEW i \in I PROVE \E j \in 1..m: Nth(I, j) = i
    <2>1. before(i) + 1 \in 1..m /\ (before(i) + 1) - 1 = before(i)
      BY <1>1
    <2>2. Nth(I, before(i) + 1) = i
      BY <1>1, <1>4, <2>1
    <2> QED BY <2>1, <2>2
  <1>7. \A j, k \in 1..m: Nth(I, j) = Nth(I, k) => j = k
    BY <1>1, <1>4
  <1> QED BY <1>1, <1>4, <1>5, <1>6, <1>7 DEF m

\* One list holds what is at some places of another, each once, none earlier
\* than it was.
Picks(l, list, places) ==
    /\ \A i \in places: \E j \in 1..Len(l): l[j] = list[i]
    /\ \E at \in [1..Len(l) -> places]:
          /\ \A j \in 1..Len(l): l[j] = list[at[j]] /\ at[j] >= j
          /\ \A j, k \in 1..Len(l): at[j] = at[k] => j = k

LEMMA SelectedIs ==
    ASSUME NEW S, NEW list \in Seq(S), NEW I \in SUBSET DOMAIN list
    PROVE  Selected(list, I) \in Seq(S) /\ Picks(Selected(list, I), list, I)
  <1> DEFINE l == Selected(list, I)
             m == Cardinality(I)
             at == [j \in 1..m |-> Nth(I, j)]
  <1>1. Len(list) \in Nat /\ I \in SUBSET (1..Len(list)) /\ DOMAIN list = 1..Len(list)
    OBVIOUS
  <1>2. /\ m \in Nat
        /\ \A j \in 1..m: Nth(I, j) \in I /\ Nth(I, j) >= j
        /\ \A i \in I: \E j \in 1..m: Nth(I, j) = i
        /\ \A j, k \in 1..m: Nth(I, j) = Nth(I, k) => j = k
    BY <1>1, NthIs
  <1>3. l = [j \in 1..m |-> list[Nth(I, j)]]
    BY DEF Selected
  <1>4. \A i \in DOMAIN list: list[i] \in S
    OBVIOUS
  <1>5. l \in [1..m -> S]
    BY <1>2, <1>3, <1>4
  <1>6. l \in Seq(S) /\ Len(l) = m
    <2> HIDE DEF l, m
    <2> QED BY <1>2, <1>5
  <1>7. \A i \in I: \E j \in 1..m: l[j] = list[i]
    BY <1>2, <1>3
  <1>8. at \in [1..m -> I]
    BY <1>2
  <1>9. /\ \A j \in 1..m: l[j] = list[at[j]] /\ at[j] >= j
        /\ \A j, k \in 1..m: at[j] = at[k] => j = k
    BY <1>2, <1>3
  <1> HIDE DEF l, at, m
  <1>10. Picks(l, list, I)
    BY <1>6, <1>7, <1>8, <1>9 DEF Picks
  <1> QED BY <1>6, <1>10 DEF l

NoteIs(note) ==
    \/ note = Unrun
    \/ /\ note.kicad \in Nat
       /\ note.ours \in Seq(ToSet(note.ours))
       /\ reviewSetup.area = "enclosure" => note.ours = <<>> /\ note.says \in Nat

LEMMA FindingHas ==
    ASSUME NEW o, NEW c, NEW t
    PROVE  Finding(o, c, t).origin = o /\ Finding(o, c, t).cites = c /\ Finding(o, c, t).tells = t
  BY DEF Finding

\* A function on the first n places is a list of its values.
LEMMA ListOf ==
    ASSUME NEW n \in Nat, NEW f, f = [i \in 1..n |-> f[i]]
    PROVE  f \in Seq(ToSet(f)) /\ Len(f) = n /\ DOMAIN f = 1..n
  <1>1. DOMAIN f = 1..n
    BY ONLY f = [i \in 1..n |-> f[i]], n \in Nat
  <1>2. \A i \in 1..n: f[i] \in ToSet(f)
    BY <1>1 DEF ToSet
  <1> DEFINE S == ToSet(f)
  <1>3. f \in [1..n -> S]
    <2> HIDE DEF S
    <2>1. \A i \in 1..n: f[i] \in S
      BY <1>2 DEF S
    <2> QED BY <2>1
  <1> HIDE DEF S
  <1>4. f \in Seq(S) /\ Len(f) = n
    BY <1>3
  <1> QED BY <1>1, <1>4 DEF S

LEMMA OwnFindingsAre ==
    ASSUME NEW note, NoteIs(note), note # Unrun
    PROVE  /\ Len(note.ours) \in Nat
           /\ OwnFindings(note) \in Seq(ToSet(OwnFindings(note)))
           /\ Len(OwnFindings(note)) = Len(note.ours)
           /\ \A i \in 1..Len(note.ours):
                 /\ OwnFindings(note)[i].origin = "copperplane"
                 /\ OwnFindings(note)[i].cites = {<<"copperplane", i>>}
  <1>1. Len(note.ours) \in Nat
    <2>1. note.ours \in Seq(ToSet(note.ours))
      BY DEF NoteIs
    <2> DEFINE S == ToSet(note.ours)
    <2> HIDE DEF S
    <2>2. note.ours \in Seq(S)
      BY <2>1 DEF S
    <2> QED BY <2>2
  <1> DEFINE f == OwnFindings(note)
  <1>2. f = [i \in 1..Len(note.ours) |->
                Finding("copperplane", {<<"copperplane", i>>}, {note.ours[i]})]
    BY DEF OwnFindings
  <1>3. f = [i \in 1..Len(note.ours) |-> f[i]]
    BY <1>2
  <1>4. f \in Seq(ToSet(f)) /\ Len(f) = Len(note.ours)
    BY <1>1, <1>3, ListOf
  <1>5. ASSUME NEW i \in 1..Len(note.ours)
        PROVE  f[i].origin = "copperplane" /\ f[i].cites = {<<"copperplane", i>>}
    <2>1. f[i] = Finding("copperplane", {<<"copperplane", i>>}, {note.ours[i]})
      BY <1>2
    <2> QED BY <2>1, FindingHas
  <1> QED BY <1>1, <1>4, <1>5

LEMMA ToldIs ==
    ASSUME NEW S, NEW entries \in Seq(S)
    PROVE  /\ Told(entries) \in Seq(ToSet(Told(entries)))
           /\ Len(Told(entries)) = Len(entries)
           /\ \A i \in 1..Len(entries):
                 /\ Told(entries)[i].origin = Origin(entries[i].cites)
                 /\ Told(entries)[i].cites = entries[i].cites
                 /\ Told(entries)[i].tells = entries[i].tells
  <1> DEFINE f == Told(entries)
  <1>1. f = [i \in 1..Len(entries) |->
                Finding(Origin(entries[i].cites), entries[i].cites, entries[i].tells)]
    BY DEF Told
  <1>2. f = [i \in 1..Len(entries) |-> f[i]] /\ Len(entries) \in Nat
    BY <1>1
  <1>3. f \in Seq(ToSet(f)) /\ Len(f) = Len(entries)
    BY <1>2, ListOf
  <1>4. ASSUME NEW i \in 1..Len(entries)
        PROVE  f[i].origin = Origin(entries[i].cites) /\ f[i].cites = entries[i].cites
               /\ f[i].tells = entries[i].tells
    <2>1. f[i] = Finding(Origin(entries[i].cites), entries[i].cites, entries[i].tells)
      BY <1>1
    <2> QED BY <2>1, FindingHas
  <1> QED BY <1>3, <1>4

LEMMA UncitedAre ==
    ASSUME NEW note, NoteIs(note), note # Unrun, NEW entries
    PROVE  /\ Uncited(note, entries) \in Seq(ToSet(OwnFindings(note)))
           /\ Picks(Uncited(note, entries), OwnFindings(note), LeftOut(note, entries))
  <1> DEFINE own == OwnFindings(note)
             left == LeftOut(note, entries)
             S == ToSet(own)
  <1>1. own \in Seq(S) /\ Len(own) = Len(note.ours)
    BY OwnFindingsAre
  <1> HIDE DEF own, S
  <1>2. left \in SUBSET DOMAIN own
    BY <1>1 DEF LeftOut
  <1>3. Uncited(note, entries) = Selected(own, left)
    BY DEF Uncited, own
  <1> HIDE DEF left
  <1>4. Selected(own, left) \in Seq(S) /\ Picks(Selected(own, left), own, left)
    BY <1>1, <1>2, SelectedIs
  <1> QED BY <1>3, <1>4 DEF own, left, S

\* What is dropped of a list is KiCad's.
LEMMA WithoutIs ==
    ASSUME NEW S, NEW list \in Seq(S)
    PROVE  /\ WithoutTheChecksOwn(list) \in Seq(S)
           /\ \E I \in SUBSET DOMAIN list:
                 /\ Picks(WithoutTheChecksOwn(list), list, I)
                 /\ \A i \in DOMAIN list: list[i].origin # "kicad" => i \in I
  <1>1. CASE reviewSetup.area = "checked"
    <2> DEFINE I == {i \in DOMAIN list: list[i].origin # "kicad"}
    <2>1. I \in SUBSET DOMAIN list /\ \A i \in DOMAIN list: list[i].origin # "kicad" => i \in I
      OBVIOUS
    <2>2. WithoutTheChecksOwn(list) = Selected(list, I)
      BY <1>1 DEF WithoutTheChecksOwn
    <2> HIDE DEF I
    <2> QED BY <2>1, <2>2, SelectedIs
  <1>2. CASE reviewSetup.area # "checked"
    <2>1. WithoutTheChecksOwn(list) = list
      BY <1>2 DEF WithoutTheChecksOwn
    <2> DEFINE at == [j \in 1..Len(list) |-> j]
    <2>2. DOMAIN list = 1..Len(list) /\ Len(list) \in Nat
      OBVIOUS
    <2>3. at \in [1..Len(list) -> DOMAIN list]
      BY <2>2
    <2>4. /\ \A j \in 1..Len(list): list[j] = list[at[j]] /\ at[j] >= j
          /\ \A j, k \in 1..Len(list): at[j] = at[k] => j = k
      BY <2>2
    <2> HIDE DEF at
    <2>5. Picks(list, list, DOMAIN list)
      BY <2>2, <2>3, <2>4 DEF Picks
    <2> QED BY <2>1, <2>5
  <1> QED BY <1>1, <1>2

EntriesAre(r) == \E S: r.entries \in Seq(S)

LEMMA ExtractedIs ==
    ASSUME NEW r, EntriesAre(r)
    PROVE  \E S: Extracted(r) \in Seq(S)
  <1>1. PICK S: r.entries \in Seq(S)
    BY DEF EntriesAre
  <1> DEFINE I == {i \in DOMAIN r.entries: r.entries[i].wellFormed}
  <1>2. I \in SUBSET DOMAIN r.entries
    OBVIOUS
  <1> HIDE DEF I
  <1>3. Selected(r.entries, I) \in Seq(S)
    BY <1>1, <1>2, SelectedIs
  <1>4. <<>> \in Seq(S)
    OBVIOUS
  <1> QED BY <1>3, <1>4 DEF Extracted, I

\* A list of ours and others' shows each of ours, and none twice.
Lists(l, r, note) ==
    /\ \E S: l \in Seq(S)
    /\ r.form = "prose" /\ l = <<>> => note # Unrun
    /\ note # Unrun =>
          /\ \A i \in 1..Len(note.ours):
                \/ \E f \in ToSet(l): <<"copperplane", i>> \in f.cites \/ note.ours[i] \in f.tells
                \/ \E e \in ToSet(Extracted(r)):
                      Origin(e.cites) = "kicad" /\ note.ours[i] \in e.tells
          /\ \A p, q \in 1..Len(l): p # q /\ q > Len(Extracted(r)) =>
                l[p].cites \cap l[q].cites = {}

\* What was told comes first, and then what it left out.
Joined(list, entries, left) ==
    /\ DOMAIN list = 1..Len(list) /\ Len(entries) \in Nat
    /\ \A i \in 1..Len(entries):
          /\ i \in DOMAIN list
          /\ list[i].origin = Origin(entries[i].cites)
          /\ list[i].cites = entries[i].cites
          /\ list[i].tells = entries[i].tells
    /\ \A i \in left: \E j \in DOMAIN list:
          list[j].origin = "copperplane" /\ list[j].cites = {<<"copperplane", i>>}
    /\ \E own \in [DOMAIN list \ (1..Len(entries)) -> left]:
          /\ \A j \in DOMAIN list \ (1..Len(entries)):
                list[j].cites = {<<"copperplane", own[j]>>}
          /\ \A j, k \in DOMAIN list \ (1..Len(entries)): own[j] = own[k] => j = k

LEMMA TogetherAre ==
    ASSUME NEW S, NEW entries \in Seq(S), NEW note, NoteIs(note), note # Unrun
    PROVE  /\ \E Z: Told(entries) \o Uncited(note, entries) \in Seq(Z)
           /\ Joined(Told(entries) \o Uncited(note, entries), entries, LeftOut(note, entries))
  <1> DEFINE told == Told(entries)
             u == Uncited(note, entries)
             list == told \o u
             n == Len(entries)
             left == LeftOut(note, entries)
             own == OwnFindings(note)
             T == ToSet(told)
             U == ToSet(own)
  <1>1. /\ told \in Seq(T) /\ Len(told) = n /\ n \in Nat
        /\ \A i \in 1..n: /\ told[i].origin = Origin(entries[i].cites)
                          /\ told[i].cites = entries[i].cites
                          /\ told[i].tells = entries[i].tells
    BY ToldIs
  <1>2. u \in Seq(U) /\ Picks(u, own, left)
    BY UncitedAre
  <1>3. \A i \in left: own[i].origin = "copperplane" /\ own[i].cites = {<<"copperplane", i>>}
    BY OwnFindingsAre DEF LeftOut
  <1> HIDE DEF told, u, T, U, own, left, n
  <1>4. told \in Seq(T \cup U) /\ u \in Seq(T \cup U)
    BY <1>1, <1>2
  <1>5. /\ list \in Seq(T \cup U)
        /\ Len(list) = n + Len(u) /\ Len(u) \in Nat /\ DOMAIN list = 1..Len(list)
        /\ \A i \in 1..n: list[i] = told[i]
        /\ \A j \in 1..Len(u): list[n + j] = u[j]
    <2> DEFINE Z == T \cup U
    <2>1. told \in Seq(Z) /\ u \in Seq(Z) /\ Len(told) = n
      BY <1>1, <1>4
    <2> HIDE DEF Z
    <2>2. list \in Seq(Z) /\ Len(list) = n + Len(u) /\ Len(u) \in Nat
      BY <2>1
    <2>3. \A i \in 1..n: list[i] = told[i]
      BY <2>1
    <2>4. \A j \in 1..Len(u): list[n + j] = u[j]
      BY <1>1, <2>1
    <2> HIDE DEF list
    <2>5. DOMAIN list = 1..Len(list)
      BY <2>2
    <2> QED BY <2>2, <2>3, <2>4, <2>5 DEF Z
  <1> HIDE DEF list
  <1>6. \A i \in 1..n: i \in DOMAIN list
    BY <1>1, <1>5
  <1>7. ASSUME NEW i \in left
        PROVE  \E j \in DOMAIN list:
                  list[j].origin = "copperplane" /\ list[j].cites = {<<"copperplane", i>>}
    <2>1. PICK j \in 1..Len(u): u[j] = own[i]
      BY <1>2 DEF Picks
    <2>2. n + j \in DOMAIN list /\ list[n + j] = own[i]
      BY <1>1, <1>5, <2>1
    <2> QED BY <1>3, <2>2
  <1>8. PICK at \in [1..Len(u) -> left]:
              /\ \A j \in 1..Len(u): u[j] = own[at[j]]
              /\ \A j, k \in 1..Len(u): at[j] = at[k] => j = k
    BY <1>2 DEF Picks
  <1> DEFINE J == DOMAIN list \ (1..n)
             to == [j \in J |-> at[j - n]]
  <1>9. \A j \in J: j \in Nat /\ j - n \in 1..Len(u) /\ n + (j - n) = j
    BY <1>1, <1>5
  <1>10. to \in [J -> left] /\ \A j \in J: to[j] = at[j - n]
    BY <1>8, <1>9
  <1>11. \A j \in J: list[j].cites = {<<"copperplane", to[j]>>}
    <2> SUFFICES ASSUME NEW j \in J PROVE list[j].cites = {<<"copperplane", to[j]>>}
      OBVIOUS
    <2>1. list[j] = u[j - n]
      BY <1>5, <1>9
    <2>2. u[j - n] = own[at[j - n]] /\ at[j - n] \in left
      BY <1>8, <1>9
    <2> QED BY <1>3, <1>10, <2>1, <2>2
  <1>12. \A j, k \in J: to[j] = to[k] => j = k
    <2> SUFFICES ASSUME NEW j \in J, NEW k \in J, to[j] = to[k] PROVE j = k
      OBVIOUS
    <2>1. j - n = k - n
      BY <1>8, <1>9, <1>10
    <2> QED BY <1>1, <1>9, <2>1
  <1> HIDE DEF to
  <1>13. \A i \in 1..n: /\ list[i].origin = Origin(entries[i].cites)
                        /\ list[i].cites = entries[i].cites
                        /\ list[i].tells = entries[i].tells
    BY <1>1, <1>5
  <1>14. Joined(list, entries, left)
    BY <1>1, <1>5, <1>6, <1>7, <1>10, <1>11, <1>12, <1>13 DEF Joined, n
  <1> QED BY <1>5, <1>14 DEF told, u, list, left

\* A reply that has findings in it is completed with what it left out.
LEMMA TextIsTrue ==
    ASSUME NEW r, EntriesAre(r), NEW note, NoteIs(note), HasFindingsText(r),
           NEW l \in Reviewed(r, note)
    PROVE  Lists(l, r, note)
  <1> DEFINE entries == Extracted(r)
             list == Told(entries) \o Uncited(note, entries)
             n == Len(entries)
             left == LeftOut(note, entries)
  <1>1. PICK S: entries \in Seq(S)
    BY ExtractedIs
  <1>2. l = WithoutTheChecksOwn(list)
    BY DEF Reviewed
  <1>3. r.form # "prose"
    BY DEF HasFindingsText
  <1>4. CASE note = Unrun
    <2>1. Told(entries) \in Seq(ToSet(Told(entries)))
      <3> HIDE DEF entries
      <3> QED BY <1>1, ToldIs
    <2> DEFINE T == ToSet(Told(entries))
    <2>2. Uncited(note, entries) = <<>>
      BY <1>4 DEF Uncited
    <2>3. list \in Seq(T)
      <3> HIDE DEF T
      <3>1. Told(entries) \in Seq(T)
        BY <2>1 DEF T
      <3>2. <<>> \in Seq(T)
        OBVIOUS
      <3> QED BY <2>2, <3>1, <3>2
    <2> HIDE DEF T, list
    <2>4. l \in Seq(T)
      BY <1>2, <2>3, WithoutIs
    <2> QED BY <1>3, <1>4, <2>4 DEF Lists
  <1>5. CASE note # Unrun
    <2>0. (\E Z: list \in Seq(Z)) /\ Joined(list, entries, left)
      <3> HIDE DEF entries
      <3> QED BY <1>1, <1>5, TogetherAre
    <2> HIDE DEF list, left
    <2>1. /\ DOMAIN list = 1..Len(list) /\ n \in Nat
          /\ \A i \in 1..n: /\ i \in DOMAIN list
                            /\ list[i].origin = Origin(entries[i].cites)
                            /\ list[i].cites = entries[i].cites
                            /\ list[i].tells = entries[i].tells
          /\ \A i \in left: \E j \in DOMAIN list:
                list[j].origin = "copperplane" /\ list[j].cites = {<<"copperplane", i>>}
      <3> HIDE DEF entries
      <3> QED BY <2>0 DEF Joined, n
    <2>2. PICK Z: list \in Seq(Z)
      BY <2>0
    <2>3. PICK I \in SUBSET DOMAIN list:
             /\ Picks(l, list, I)
             /\ \A i \in DOMAIN list: list[i].origin # "kicad" => i \in I
      BY <1>2, <2>2, WithoutIs
    <2>4. \A i \in DOMAIN list: list[i].origin # "kicad" => list[i] \in ToSet(l)
      <3>1. l \in Seq(Z)
        BY <1>2, <2>2, WithoutIs
      <3>2. DOMAIN l = 1..Len(l)
        BY <3>1
      <3> QED BY <2>3, <3>2 DEF Picks, ToSet
    <2>5. DOMAIN entries = 1..n
      <3> HIDE DEF entries
      <3> QED BY <1>1 DEF n
    <2>6. ASSUME NEW i \in 1..Len(note.ours)
          PROVE  \/ \E f \in ToSet(l): <<"copperplane", i>> \in f.cites \/ note.ours[i] \in f.tells
                 \/ \E e \in ToSet(entries): Origin(e.cites) = "kicad" /\ note.ours[i] \in e.tells
      <3>1. CASE i \in left
        <4>1. PICK j \in DOMAIN list:
                 list[j].origin = "copperplane" /\ list[j].cites = {<<"copperplane", i>>}
          BY <2>1, <3>1
        <4>2. list[j] \in ToSet(l) /\ <<"copperplane", i>> \in list[j].cites
          BY <2>4, <4>1
        <4> QED BY <4>2
      <3>2. CASE i \notin left
        <4>1. \/ <<"copperplane", i>> \in CitedIds(entries)
              \/ \E e \in ToSet(entries): note.ours[i] \in e.tells
          BY <3>2 DEF LeftOut, left
        <4>2. CASE <<"copperplane", i>> \in CitedIds(entries)
          <5>1. PICK k \in 1..n: <<"copperplane", i>> \in entries[k].cites
            <6> HIDE DEF entries, n
            <6> QED BY <2>5, <4>2 DEF CitedIds, ToSet
          <5>2. Origin(entries[k].cites) = "copperplane"
            <6>1. <<"copperplane", i>>[1] = "copperplane"
              OBVIOUS
            <6> HIDE DEF entries
            <6> QED BY <5>1, <6>1 DEF Origin
          <5>3. list[k] \in ToSet(l) /\ <<"copperplane", i>> \in list[k].cites
            <6> HIDE DEF entries, n
            <6> QED BY <2>1, <2>4, <5>1, <5>2
          <5> QED BY <5>3
        <4>3. CASE \E e \in ToSet(entries): note.ours[i] \in e.tells
          <5>1. PICK k \in 1..n: note.ours[i] \in entries[k].tells /\ entries[k] \in ToSet(entries)
            <6> HIDE DEF entries, n
            <6> QED BY <2>5, <4>3 DEF ToSet
          <5>2. CASE Origin(entries[k].cites) = "kicad"
            BY <5>1, <5>2
          <5>3. CASE Origin(entries[k].cites) # "kicad"
            <6>1. list[k] \in ToSet(l) /\ note.ours[i] \in list[k].tells
              <7> HIDE DEF entries, n
              <7> QED BY <2>1, <2>4, <5>1, <5>3
            <6> QED BY <6>1
          <5> QED BY <5>2, <5>3
        <4> QED BY <4>1, <4>2, <4>3
      <3> QED BY <3>1, <3>2
    <2>7. ASSUME NEW p \in 1..Len(l), NEW q \in 1..Len(l), p # q, q > n
          PROVE  l[p].cites \cap l[q].cites = {}
      <3>1. PICK at \in [1..Len(l) -> I]:
                /\ \A j \in 1..Len(l): l[j] = list[at[j]] /\ at[j] >= j
                /\ \A j, k \in 1..Len(l): at[j] = at[k] => j = k
        BY <2>3 DEF Picks
      <3>2. PICK own \in [DOMAIN list \ (1..n) -> left]:
                /\ \A j \in DOMAIN list \ (1..n): list[j].cites = {<<"copperplane", own[j]>>}
                /\ \A j, k \in DOMAIN list \ (1..n): own[j] = own[k] => j = k
        <4> HIDE DEF entries
        <4> QED BY <2>0 DEF Joined, n
      <3> HIDE DEF entries, n
      <3>3. at[p] \in DOMAIN list /\ at[q] \in DOMAIN list /\ at[p] # at[q] /\ at[q] >= q
            /\ l[p] = list[at[p]] /\ l[q] = list[at[q]]
        BY <2>3, <2>7, <3>1
      <3>4. at[q] \in DOMAIN list \ (1..n)
        <4>1. at[q] \in Nat /\ q \in Nat /\ n \in Nat
          BY <2>1, <2>2, <3>3
        <4> QED BY <2>7, <3>3, <4>1
      <3>5. l[q].cites = {<<"copperplane", own[at[q]]>>} /\ own[at[q]] \in left
        BY <3>2, <3>3, <3>4
      <3>6. CASE at[p] \in 1..n
        <4>1. l[p].cites = entries[at[p]].cites
          BY <2>1, <3>3, <3>6
        <4>2. entries[at[p]] \in ToSet(entries)
          BY <2>5, <3>6 DEF ToSet
        <4>3. <<"copperplane", own[at[q]]>> \notin CitedIds(entries)
          BY <3>5 DEF left, LeftOut
        <4>4. <<"copperplane", own[at[q]]>> \notin l[p].cites
          BY <4>1, <4>2, <4>3 DEF CitedIds
        <4> QED BY <3>5, <4>4
      <3>7. CASE at[p] \notin 1..n
        <4>1. at[p] \in DOMAIN list \ (1..n)
          BY <3>3, <3>7
        <4>2. l[p].cites = {<<"copperplane", own[at[p]]>>} /\ own[at[p]] # own[at[q]]
          BY <3>2, <3>3, <3>4, <4>1
        <4> QED BY <3>5, <4>2
      <3> QED BY <3>6, <3>7
    <2>8. l \in Seq(Z)
      BY <1>2, <2>2, WithoutIs
    <2> QED BY <1>3, <2>6, <2>7, <2>8 DEF Lists
  <1> QED BY <1>4, <1>5
\* What the check found, in its order.
LEMMA CheckAloneIs ==
    ASSUME NEW note, NoteIs(note), note # Unrun
    PROVE  LET f == [i \in 1..note.kicad |-> Finding("kicad", {<<"kicad", i>>}, {})]
                       \o OwnFindings(note)
           IN /\ \E Z: f \in Seq(Z)
              /\ \A i \in 1..Len(note.ours): \E j \in DOMAIN f:
                    f[j].origin = "copperplane" /\ f[j].cites = {<<"copperplane", i>>}
              /\ \A j, k \in DOMAIN f: j # k => f[j].cites \cap f[k].cites = {}
  <1> DEFINE a == [i \in 1..note.kicad |-> Finding("kicad", {<<"kicad", i>>}, {})]
             own == OwnFindings(note)
             f == a \o own
             T == ToSet(a)
             U == ToSet(own)
             n == note.kicad
  <1>1. n \in Nat
    BY DEF NoteIs
  <1>2. a \in Seq(T) /\ Len(a) = n
    <2>1. a = [i \in 1..n |-> a[i]]
      OBVIOUS
    <2> HIDE DEF a, n
    <2> QED BY <1>1, <2>1, ListOf
  <1>3. \A i \in 1..n: a[i].cites = {<<"kicad", i>>}
    BY FindingHas
  <1>4. /\ own \in Seq(U) /\ Len(own) = Len(note.ours) /\ Len(note.ours) \in Nat
        /\ \A i \in 1..Len(note.ours):
              own[i].origin = "copperplane" /\ own[i].cites = {<<"copperplane", i>>}
    BY OwnFindingsAre
  <1> HIDE DEF a, own, T, U, n
  <1>5. a \in Seq(T \cup U) /\ own \in Seq(T \cup U)
    BY <1>2, <1>4
  <1>6. /\ f \in Seq(T \cup U)
        /\ DOMAIN f = 1..(n + Len(note.ours))
        /\ \A i \in 1..n: f[i] = a[i]
        /\ \A j \in 1..Len(note.ours): f[n + j] = own[j]
    <2> DEFINE Z == T \cup U
    <2>1. a \in Seq(Z) /\ own \in Seq(Z)
      BY <1>5
    <2> HIDE DEF Z
    <2>2. f \in Seq(Z) /\ Len(f) = n + Len(note.ours)
      BY <1>2, <1>4, <2>1
    <2>3. \A i \in 1..n: f[i] = a[i]
      BY <1>2, <2>1
    <2>4. \A j \in 1..Len(note.ours): f[n + j] = own[j]
      BY <1>1, <1>2, <1>4, <2>1
    <2> HIDE DEF f
    <2>5. DOMAIN f = 1..Len(f)
      BY <2>2
    <2> QED BY <2>2, <2>3, <2>4, <2>5 DEF Z
  <1> HIDE DEF f
  <1>7. ASSUME NEW i \in 1..Len(note.ours)
        PROVE  \E j \in DOMAIN f: f[j].origin = "copperplane" /\ f[j].cites = {<<"copperplane", i>>}
    <2>1. n + i \in DOMAIN f /\ f[n + i] = own[i]
      BY <1>1, <1>4, <1>6
    <2> QED BY <1>4, <2>1
  <1>8. \A j \in DOMAIN f: /\ j \in Int
                           /\ j <= n => f[j].cites = {<<"kicad", j>>}
                           /\ j > n => f[j].cites = {<<"copperplane", j - n>>}
    <2> SUFFICES ASSUME NEW j \in DOMAIN f
                 PROVE  /\ j \in Int
                        /\ j <= n => f[j].cites = {<<"kicad", j>>}
                        /\ j > n => f[j].cites = {<<"copperplane", j - n>>}
      OBVIOUS
    <2>1. j \in Nat /\ j >= 1 /\ j <= n + Len(note.ours)
      BY <1>1, <1>4, <1>6
    <2>2. ASSUME j <= n PROVE f[j].cites = {<<"kicad", j>>}
      <3>1. j \in 1..n
        BY <1>1, <2>1, <2>2
      <3> QED BY <1>3, <1>6, <3>1
    <2>3. ASSUME j > n PROVE f[j].cites = {<<"copperplane", j - n>>}
      <3>1. j - n \in 1..Len(note.ours) /\ n + (j - n) = j
        BY <1>1, <1>4, <2>1, <2>3
      <3>2. f[n + (j - n)] = own[j - n]
        BY <1>6, <3>1
      <3>3. f[j] = own[j - n]
        BY <3>1, <3>2
      <3> QED BY <1>4, <3>1, <3>3
    <2> QED BY <2>1, <2>2, <2>3
  <1>9. ASSUME NEW j \in DOMAIN f, NEW k \in DOMAIN f, j # k
        PROVE  f[j].cites \cap f[k].cites = {}
    <2>1. j \in Int /\ k \in Int /\ n \in Nat
      BY <1>1, <1>8
    <2>2. j - n # k - n
      BY <1>9, <2>1
    <2>3. CASE j <= n /\ k <= n
      BY <1>8, <1>9, <2>3
    <2>4. CASE j > n /\ k > n
      BY <1>8, <2>2, <2>4
    <2>5. CASE j <= n /\ k > n
      BY <1>8, <2>5
    <2>6. CASE j > n /\ k <= n
      BY <1>8, <2>6
    <2> QED BY <2>1, <2>3, <2>4, <2>5, <2>6
  <1>10. \E Z: f \in Seq(Z)
    BY <1>6
  <1> QED BY <1>7, <1>9, <1>10 DEF f, a, own

\* Without a reply to read, the findings of the check are shown.
LEMMA CheckAloneIsTrue ==
    ASSUME NEW r, NEW note, NoteIs(note), ~HasFindingsText(r), reviewSetup.area \in Areas,
           NEW l \in Reviewed(r, note)
    PROVE  Lists(l, r, note)
  <1>1. PICK f \in Fallback(note): l = WithoutTheChecksOwn(f)
    BY DEF Reviewed
  <1>2. Extracted(r) = <<>>
    BY DEF Extracted
  <1>3. CASE reviewSetup.area = "plain"
    BY <1>1, <1>3 DEF Fallback
  <1>4. CASE reviewSetup.area = "enclosure"
    <2> DEFINE x == OfTheFit
    <2>1. l = f /\ f = IF note = Unrun THEN <<x>> ELSE [i \in 1..note.says |-> x]
      BY <1>1, <1>4 DEF Fallback, WithoutTheChecksOwn
    <2>2. x.cites = {}
      BY FindingHas DEF OfTheFit
    <2> HIDE DEF x
    <2>3. CASE note = Unrun
      <3>1. l \in Seq({x}) /\ l # <<>>
        BY <2>1, <2>3
      <3> QED BY <2>3, <3>1 DEF Lists
    <2>4. CASE note # Unrun
      <3>1. note.says \in Nat /\ note.ours = <<>> /\ l = [i \in 1..note.says |-> x]
        BY <1>4, <2>1, <2>4 DEF NoteIs
      <3>2. l \in Seq({x}) /\ \A i \in 1..Len(l): l[i].cites = {}
        BY <2>2, <3>1
      <3>3. Len(note.ours) = 0
        BY <3>1
      <3> QED BY <2>4, <3>2, <3>3 DEF Lists
    <2> QED BY <2>3, <2>4
  <1>5. CASE reviewSetup.area = "checked"
    <2>1. note # Unrun
      BY <1>1, <1>5 DEF Fallback
    <2> DEFINE g == [i \in 1..note.kicad |-> Finding("kicad", {<<"kicad", i>>}, {})]
                       \o OwnFindings(note)
    <2>2. f = g
      BY <1>1, <1>5, <2>1 DEF Fallback
    <2>3. /\ \E Z: g \in Seq(Z)
          /\ \A i \in 1..Len(note.ours): \E j \in DOMAIN g:
                g[j].origin = "copperplane" /\ g[j].cites = {<<"copperplane", i>>}
          /\ \A j, k \in DOMAIN g: j # k => g[j].cites \cap g[k].cites = {}
      BY <2>1, CheckAloneIs
    <2> HIDE DEF g
    <2>4. PICK Z: g \in Seq(Z)
      BY <2>3
    <2>5. l \in Seq(Z)
      BY <1>1, <2>2, <2>4, WithoutIs
    <2>6. PICK I \in SUBSET DOMAIN g:
             /\ Picks(l, g, I)
             /\ \A i \in DOMAIN g: g[i].origin # "kicad" => i \in I
      BY <1>1, <2>2, <2>4, WithoutIs
    <2>7. DOMAIN l = 1..Len(l)
      BY <2>5
    <2>8. ASSUME NEW i \in 1..Len(note.ours)
          PROVE  \E x \in ToSet(l): <<"copperplane", i>> \in x.cites
      <3>1. PICK j \in DOMAIN g:
               g[j].origin = "copperplane" /\ g[j].cites = {<<"copperplane", i>>}
        BY <2>3
      <3>2. PICK k \in 1..Len(l): l[k] = g[j]
        BY <2>6, <3>1 DEF Picks
      <3> QED BY <2>7, <3>1, <3>2 DEF ToSet
    <2>9. ASSUME NEW p \in 1..Len(l), NEW q \in 1..Len(l), p # q
          PROVE  l[p].cites \cap l[q].cites = {}
      <3>1. PICK at \in [1..Len(l) -> I]:
                /\ \A j \in 1..Len(l): l[j] = g[at[j]]
                /\ \A j, k \in 1..Len(l): at[j] = at[k] => j = k
        BY <2>6 DEF Picks
      <3>2. at[p] \in DOMAIN g /\ at[q] \in DOMAIN g /\ at[p] # at[q]
            /\ l[p] = g[at[p]] /\ l[q] = g[at[q]]
        BY <2>6, <2>9, <3>1
      <3> QED BY <2>3, <3>2
    <2> QED BY <2>1, <2>5, <2>8, <2>9 DEF Lists
  <1> QED BY <1>3, <1>4, <1>5 DEF Areas

-------------------------------------------------------------------------------
\* The inductive invariant: a note is of a design of a linked board; what was
\* returned was made of the reply and the check it was returned with, and until
\* then nothing is shown; what is stored is no longer than the cap.
Held(f) == f = NoFileHere \/ f.content \in Designs

Drawn ==
    /\ reviewPc # "undrawn" => reviewSetup.area \in Areas
    /\ Held(design) /\ \A f \in designPast: Held(f)

ShownIsMade ==
    /\ shown.is \in {"none", "raised", "list"}
    /\ NoteIs(shown.note)
    /\ EntriesAre(reply)
    /\ reviewPc \in {"undrawn", "model", "read"} => shown.is = "none" /\ shown.note = Unrun
    /\ reviewPc = "remember" => shown.is = "list"
    /\ shown.is = "list" => Lists(shown.list, reply, shown.note)

ShelfFits ==
    shelf # NotStored =>
        /\ Len(shelf.findings) <= MaxReviewFindings
        /\ shelf.omitted > 0 => Len(shelf.findings) = MaxReviewFindings

ShowIInv == Drawn /\ ShownIsMade /\ ShelfFits

LEMMA ReturnedHas ==
    ASSUME NEW is, NEW list, NEW note
    PROVE  /\ Returned(is, list, note).is = is
           /\ Returned(is, list, note).list = list
           /\ Returned(is, list, note).note = note
  BY DEF Returned

LEMMA ShowStarts == ReviewInit => ShowIInv
  <1> SUFFICES ASSUME ReviewInit PROVE ShowIInv
    OBVIOUS
  <1>1. Drawn
    BY DEF ReviewInit, Drawn, Held
  <1>2. shown.is = "none" /\ shown.note = Unrun
    BY ReturnedHas DEF ReviewInit
  <1>3. EntriesAre(reply)
    <2>1. reply.entries = <<>> /\ <<>> \in Seq({})
      BY DEF ReviewInit, NoReply
    <2> QED BY <2>1 DEF EntriesAre
  <1>4. ShownIsMade
    BY <1>2, <1>3 DEF ReviewInit, ShownIsMade, NoteIs
  <1>5. ShelfFits
    BY DEF ReviewInit, ShelfFits
  <1> QED BY <1>1, <1>4, <1>5 DEF ShowIInv

\* What is run on the file gives a note.
LEMMA NoteIsNote ==
    ASSUME Held(design), NEW note \in Notes(design)
    PROVE  NoteIs(note)
  <1>1. CASE note # Unrun /\ reviewSetup.area = "checked"
    <2>1. note = [is |-> "ran", kicad |-> design.content.kicad, ours |-> design.content.ours]
          /\ design # NoFileHere
      BY <1>1 DEF Notes
    <2>2. design.content \in Designs
      BY <2>1 DEF Held
    <2>3. /\ design.content.kicad \in Nat
          /\ design.content.ours \in Seq(ToSet(design.content.ours))
      BY <2>2, ReviewAssumption
    <2> QED BY <1>1, <2>1, <2>3 DEF NoteIs
  <1>2. CASE note # Unrun /\ reviewSetup.area = "enclosure"
    <2>1. PICK n \in 0..2: note = [is |-> "measured", kicad |-> 0, ours |-> <<>>, says |-> n]
      BY <1>2 DEF Notes
    <2>2. note.kicad = 0 /\ note.ours = <<>> /\ note.says = n
      BY <2>1
    <2>3. <<>> \in Seq(ToSet(<<>>))
      OBVIOUS
    <2> QED BY <2>2, <2>3 DEF NoteIs
  <1>3. CASE note = Unrun
    BY <1>3 DEF NoteIs
  <1>4. note # Unrun => reviewSetup.area \in {"checked", "enclosure"}
    <2> SUFFICES ASSUME note # Unrun, reviewSetup.area \notin {"checked", "enclosure"}
                 PROVE  FALSE
      OBVIOUS
    <2>1. note \notin {Unrun} /\ reviewSetup.area \notin {"checked", "enclosure"}
      OBVIOUS
    <2> QED BY <2>1 DEF Notes
  <1> QED BY <1>1, <1>2, <1>3, <1>4

\* What is kept of a list is no longer than the cap, and all of a shorter one.
LEMMA KeptFits ==
    ASSUME NEW S, NEW found \in Seq(S)
    PROVE  /\ Len(Kept(found)) <= MaxReviewFindings
           /\ Len(found) - Len(Kept(found)) > 0 => Len(Kept(found)) = MaxReviewFindings
  <1>1. Len(found) \in Nat /\ MaxReviewFindings \in Nat
    BY ReviewAssumption
  <1>2. CASE Len(found) > MaxReviewFindings
    <2> DEFINE first == SubSeq(found, 1, MaxReviewFindings)
    <2>1. Kept(found) = first
      BY <1>2 DEF Kept
    <2>2. Len(first) = MaxReviewFindings
      BY <1>1, <1>2
    <2> QED BY <1>1, <2>1, <2>2
  <1>3. CASE ~(Len(found) > MaxReviewFindings)
    <2>1. Kept(found) = found
      BY <1>3 DEF Kept
    <2> QED BY <1>1, <1>3, <2>1
  <1> QED BY <1>2, <1>3

LEMMA ShowGoesOn ==
    ASSUME ShowIInv, UNCHANGED <<reviewSetup, reviewPc, reply, shown, shelf>>,
           Drawn'
    PROVE  ShowIInv'
  BY DEF ShowIInv, ShownIsMade, ShelfFits, NoteIs, EntriesAre, Lists

LEMMA ShowSteps == ShowIInv /\ [ReviewNext]_reviewVars => ShowIInv'
  <1> SUFFICES ASSUME ShowIInv, [ReviewNext]_reviewVars PROVE ShowIInv'
    OBVIOUS
  <1>1. CASE SetUp
    <2>1. shown.is = "none" /\ shown.note = Unrun /\ UNCHANGED <<shown, reply, shelf>>
      BY <1>1 DEF SetUp, ShowIInv, ShownIsMade
    <2>2. reviewSetup'.area \in Areas /\ reviewPc' = "idle" /\ UNCHANGED <<design, designPast>>
      BY <1>1 DEF SetUp
    <2>3. Drawn'
      BY <2>2 DEF ShowIInv, Drawn, Held
    <2>4. ShownIsMade'
      BY <2>1, <2>2 DEF ShowIInv, ShownIsMade, NoteIs, EntriesAre
    <2> QED BY <2>1, <2>3, <2>4 DEF ShowIInv, ShelfFits
  <1>2. ASSUME NEW f, Placed(f), Held(f) PROVE ShowIInv'
    <2>1. Drawn'
      BY <1>2 DEF Placed, ShowIInv, Drawn, Held
    <2> QED BY <1>2, <2>1, ShowGoesOn DEF Placed
  <1>3. ASSUME NEW c \in Designs, SaveDesign(c) PROVE ShowIInv'
    <2> DEFINE f == [is |-> "file", content |-> c, stamp |-> Cardinality(designPast) + 1]
    <2>1. Held(f)
      BY DEF Held
    <2>2. Placed(f)
      BY <1>3 DEF SaveDesign
    <2> HIDE DEF f
    <2> QED BY <1>2, <2>1, <2>2
  <1>4. CASE RestoreDesign
    BY <1>2, <1>4 DEF RestoreDesign, ShowIInv, Drawn
  <1>5. CASE RemoveDesign
    BY <1>2, <1>5 DEF RemoveDesign, Held
  <1>6. CASE StartReview
    <2>1. shown'.is = "none" /\ shown'.note = Unrun
      BY <1>6, ReturnedHas DEF StartReview
    <2>2. EntriesAre(reply')
      <3>1. reply'.entries = <<>> /\ <<>> \in Seq({})
        BY <1>6 DEF StartReview, NoReply
      <3> QED BY <3>1 DEF EntriesAre
    <2>3. reviewPc = "idle" /\ reviewPc' = "model" /\ UNCHANGED <<reviewSetup, design, designPast, shelf>>
      BY <1>6 DEF StartReview
    <2>4. Drawn'
      BY <2>3 DEF ShowIInv, Drawn, Held
    <2>5. ShownIsMade'
      BY <2>1, <2>2, <2>3 DEF ShownIsMade, NoteIs, EntriesAre
    <2> QED BY <2>3, <2>4, <2>5 DEF ShowIInv, ShelfFits
  <1>7. ASSUME NEW r \in Replies, ModelReplies(r) PROVE ShowIInv'
    <2>1. shown.is = "none" /\ shown.note = Unrun /\ reply' = r /\ reviewPc' = "read"
          /\ UNCHANGED <<reviewSetup, design, designPast, shown, shelf>> /\ reviewPc = "model"
      BY <1>7 DEF ModelReplies, ShowIInv, ShownIsMade
    <2>2. EntriesAre(reply')
      BY <2>1, ReviewAssumption DEF EntriesAre
    <2>3. Drawn'
      BY <2>1 DEF ShowIInv, Drawn, Held
    <2>4. ShownIsMade'
      BY <2>1, <2>2 DEF ShownIsMade, NoteIs, EntriesAre
    <2> QED BY <2>1, <2>3, <2>4 DEF ShowIInv, ShelfFits
  <1>8. CASE ModelRaises
    <2>1. shown'.is = "raised" /\ shown'.note = Unrun
      BY <1>8, ReturnedHas DEF ModelRaises
    <2>2. reviewPc = "model" /\ reviewPc' = "idle"
          /\ UNCHANGED <<reviewSetup, design, designPast, reply, shelf>>
      BY <1>8 DEF ModelRaises
    <2>3. Drawn'
      BY <2>2 DEF ShowIInv, Drawn, Held
    <2>4. ShownIsMade'
      BY <2>1, <2>2 DEF ShowIInv, ShownIsMade, NoteIs, EntriesAre
    <2> QED BY <2>2, <2>3, <2>4 DEF ShowIInv, ShelfFits
  <1>9. CASE ReadReply
    <2>1. reviewPc = "read" /\ UNCHANGED <<reviewSetup, design, designPast, reply, shelf>>
      BY <1>9 DEF ReadReply
    <2>2. PICK note \in Notes(design):
             \/ shown' = Returned("raised", <<>>, note) /\ reviewPc' = "idle"
             \/ /\ \E list \in Reviewed(reply, note): shown' = Returned("list", list, note)
                /\ reviewPc' = "remember"
      BY <1>9 DEF ReadReply
    <2>3. NoteIs(note) /\ reviewSetup.area \in Areas /\ EntriesAre(reply)
      BY <2>1, <2>2, NoteIsNote DEF ShowIInv, Drawn, ShownIsMade, NoteIs
    <2>4. Drawn'
      BY <2>1, <2>2 DEF ShowIInv, Drawn, Held
    <2>5. NoteIs(note)' /\ EntriesAre(reply')
      BY <2>1, <2>3 DEF NoteIs, EntriesAre
    <2>6. CASE shown' = Returned("raised", <<>>, note) /\ reviewPc' = "idle"
      <3>1. shown'.is = "raised" /\ shown'.note = note
        BY <2>6, ReturnedHas
      <3>2. ShownIsMade'
        BY <2>1, <2>3, <2>5, <2>6, <3>1 DEF ShownIsMade, NoteIs, EntriesAre
      <3> QED BY <2>1, <2>4, <3>2 DEF ShowIInv, ShelfFits
    <2>7. ASSUME NEW list \in Reviewed(reply, note), shown' = Returned("list", list, note),
                 reviewPc' = "remember"
          PROVE  ShowIInv'
      <3>1. shown'.is = "list" /\ shown'.list = list /\ shown'.note = note
        BY <2>7, ReturnedHas
      <3>2. Lists(list, reply, note)
        BY <2>3, <2>7, TextIsTrue, CheckAloneIsTrue
      <3>3. Lists(list, reply', note)
        BY <2>1, <3>2
      <3>4. ShownIsMade'
        BY <2>1, <2>3, <2>5, <2>7, <3>1, <3>3 DEF ShownIsMade, NoteIs, EntriesAre
      <3> QED BY <2>1, <2>4, <3>4 DEF ShowIInv, ShelfFits
    <2> QED BY <2>2, <2>6, <2>7
  <1>10. CASE Remember
    <2>1. reviewPc = "remember" /\ reviewPc' = "idle"
          /\ UNCHANGED <<reviewSetup, design, designPast, reply, shown>>
      BY <1>10 DEF Remember
    <2>2. Drawn'
      BY <2>1 DEF ShowIInv, Drawn, Held
    <2>3. ShownIsMade'
      BY <2>1 DEF ShowIInv, ShownIsMade, NoteIs, EntriesAre, Lists
    <2>4. ShelfFits'
      <3>1. CASE UNCHANGED shelf
        BY <3>1 DEF ShowIInv, ShelfFits
      <3>2. CASE ~UNCHANGED shelf
        <4>1. shelf' = [is |-> "review",
                        findings |-> Kept(shown.list),
                        omitted |-> Len(shown.list) - Len(Kept(shown.list)),
                        source |-> IF reviewSetup.linked /\ design # NoFileHere
                                     THEN design ELSE NoFileHere,
                        judged |-> checkNote.file]
          BY <1>10, <3>2, Zenon DEF Remember
        <4>2. /\ shelf'.findings = Kept(shown.list)
              /\ shelf'.omitted = Len(shown.list) - Len(Kept(shown.list))
          BY <4>1
        <4>3. PICK S: shown.list \in Seq(S)
          BY <2>1 DEF ShowIInv, ShownIsMade, Lists
        <4> QED BY <4>2, <4>3, KeptFits DEF ShelfFits
      <3> QED BY <3>1, <3>2
    <2> QED BY <2>2, <2>3, <2>4 DEF ShowIInv
  <1>11. CASE UNCHANGED reviewVars
    BY <1>11 DEF reviewVars, ShowIInv, Drawn, Held, ShownIsMade, ShelfFits, NoteIs, EntriesAre, Lists
  <1> QED BY <1>1, <1>3, <1>4, <1>5, <1>6, <1>7, <1>8, <1>9, <1>10, <1>11 DEF ReviewNext

LEMMA ShowInvariant == ReviewSpec => []ShowIInv
  BY ShowStarts, ShowSteps, PTL DEF ReviewSpec

THEOREM ReviewTypes == ReviewSpec => []ReviewTypeOK
  <1>1. ShowIInv => ReviewTypeOK
    BY DEF ShowIInv, Drawn, Held, ShownIsMade, ShelfFits, ReviewTypeOK
  <1> QED BY <1>1, ShowInvariant, PTL

\* For any designs, checks that fail, and replies: prose is taken for clean only
\* where a check or a measurement ran; a finding of ours is shown unless an entry
\* that cites KiCad's check names it (review drops that entry); none is doubled,
\* whatever the model cites, names or leaves out.
THEOREM ReviewsShowTheCheck == ReviewSpec => []ReviewShowsTheCheck
  <1>1. ShowIInv => ReviewShowsTheCheck
    <2> SUFFICES ASSUME ShowIInv PROVE ReviewShowsTheCheck
      OBVIOUS
    <2>1. shown.is = "list" => Lists(shown.list, reply, shown.note)
      BY DEF ShowIInv, ShownIsMade
    <2>2. ProseIsNotClean
      BY <2>1 DEF ProseIsNotClean, Clean, Lists
    <2>3. OwnFindingsLostOneWay
      BY <2>1 DEF OwnFindingsLostOneWay, NamedInDroppedEntry, CheckUnchanged, IsShown, Lists
    <2>4. OwnFindingsOnce
      BY <2>1 DEF OwnFindingsOnce, CheckUnchanged, Lists
    <2> QED BY <2>2, <2>3, <2>4 DEF ReviewShowsTheCheck
  <1> QED BY <1>1, ShowInvariant, PTL

-------------------------------------------------------------------------------
(* All the stores: MCStores.                                               *)

\* A behaviour of the stores is one of each store: a step of one leaves the
\* others as they are.
LEMMA EachStore ==
    StoresSpec => PartSpec /\ HouseSpec /\ ChatSpec /\ IndexSpec /\ ReviewSpec
  <1>1. StoresInit => PartInit /\ HouseInit /\ ChatInit /\ IndexInit /\ ReviewInit
    BY DEF StoresInit
  <1>2. [StoresNext]_storesVars => [PartNext]_partVars
    BY DEF StoresNext, storesVars, PartOnly, HouseOnly, ChatOnly, IndexOnly, ReviewOnly
  <1>3. [StoresNext]_storesVars => [HouseNext]_houseVars
    BY DEF StoresNext, storesVars, PartOnly, HouseOnly, ChatOnly, IndexOnly, ReviewOnly
  <1>4. [StoresNext]_storesVars => [ChatNext]_chatVars
    BY DEF StoresNext, storesVars, PartOnly, HouseOnly, ChatOnly, IndexOnly, ReviewOnly
  <1>5. [StoresNext]_storesVars => [IndexNext]_indexVars
    BY DEF StoresNext, storesVars, PartOnly, HouseOnly, ChatOnly, IndexOnly, ReviewOnly
  <1>6. [StoresNext]_storesVars => [ReviewNext]_reviewVars
    BY DEF StoresNext, storesVars, PartOnly, HouseOnly, ChatOnly, IndexOnly, ReviewOnly
  <1> QED
    BY <1>1, <1>2, <1>3, <1>4, <1>5, <1>6, PTL
       DEF StoresSpec, PartSpec, HouseSpec, ChatSpec, IndexSpec, ReviewSpec

\* Who holds the index's transaction is inserting into it (rebuild_index).
LEMMA IndexTypes == IndexSpec => []IndexTypeOK
  <1>1. IndexIInv => IndexTypeOK
    BY IndexAssumption DEF IndexIInv, IndexTyped, TransactionOwned, IndexTypeOK
  <1> QED BY <1>1, IndexInvariant, PTL

\* Every variable of every store has its type: what is written is what the code
\* checks for before it writes, whatever is killed.
THEOREM StoresTypes == StoresSpec => []StoresTypeOK
  <1>1. PartTypeOK /\ HouseTypeOK /\ ChatTypeOK /\ IndexTypeOK /\ ReviewTypeOK
          => StoresTypeOK
    BY DEF StoresTypeOK
  <1> QED
    BY <1>1, EachStore, PartTypes, HouseTypes, ChatTypes, IndexTypes, ReviewTypes, PTL

===============================================================================
