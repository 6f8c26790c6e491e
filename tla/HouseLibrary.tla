----------------------------- MODULE HouseLibrary -----------------------------
(***************************************************************************)
(* The library of board houses (library_store.py, capability_profile.py)    *)
(* and the panel that works on it (HouseLibrary.tsx).  A house is a file    *)
(* named by its id; houses come in from files and pastes nobody has vetted, *)
(* are cloned, edited, reset to the house they were cloned from, removed.   *)
(*                                                                         *)
(* A house's numbers are abstracted to one value.  An id is a name and a    *)
(* count: <<n, 1>> stands for "n", <<n, 2>> for "n-2", and so on; a copy of *)
(* "n-2" itself, "n-2-2", is the next one free in the same row.  Only the   *)
(* panel writes the library, one call at a time (it is busy meanwhile), so  *)
(* each call of it is one action.  An entry that a later one of the same    *)
(* files replaces leaves its place in the payload empty.                    *)
(***************************************************************************)
EXTENDS Integers, Sequences

CONSTANTS
    HouseNames, \* what ids are made of
    MaxCount,   \* the bound on the count in an id
    Values,     \* the values a house may give, all positive
    HouseFiles  \* the files and pastes a user may import: sequences of entries

NoId == <<>>
NoValue == 0    \* an absent field
BadValue == -1  \* one that is no positive number
HouseIds == HouseNames \X (1..MaxCount)

\* What an import may contain: an id or none, a value, good or bad, with or
\* without its provenance, the id of the house it was cloned from, a template.
Entry == [id: HouseIds \cup {NoId}, value: Values \cup {NoValue, BadValue},
          sourced: BOOLEAN, from: HouseIds \cup {NoId}, template: BOOLEAN]

\* The place of an entry that a later one replaces.
Dropped == [is |-> "dropped"]

ASSUME HouseAssumption ==
    /\ MaxCount \in Nat \ {0}
    /\ Values \subseteq Nat \ {0}
    /\ HouseFiles \subseteq Seq(Entry)

VARIABLES
    library,      \* library[id]: the house in <id>.house.json, or NoHouse
    pendingFile,  \* the payload whose collisions the panel asks about, or <<>>
    houseReport,  \* what the last import reported
    brought       \* the pairs of an entry of the last import, and its house

houseVars == <<library, pendingFile, houseReport, brought>>

-------------------------------------------------------------------------------
NoHouseAt == [is |-> "none"]
Stored(e) == [is |-> "house", value |-> e.value, sourced |-> e.sourced, from |-> e.from]
Has(lib, id) == lib[id] # NoHouseAt

\* capability_profile.validate, and save_house's refusal of a template.  Mutant:
\* provenance is not asked for.
ValidLoose(e) == ~e.template /\ e.value # BadValue
Valid(e) ==
    /\ ~e.template
    /\ e.value # BadValue
    /\ e.value # NoValue => e.sourced

\* _unused_house_id, with the suffix an import uses: the first free id.  Where the
\* bound on counts leaves none, which Roomy excludes, the id stands for it.
Later(id) == {<<id[1], n>> : n \in id[2] + 1 .. MaxCount}
Free(lib, id) == {i \in Later(id): ~Has(lib, i)}
UnusedHouseId(lib, id) ==
    IF Free(lib, id) = {} THEN id
    ELSE CHOOSE i \in Free(lib, id): \A j \in Free(lib, id): i[2] <= j[2]

\* What import_houses says of each entry, by its place in the payload; with it,
\* how it was asked, and about which places.
Report(source, mode, places, s) ==
    [source |-> source, mode |-> mode, places |-> places,
     imported |-> s.imported, skipped |-> s.skipped, rejected |-> s.rejected]

\* An import before its first entry.
Begun(lib) == [lib |-> lib, imported |-> {}, skipped |-> {}, rejected |-> {}]

\* One entry of the payload.  A copy has no origin here (CLONED_FROM_KEY is
\* dropped), and what is there is written over.  Mutants: a collision that is
\* only to be reported is written; a rejected entry is forgotten.
Target(lib, id, mode) ==
    IF Has(lib, id) /\ mode = "rename" THEN UnusedHouseId(lib, id) ELSE id
Rejects(s, i) == [s EXCEPT !.rejected = @ \cup {i}]
Skips(s, i) == [s EXCEPT !.skipped = @ \cup {i}]
Brings(s, e, i, id) ==
    [s EXCEPT !.lib[id] = Stored([e EXCEPT !.from = NoId]), !.imported = @ \cup {<<i, id>>}]
ImportOneEager(s, e, i, mode) ==
    IF e = Dropped THEN s
    ELSE IF e.id = NoId \/ ~Valid(e) THEN Rejects(s, i)
    ELSE Brings(s, e, i, e.id)
ImportOneQuiet(s, e, i, mode) ==
    IF e = Dropped \/ e.id = NoId THEN s
    ELSE IF Has(s.lib, e.id) /\ mode = "report" THEN Skips(s, i)
    ELSE IF Valid(e) THEN Brings(s, e, i, Target(s.lib, e.id, mode))
    ELSE s
ImportOne(s, e, i, mode) ==
    IF e = Dropped THEN s
    ELSE IF e.id = NoId THEN Rejects(s, i)
    ELSE IF Has(s.lib, e.id) /\ mode = "report" THEN Skips(s, i)
    ELSE IF Valid(e) THEN Brings(s, e, i, Target(s.lib, e.id, mode))
    ELSE Rejects(s, i)

\* import_houses, after each entry of the payload.
Imports(payload, mode) ==
    LET step[i \in 0..Len(payload)] ==
            IF i = 0 THEN Begun(library) ELSE ImportOne(step[i - 1], payload[i], i, mode)
    IN step
ImportAll(payload, mode) == Imports(payload, mode)[Len(payload)]

\* read_house_files: two files in one payload, where the last entry of an id
\* wins.  Mutant: they are put one after the other.
MergedAll(p, q) == p \o q
Merged(p, q) ==
    LET all == p \o q
    IN [i \in 1..Len(all) |->
           IF all[i].id # NoId /\ \E j \in (i + 1)..Len(all): all[j].id = all[i].id
             THEN Dropped ELSE all[i]]
Filled(payload) == {i \in 1..Len(payload): payload[i] # Dropped}

-------------------------------------------------------------------------------

NoReport == Report("none", "none", {}, Begun(<<>>))

HouseInit ==
    /\ library = [id \in HouseIds |-> NoHouseAt]
    /\ pendingFile = <<>>
    /\ houseReport = NoReport
    /\ brought = {}

\* There is a free id for every entry: the bound on counts is not reached.
Roomy(payload) ==
    \A i \in Filled(payload):
        LET lib == Imports(payload, "rename")[i - 1].lib
            id == payload[i].id
        IN id # NoId /\ Has(lib, id) => Free(lib, id) # {}

\* The panel's import: it asks about collisions, if there are any, later.
Import(payload, source) ==
    /\ pendingFile = <<>>
    /\ LET s == ImportAll(payload, "report")
       IN /\ library' = s.lib
          /\ houseReport' = Report(source, "report", Filled(payload), s)
          /\ pendingFile' = IF s.skipped = {} THEN <<>> ELSE payload
          /\ brought' = s.imported

ImportPaste == \E p \in HouseFiles: Import(p, "paste")
ImportFiles == \E p, q \in HouseFiles: Import(Merged(p, q), "files")

\* resolveCollisions: the user has chosen, and the payload is imported again.
ResolveCollisions(mode) ==
    /\ pendingFile # <<>>
    /\ mode = "rename" => Roomy(pendingFile)
    /\ LET s == ImportAll(pendingFile, mode)
       IN /\ library' = s.lib
          /\ houseReport' = Report(houseReport.source, mode, Filled(pendingFile), s)
          /\ brought' = brought \cup s.imported
    /\ pendingFile' = <<>>

\* run clears the notice; an import whose collisions are open is kept.
NoticeCleared ==
    /\ UNCHANGED pendingFile
    /\ IF pendingFile = <<>>
         THEN houseReport' = NoReport /\ brought' = {}
         ELSE UNCHANGED <<houseReport, brought>>

\* onClone and onStartFromTemplate: capability_profile.clone, then save_house
\* without overwrite.  freeName gives an id that is not in the list; mutant: it
\* gives the id of the house itself.
CloneIdItself(id) == {id}
CloneId(id) == {i \in HouseIds: ~Has(library, i)}
Clone(id) ==
    /\ Has(library, id)
    /\ \E i \in CloneId(id):
          library' = [library EXCEPT ![i] = [library[id] EXCEPT !.from = id]]
    /\ NoticeCleared
StartFromTemplate(v) ==
    /\ \E i \in HouseIds:
          /\ ~Has(library, i)
          /\ library' = [library EXCEPT ![i] =
                            Stored([id |-> i, value |-> v, sourced |-> TRUE,
                                    from |-> NoId, template |-> FALSE])]
    /\ NoticeCleared

\* onSaveEdits: the house as listed with another value, over the old one.  A
\* value where there was none has no provenance, and is refused.
SaveEdits(id, v) ==
    /\ Has(library, id)
    /\ LET h == [library[id] EXCEPT !.value = v]
       IN /\ v # NoValue => h.sourced
          /\ library' = [library EXCEPT ![id] = h]
    /\ NoticeCleared

\* reset_house, of a clone whose origin is there.
ResetHouse(id) ==
    /\ Has(library, id)
    /\ library[id].from # NoId
    /\ Has(library, library[id].from)
    /\ library' = [library EXCEPT ![id] = NoHouseAt]
    /\ NoticeCleared

DeleteHouse(id) ==
    /\ Has(library, id)
    /\ library' = [library EXCEPT ![id] = NoHouseAt]
    /\ NoticeCleared

HouseNext ==
    \/ ImportPaste
    \/ ImportFiles
    \/ \E mode \in {"overwrite", "rename"}: ResolveCollisions(mode)
    \/ \E v \in Values: StartFromTemplate(v)
    \/ \E id \in HouseIds:
          \/ Clone(id)
          \/ \E v \in Values \cup {NoValue}: SaveEdits(id, v)
          \/ ResetHouse(id)
          \/ DeleteHouse(id)

HouseSpec == HouseInit /\ [][HouseNext]_houseVars

-------------------------------------------------------------------------------
(* What is checked. *)

\* Resetting a house leaves the one it came from: no reset loses the numbers
\* altogether (reset_house).
NoHouseFromItself ==
    \A id \in HouseIds: Has(library, id) => library[id].from # id

\* The type of every variable; with it, the library holds no record that the
\* checker would refuse (save_house), and no house is its own origin.
HouseTypeOK ==
    /\ \A id \in HouseIds:
          Has(library, id) =>
              /\ library[id].from \in HouseIds \cup {NoId}
              /\ library[id].value \in Values \cup {NoValue}
              /\ library[id].value # NoValue => library[id].sourced
    /\ houseReport.mode \in {"none", "report", "overwrite", "rename"}
    /\ pendingFile \in Seq(Entry \cup {Dropped})
    /\ NoHouseFromItself

\* An import replaces nothing that the user did not ask to replace: reporting
\* and renaming leave every house as it was (import_houses).
ReplacesOnlyWhenAsked ==
    [][houseReport' # houseReport /\ houseReport'.mode \in {"report", "rename"} =>
          \A id \in HouseIds:
              Has(library, id) => library'[id] = library[id]]_houseVars

\* Every entry of an import is accounted for, in one way ("a house skipped for a
\* name collision and one rejected as malformed are different problems").
ReportAccountsForAll ==
    LET done == {p[1] : p \in houseReport.imported}
    IN /\ done \cup houseReport.skipped \cup houseReport.rejected = houseReport.places
       /\ done \cap houseReport.skipped = {}
       /\ (done \cup houseReport.skipped) \cap houseReport.rejected = {}
       /\ \A p, q \in houseReport.imported: p[1] = q[1] => p = q

\* Files that were chosen together never collide with each other
\* (read_house_files).
FilesCollideOnlyWithTheLibrary ==
    houseReport.source = "files" =>
        \A i \in houseReport.skipped, p \in houseReport.imported:
            p[2] # pendingFile[i].id

\* What the panel is told of an import is what it did: nothing is left out, and
\* a collision is one with a house the user had.
ImportReportTruthful == ReportAccountsForAll /\ FilesCollideOnlyWithTheLibrary

\* An entry of an import becomes one house, whatever the user answers about the
\* others ("nothing that collided was imported, and the user picks").
ImportedOnce ==
    \A p, q \in brought: p[1] = q[1] => p = q
===============================================================================
