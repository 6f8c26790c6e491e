------------------------------- MODULE MCStores -------------------------------
(***************************************************************************)
(* The stores that do not touch one another, checked in one run: a behaviour *)
(* is one of one store, chosen at the start.                                 *)
(***************************************************************************)
EXTENDS PartLibrary, HouseLibrary, ChatThread, ContextIndex, ReviewArea

CONSTANTS
    Stores, \* which of "part", "house", "chat", "index", "review"
    ha      \* a house's name

VARIABLE store

storesVars == <<store, partVars, houseVars, chatVars, indexVars, reviewVars>>

StoresInit ==
    /\ store \in Stores
    /\ PartInit /\ HouseInit /\ ChatInit /\ IndexInit /\ ReviewInit

PartOnly == PartNext /\ UNCHANGED <<houseVars, chatVars, indexVars, reviewVars>>
HouseOnly == HouseNext /\ UNCHANGED <<partVars, chatVars, indexVars, reviewVars>>
ChatOnly == ChatNext /\ UNCHANGED <<partVars, houseVars, indexVars, reviewVars>>
IndexOnly == IndexNext /\ UNCHANGED <<partVars, houseVars, chatVars, reviewVars>>
ReviewOnly == ReviewNext /\ UNCHANGED <<partVars, houseVars, chatVars, indexVars>>

StoresNext ==
    /\ UNCHANGED store
    /\ \/ store = "part" /\ PartOnly
       \/ store = "house" /\ HouseOnly
       \/ store = "chat" /\ ChatOnly
       \/ store = "index" /\ IndexOnly
       \/ store = "review" /\ ReviewOnly

StoresSpec == StoresInit /\ [][StoresNext]_storesVars

-------------------------------------------------------------------------------
\* Three files of houses: two ids, one of them twice, a bad number, a
\* template, one without provenance, one without a name.
InFile(id, value, sourced, template) ==
    [id |-> id, value |-> value, sourced |-> sourced, from |-> NoId, template |-> template]
MCHouseFiles ==
    {<<InFile(<<ha, 1>>, 1, TRUE, FALSE), InFile(<<ha, 2>>, 1, TRUE, FALSE)>>,
     <<InFile(<<ha, 1>>, 1, FALSE, FALSE), InFile(NoId, 1, TRUE, FALSE)>>,
     <<InFile(<<ha, 2>>, 0, TRUE, TRUE), InFile(<<ha, 1>>, -1, TRUE, FALSE),
       InFile(<<ha, 1>>, 0, FALSE, FALSE)>>}

-------------------------------------------------------------------------------
\* A board without a finding, one with KiCad's only, one with KiCad's and two
\* of our own.
MCDesigns == {[kicad |-> 0, ours |-> <<>>], [kicad |-> 1, ours |-> <<"f">>],
              [kicad |-> 1, ours |-> <<"g", "f">>]}

\* What a model may say of them: nothing cited, KiCad's or ours cited, in words
\* or not, a citation that leads nowhere, and an entry that is no finding.
FromModel(wellFormed, cites, resolves, tells) ==
    [wellFormed |-> wellFormed, cites |-> cites, resolves |-> resolves, tells |-> tells]
SaysMore == FromModel(TRUE, {}, TRUE, {})
CitesKicad == FromModel(TRUE, {<<"kicad", 1>>}, TRUE, {"f"})
CitesNothing == FromModel(TRUE, {<<"copperplane", 1>>}, FALSE, {})
NoFinding == FromModel(FALSE, {<<"copperplane", 1>>}, TRUE, {})
CitesBoth == FromModel(TRUE, {<<"kicad", 1>>, <<"copperplane", 2>>}, TRUE, {"f"})
Said(form, parses, entries) == [form |-> form, parses |-> parses, entries |-> entries]
MCReplies ==
    {Said(form, FALSE, <<>>): form \in {"prose", "bracketed", "block"}}
    \cup {Said(form, TRUE, entries): form \in {"block", "bracketed"},
          entries \in {<<>>, <<CitesKicad>>}}
    \cup {Said("block", TRUE, entries):
          entries \in {<<SaysMore, CitesBoth>>, <<CitesNothing>>, <<NoFinding>>, <<CitesBoth>>,
                       <<CitesKicad, CitesNothing>>, <<NoFinding, CitesKicad>>}}


-------------------------------------------------------------------------------
\* The types of all stores: their records have the fields that the code checks
\* for before it writes them.
StoresTypeOK == PartTypeOK /\ HouseTypeOK /\ ChatTypeOK /\ IndexTypeOK /\ ReviewTypeOK
===============================================================================
