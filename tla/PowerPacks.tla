------------------------------ MODULE PowerPacks ------------------------------
(***************************************************************************)
(* The considerations that the power packs raise about a project            *)
(* (consideration_packs.py, power_path.py, considerations.py, and the       *)
(* route project.considerations): each pack is a function of the netlist,   *)
(* the symbols, the tracks, the footprints, the linked parts and what the   *)
(* user said.  A project is chosen, then reviewed.                          *)
(*                                                                         *)
(* A pin is a record with the part, its reference's prefix, its name, its   *)
(* electrical type and its net; a consideration keeps what names it and its *)
(* standing, not its prose.  A voltage or a current may be stated as 0, which *)
(* is not the same as not at all (None).                                    *)
(***************************************************************************)
EXTENDS Integers, Sequences, SequencesExt

CONSTANTS
    PinList,     \* pins that a netlist may have, in the netlist's order
    SymbolSets,  \* the sets of symbols that a schematic may have
    TrackSets,   \* the sets of tracks that a board may have
    Headers,     \* the sets of references whose footprint goes on both ways
    QuoteLists,  \* the datasheet quotes that a linked part may have
    Supplies,    \* what the user may say the supply is
    Budgets,     \* milliamperes that the user may say the board draws, or NotStated
    Stated,      \* the voltage that is written in a name, or NotStated
    GroundNames, \* the names of ground
    Ampacity     \* Ampacity[layer][width]: milliamperes by IPC-2221

Unconnected == "unconnected"
NotStated == -1 \* None; no voltage or current is negative
UsbGuaranteed == 500
Layers == {"outer", "inner"}

PlausibleVolts == 1..60 \* _PLAUSIBLE_MAX_VOLTS

ASSUME PackAssumption ==
    /\ PinList \in Seq(ToSet(PinList))
    /\ \A quotes \in QuoteLists:
          /\ quotes \in Seq(ToSet(quotes))
          /\ \A i \in DOMAIN quotes: quotes[i].volts \subseteq PlausibleVolts
    /\ \A symbols \in SymbolSets: \A s, t \in symbols:
          s.ref = t.ref => s.volts = t.volts \* the units of one part share its value
    /\ \A n \in DOMAIN Stated: Stated[n] \in Nat \cup {NotStated}
    /\ \A w \in DOMAIN Ampacity["outer"]: Ampacity["inner"][w] <= Ampacity["outer"][w]

VARIABLES
    packStep,    \* "choose", "run" or "done"
    project,     \* what the packs are given
    attention,   \* needs_attention of the answer
    clearedItems \* cleared of the answer

packVars == <<packStep, project, attention, clearedItems>>

-------------------------------------------------------------------------------
(* Names and pins (power_path.py). *)

IsGround(name) == name \in GroundNames
NominalVolts(name) == IF IsGround(name) THEN NotStated ELSE Stated[name]
NetIsReal(net) == net # Unconnected

\* power_pins_by_reference: a power pin that is not ground, by its name, as
\* KiCad types ground power_in too.  Mutant: the type alone.
PowerPinsByType(ref, type) == {p \in project.pins: p.ref = ref /\ p.type = type}
PowerPins(ref, type) ==
    {p \in project.pins: p.ref = ref /\ p.type = type /\ ~IsGround(p.name)}
SupplyPins(ref) == PowerPins(ref, "power_in")
OutputPins(ref) == PowerPins(ref, "power_out")
IsModule(ref) == SupplyPins(ref) # {} /\ OutputPins(ref) # {}

\* supply_volts: the first rail with a voltage in its name, by its place in the
\* netlist, else the user's answer.  Mutant: only for a part that makes a rail of its own.
RailsOf(ref) ==
    {i \in DOMAIN PinList: /\ PinList[i] \in SupplyPins(ref)
                           /\ NetIsReal(PinList[i].net)
                           /\ NominalVolts(PinList[i].net) # NotStated}
FirstRail(ref) == PinList[Min(RailsOf(ref))].net
SupplyVoltsOfModules(ref) ==
    IF IsModule(ref) /\ RailsOf(ref) # {} THEN NominalVolts(FirstRail(ref))
                                          ELSE project.supply.volts
SupplyVolts(ref) ==
    IF RailsOf(ref) # {} THEN NominalVolts(FirstRail(ref)) ELSE project.supply.volts

\* supply_maximum_from_quotes: the first row that is labelled as the supply's
\* and not as another pin's, at its largest plausible figure.  Mutant: any supply
\* label.
AnySupplyRows(quotes) == {i \in DOMAIN quotes: quotes[i].supply /\ quotes[i].volts # {}}
MaximumRows(quotes) == {i \in AnySupplyRows(quotes): ~quotes[i].otherPin}
SupplyMaximum(quotes) ==
    IF MaximumRows(quotes) = {} THEN NotStated
                                ELSE Max(quotes[Min(MaximumRows(quotes))].volts)

-------------------------------------------------------------------------------
(* The packs. *)

Item(id, class, ref, on, state) ==
    [id |-> id, class |-> class, ref |-> ref, on |-> on, state |-> state]
Computed(id, ref, on) == Item(id, "computed", ref, on, "raised")
Cited(id, ref, on) == Item(id, "cited", ref, on, "raised")

Nets == {p.net: p \in project.pins}
OnNet(net, prefix) == {p \in project.pins: p.net = net /\ p.prefix = prefix}
Anodes(net) == {p \in OnNet(net, "D"): p.name = "A"}

\* Keyed on the anode, as a cathode is on ground with no resistor.
LedSeriesResistor ==
    {IF OnNet(net, "R") # {}
       THEN Item("led_series_resistor", "computed", net, "net", "satisfied")
       ELSE Computed("led_without_series_resistor", net, "net"):
     net \in {n \in Nets: Anodes(n) # {}}}

ComponentWithoutValue ==
    {Computed("component_without_value", s.ref, "symbol"):
     s \in {t \in project.symbols: t.lib = "passive" /\ t.placeholder}}

\* The voltages that a module makes, and a rail at or below them on its supply
\* pin.
Made(ref) == {NominalVolts(o.name): o \in OutputPins(ref)} \ {NotStated}
RegulatedRailIntoModuleInput ==
    {Computed("regulated_rail_into_module_input", p.net, p):
     p \in {q \in project.pins: /\ q \in SupplyPins(q.ref) /\ Made(q.ref) # {}
                                /\ NetIsReal(q.net)
                                /\ NominalVolts(q.net) \in 0..Max(Made(q.ref))}}

\* regulators, by the library a symbol is of: switching ones heat otherwise.
Regulators == {s \in project.symbols: s.lib = "linear"}

\* One missing number is asked for, else the watts.
RegulatorDissipation ==
    LET gap(s) == NotStated \in {s.volts, SupplyVolts(s.ref), project.budget}
        hot(s) == SupplyVolts(s.ref) > s.volts
    IN {Computed("regulator_dissipation_unanswerable", s.ref, "symbol"):
          s \in {r \in Regulators: gap(r)}}
       \cup
       {Computed("regulator_dissipation", s.ref,
                 (SupplyVolts(s.ref) - s.volts) * project.budget):
          s \in {r \in Regulators: ~gap(r) /\ hot(r)}}

\* The narrowest track of a supply or ground net, when the user said what the
\* board draws.  Mutant: it asks for the current as well.
Narrowest(net) == CHOOSE t \in project.tracks:
    t.net = net /\ \A u \in project.tracks: u.net = net => t.width <= u.width
CurrentNets == {net \in {t.net: t \in project.tracks}: NominalVolts(net) # NotStated \/ IsGround(net)}
TooNarrow(net) == Ampacity[Narrowest(net).layer][Narrowest(net).width] < project.budget
TraceTooNarrowOrUnknown ==
    {Cited("trace_too_narrow_for_current", net, "net"):
     net \in {n \in CurrentNets: project.budget = NotStated \/ TooNarrow(n)}}
TraceTooNarrow ==
    {Cited("trace_too_narrow_for_current", net, "net"):
     net \in {n \in CurrentNets: project.budget # NotStated /\ TooNarrow(n)}}

\* power_input_connectors, of a footprint that goes on both ways.  Mutant: any
\* such footprint.
ReversibleByHeader ==
    {Computed("reversible_power_input", ref, "symbol"): ref \in project.headers}
FeedsBoard(ref) ==
    /\ \E p \in project.pins:
          /\ p.ref = ref /\ NetIsReal(p.net) /\ ~IsGround(p.net)
          /\ \E q \in project.pins:
                q.net = p.net /\ q.type = "power_in" /\ ~IsGround(q.name)
    /\ \E p \in project.pins: p.ref = ref /\ IsGround(p.net)
ReversiblePowerInput ==
    {Computed("reversible_power_input", ref, "symbol"):
     ref \in {p.ref: p \in {q \in project.pins: /\ q.prefix = "J"
                                                /\ q.ref \in project.headers
                                                /\ FeedsBoard(q.ref)}}}

CurrentBudgetAgainstSource ==
    IF project.supply.source # "usb" \/ project.budget = NotStated THEN {}
    ELSE {Item("current_budget_against_source", "cited", "input_supply", "intent",
               IF project.budget <= UsbGuaranteed THEN "satisfied" ELSE "raised")}

\* A rail above the maximum of the part that is drawn as this symbol.
SupplyExceedsMaximum ==
    {Cited("supply_exceeds_absolute_maximum", p.net, p):
     p \in {q \in project.pins:
              /\ \E s \in project.symbols: s.ref = q.ref /\ s.linked
              /\ q \in SupplyPins(q.ref) /\ NetIsReal(q.net)
              /\ SupplyMaximum(project.quotes) # NotStated
              /\ NominalVolts(q.net) > SupplyMaximum(project.quotes)}}

\* run: every pack of the registry.
RunPacks ==
    LedSeriesResistor \cup ComponentWithoutValue \cup RegulatedRailIntoModuleInput
    \cup RegulatorDissipation \cup TraceTooNarrow \cup ReversiblePowerInput
    \cup CurrentBudgetAgainstSource \cup SupplyExceedsMaximum

\* raisable, unasked, and cleared_items.  Mutant: a cited claim waits to be asked.
RaisableIfComputed(items) == {c \in items: c.state # "satisfied" /\ c.class = "computed"}
Raisable(items) ==
    {c \in items: c.state # "satisfied" /\ c.class \in {"computed", "cited"}}
Cleared(items) == {c \in items: c.state = "satisfied"}

-------------------------------------------------------------------------------

NoProject ==
    [pins |-> {}, symbols |-> {}, tracks |-> {}, headers |-> {}, quotes |-> <<>>,
     supply |-> [source |-> "unknown", volts |-> NotStated], budget |-> NotStated]

PackInit ==
    packStep = "choose" /\ project = NoProject /\ attention = {} /\ clearedItems = {}

ChooseProject ==
    /\ packStep = "choose" /\ packStep' = "run"
    /\ \E p \in SUBSET ToSet(PinList), s \in SymbolSets, t \in TrackSets,
          h \in Headers, q \in QuoteLists, u \in Supplies, b \in Budgets:
          project' = [pins |-> p, symbols |-> s, tracks |-> t, headers |-> h,
                      quotes |-> q, supply |-> u, budget |-> b]
    /\ UNCHANGED <<attention, clearedItems>>

\* project.considerations.
ProjectConsiderations ==
    /\ packStep = "run" /\ packStep' = "done"
    /\ attention' = Raisable(RunPacks) /\ clearedItems' = Cleared(RunPacks)
    /\ UNCHANGED project

PackNext == ChooseProject \/ ProjectConsiderations

PackSpec == PackInit /\ [][PackNext]_packVars

-------------------------------------------------------------------------------
(* What is checked. *)

Claims(id) == {c \in attention \cup clearedItems: c.id = id}

\* The type: a consideration names something of this project (considerations.make).
TriggersAreReal ==
    \A c \in attention \cup clearedItems:
        \/ c.ref \in Nets \cup {t.net: t \in project.tracks}
        \/ c.ref \in {s.ref: s \in project.symbols} \cup {p.ref: p \in project.pins}
        \/ c.ref = "input_supply" /\ project.supply.source = "usb"

\* Ground is not a supply, whatever KiCad types it: no claim about a supply pin
\* is about a ground pin (_GROUND_NAMES).
GroundIsNoSupply ==
    \A c \in Claims("regulated_rail_into_module_input")
             \cup Claims("supply_exceeds_absolute_maximum"):
        ~IsGround(c.on.name) /\ ~IsGround(c.on.net)

\* What a pack found is shown or cleared: only judgements wait to be asked, and
\* no pack raises one (may_raise_unprompted, raisable).
NothingFoundIsHidden ==
    packStep = "done" =>
        /\ attention \cup clearedItems = RunPacks
        /\ attention \cap clearedItems = {}

\* One question about the current is enough: while a regulator's heat cannot be
\* said for want of it, no other pack claims anything that needs it
\* ("asking twice in one review is nagging", trace_too_narrow_for_current).
CurrentAskedOnce ==
    project.budget = NotStated =>
        /\ Claims("trace_too_narrow_for_current") = {}
        /\ Claims("current_budget_against_source") = {}
        /\ Claims("regulator_dissipation") = {}

\* The heat of a linear regulator with a stated output, on a rail with a stated
\* voltage, is worked out and not asked about, 0 being stated (supply_volts).
AnswerableIsAnswered ==
    packStep = "done" =>
        \A s \in project.symbols:
            /\ s.lib = "linear" /\ NotStated \notin {s.volts, project.budget}
            /\ \E p \in project.pins:
                  p.ref = s.ref /\ p.type = "power_in" /\ ~IsGround(p.name)
                  /\ NetIsReal(p.net) /\ NominalVolts(p.net) # NotStated
            => \A c \in Claims("regulator_dissipation_unanswerable"): c.ref # s.ref

\* A rating of another pin does not hide that a rail is above the supply's
\* (supply_maximum_from_quotes): the first row of the supply alone decides.
OverMaximumIsSaid ==
    packStep = "done" =>
        \A s \in project.symbols, p \in project.pins, i \in 1..Len(project.quotes):
            LET row == project.quotes[i]
            IN /\ s.linked /\ p.ref = s.ref /\ p.type = "power_in"
               /\ ~IsGround(p.name) /\ NetIsReal(p.net)
               /\ row.supply /\ ~row.otherPin /\ row.volts # {}
               /\ \A j \in 1..(i - 1): project.quotes[j].otherPin
               /\ \A v \in row.volts: NominalVolts(p.net) > v
               => \E c \in Claims("supply_exceeds_absolute_maximum"): c.ref = p.net

\* The packs claim what is so and leave out nothing that they can tell.
ConsiderationsTruthful ==
    /\ TriggersAreReal
    /\ GroundIsNoSupply
    /\ NothingFoundIsHidden
    /\ CurrentAskedOnce
    /\ AnswerableIsAnswered
    /\ OverMaximumIsSaid
===============================================================================
