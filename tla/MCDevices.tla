------------------------------- MODULE MCDevices ------------------------------
(***************************************************************************)
(* The parts that drive other programs and providers and do not touch one   *)
(* another, checked in one run: a behaviour is one of one part, chosen at    *)
(* the start.                                                               *)
(***************************************************************************)
EXTENDS DruSidecar, EnclosureJobs, KicadLink, PowerPacks, ComponentPipeline, ModelSetup

CONSTANT Devices \* which of "dru", "enclosure", "link", "packs", "pipeline", "setup"

VARIABLE device

devicesVars ==
    <<device, druVars, enclosureVars, linkVars, packVars, pipelineVars, setupVars>>

\* What an app that was set up before does is of the set-up only.
DevicesInit ==
    /\ device \in Devices
    /\ DruInit /\ EnclosureInit /\ LinkInit /\ PackInit /\ PipelineInit /\ SetupInit
    /\ device # "setup" => ~disk.onboarded

\* Everything but one part stays as it is.
DruOnly == DruNext /\ UNCHANGED <<enclosureVars, linkVars, packVars, pipelineVars, setupVars>>
EnclosureOnly ==
    EnclosureNext /\ UNCHANGED <<druVars, linkVars, packVars, pipelineVars, setupVars>>
LinkOnly == LinkNext /\ UNCHANGED <<druVars, enclosureVars, packVars, pipelineVars, setupVars>>
PacksOnly == PackNext /\ UNCHANGED <<druVars, enclosureVars, linkVars, pipelineVars, setupVars>>
PipelineOnly ==
    PipelineNext /\ UNCHANGED <<druVars, enclosureVars, linkVars, packVars, setupVars>>
SetupOnly ==
    SetupNext /\ UNCHANGED <<druVars, enclosureVars, linkVars, packVars, pipelineVars>>

DevicesNext ==
    /\ UNCHANGED device
    /\ \/ device = "dru" /\ DruOnly
       \/ device = "enclosure" /\ EnclosureOnly
       \/ device = "link" /\ LinkOnly
       \/ device = "packs" /\ PacksOnly
       \/ device = "pipeline" /\ PipelineOnly
       \/ device = "setup" /\ SetupOnly

DevicesSpec == DevicesInit /\ [][DevicesNext]_devicesVars

-------------------------------------------------------------------------------
\* A board with tracks and text: no text, or text and tracks that are within a
\* limit or not; a KiCad that lacks one class; a project that ignores the text.
MCCandidates == <<"track", "text">>
MCMeasures == {1, 3, Missing}
MCLimits == {2, 4}
MCKnownSets == {{"track", "text"}, {"text"}, {"track"}}
MCIgnoredSets == {{}, {"text"}}

-------------------------------------------------------------------------------
\* A light on a resistor, a regulator on a rail of 9 V or of 0 V, a module with a
\* supply pin and one that is not connected, and a header that goes on both ways,
\* each with any of its pins.  A current and a voltage that are not stated, that
\* are 0, and that are not.
Pin(r, x, n, t, w) == [ref |-> r, prefix |-> x, name |-> n, type |-> t, net |-> w]
MCPins ==
    <<Pin("D1", "D", "A", "passive", "LED"), Pin("D1", "D", "K", "passive", "GND"),
      Pin("R1", "R", "1", "passive", "LED"),
      Pin("U1", "U", "VIN", "power_in", "+9V"), Pin("U1", "U", "VIN", "power_in", "0V"),
      Pin("A1", "A", "GND", "power_in", "+5V"), Pin("A1", "A", "VIN", "power_in", "+5V"),
      Pin("A1", "A", "+5V", "power_out", Unconnected),
      Pin("J1", "J", "1", "passive", "+5V"), Pin("J1", "J", "2", "passive", "GND")>>
Symbol(r, l, v, p, k) == [ref |-> r, lib |-> l, volts |-> v, placeholder |-> p, linked |-> k]
MCSymbolSets ==
    {{Symbol("R1", "passive", NotStated, TRUE, FALSE), Symbol("U1", "linear", 3, FALSE, TRUE)},
     {Symbol("R1", "passive", NotStated, FALSE, FALSE),
      Symbol("U1", "linear", NotStated, FALSE, FALSE),
      Symbol("A1", "switching", NotStated, FALSE, TRUE)}}
Track(n, w, l) == [net |-> n, width |-> w, layer |-> l]
MCTrackSets ==
    {{Track("+5V", 15, "outer"), Track("GND", 25, "inner"), Track("GND", 15, "outer")}}
MCHeaders == {{"J1"}}

\* A datasheet that says nothing, and one with another pin's maximum and then
\* several voltages in the supply's row.
Quote(s, o, v) == [supply |-> s, otherPin |-> o, volts |-> v]
MCQuoteLists ==
    {<<>>, <<Quote(TRUE, TRUE, {13}), Quote(TRUE, FALSE, {2, 6})>>}
MCSupplies == {[source |-> "unknown", volts |-> NotStated], [source |-> "usb", volts |-> 5]}
MCBudgets == {NotStated, 0, 900}
MCStated == [n \in {"A", "K", "1", "2", "VIN", "GND", "LED", Unconnected}
                |-> NotStated] @@ "+5V" :> 5 @@ "+9V" :> 9 @@ "0V" :> 0
MCAmpacity == "outer" :> (15 :> 604 @@ 25 :> 875) @@ "inner" :> (15 :> 302 @@ 25 :> 437)

-------------------------------------------------------------------------------
\* Packages of each kind, lengths in micrometres, and schemas of them that fit
\* and that do not, of bodies without a length or a width too.
Known(c, e, l, h, y) == [count |-> c, exposed |-> e, low |-> l, high |-> h, layout |-> y]
MCReference ==
    "SOIC-8" :> Known(8, FALSE, 1170, 1370, "dual")
    @@ "DIP-8" :> Known(8, FALSE, 2440, 2640, "through")
    @@ "QFN-56" :> Known(56, TRUE, 400, 600, "none")
    @@ "0603" :> Known(2, FALSE, 0, 0, "two")
Schema(k, p, t, l, w, yl, yw) ==
    [package |-> k, pins |-> p, pitch |-> t, length |-> l, width |-> w,
     yardLength |-> yl, yardWidth |-> yw]
Numbered(n) == [i \in 1..n |-> i]
MCSchemas ==
    {Schema("SOIC-8", Numbered(n), t, 4900, 3900, yl, 7000) :
        n \in {7, 8, 9}, t \in {1270, 650}, yl \in {4900, 5400}}
    \cup {Schema("DIP-8", p, 2540, 9300, 6350, 9500, 9000) :
            p \in {<<1, 2, 3, 4, 5, 6, 7, 0>>, Numbered(8)}}
    \cup {Schema("SOIC-8", Numbered(8), 1270, 4900, 0, 5400, 7000)}
    \cup {Schema("0603", Numbered(2), 0, length, 800, 1700, 900) : length \in {0, 1600}}
    \cup {Schema("module", Numbered(4), 0, 1000, 1000, 2000, 2000),
          Schema("QFN-56", Numbered(57), 500, 7000, 7000, 7500, 7500)}
MCFindingLists == UNION {[1..n -> {"error", "warning"}] : n \in 0..3}
MCSuggestions ==
    {[ready |-> r, question |-> q, entries |-> e] :
        r \in BOOLEAN, q \in BOOLEAN,
        e \in {<<>>, <<"kind">>, <<"part number", "kind", "incomplete">>}}

-------------------------------------------------------------------------------
\* A hosted provider that needs a key, a local one that needs none, which an older
\* release had been set up with, and one of the user's own.
MCPresets ==
    [hosted |-> [kind |-> "anthropic", base_url |-> Null, api_key_ref |-> "hosted_key",
                 reasoning |-> "m1", fast |-> "m1", tool_use |-> "yes",
                 part_facts |-> "yes"],
     local |-> [kind |-> "openai_compat", base_url |-> "localhost", api_key_ref |-> Null,
                reasoning |-> "m2", fast |-> "m2", tool_use |-> "yes",
                part_facts |-> "no"]]
MCAdditions ==
    [own |-> [kind |-> "openai_compat", base_url |-> Null, api_key_ref |-> "own_key",
              reasoning |-> "m3", tool_use |-> "no", part_facts |-> "yes"]]
MCOldKeys == [gone |-> "gone_key"]
MCOldInstalls == {<<"local", "m0">>}
MCEdits == {<<"part_facts", "no">>}

-------------------------------------------------------------------------------
\* The types of all parts.
DevicesTypeOK == DruTypeOK /\ EnclosureTypeOK /\ LinkTypeOK /\ SetupTypeOK
===============================================================================
