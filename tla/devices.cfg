SPECIFICATION DevicesSpec
CONSTANTS
    Devices = {"dru", "enclosure", "link", "packs", "pipeline", "setup"}
    Candidates <- MCCandidates
    Checks = {k1}
    Measures <- MCMeasures
    Limits <- MCLimits
    KnownSets <- MCKnownSets
    IgnoredSets <- MCIgnoredSets
    Builds = {b1, b2}
    MayExport = TRUE
    LinkCalls = {q1, q2}
    MaxSessions = 2
    PinList <- MCPins
    SymbolSets <- MCSymbolSets
    TrackSets <- MCTrackSets
    Headers <- MCHeaders
    QuoteLists <- MCQuoteLists
    Supplies <- MCSupplies
    Budgets <- MCBudgets
    Stated <- MCStated
    GroundNames = {"GND"}
    Ampacity <- MCAmpacity
    PackageReference <- MCReference
    Schemas <- MCSchemas
    FindingLists <- MCFindingLists
    MaxExplained = 2
    SuggestionLists <- MCSuggestions
    Presets <- MCPresets
    Additions <- MCAdditions
    Edits <- MCEdits
    DefaultProvider = "hosted"
    KnownSecretKeys = {"hosted_key"}
    OldKeys <- MCOldKeys
    OldInstalls <- MCOldInstalls
    PipeRoom = 2
    MaxChanges = 2
INVARIANTS
    DevicesTypeOK ReportFromItsOwnRules OutcomeTruthful FilesAsNeeded
    LoneCallIsAnswered InjectionTruthful ConsiderationsTruthful AcceptedCanBePlaced
    AnswersTruthful ClearedKeyNotUsed DeltasExact ReadinessTruthful
PROPERTIES UserFileKept
CHECK_DEADLOCK FALSE
