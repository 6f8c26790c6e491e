SPECIFICATION StoresSpec
CONSTANTS
    Stores = {"review"}
    Pinouts = {"x", "y"}
    Documents = {"d", "e"}
    Slugs = {"default", "boards", "boards-2"}
    MaxLibraries = 2
    MaxEdits = 3
    GuidanceCategories = 2
    ha = ha
    HouseNames = {ha}
    MaxCount = 3
    Values = {1}
    HouseFiles <- MCHouseFiles
    Sends = {s1, s2}
    Records = {"part", "project"}
    Indexers = {"job", "main"}
    MaxTicks = 4
    Designs <- MCDesigns
    MaxStamp = 2
    Replies <- MCReplies
    MaxReviewFindings = 2
INVARIANTS UnreadableIsNotClean
CHECK_DEADLOCK FALSE
