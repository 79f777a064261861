SPECIFICATION StockTakeSpec
CONSTANTS
    Types = {1, 2, 3, 4, 5}
    Box = 5
    Portion <- PortionOf
    Materials <- Yields
    Yield <- Nine
    Divisions = {"CorpSAG1", "CorpSAG2"}
    Spots = {"CorpSAG1", "CorpSAG2", "Box", "CorpDeliveries"}
    Checks = {"job", "manual"}
    Start <- AtFirst
    Docks = {"Box"}
    Routes <- Ways
    OpeningLots <- Bought
    Value <- Values
    Edits <- Typed
    MaxDelivery = 1
    MaxRecorded = 2
    MaxChanges = 2
INVARIANTS
    CountsSound
    ChecksSettle
PROPERTIES
    HandedOn
    BookedTruly
    BooksCatchUp
CHECK_DEADLOCK FALSE
