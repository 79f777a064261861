SPECIFICATION Spec
CONSTANTS
    ore = ore
    mineral = mineral
    home = home
    hub = hub
    NoFloor = NoFloor
    Types <- MCTypes
    Locations <- MCLocations
    Links <- MCLinks
    ManualEntries <- MCManualEntries
    Disposals <- MCDisposals
    Reprocesses <- MCReprocesses
    Markets <- MCMarkets
    MaxLots = 4
INVARIANTS
    LotsSound
    CapitalKept
PROPERTIES
    SoldInOrder
    EstimatesNeverLaundered
CHECK_DEADLOCK FALSE
