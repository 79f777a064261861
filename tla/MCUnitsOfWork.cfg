SPECIFICATION Spec
CONSTANTS
    ingest = ingest
    confirm = confirm
    again = again
    contracts = contracts
    ore = ore
    gas = gas
    suggestion = suggestion
    NoKey = NoKey
    Units = {ingest, confirm, again, contracts}
    Slots = {ore, gas}
    Stock <- MCStock
    Asks <- MCAsks
    MaxFailures = 1
INVARIANTS
    StockKept
    AllOrNothing
PROPERTIES
    UnitsEnd
CHECK_DEADLOCK FALSE
