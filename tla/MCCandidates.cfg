SPECIFICATION Spec
CONSTANTS
    Item = ore
    home = home
    hub = hub
    far = far
    NoFloor = NoFloor
    NoPrice = NoPrice
    Types = {ore}
    Locations = {home, hub, far}
    Hangars = {home, hub, far}
    SellAt = {far}
    DirectAt = {far}
    OffDivision = {}
    Trips <- ToFar
    Opening <- Apart
    Prices = {1}
    MaxTrips = 3
    MaxHauls = 1
    MaxLots = 6
    MaxEvents = 6
INVARIANTS
    HaulsAreQuiet
PROPERTIES
    SiblingsArbitrated
CHECK_DEADLOCK FALSE
