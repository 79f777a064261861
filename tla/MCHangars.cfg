SPECIFICATION Spec
CONSTANTS
    Item = ore
    home = home
    hub = hub
    far = far
    NoFloor = NoFloor
    NoPrice = NoPrice
    Types = {ore}
    Locations = {home, hub, far}
    Hangars = {home, hub}
    SellAt = {far}
    DirectAt = {home}
    OffDivision = {far}
    Trips <- FromHome
    Opening <- TwoLots
    Prices = {1, 4, NoPrice}
    MaxTrips = 3
    MaxHauls = 1
    MaxLots = 6
    MaxEvents = 6
INVARIANTS
    BooksSound
    ProfitExact
    FlagsSound
PROPERTIES
    BookedOnce
    DismissalStands
CHECK_DEADLOCK FALSE
