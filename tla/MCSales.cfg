SPECIFICATION SalesSpec
CONSTANTS
    big = big
    stray = stray
    main = main
    alt = alt
    Nil = Nil
    Orders = {big, stray}
    Divisions = {main, alt}
    Size <- MCSize
    Division <- MCDivision
    Stock <- MCStock
    Extra = 1
    Tax = 1
    Page = 2
    MaxFills = 2
    MaxSwitches = 1
    MaxFailures = 1
INVARIANTS
    FillsBooked
PROPERTIES
    ChargesOnce
    WalletCatchesUp
    IdleSettles
CHECK_DEADLOCK FALSE
