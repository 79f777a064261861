SPECIFICATION Spec
CONSTANTS
    red = red
    first = first
    second = second
    ann = ann
    bob = bob
    NoCorp = NoCorp
    NoEntry = NoEntry
    Never = Never
    NoAccess = NoAccess
    Job = Job
    Admins = {ann, bob}
    Amount <- MCAmount
    Period = 2
    MaxFailures = 1
    Corps = {red}
    Entries = {first, second}
    Reference <- OneCorp
    Prices = {2, 5}
    Terms = {1}
    MaxClock = 2
    MaxRequests = 1
INVARIANTS
    GrantsSound
PROPERTIES
    StacksExactly
    PassesEnd
CHECK_DEADLOCK FALSE
