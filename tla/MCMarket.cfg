SPECIFICATION Spec
CONSTANTS
    hek = hek
    keep = keep
    ore = ore
    gas = gas
    ann = ann
    Job = Job
    Nil = Nil
    Regions = {hek}
    Structures = {keep}
    Goods <- Traded
    Readers = {ann}
    Ttl = 2
    L1Ttl = 1
    Interval = 1
    Patience = 1
    MaxClock = 5
    MaxRequests = 2
    MaxFailures = 1
INVARIANTS
    PricesFresh
PROPERTIES
    AnswersTrue
    BookFetchedOnce
CHECK_DEADLOCK FALSE
