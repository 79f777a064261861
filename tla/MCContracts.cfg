SPECIFICATION Spec
CONSTANTS
    app = app
    good1 = good1
    good2 = good2
    bad = bad
    hub = hub
    Nil = Nil
    Appraisals = {app}
    Cites <- MCCites
    IssuedAt <- MCIssuedAt
    Terms <- MCTerms
    Facts <- MCFacts
    Contracts = {good1, good2, bad}
    Outgoing = {bad}
    PageSize = 2
    MaxFailures = 1
PROPERTIES
    FollowsBest
    PurchasesTrue
    CatchesUp
