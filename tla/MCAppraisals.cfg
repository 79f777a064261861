SPECIFICATION AppraisalSpec
CONSTANTS
    ore = ore
    mineral = mineral
    module = module
    minerals = minerals
    everything = everything
    jita = jita
    keep = keep
    depot = depot
    ann = ann
    max = max
    bob = bob
    None = None
    Types = {ore, mineral, module}
    Groups = {minerals, everything}
    GroupOf <- GroupOfType
    ParentOf <- ParentOfGroup
    Ores = {ore}
    Compressed = {}
    Portion <- PortionOf
    Materials <- Yields
    RefineYield <- Nine
    Window = 2
    Managers = {ann, max}
    Members = {bob}
    Hubs = {jita, keep}
    EsiHubs = {keep}
    Structures = {keep}
    Books <- Markets
    Places = {depot}
    Edits <- Bodies
    Divisions = {1}
    Jita = jita
    TypesNamed <- Bearers
    Requests <- Baskets
    FirstConfig <- Registered
    FirstRules <- AtFirst
    MaxItems = 4
    MaxEsiTypes = 2
    MaxEdits = 3
    MaxAppraisals = 1
SYMMETRY Alike
INVARIANTS
    RulesResolve
    BookFiguresTrue
    LotsMatchTheContract
    DeemedIsBuybackPrice
PROPERTIES
    EditsKeepApart
CHECK_DEADLOCK FALSE
