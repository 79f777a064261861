SPECIFICATION Spec
CONSTANTS
    abc = abc
    xyz = xyz
    wallet = wallet
    ann = ann
    bob = bob
    Job = Job
    Nil = Nil
    Corps = {abc, xyz}
    Wallets = {wallet}
    Managed = {abc, wallet}
    Users = {ann, bob}
    MaxGrants = 3
    MaxRotations = 1
    MaxFailures = 1
INVARIANTS
    TokensSound
    GivenUpForGood
PROPERTIES
    TokensRotate
CHECK_DEADLOCK FALSE
