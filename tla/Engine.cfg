SPECIFICATION FairSpec
CONSTANTS
    Vaults = {v1}
    Unlisted = {u1}
    Tokens = {t1, t2}
    Writers = {w1}
    Requests = {r1}
    Timer = Timer
    None = None
    MaxWrites = 2
    MaxFaults = 2
CHECK_DEADLOCK FALSE
INVARIANTS TypeOK InForceIsDurable ConfigIsStored
PROPERTIES ConfigWrites Recovers
