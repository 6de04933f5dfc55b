\* One item, a leader and a follower, two writers; no symmetry (liveness).
CONSTANTS
    Items = {i1}
    Callers = {c1, c2}
    Writers = {w1, w2}
    Nobody = Nobody
    ChunkSize = 1
    MaxEdits = 2
    MaxFaults = 1
SPECIFICATION FairSpec
INVARIANTS
    TypeOK
    IInv
    IndexMatchesBodies
    IndexNotAheadOfBody
    AckedWriteVisible
    DeletedStaysGone
PROPERTIES
    BodyNeverRegresses
    EveryCallReturns
    Converges
    Coalesces
