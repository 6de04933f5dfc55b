\* ReadYourWrites fails: a cycle that listed before the create.
CONSTANTS
    Items = {i1}
    Callers = {c1}
    Writers = {w1}
    Nobody = Nobody
    ChunkSize = 1
    MaxEdits = 3
    MaxFaults = 0
SPECIFICATION Spec
INVARIANT ReadYourWrites
