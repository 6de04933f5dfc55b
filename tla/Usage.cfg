SPECIFICATION Spec
CONSTANTS
    Hour = 1
    Day = 3
    t1 = t1
    t2 = t2
    Tokens = {t1, t2}
    Configs <- MCConfigs
    Percents = {0, 90}
    None = None
    MaxNow = 5
    MaxUnits = 3
    MaxRewrites = 2
    MaxRestarts = 1
INVARIANTS TypeOK CountsAreExact ProbeOnlyTightens ProbeIsOfConfig
