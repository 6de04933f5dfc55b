SPECIFICATION MCSpec
CONSTANTS
    Items = {t1, o1}
    Titled = {t1}
    Readers = {r1}
    Upserters = {w1}
    Background = Background
    Nobody = Nobody
    Configs <- MCConfigs
    MaxEvents = 3
INVARIANTS TypeOK MissIsJustified ColdIsNotAbsent SuspectIsTold
PROPERTIES WindowHolds
