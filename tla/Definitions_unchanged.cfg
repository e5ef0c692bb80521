CONSTANTS
    Models = {m1}  Configs = {c1}
    Contents = {w1, w2}
    Requests = {r1, r2}
    MaxRevision = 2  MaxModelChanges = 3
SPECIFICATION DefSpec
INVARIANTS SavesSucceed
CHECK_DEADLOCK FALSE
