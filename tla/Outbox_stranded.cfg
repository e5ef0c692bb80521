CONSTANTS
    e1 = e1  e2 = e2  e3 = e3  e4 = e4  w1 = w1  w2 = w2
    NoToken = 0
    NoEvent = NoEvent
    Events <- MCEvents
    Workers <- MCWorkers
    Tokens <- MCTokens
    Kind <- MCKind
    MaxAttempts = 2
    BatchSize = 2
    MaxRetries = 0
SPECIFICATION MCFairSpec
PROPERTY ExpiredLeaseRecovered
CHECK_DEADLOCK FALSE
