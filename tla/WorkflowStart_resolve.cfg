CONSTANTS
    d1 = d1  r1 = r1  t1 = t1  t2 = t2  t3 = t3
    NoToken = NoToken
    Workers <- Two
    Reconcilers = {r1}
    Tokens <- ThreeTokens
    Submitted = {"in_review", "approved"}
    EventRecorded = TRUE
SPECIFICATION FairSpec
INVARIANTS OutcomeAgrees
PROPERTIES LeaseFences ImplementsFairStartOnce
CHECK_DEADLOCK FALSE
