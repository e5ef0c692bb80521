CONSTANTS
    m1 = m1  t1 = t1  c1 = c1  r1 = r1  r2 = r2
    Models = {m1, m2}  Configs = {c1, c2}
    Tenants = {t1}  Owner <- OneOwner
    Handlers = {h1}  Passes = {p1}
    SweepEvery = 2  NoRoute = NoRoute
    MaxRequests = 3  MaxFaults = 1
    Contents = {w1}
    Requests = {r1, r2}
    MaxRevision = 3  MaxModelChanges = 2
SPECIFICATION FairSpec
INVARIANTS TypeOK PublishedNotAhead
PROPERTIES ModelsConverge RevisionsImmutable NoDraftOverwritten
CHECK_DEADLOCK FALSE
