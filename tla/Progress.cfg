CONSTANTS
    t1 = t1  d2 = d2  l1 = l1  l2 = l2  n1 = n1  w2 = w2  q1 = q1
    Tuples = {t1}
    Dispatchers = {d1, d2}  Consumers = {c1}
    Modes = {TRUE, FALSE}
    MaxChanges = 2  MaxDeliver = 2  MaxProcessed = 1
    Logins = {l1, l2}
    Staffers = {n1, n2}
    Mails = {m1}
    Nobody = Nobody  NoUser = NoUser
    Jobs = {1}
    Provisioners = {w1, w2}
    MaxTries = 2
    Requests = {q1, q2}
    Limits = {1, 3}
    MaxSegment = 2
SPECIFICATION FairSpec
INVARIANT TranscriptsSound
PROPERTIES DeliveriesEnd QuestionsEnd LiveRunsSpared
CHECK_DEADLOCK FALSE
