CONSTANTS
    a = a  b = b  s1 = s1  s2 = s2  s3 = s3
    a1 = a1  a2 = a2  b1 = b1  b2 = b2  ret = ret  rej = rej  out = out
    e1 = e1  e2 = e2  End = End
    Accounts = {a, b}
    Stages = {s1, s2, s3}
    First = {s1, s2}
    Follow <- MCFollow
    Assignees <- MCAssignees
    All <- MCAll
    Distinct <- MCDistinct
    Commands = {a1, a2, b1}
    By <- MCBy
    Action <- MCAction
    Editors = {e1, e2}
    Ops = {"submit", "delete"}
    Overlap = TRUE
    MaxRuns = 1
    MaxQueue = 1
    MaxTries = 2
SPECIFICATION SmallFairSpec
INVARIANTS Agreement ApprovedByRoute DistinctApprovers AppliedOnce
PROPERTY ReviewEnds
CHECK_DEADLOCK FALSE
