CONSTANTS
    a = a  b = b  s1 = s1  s2 = s2  s3 = s3
    a1 = a1  a2 = a2  b1 = b1  b2 = b2  ret = ret  rej = rej  out = out
    e1 = e1  e2 = e2  End = End
    Accounts = {a, b}
    Stages = {s1}
    First = {s1}
    Follow <- MCFollow
    Assignees <- MCAssignees
    All <- MCAll
    Distinct <- MCDistinct
    Commands = {a1, ret, rej, out}
    By <- MCBy
    Action <- MCAction
    Editors = {e1, e2}
    Ops = {"update", "submit"}
    Overlap = FALSE
    MaxRuns = 2
    MaxQueue = 1
    MaxTries = 1
SPECIFICATION SmallSpec
INVARIANT Pinned
PROPERTY ImplementsLifecycle
CHECK_DEADLOCK FALSE
SYMMETRY Alike
