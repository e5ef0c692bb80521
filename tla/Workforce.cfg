CONSTANTS
    c1 = c1  c2 = c2  e1 = e1  e2 = e2  h1 = h1  h2 = h2  a1 = a1  d2 = d2  l1 = l1  l2 = l2  n1 = n1  w1 = w1  w2 = w2
    u1 = u1  u2 = u2  u3 = u3  s1 = s1  q1 = q1  q2 = q2  f1 = f1  f2 = f2  r1 = r1  r2 = r2
    short = short  long = long
    Employees = {e1, e2}
    Accounts = {a1}
    NoAccount = NoAccount  NoEmployee = NoEmployee
    Admins = {h1, h2}
    Tuples <- MCTuples
    Dispatchers = {d1, d2}  Consumers = {c1, c2}
    Modes = {TRUE, FALSE}
    MaxChanges = 3  MaxDeliver = 2  MaxProcessed = 1
    Logins = {l1, l2}
    Staffers = {n1, n2}
    Mails = {m1}
    Nobody = Nobody  NoUser = NoUser
    Jobs = {1, 2}
    Provisioners = {w1, w2}
    MaxTries = 2
    OrgUnits = {u1, u2, u3}
    NoUnit = NoUnit
    Departments = {u1}
    Positions = {s1}
    NoPosition = NoPosition
    People = {1, 2, 3}
    Place <- MCPlace
    NoManager = NoManager
    Editors = {q1, q2}
    NoForm = NoForm
    Forms = {f1, f2}
    Externals = {r1, r2}
    Slots = {short, long}
    Minutes <- MCMinutes
    Snapshots = {0, 2}
    Stable = TRUE
    MaxCycles = 2
    Confirmations = {1}
    Confirmers = {1, 2}
    MaxVersion = 2
    MaxEffects = 2
SPECIFICATION Spec
INVARIANTS
    RemoteFollowsLocal NothingForgotten
    MembershipFollowsAccount LinksAgree
    SucceededHolds DisagreementVisible
    TreeSound ManagedFromAbove
    LedgerAgrees CreditMatches ReconAgrees
    TargetOnce
PROPERTIES
    RowsAreQueued DisabledStays ReservesWithinBalance NotReplayed
CHECK_DEADLOCK FALSE
