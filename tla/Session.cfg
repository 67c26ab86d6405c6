CONSTANTS
    Tab = {t1, t2}
    Looked = {}
    Life = 2
    Buffer = 1
    Leeway = 0
    Poll = 2
    Delay = 1
    MaxTime = 3
    Request = {r1, r2}
    User = {u}
    Email = {x, y}
    MaxKeys = 3
    None = None
SPECIFICATION MCSpec
SYMMETRY Symmetry
INVARIANTS
    RetryAccepted
    SignOutHasCause
    TimesFit
    OutageKeepsSessions
PROPERTIES
    SetBackOnce
    FreshKeysFit
