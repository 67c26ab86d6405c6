CONSTANTS
    Tab = {t1}
    Looked = {t1}
    Life = 10
    Buffer = 2
    Leeway = 2
    Poll = 4
    Delay = 0
    MaxTime = 24
SPECIFICATION Spec
INVARIANTS
    NoStaleBearer
