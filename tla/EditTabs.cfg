CONSTANTS
    Page = {p1, p2}
    Call = {c1, c2}
    Name = {n1}
    Note = {}
    Stamp = {t1}
    Retries = 0
    MaxLate = 1
    None = None
    OnePage = {p3}
    SomeNote = {x1}
    OneStamp = {t2}
    TripName = {m1, m2}
    TripDate = {}
    TripStamp = {s1, s2}
SPECIFICATION MCSpec
SYMMETRY Symmetry
INVARIANTS
    VisitedStamped
    OwnWritesShow
    RetriedWritesShow
    OwnSavesShow
