CONSTANTS
    User = {u1}
    Trip = {t1}
    Leg = {l1, l2}
    Waypoint = {w1, w2}
    Slot = {s1, s2}
    File <- MCFile
    MaxItems = 2
    PoolSize = 2
    None = None
    Done = Done
SPECIFICATION Spec
SYMMETRY Symmetry
INVARIANTS
    TypeOK
    LegsNumbered
    WptsDistinct
    NoOrphans
    ImportPinsTrip
    NoPartialImport
    AnswerMatchesTables
PROPERTIES
