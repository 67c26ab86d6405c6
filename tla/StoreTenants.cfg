CONSTANTS
    User = {u1, u2}
    Trip = {t1, t2}
    Leg = {l1}
    Waypoint = {w1}
    Slot = {s1, s2}
    File <- OneFile
    MaxItems = 2
    PoolSize = 2
    None = None
    Done = Done
SPECIFICATION Spec
SYMMETRY Symmetry
PROPERTIES
    OnlyOwnerWrites
