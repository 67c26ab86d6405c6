CONSTANTS
    Call = {c1, c2}
    Thing = {i1, i2}
    Text = {x, y}
    Bad = Bad
    Field = {"name"}
    MaxCalls = 2
    MaxRigs = 2
    Retries = 1
    None = None
SPECIFICATION Spec
SYMMETRY Symmetry
INVARIANTS
    TypeOK
    SavesOwnRig
    NoGearWithoutRig
    RefusalsAreTrue
    RestShowsRows
