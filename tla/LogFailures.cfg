CONSTANTS
    Call = {c1, c2}
    Thing = {d1, d2}
    OneDay = {d3}
    Text = {x, y}
    Empty = Empty
    Required = {"fill"}
    Optional = {}
    Note = "note"
    ApiRequired = {}
    ApiOptional = {}
    MaxCalls = 2
    MaxLegs = 2
    MaxRows = 2
    MaxTime = 1
    MaxTrips = 3
    MaxGo = 2
    MaxOpens = 2
    MaxRuns = 3
    MaxTurns = 3
    MaxTokens = 3
    ApiRows = 1
    ApiTime = 2
    ApiCalls = 0
    Retries = 1
    None = None
SPECIFICATION Spec
CHECK_DEADLOCK FALSE
SYMMETRY Symmetry
INVARIANTS
    FailuresAreTold
