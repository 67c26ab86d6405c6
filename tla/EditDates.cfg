CONSTANTS
    Page = {p1}
    Call = {c1, c2}
    Name = {n1, n2}
    Date = {d1}
    Stamp = {t1, t2}
    Retries = 1
    MaxLate = 1
    None = None
SPECIFICATION Spec
SYMMETRY Symmetry
INVARIANTS
    SavesAllFields
