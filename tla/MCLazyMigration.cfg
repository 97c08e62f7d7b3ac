SPECIFICATION Spec
CONSTANTS
    Table = {t1, t2}
    Db = {1}
    Push = {p1}
    Request = {r1, r2}
    MaxVersion = 3
    None = None
SYMMETRY Symmetry
INVARIANT ServedIsMigrated
