SPECIFICATION Spec
CONSTANTS
    Table = {t1}
    Db = {1, 2}
    Push = {p1, p2}
    Request = {r1}
    MaxVersion = 3
    None = None
SYMMETRY Symmetry
INVARIANTS MigratedWhole VersionsPublished
PROPERTIES HistoryIsFixed
