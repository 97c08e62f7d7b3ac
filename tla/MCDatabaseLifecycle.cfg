SPECIFICATION Spec
CONSTANTS
    User = {u1, u2}
    Id = {d1, d2}
    Request = {r1, r2}
    Limit = 1
    None = None
SYMMETRY Symmetry
INVARIANTS TypeOK RowsAreBacked UserDatabasesLinked OneLinkPerDatabase OrganizationsHaveOwner
PROPERTIES  ImplementsDirectory
