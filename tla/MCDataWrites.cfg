SPECIFICATION Spec
CONSTANTS
    ann = ann
    bob = bob
    admin = admin
    k1 = k1
    k2 = k2
    User = {ann, bob}
    Role = {admin}
    Anonymous = Anonymous
    Service = Service
    Nobody = Nobody
    Null = Null
    Unset = Unset
    NoPolicy = NoPolicy
    Unconditional = Unconditional
    Condition <- MCCondition
    Depth <- MCDepth
    Client = {ann, Anonymous, Service}
    Key = {k1, k2}
    Request = {r1, r2}
    Absent = Absent
    NoRequest = NoRequest
    Operation <- MCOperation
    Batch <- MCBatch
    Policies <- MCPolicies
SYMMETRY Symmetry
INVARIANT TypeOK
PROPERTIES WritesAuthorized RefusalsJustified BatchVisibleWhole DroppedRowsAreNull ImplementsSerial
