SPECIFICATION FairSpec
CONSTANTS
    ann = ann
    bob = bob
    admin = admin
    k1 = k1
    k2 = k2
    User = {ann, bob}
    Role = {admin}
    Anonymous = Anonymous
    Service = Service
    Nobody = Nobody
    Null = Null
    Unset = Unset
    NoPolicy = NoPolicy
    Unconditional = Unconditional
    Condition <- MCCondition
    Depth <- MCDepth
    Client = {ann}
    Key = {k1, k2}
    Request = {r1, r2}
    Absent = Absent
    NoRequest = NoRequest
    Operation <- FewOperations
    Batch <- FewBatches
    Policies <- FewPolicies
PROPERTY SomebodyEnds
