SPECIFICATION Spec
CONSTANTS
    ann = ann
    bob = bob
    users = users
    posts = posts
    comments = comments
    one = one
    two = two
    three = three
    Table = {users, posts, comments}
    Id = {one, two, three}
    User = {ann, bob}
    Service = Service
    Value = {1, 2, 3}
    Column = {"parent", "owner", "label"}
    MaxInArraySize = 2
    Absent = Absent
    Null = Null
    None = None
    References <- MCReferences
    Owned <- MCOwned
    Policies <- MCPolicies
    Database <- MCDatabase
    Query <- MCQuery
    MaxQueryDepth = 2
    MaxQueryLimit = 2
    DefaultLimit = 2
    MaxChanges = 1
INVARIANTS AnswerIsPage CountIsOfAnswer RefusedIffDenied
CHECK_DEADLOCK FALSE
