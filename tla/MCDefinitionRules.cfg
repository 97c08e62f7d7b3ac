SPECIFICATION Spec
CONSTANTS
    ann = ann
    bob = bob
    mail = mail
    other = other
    owner = owner
    member = member
    stranger = stranger
    User = {ann, bob}
    Address <- MCAddress
    Role = {owner, member}
    s1 = s1
    s2 = s2
    t1 = t1
    t2 = t2
    Schema = {s1, s2}
    Table = {t1, t2}
    Tables <- MCTables
    Access <- MCAccess
    Condition <- MCCondition
    Depth <- MCDepth
    Rule <- MCRule
    NoRule = NoRule
    Grants <- MCGrants
    Pusher = {p1, p2}
    MaxVersion = 2
    None = None
SYMMETRY Symmetry
CHECK_DEADLOCK FALSE
INVARIANTS GrantsAsPushed AccessAsPushed JudgedByPublishedRule
