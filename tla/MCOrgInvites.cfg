SPECIFICATION InviteSpec
CONSTANTS
    User = {u1, u2}
    Owner = Owner
    Admin = Admin
    Role = {Owner, Admin}
    Active = Active
    Status = {Active}
    Request = {r1, r2}
    Service = Service
    None = None
    InviteId = {i1}
    Management <- MCManagement
SYMMETRY Symmetry
INVARIANTS OwnersInvitedByOwners StoredInvitesWereMailed
PROPERTIES LastOwnerLostByOwnAcceptance
