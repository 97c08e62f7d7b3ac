SPECIFICATION Spec
CONSTANTS
    User = {u1, u2, u3}
    Owner = Owner
    Admin = Admin
    Role = {Owner, Admin}
    Active = Active
    Status = {Active, Suspended}
    Request = {r1, r2}
    Service = Service
    None = None
    Management <- MCManagement
SYMMETRY Symmetry
INVARIANTS TypeOK ActiveOwnerExists RecordedOwnerWasOwner
PROPERTIES OwnersMadeByOwners RevokedActorWritesNothing
