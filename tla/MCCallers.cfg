SPECIFICATION CallersSpec
CONSTANTS
    Email = {e1, e2}
    Link = {k1, k2}
    UserId = {u1, u2}
    SessionId = {s1, s2}
    Request = {r1, r2}
    Call = {c1, c2}
    Service = Service
    Anonymous = Anonymous
    None = None
SYMMETRY Symmetry
INVARIANTS LinkOpensOneSession AnnouncedLinkWorks SessionsOfMailbox EndedSessionsStayEnded CallersHoldTheirKey
