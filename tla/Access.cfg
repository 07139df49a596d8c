SPECIFICATION Spec
CONSTANTS
    Principals = {p1, p2}
    Founder = p1
    Sessions = {s1, s2}
    Invitations = {i1}
    Calls = {c1, c2}
    NoOne = NoOne
    NoSession = NoSession
    NoInvitation = NoInvitation
    NoCall = NoCall
    MaxVersion = 3
    MaxToken = 3
SYMMETRY AccessSymmetry
INVARIANTS
    AlwaysAnOwner
    UsableMeansCurrent
    DialectsAgree
PROPERTIES
    InvitationOutcomeFinal
CHECK_DEADLOCK FALSE
