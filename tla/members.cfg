SPECIFICATION MembersSpec
CONSTANTS
    People = {ann, bob, cy}
    Founder = ann
    Roles = {"OWNER", "SUPER_ADMIN", "MEMBER"}
    Verified = {cy}
    ImportRoles = {"MEMBER"}
    Requests = {q1, q2}
    MaxAsks = 3
    None = None
INVARIANTS MembersTypeOK OneOwnerUnlessMoved NoWorkStranded DeletedAreOut
PROPERTIES ReturnsInvited NobodyEvicted
SYMMETRY RequestSymmetry
CHECK_DEADLOCK FALSE
