SPECIFICATION MembersSpec
CONSTANTS
    People = {ann, bob, cy}
    Founder = ann
    Roles = {"OWNER", "SUPER_ADMIN", "MEMBER"}
    Verified = {cy}
    ImportRoles = {"MEMBER"}
    Requests = {q1, q2}
    MaxAsks = 2
    None = None
INVARIANT OneOwner
CHECK_DEADLOCK FALSE
