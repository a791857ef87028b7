\* Views change under a request; one node crashes.
SPECIFICATION LiveSpec
CONSTANTS
    n1 = n1
    n2 = n2
    n3 = n3
    NoNode = NoNode
    NoRow = NoRow
    Cred = {c1}
    u1 = u1
    u2 = u2
    u3 = u3
    User = {u1, u2, u3}
    Perm = "issue:read"
    Permission = {"token:admin", "issue:read"}
    TokenAdmin = "token:admin"
    RolePermissions <- MCRoles
    OrgOf <- MCOrg
    ProjectOrg = 1
    Node <- MCNodes
    Size = 6
    Hash <- MCHash
    KeyHash <- MCKey
    MinView = 2
    MaxRefreshes = 1
    MaxCrashes = 1
INVARIANTS NoLoop OwnerServes ServedAllowed
PROPERTY Answered
