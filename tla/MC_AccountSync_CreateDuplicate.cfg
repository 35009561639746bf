CONSTANTS
    u1 = u1
    u2 = u2
    u3 = u3
    t1 = t1
    t2 = t2
    t3 = t3
    e1 = e1
    e2 = e2
    w1 = w1
    x1 = x1
    n1 = n1
    p1 = p1
    p2 = p2
    None = None
    AccountIds <- MCThreeAccountIds
    TenantIds <- MCTenantIds
    Emails = {e1}
    AdminEmails = {e2}
    EmpNos = {w1}
    UserIds = {x1}
    TenantNames = {n1}
    RoleArgs <- MCRoleArgs
    CreateRoles = {"normal"}
    DefaultTenantName = "default"
    WorkspaceName = "workspace"
    MaxBatch = 1
    Threads <- MCTwoThreads
SPECIFICATION Spec
PROPERTY
    CreateRefusesTakenEmail
SYMMETRY MCSymmetry
