CONSTANTS
    T1 = T1
    T2 = T2
    r1 = r1
    r2 = r2
    a1 = a1
    a2 = a2
    x1 = x1
    m1 = m1
    k1 = k1
    n1 = n1
    p1 = p1
    p2 = p2
    Tenants <- MCTenants
    RoleIds <- MCRoleIds
    Accounts <- MCAccounts
    Members <- MCMembers
    MenuIds <- MCMenuIds
    Resources <- MCNoResources
    Keys <- MCKeys
    Names <- MCNames
    Threads <- MCTwoThreads
SPECIFICATION Spec
INVARIANTS
    TypeOK
    TenantIsolation
    
SYMMETRY MCSymmetry
