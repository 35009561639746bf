CONSTANTS
    a1 = a1
    a2 = a2
    u1 = u1
    r1 = r1
    r2 = r2
    w1 = w1
    g1 = g1
    AppIds <- MCAppIds
    Accounts <- MCAccounts
    Reqs <- MCReqs
    WorkflowVersions <- MCWorkflowVersions
    AgentVersions <- MCAgentVersions
    TypeInputs <- MCTypeInputs
    TenantInputs <- MCTenantInputs
    AdminTenant = "t1"
    VersionTenant <- MCVersionTenant
    MaxNotifications = 4
SPECIFICATION Spec
INVARIANTS
    TypeOK
    HistoryMirrorsStatus
    SnapshotPerApproval
    SquareFlagMatchesSnapshots
    ResultNotificationPerDecision
SYMMETRY MCSymmetry
