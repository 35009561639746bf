------------------------- MODULE MC_RoleAssignment -------------------------
EXTENDS RoleAssignment, TLC

CONSTANTS T1, T2, r1, r2, a1, a2, x1, m1, k1, n1, p1, p2

\* Two tenants, one member each.
MCTenants == {T1, T2}
MCRoleIds == {r1, r2}
MCAccounts == {a1, a2}
MCMembers == {<<T1, a1>>, <<T2, a2>>}
MCMenuIds == {m1}
MCResources == {x1}
MCNoResources == {}
MCKeys == {k1}
MCNames == {n1}
MCOneThread == {p1}
MCTwoThreads == {p1, p2}

\* Role ids are handed out in any order, and requests are interchangeable.
MCSymmetry == Permutations(MCRoleIds) \cup Permutations(MCTwoThreads)
=============================================================================
