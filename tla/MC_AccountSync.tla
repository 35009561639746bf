--------------------------- MODULE MC_AccountSync ---------------------------
(* AccountSync for TLC: account, tenant, email, employee number, user id  *)
(* and tenant name as model values; the cfg files pick how many.          *)
EXTENDS AccountSync, TLC

CONSTANTS u1, u2, u3, t1, t2, t3, e1, e2, w1, x1, n1, p1, p2

MCAccountIds == {u1, u2}
MCThreeAccountIds == {u1, u2, u3}
MCTenantIds == {t1, t2}
MCRoleArgs == {"normal", "bogus"}
MCTwoThreads == {p1, p2}

\* The requests are interchangeable (ids are not: the batch takes fresh
\* ids with CHOOSE).
MCSymmetry == Permutations(MCTwoThreads)
=============================================================================
