---------------------------- MODULE MC_MenuTree ----------------------------
EXTENDS MenuTree, TLC

CONSTANTS m1, m2, m3, k1, k2, k3, t1, t2

MCMenuIds == {m1, m2, m3}
MCKeys == {k1, k2, k3}
MCTwoMenuIds == {m1, m2}
MCTwoKeys == {k1, k2}
MCOneThread == {t1}
MCTwoThreads == {t1, t2}

\* Menu ids are handed out in any order, keys and requests are
\* interchangeable: none of the properties names one of them.
MCSymmetry == Permutations(MCMenuIds) \cup Permutations(MCKeys)
MCSymmetryThreads ==
    Permutations(MCTwoMenuIds) \cup Permutations(MCTwoKeys)
        \cup Permutations(MCTwoThreads)
=============================================================================
