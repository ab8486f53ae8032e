---------------------------- MODULE MCSharedTest ----------------------------
EXTENDS SharedTest, TLC
CONSTANTS r1, r2

Symmetry == Permutations({r1, r2})

\* The second lease is followed until it plans its first item: it meets what is
\* left of the first lease, which is followed to its end.
SecondLeaseBegins == \A r \in Request : lease[r].fence > 1 =>
                                         \A i \in Item : item[r][i] = "unplanned"
=============================================================================
