--------------------------- MODULE MCRunLifecycle ---------------------------
EXTENDS RunLifecycle, TLC
CONSTANTS api, sched, a1, a2, s1, j1
MCHome == [c \in Callers |-> IF c = s1 THEN sched ELSE api]
\* The request threads of the API are interchangeable.
Symmetry == Permutations({a1, a2})
=============================================================================
