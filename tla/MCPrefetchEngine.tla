--------------------------- MODULE MCPrefetchEngine ---------------------------
\* The threads of PrefetchEngine are alike, so TLC takes them as one orbit when
\* it checks invariants.
EXTENDS PrefetchEngine, TLC

Symmetry == Permutations(Threads)
=============================================================================
