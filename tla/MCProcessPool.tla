--------------------------- MODULE MCProcessPool ---------------------------
EXTENDS ProcessPool, TLC

Symmetry == Permutations(Requests) \cup Permutations(Threads)

=============================================================================
