--------------------------- MODULE MCKeyLifecycle ---------------------------
EXTENDS KeyLifecycle, TLC

Symmetry == Permutations(Reqs) \union Permutations(Keys)
=============================================================================
