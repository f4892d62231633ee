---------------------------- MODULE MCLimitSync ----------------------------
EXTENDS LimitSync, TLC

Symmetry == Permutations(Keys)
=============================================================================
