----------------------------- MODULE MCLifecycle ------------------------------
EXTENDS Lifecycle, TLC

CONSTANTS t1, t2

MCSymmetry == Permutations({t1, t2})
=============================================================================
