-------------------------- MODULE MC_FfiLifecycle --------------------------
EXTENDS FfiLifecycle, TLC

CONSTANTS t1, t2

MCThreads == {t1, t2}
ThreadSymmetry == Permutations(MCThreads)
=============================================================================
