-------------------------- MODULE MCRuntimeKernel --------------------------
EXTENDS RuntimeKernel, TLC

CONSTANTS s1, s2

Callers == Permutations(StopCallers)
=============================================================================
