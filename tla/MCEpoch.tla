------------------------------- MODULE MCEpoch -------------------------------
EXTENDS Epoch, TLC

CONSTANTS k1, k2, k3, k4

MCKeys == {k1, k2, k3, k4}
MCSymmetry == Permutations(MCKeys)
=============================================================================
