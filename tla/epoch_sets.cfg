\* Three validators in stream order 1 < 2 < 3, two of which may be Active,
\* four consensus keys (one spare for rotation), two blocks.
CONSTANTS
    k1 = k1
    k2 = k2
    k3 = k3
    k4 = k4
    Keys <- MCKeys
    Validators = {1, 2, 3}
    ActiveValidatorLimit = 2
    MinValidatorStake = 1
    MaxAmount = 2
    MaxChanges = 1
    MaxHeight = 2
SYMMETRY MCSymmetry
SPECIFICATION Spec
INVARIANT ConsensusKeysTrackCometbft
PROPERTIES ActiveSetIsTopByPower 
CHECK_DEADLOCK FALSE
