\* end_epoch drops the sums saturating_add returns: after an epoch with a delegation,
\* the pool has not moved.  Same validators, keys and bounds as epoch_sets.
CONSTANTS
    k1 = k1
    k2 = k2
    k3 = k3
    k4 = k4
    Keys <- MCKeys
    Validators = {1, 2, 3}
    ActiveValidatorLimit = 2
    MinValidatorStake = 1
    MaxAmount = 2
    MaxChanges = 1
    MaxHeight = 2
SYMMETRY MCSymmetry
SPECIFICATION Spec
PROPERTY DelegationSupplyTracksChanges
CHECK_DEADLOCK FALSE
