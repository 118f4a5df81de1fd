\* get_with_proof of keys in the main store and in the nested sub-store.
CONSTANTS
    Keys <- MCKeys
    SubstorePrefixes <- MCSubstorePrefixes
    Vals = {a, b}
    Absent = Absent
    MaxVersion = 2
    PinAnyVersion = FALSE
    JmtLeafOp = JmtLeafOp
    ZeroHash = ZeroHash
    RootPrefixes <- MCRootPrefixes
    TmpLeafOp = TmpLeafOp
    Err = Err
    IOFaults = FALSE
SPECIFICATION Spec
INVARIANT ProofValueMatchesGet
