\* Point reads and root hashes on snapshots of the latest version, racing commits and I/O errors.
CONSTANTS
    Keys <- MCKeys
    SubstorePrefixes <- MCSubstorePrefixes
    Vals = {a, b}
    Absent = Absent
    MaxVersion = 2
    PinAnyVersion = FALSE
    JmtLeafOp = JmtLeafOp
    ZeroHash = ZeroHash
    RootPrefixes <- MCRootPrefixes
    TmpLeafOp = TmpLeafOp
    Err = Err
    IOFaults = TRUE
SPECIFICATION Spec
INVARIANT SnapshotIsolation
