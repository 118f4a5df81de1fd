\* Every stream method with I/O faults: what an ended stream delivered.
CONSTANTS
    Keys <- MCKeys
    SubstorePrefixes <- MCSubstorePrefixes
    Vals = {a}
    Absent = Absent
    MaxVersion = 2
    PinAnyVersion = FALSE
    JmtLeafOp = JmtLeafOp
    ZeroHash = ZeroHash
    Kinds <- MCResidualKinds
    QueryPrefixes <- MCMainPrefixes
    PrefixRawPrefixes <- MCMainPrefixes
    RangeStarts <- MCRangeStarts
    RangeEnds <- MCRangeEnds
    ChannelCapacity = 1
    IOFaults = TRUE
    NonUtf8Keys <- MCOneNonUtf8
SPECIFICATION Spec
INVARIANT EndedStreamIsComplete
