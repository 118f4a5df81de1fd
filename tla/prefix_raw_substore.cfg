\* prefix_raw over a prefix that routes to the nested sub-store.
CONSTANTS
    Keys <- MCKeys
    SubstorePrefixes <- MCSubstorePrefixes
    Vals = {a}
    Absent = Absent
    MaxVersion = 2
    PinAnyVersion = FALSE
    JmtLeafOp = JmtLeafOp
    ZeroHash = ZeroHash
    Kinds <- MCPrefixRawKinds
    QueryPrefixes <- MCSubstoreQueryPrefixes
    PrefixRawPrefixes <- MCSubstoreQueryPrefixes
    RangeStarts <- MCRangeStarts
    RangeEnds <- MCRangeEnds
    ChannelCapacity = 1
    IOFaults = FALSE
    NonUtf8Keys <- MCAllUtf8
SPECIFICATION Spec
INVARIANT CompletedScanMatchesReference
