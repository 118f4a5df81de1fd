\* Every stream method with I/O faults, on snapshots pinned to any version:
\* once the caller drops the stream, the producer closure stops reading (its
\* blocking_send fails), and a
\* producer whose consumer is gone always terminates, whether it was
\* running, waiting for room in the channel, or about to fail or panic on
\* a key that is not UTF-8.
CONSTANTS
    Keys <- MCKeys
    SubstorePrefixes <- MCSubstorePrefixes
    Vals = {a}
    Absent = Absent
    MaxVersion = 2
    PinAnyVersion = TRUE
    JmtLeafOp = JmtLeafOp
    ZeroHash = ZeroHash
    Kinds <- MCAllKinds
    QueryPrefixes <- MCQueryPrefixes
    PrefixRawPrefixes <- MCMainPrefixes
    RangeStarts <- MCRangeStarts
    RangeEnds <- MCRangeEnds
    ChannelCapacity = 1
    IOFaults = TRUE
    NonUtf8Keys <- MCOneNonUtf8
SPECIFICATION Spec
PROPERTY NoScanAfterDrop
PROPERTY CancellationTerminates
