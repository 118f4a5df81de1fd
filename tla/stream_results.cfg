\* Every stream method on fresh snapshots, without I/O faults (an error reads as
\* the end of the stream, see stream_error_truncates): prefix_keys and the
\* nonverifiable scans over main-store and sub-store prefixes, prefix_raw over
\* main-store prefixes; a later commit may delete what a
\* snapshot pinned.  Also checks the refinement of ScanSpec.
CONSTANTS
    Keys <- MCKeys
    SubstorePrefixes <- MCSubstorePrefixes
    Vals = {a}
    Absent = Absent
    MaxVersion = 2
    PinAnyVersion = FALSE
    JmtLeafOp = JmtLeafOp
    ZeroHash = ZeroHash
    Kinds <- MCAllKinds
    QueryPrefixes <- MCQueryPrefixes
    PrefixRawPrefixes <- MCMainPrefixes
    RangeStarts <- MCRangeStarts
    RangeEnds <- MCRangeEnds
    ChannelCapacity = 1
    IOFaults = FALSE
    NonUtf8Keys <- MCAllUtf8
SPECIFICATION Spec
INVARIANT TypeOK
INVARIANT DeliveredIsPrefixOfReference
INVARIANT CompletedScanMatchesReference
PROPERTY ScanRefinement
