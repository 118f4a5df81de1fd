\* Plans, builds, submissions, timeouts and block scans against a node that verifies spends at its current root; at most two transactions await the node.
CONSTANTS
    Incoming <- MCIncoming
    Amounts = {0, 1}
    Fees = {1}
    Timeout = 1
    MaxTime = 3
    MaxHeight = 3
    MaxNotes = 5
    MaxPending = 2
SPECIFICATION LiveSpec
INVARIANTS WalletMatchesChain PlannedTransactionsBalance NoReplanWithinTimeout
PROPERTY SpendEventuallyResolved
CHECK_DEADLOCK FALSE
