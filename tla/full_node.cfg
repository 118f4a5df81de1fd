\* verify_transaction over two notes and transactions of up to three actions.
CONSTANTS
    n1 = n1
    n2 = n2
    Notes <- MCNotes
    MaxActions = 3
SPECIFICATION Spec
INVARIANTS VerifyMatchesReference NoNullifierAcceptedTwice NoNoteBurnedByRejectedTransaction
