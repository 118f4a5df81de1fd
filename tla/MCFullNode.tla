----------------------------- MODULE MCFullNode -----------------------------
EXTENDS FullNode

CONSTANTS n1, n2

MCNotes == {n1, n2}
=============================================================================
