------------------------- MODULE MCEvidenceLedger -------------------------
EXTENDS EvidenceLedger
Interchangeable == Permutations(Appenders) \cup Permutations(Entries)
=============================================================================
