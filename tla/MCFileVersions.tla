--------------------------- MODULE MCFileVersions ---------------------------
EXTENDS FileVersions, TLC
CONSTANTS alice, bob
Interchangeable == Permutations(RowIds) \cup Permutations(Sessions)
=============================================================================
