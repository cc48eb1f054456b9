----------------------------- MODULE MCGdrApi -----------------------------
EXTENDS GdrApi, TLC

Symmetry == Permutations(Memhs) \cup Permutations(Bufs) \cup Permutations(VMAs)

=============================================================================
