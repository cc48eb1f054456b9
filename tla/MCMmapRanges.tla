--------------------------- MODULE MCMmapRanges ---------------------------
EXTENDS MmapRanges

\* Three neighbouring GPU pages and a distant one.
MCFrames == {2, 4, 6, 12}

=============================================================================
