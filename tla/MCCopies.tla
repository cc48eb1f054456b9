----------------------------- MODULE MCCopies -----------------------------
EXTENDS Copies

\* Pointers at every distance from a vector and from a word of 4 bytes, and sizes
\* from nothing to a head, one turn of the longest unrolled loop (8 * AvxBytes), a
\* single vector and a tail.
MCPointers == 8 .. 13
MCSizes    == (0 .. 20) \cup (30 .. 42)
MCAddrs    == 0 .. 64

=============================================================================
