--------------------------- MODULE MCServerStart ---------------------------
EXTENDS ServerStart, TLC
CONSTANTS p1, p2, c1, c2, c3
MCAlternates == <<c2>>
MCAlternates2 == <<c2, c3>>
Symmetry == Permutations(Proc)
=============================================================================
