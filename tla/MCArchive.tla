----------------------------- MODULE MCArchive ------------------------------
EXTENDS Archive, TLC

CONSTANTS s1, s2

MCSessions == {s1, s2}
MCSymmetry == Permutations(MCSessions)
=============================================================================
