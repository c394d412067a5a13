--------------------------- MODULE MCReleaseFlow ---------------------------
EXTENDS ReleaseFlow, TLC

EmailSymmetry == Permutations(Emails)
=============================================================================
