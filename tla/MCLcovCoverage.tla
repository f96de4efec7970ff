--------------------------- MODULE MCLcovCoverage ---------------------------
EXTENDS LcovCoverage, TLC

MCSymmetry == Permutations(Paths)

=============================================================================
