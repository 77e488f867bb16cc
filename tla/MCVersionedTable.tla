-------------------------- MODULE MCVersionedTable --------------------------
EXTENDS VersionedTable, TLC

\* Which thread does what makes no difference to a safety property.
ThreadSymmetry == Permutations(Threads)
=============================================================================
