---------------------------- MODULE MCCckdCache ----------------------------
EXTENDS CckdCache, TLC

CONSTANTS d1, d2, e1, e2, r1, w1, w2

\* Entries are alike; the one copy of a track does not tell which of them holds it.
EntrySymmetry == Permutations(Entry)
=============================================================================
