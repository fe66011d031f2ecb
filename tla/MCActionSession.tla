--------------------------- MODULE MCActionSession ---------------------------
EXTENDS ActionSession, TLC

Symmetry == Permutations(Actions) \cup Permutations(Cands) \cup Permutations(Viewers)
==============================================================================
