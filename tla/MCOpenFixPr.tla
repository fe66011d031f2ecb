----------------------------- MODULE MCOpenFixPr ------------------------------
EXTENDS PullRefinement, TLC

Symmetry == Permutations(Openers)
==============================================================================
