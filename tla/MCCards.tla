------------------------------- MODULE MCCards -------------------------------
EXTENDS Cards, TLC

Symmetry == Permutations(Client)
=============================================================================
