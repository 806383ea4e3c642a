--------------------------- MODULE MCPaidToggles ---------------------------
EXTENDS PaidToggles, TLC

Symmetry == Permutations(Client) \union Permutations(Month)
=============================================================================
