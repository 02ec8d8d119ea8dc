--------------------------- MODULE MCTunnelServer ---------------------------
EXTENDS TunnelServer, TLC

ServerSymmetry == Permutations(Client) \cup Permutations(Forward)

=============================================================================
