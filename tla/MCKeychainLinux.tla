--------------------------- MODULE MCKeychainLinux ---------------------------
EXTENDS KeychainLinux, TLC

Symmetry == Permutations(Client) \cup Permutations(ID) \cup Permutations(Meta)
==============================================================================
