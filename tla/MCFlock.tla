------------------------------- MODULE MCFlock -------------------------------
EXTENDS Flock, TLC
Symmetry == Permutations(Proc) \cup Permutations(Inode)
==============================================================================
