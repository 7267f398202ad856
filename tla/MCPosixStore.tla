----------------------------- MODULE MCPosixStore -----------------------------
EXTENDS PosixStore, TLC

CONSTANTS c1, c2, c3, p1, p2

\* Two goroutines of one process and one of another.
MCProcOf == (c1 :> p1) @@ (c2 :> p1) @@ (c3 :> p2)
\* The password is asked for first, then the age key.
MCPrompts == <<"pass", "age">>

Symmetry == Permutations(ID)
==============================================================================
