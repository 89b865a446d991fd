----------------------------- MODULE MCDispatch -----------------------------
EXTENDS Dispatch, TLC

CONSTANTS t1, t2, f, g, o, p, q, k, z

\* One lifted function of two words, one that takes none, and everything else
\* with one.
MCArity == [a \in {f, g, o, p, q, k, z} |-> IF a = f THEN 2 ELSE IF a = g THEN 0 ELSE 1]

MCPassed == [a \in {f, g, o, p, q, k, z} |->
               IF a = f THEN {<<1, 2>>} ELSE IF a = g THEN {<<>>} ELSE {<<1>>}]

Symmetry == Permutations(Threads)
=============================================================================
