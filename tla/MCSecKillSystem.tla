-------------------------- MODULE MCSecKillSystem --------------------------
EXTENDS SecKillSystem, TLC

CONSTANTS c1, c2, c3, u1, p1, TotalOfEach, LimitOfEach

Key(u, p) == [user |-> u, product |-> p]

MCTotal == [p \in Products |-> TotalOfEach]
MCLimit == [p \in Products |-> LimitOfEach]

\* All calls ask as the same user for the same product.
MCKeyOf == [c \in Calls |-> Key(u1, p1)]

Symmetry == Permutations(Handlers) \cup Permutations(Calls)
=============================================================================
