--------------------------- MODULE MCSecKillCore ---------------------------
EXTENDS SecKillCore, TLC

CONSTANTS TotalOfEach, LimitOfEach   \* the same for every product

MCTotal == [p \in Products |-> TotalOfEach]
MCLimit == [p \in Products |-> LimitOfEach]

\* No more requests and results under way at a time.
CONSTANT MaxUnderWay
HeldBy(hand, none) == Cardinality({g \in DOMAIN hand : hand[g] # none})
FewUnderWay == /\ Len(proxy2layer) + Len(layer2proxy) + Len(read2handle) + Len(handle2write)
                  + HeldBy(reading, NoReq) + HeldBy(writing, NoRes) + HeldBy(req, NoReq) <= MaxUnderWay

\* Goroutines of one kind are interchangeable, and so are users.
Symmetry == Permutations(Handlers) \cup Permutations(Users)
                                   \cup Permutations(Readers)
=============================================================================
