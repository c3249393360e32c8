---------------------------- MODULE MCSecKillApp ---------------------------
EXTENDS SecKillApp, TLC

CONSTANTS c1, c2, c3, u1, p1, p2

Key(u, p) == [user |-> u, product |-> p]

\* c1 and c2 are the same user asking twice for the same product.
TwinKeys == (c1 :> Key(u1, p1)) @@ (c2 :> Key(u1, p1))

\* A third call of theirs for another product.
TwinAndOther == TwinKeys @@ (c3 :> Key(u1, p2))
=============================================================================
