--------------------------- MODULE MCTokenGrants ---------------------------
EXTENDS TokenGrants, TLC
CONSTANTS h1, h2, alice, root, app
MCHandlers == {h1, h2}
MCUsers    == {alice, root}
MCAdmins   == {root}
MCClients  == {app}
MCSymmetry == Permutations(MCHandlers)
=============================================================================
