SPECIFICATION GrantSpec
CONSTANTS
  h1 = h1
  h2 = h2
  alice = alice
  root = root
  app = app
  Handlers <- MCHandlers
  Users <- MCUsers
  Clients <- MCClients
  AdminUsers <- MCAdmins
  AccessValidity = 1
  RefreshValidity = 2
  Burst = 2
  MaxTime = 3
  MaxTokens = 4
SYMMETRY MCSymmetry
INVARIANTS AcceptedTruthful EmptyExplained DescentSound
CHECK_DEADLOCK FALSE
