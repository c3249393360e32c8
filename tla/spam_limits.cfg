CONSTANTS
    u1 = u1  u2 = u2
    a1 = a1  a2 = a2
    Users = {u1, u2}
    Addrs = {a1, a2}
    Clients <- MCClients
    Times <- MCTimes
    junk = junk
    IDBlack = {u2, junk}
    IPBlack = {a2}
    UserSecAccessLimit = 1
    UserMinAccessLimit = 2
    IPSecAccessLimit = 1
    IPMinAccessLimit = 2
    MaxAccesses = 5
  p1 = p1
  p2 = p2
  Items <- MCItems
  Offers <- MCOffers
  Horizon = 3
  QueryBurst = 1
  SaleBurst = 1
  AdminBurst = 1
  MaxRows = 2
  Ends = {2}
SPECIFICATION MCSpec
INVARIANTS Rations Justified SaleInOrder PagesAgree
CHECK_DEADLOCK FALSE
