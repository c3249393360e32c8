CONSTANTS
    Readers = {r1}
    Handlers = {h1, h2}
    Writers = {w1}
    Users = {u1, u2}
    Products = {p1}
    Listed = {p1}
    Rationed = {}
    TotalOfEach = 1
    LimitOfEach = 1
    Total <- MCTotal
    OnePersonBuyLimit <- MCLimit
    ChanCap = 1
    QueueBound = 1
    MaxRestarts = 0
    NoReq = NoReq
    NoRes = NoRes
SPECIFICATION Spec
CONSTANT MaxUnderWay = 3
INVARIANTS NoOversell
