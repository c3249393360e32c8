CONSTANTS
    Readers = {r1}
    Handlers = {h1, h2}
    Writers = {w1}
    Users = {u1, u2}
    Products = {p1, p2}
    Listed = {p1, p2}
    Rationed = {p2}
    TotalOfEach = 1
    LimitOfEach = 1
    Total <- MCTotal
    OnePersonBuyLimit <- MCLimit
    ChanCap = 1
    QueueBound = 1
    MaxRestarts = 1
    NoReq = NoReq
    NoRes = NoRes
SPECIFICATION Spec
SYMMETRY Symmetry
INVARIANTS OversellBound LimitBound LedgersAgree SoldoutTruthful SuccessBacked ResaleBound
PROPERTIES LedgerSpec
CONSTANT MaxUnderWay = 3
CONSTRAINT FewUnderWay
