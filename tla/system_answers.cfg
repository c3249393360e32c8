CONSTANTS
    c1 = c1  c2 = c2  c3 = c3
    u1 = u1  p1 = p1
    Calls = {c1, c2, c3}
    AppWriters = {aw1}
    AppReaders = {ar1}
    Readers = {r1}
    Handlers = {h1, h2}
    Writers = {w1}
    Users = {u1}
    Products = {p1}
    Listed = {p1}
    Rationed = {}
    TotalOfEach = 1
    LimitOfEach = 1
    Total <- MCTotal
    OnePersonBuyLimit <- MCLimit
    KeyOf <- MCKeyOf
    ReqCap = 1
    ChanCap = 1
    QueueBound = 1
    MaxRestarts = 1
    NoCall = NoCall
    NoReq = NoReq
    NoRes = NoRes
SPECIFICATION SysSpec
SYMMETRY Symmetry
INVARIANTS AnswersTrue TokensBacked
CHECK_DEADLOCK FALSE
