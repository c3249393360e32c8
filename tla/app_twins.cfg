CONSTANTS
    c1 = c1  c2 = c2  c3 = c3
    u1 = u1  p1 = p1  p2 = p2
    Calls = {c1, c2, c3}
    AppWriters = {w1}
    AppReaders = {r1, r2}
    Users = {u1}
    Products = {p1, p2}
    KeyOf <- TwinAndOther
    Codes = {"Succ"}
    ReqCap = 1
    QueueBound = 2
    NoCall = NoCall
    NoRes = NoRes
SPECIFICATION FairSpec
INVARIANTS KeyedDelivery NoLeakedEntry TwinsOnly OneResultPerKey
PROPERTY ReadersSurvive
CHECK_DEADLOCK FALSE
