CONSTANTS
    i1 = i1  i2 = i2
    Instances = {i1, i2}
    Named = {i1}
    Callers = {c1, c2}
    MaxStarts = 3
    NoInstance = NoInstance
    NoCaller = NoCaller
SPECIFICATION FairSpec
INVARIANTS OneWatch FreshOrOvertaken
PROPERTIES Settles CallsReturn
CHECK_DEADLOCK FALSE
