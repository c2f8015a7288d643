SPECIFICATION FreshSpec
CONSTANTS
    SlotNum = 3
    Interval = 2
    Key = {k1, k2, nilKey}
    NilKey = nilKey
    Data = {d1, d2}
    Delay <- MCDelaySmall
    Addr = {a1, a2}
    NoAddr = noAddr
PROPERTIES ImplementsTimer EventuallyFires
CHECK_DEADLOCK FALSE
