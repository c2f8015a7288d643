SPECIFICATION Spec
CONSTANTS
    SlotNum = 3
    Interval = 2
    Key = {k1, nilKey}
    NilKey = nilKey
    Data = {d1}
    Delay <- MCDelay
    Addr = {a1, a2}
    NoAddr = noAddr
SYMMETRY Symmetry
INVARIANTS IndexConsistent OnSchedule FiredInWindow Removable
PROPERTY EveryTickCounts
CHECK_DEADLOCK FALSE
