SPECIFICATION RSpec
CONSTANTS
    Service = {s1}
    Stopper = {run}
    Runner = run
PROPERTY ReturnsInTime
CHECK_DEADLOCK FALSE
