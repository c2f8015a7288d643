SPECIFICATION RSpec
CONSTANTS
    Service = {s1, s2}
    Stopper = {run, other}
    Runner = run
INVARIANTS RegistrySound RunSound
PROPERTIES CallsReturn RunReturns RegistryConverges
CHECK_DEADLOCK FALSE
