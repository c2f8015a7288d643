SPECIFICATION Spec
CONSTANTS
    Request = {r1, r2}
    Sig = {s1, s2}
    NoSig = NoSig
    SignedAt <- SignedAtOne
    Interval = 1
    TTL = 2
    Size = 2
    Stall = 1
    MaxNow = 5
    Routes <- MCRoutes
    Writer = {w1, w2}
    Token = {t1, t2}
    NoToken = NoToken
    Clears = {FALSE, TRUE}
INVARIANTS Admission ErrorAnswers Bodies FailureLogged NoReplay
PROPERTIES SignSpec Answered
CHECK_DEADLOCK FALSE
