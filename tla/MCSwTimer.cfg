CONSTANTS
    upTimeReportTimer = upTimeReportTimer
    errorTimer = errorTimer
    Timer = {upTimeReportTimer, errorTimer}
    Modulus = 8
    TICKS_PER_SECOND = 3
    MS_PER_TICK = 2
    Timeout = {0, 3, 7}
SPECIFICATION Spec
INVARIANTS TypeOK FiresExactly FiresInTheLastTickBeforeDue ClocksAgree
