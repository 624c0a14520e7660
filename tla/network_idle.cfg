SPECIFICATION Spec
CONSTANTS
    Requests = {r1, r2}
    Quiet = 2
    MaxWait = 5
    MaxRedirects = 0
    MaxClock = 6
PROPERTIES QuietBeforeReturn
CHECK_DEADLOCK FALSE
