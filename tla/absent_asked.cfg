CONSTANTS
    None = None
    boxA = boxA
    boxB = boxB
    Endpoint = {boxB}
    Configs = {boxB}
    Implements <- MCImplements
    Band = {"Wlan24"}
    Mac = {}
    Leavers = {}
    Cmd = {}
    Strikes = 2
    Delays = 2
    SlowPollEvery = 2
    Disturbances = {}
    MaxEvents = 0
SPECIFICATION Spec
INVARIANTS AbsentNotAsked
