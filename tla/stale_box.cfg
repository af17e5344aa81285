CONSTANTS
    None = None
    boxA = boxA
    boxB = boxB
    Endpoint = {boxA, boxB}
    Configs = {boxA, boxB}
    Implements <- MCImplements
    Band = {"Wlan24"}
    Mac = {}
    Leavers = {}
    Cmd = {}
    Strikes = 2
    Delays = 2
    SlowPollEvery = 2
    Disturbances = {"edit"}
    MaxEvents = 1
SPECIFICATION Spec
INVARIANTS CapTruth
