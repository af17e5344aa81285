CONSTANTS
    None = None
    boxA = boxA
    boxB = boxB
    Endpoint = {boxA}
    Configs = {boxA}
    Implements <- MCImplements
    Band = {"Wlan24"}
    Mac = {}
    Leavers = {}
    Cmd = {k1, k2}
    Strikes = 2
    Delays = 2
    SlowPollEvery = 2
    Disturbances = {}
    MaxEvents = 0
SPECIFICATION Spec
INVARIANTS NoBacklog
