CONSTANTS
    None = None
    boxA = boxA
    boxB = boxB
    Endpoint = {boxA}
    Configs = {boxA}
    Implements <- MCImplements
    Band = {"Wlan24"}
    Mac = {}
    Leavers = {}
    Cmd = {k1}
    Strikes = 2
    Delays = 2
    SlowPollEvery = 2
    Disturbances = {"edit"}
    MaxEvents = 1
SPECIFICATION Spec
INVARIANTS CoreFresh
