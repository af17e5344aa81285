CONSTANTS
    None = None
    boxA = boxA
    boxB = boxB
    Endpoint = {boxA}
    Configs = {boxA, None}
    Implements <- MCImplements
    Band = {"Wlan24"}
    Mac = {m1}
    Leavers = {}
    Cmd = {}
    Strikes = 2
    Delays = 2
    SlowPollEvery = 2
    Disturbances = {"edit"}
    MaxEvents = 1
SPECIFICATION Spec
INVARIANTS NeverAway
