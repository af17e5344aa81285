CONSTANTS
    None = None
    boxA = boxA
    boxB = boxB
    Endpoint = {boxA}
    Configs = {boxA, None}
    Implements <- MCImplements
    Band = {"Wlan24"}
    Mac = {}
    Leavers = {}
    Cmd = {k1}
    Strikes = 2
    Delays = 2
    SlowPollEvery = 2
    Disturbances = {"edit", "restart", "list"}
    MaxEvents = 2
SPECIFICATION Spec
INVARIANTS PollAlive PollScheduled ConnectedMeansAnswering
PROPERTIES PollShrinks
