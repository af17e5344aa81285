CONSTANTS
    None = None
    boxA = boxA
    boxB = boxB
    Endpoint = {boxA}
    Configs = {boxA}
    Implements <- MCImplements
    Band = {"Wlan24"}
    Mac = {m1}
    Leavers = {}
    Cmd = {}
    Strikes = 2
    Delays = 2
    SlowPollEvery = 2
    Disturbances = {"loss", "list", "switch", "box"}
    MaxEvents = 2
SPECIFICATION Spec
INVARIANTS TypeOK CapTruth NeverAway CoreFresh
PROPERTIES PollCycleImplemented AnsweredDescriptorFirst
