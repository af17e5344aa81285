CONSTANTS
    None = None
    boxA = boxA
    boxB = boxB
    Endpoint = {boxA}
    Configs = {boxA}
    Implements <- MCImplements
    Band = {"Wlan24"}
    Mac = {m1, m2}
    Leavers = {m2}
    Cmd = {}
    Strikes = 2
    Delays = 2
    SlowPollEvery = 2
    Disturbances = {"loss", "edit", "switch", "pick", "restart"}
    MaxEvents = 2
SPECIFICATION Spec
INVARIANTS CoreFresh PicksSaved
PROPERTIES PollCycleImplemented NeverShrinks DescriptorFirst
