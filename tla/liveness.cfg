CONSTANTS
    None = None
    boxA = boxA
    boxB = boxB
    Endpoint = {boxA, boxB}
    Configs = {boxA, boxB}
    Implements <- MCImplements
    Band = {"Wlan5"}
    Mac = {}
    Leavers = {}
    Cmd = {}
    Strikes = 2
    Delays = 2
    SlowPollEvery = 2
    Disturbances = {"loss", "list", "box"}
    MaxEvents = 2
SPECIFICATION FairSpec
PROPERTIES PollEnds GivesUp AllOffered
