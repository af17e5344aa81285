CONSTANTS
    Modulus = 4
    Burst = {1, 3}
    Elapse = {1}
    MaxTraffic = 6
    MaxClock = 3
    Client = {c1, c2, c3}
    Nameless = {vpn}
    None = None
    ProbeCmd = {k1, k2}
    Dialog <- MCDialog
    Router <- MCRouter
    Account <- MCAccount
    DefaultPort = 49000
    Text <- MCText
    Param = {"p1", "p2"}
    Window = 2
    ListMac <- MCListMac
SPECIFICATION Spec
INVARIANTS NoProbeLost
