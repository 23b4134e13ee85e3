SPECIFICATION FairSpec
CONSTANTS
    Esc = Esc
    Hot = Hot
    Left = Left
    w1 = w1
    Keys = {Esc, Hot}
    Mods = {}
    HotMods = {}
    Buttons = {Left}
    Workers = {w1}
    NSlots = 1
    MaxNet = 2
    Faults <- ImpatientUser
    Ips = {b1, b2}
    NoIp = none
    Ports = {p1}
    Together = FALSE
CHECK_DEADLOCK FALSE
INVARIANTS StaleOnce LockAlive NobodyLeftHeld
PROPERTIES PingCatchesUp
