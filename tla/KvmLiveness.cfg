SPECIFICATION FairSpec
CONSTANTS
    Esc = Esc
    Hot = Hot
    CtrlAltShift = CtrlAltShift
    Left = Left
    Right = Right
    w1 = w1
    w2 = w2
    Keys = {Esc, Hot}
    Mods = {}
    HotMods = {}
    Buttons = {Left}
    Workers = {w1, w2}
    NSlots = 1
    MaxNet = 2
    AioMax = 1
    Faults <- ImpatientUser
PROPERTIES ReleasedInTheEnd LeaveReleases
INVARIANTS ReleasedAfterControl
