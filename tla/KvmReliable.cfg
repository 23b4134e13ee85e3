SPECIFICATION Spec
CONSTANTS
    Esc = Esc
    Hot = Hot
    CtrlAltShift = CtrlAltShift
    Left = Left
    Right = Right
    w1 = w1
    w2 = w2
    Keys = {Esc, Hot}
    Mods = {CtrlAltShift}
    HotMods = {CtrlAltShift}
    Buttons = {Left, Right}
    Workers = {w1}
    NSlots = 1
    MaxNet = 3
    AioMax = 2
    Faults <- NoFaults
INVARIANTS CaptureCanEnd InSync
PROPERTIES DragKeepsControl NoStrayDrop
