------------------------------ MODULE Preview -------------------------------
(***************************************************************************)
(* The input side of the preview application, main.cpp: the window         *)
(* procedure that forwards mouse and keyboard while remote control is on,  *)
(* the tracking of WM_MOUSELEAVE that ends it, and the GrabWorker threads  *)
(* that a drag-out gesture starts.  The window procedure runs on one       *)
(* thread, so each message is one step; every Sleep of a worker is a       *)
(* point where the other threads run.                                      *)
(***************************************************************************)
EXTENDS Wire, FiniteSets

CONSTANTS
    NSlots,    \* keys one report can hold (six in the code)
    Workers    \* GrabWorker threads that may exist at once (a bound)

ASSUME PreviewAssumption == NSlots \in Nat \ {0}

VARIABLES
    capture,    \* g_capture: remote control is on
    tracking,   \* g_tracking: the program believes WM_MOUSELEAVE is armed
    mods, keys, \* g_mods, g_keys
    btns,       \* g_btns
    worker,     \* GrabWorker threads: what each sends next
    \* the window system (external)
    mouseCap,   \* GetCapture() == hwnd
    armed,      \* TrackMouseEvent is in force
    leaveMsg,   \* WM_MOUSELEAVE is posted and not yet handled
    inside      \* the pointer is over the client area

uiVars     == <<capture, tracking, mods, keys, btns>>
winVars    == <<mouseCap, armed, leaveMsg, inside>>
previewVars == <<uiVars, winVars, worker>>

WorkerStep == {"idle", "esc", "escUp", "mUp", "hkDown", "hkUp"}

PreviewTypeOK ==
    /\ capture \in BOOLEAN /\ tracking \in BOOLEAN
    /\ mods \in SUBSET Mods /\ keys \in SUBSET Keys /\ btns \in SUBSET Buttons
    /\ worker \in [Workers -> WorkerStep]
    /\ mouseCap \in BOOLEAN /\ armed \in BOOLEAN
    /\ leaveMsg \in BOOLEAN /\ inside \in BOOLEAN

PreviewInit ==
    /\ capture = FALSE /\ tracking = FALSE
    /\ mods = {} /\ keys = {} /\ btns = {}
    /\ worker = [w \in Workers |-> "idle"]
    /\ mouseCap = FALSE /\ armed = FALSE /\ leaveMsg = FALSE
    /\ inside \in BOOLEAN

\* A worker has packets of its grab still to send.
Signalling == \E w \in Workers : worker[w] # "idle"

\* Posted messages are retrieved before input: WM_MOUSELEAVE goes first.
InputTurn == ~leaveMsg

-----------------------------------------------------------------------------
(* Sending                                                                 *)

\* SendKeyboard and SendMouse of the state the step ends in.
SendKeyboard == Send(KbPacket(mods', keys'))
SendMouse    == Send(MousePacket(btns', FALSE))

\* Variant: the buttons are forgotten.
ReleaseKeysOnly ==
    /\ mods' = {} /\ keys' = {} /\ btns' = {}
    /\ Send(KbPacket({}, {}))

\* ReleaseAllInput.  Its two sendto calls are one step: a worker's packet
\* between them belongs to one of the two devices, and going before or after
\* both gives each device the same order of reports.
ReleaseAllInput ==
    /\ mods' = {} /\ keys' = {} /\ btns' = {}
    /\ SendTwo(KbPacket({}, {}), MousePacket({}, FALSE))

\* Variant: the result of TrackMouseEvent is not looked at.
ArmUnchecked ==
    \/ tracking /\ UNCHANGED <<tracking, armed>>
    \/ ~tracking /\ tracking' = TRUE /\ armed' \in IF "track" \in Faults THEN BOOLEAN ELSE {TRUE}

\* ArmLeaveTracking.
ArmLeaveTracking ==
    \/ /\ tracking
       /\ UNCHANGED <<tracking, armed>>
    \/ /\ ~tracking
       /\ tracking' = TRUE /\ armed' = TRUE
    \/ /\ ~tracking /\ "track" \in Faults
       /\ UNCHANGED <<tracking, armed>>

-----------------------------------------------------------------------------
(* Remote control on and off                                               *)

\* Variant: tracking is left to the first mouse move.
BeginCaptureUnarmed ==
    /\ InputTurn /\ ~capture
    /\ Signalling => "reentry" \in Faults
    /\ capture' = TRUE
    /\ ReleaseAllInput
    /\ UNCHANGED <<tracking, armed, mouseCap, leaveMsg, inside, worker>>

\* WM_LBUTTONDBLCLK outside control: BeginCapture.
BeginCapture ==
    /\ InputTurn /\ ~capture
    /\ Signalling => "reentry" \in Faults
    /\ capture' = TRUE
    /\ ReleaseAllInput
    /\ ArmLeaveTracking
    /\ UNCHANGED <<mouseCap, leaveMsg, inside, worker>>

\* EndCapture, with its early return when control is off already.
EndCapture ==
    \/ /\ capture
       /\ capture' = FALSE
       /\ ReleaseAllInput
       /\ mouseCap' = FALSE
    \/ /\ ~capture
       /\ UNCHANGED <<capture, mods, keys, btns, mouseCap, net>>

\* Variant: g_tracking is not reset.
MouseLeaveKeepsTracking ==
    /\ leaveMsg
    /\ leaveMsg' = FALSE
    /\ EndCapture
    /\ UNCHANGED <<tracking, armed, inside, worker>>

\* WM_MOUSELEAVE.
MouseLeave ==
    /\ leaveMsg
    /\ leaveMsg' = FALSE
    /\ tracking' = FALSE
    /\ EndCapture
    /\ UNCHANGED <<armed, inside, worker>>

-----------------------------------------------------------------------------
(* Forwarded input                                                         *)

\* WM_MOUSEMOVE: outside the displayed video only the tracking is renewed.
MouseMove ==
    /\ InputTurn /\ capture
    /\ ArmLeaveTracking
    /\ UNCHANGED <<capture, mods, keys, btns, mouseCap, leaveMsg, inside, worker>>
    /\ SendMouse \/ UNCHANGED net

\* Variant: the test of g_capture is missing.
MouseWheelAlways == InputTurn /\ UNCHANGED previewVars /\ SendMouse

\* WM_MOUSEWHEEL.
MouseWheel ==
    /\ InputTurn /\ capture
    /\ UNCHANGED previewVars
    /\ SendMouse

\* WM_xBUTTONDOWN, and WM_xBUTTONDBLCLK while controlling.
ButtonDown(b) ==
    /\ InputTurn /\ capture
    /\ btns' = btns \cup {b}
    /\ mouseCap' = TRUE
    /\ UNCHANGED <<capture, tracking, mods, keys, armed, leaveMsg, inside, worker>>
    /\ SendMouse

\* Variant: the mouse capture is released with other buttons still held.
ButtonUpReleases(b) ==
    /\ InputTurn /\ capture
    /\ btns' = btns \ {b} /\ mouseCap' = FALSE
    /\ UNCHANGED <<capture, tracking, mods, keys, armed, leaveMsg, inside, worker>>
    /\ SendMouse

\* WM_xBUTTONUP that is no drag-out.  Where the pointer is does not appear
\* in the model: a left button held may go up here or in StartReverseGrab.
ButtonUp(b) ==
    /\ InputTurn /\ capture
    /\ btns' = btns \ {b}
    /\ mouseCap' = (mouseCap /\ btns' # {})
    /\ UNCHANGED <<capture, tracking, mods, keys, armed, leaveMsg, inside, worker>>
    /\ SendMouse

\* KeyDown: no key twice, and a key more than the report holds is dropped.
KeyDown(ks, k) == IF Cardinality(ks) < NSlots THEN ks \cup {k} ELSE ks
KeyUp(ks, k)   == ks \ {k}

\* WM_KEYDOWN, WM_KEYUP of a key of the table or of a modifier: ForwardKey.
ForwardKey ==
    /\ InputTurn /\ capture
    /\ \/ \E k \in Keys : keys' \in {KeyDown(keys, k), KeyUp(keys, k)} /\ mods' = mods
       \/ \E m \in Mods : mods' \in {mods \cup {m}, mods \ {m}} /\ keys' = keys
    /\ UNCHANGED <<capture, tracking, btns, winVars, worker>>
    /\ SendKeyboard

-----------------------------------------------------------------------------
(* Drag-out: the gesture and the thread it starts                          *)

\* Variant: the keys held during the gesture are not cleared.
StartReverseGrabKeepsKeys ==
    /\ InputTurn /\ capture /\ Left \in btns
    /\ capture' = FALSE /\ btns' = {} /\ mouseCap' = FALSE
    /\ \E w \in Workers :
          worker[w] = "idle" /\ worker' = [worker EXCEPT ![w] = "esc"]
    /\ UNCHANGED <<mods, keys, tracking, armed, leaveMsg, inside, net>>

\* WM_LBUTTONUP of a held left button over the letterbox or outside the
\* window: StartReverseGrab.
\* Nothing is sent here; the new GrabWorker sends the releases.
StartReverseGrab ==
    /\ InputTurn /\ capture /\ Left \in btns
    /\ capture' = FALSE
    /\ mods' = {} /\ keys' = {} /\ btns' = {}
    /\ mouseCap' = FALSE
    /\ \/ \E w \in Workers :
             worker[w] = "idle" /\ worker' = [worker EXCEPT ![w] = "esc"]
       \/ "thread" \in Faults /\ UNCHANGED worker
    /\ UNCHANGED <<tracking, armed, leaveMsg, inside, net>>

\* One Sleep and the send after it: worker w is at step s and goes to step t.
WorkerSend(w, s, p, t) ==
    /\ worker[w] = s
    /\ worker' = [worker EXCEPT ![w] = t]
    /\ Send(p)
    /\ UNCHANGED <<uiVars, winVars>>

\* Variants: the button goes up before ESC; the hotkey is never released.
GrabWorkerUpFirst(w) ==
    \/ WorkerSend(w, "esc",    MousePacket({}, TRUE),    "escUp")
    \/ WorkerSend(w, "escUp",  KbPacket({}, {Esc}),      "hkDown")
    \/ WorkerSend(w, "hkDown", KbPacket(HotMods, {Hot}), "hkUp")
    \/ WorkerSend(w, "hkUp",   KbPacket({}, {}),         "idle")

GrabWorkerHotkeyHeld(w) ==
    \/ WorkerSend(w, "esc",    KbPacket({}, {Esc}),      "escUp")
    \/ WorkerSend(w, "escUp",  KbPacket({}, {}),         "mUp")
    \/ WorkerSend(w, "mUp",    MousePacket({}, TRUE),    "hkDown")
    \/ WorkerSend(w, "hkDown", KbPacket(HotMods, {Hot}), "idle")

\* GrabWorker: cancel the target's drag, release the button, press the hotkey.
GrabWorker(w) ==
    \/ WorkerSend(w, "esc",    KbPacket({}, {Esc}),      "escUp")
    \/ WorkerSend(w, "escUp",  KbPacket({}, {}),         "mUp")
    \/ WorkerSend(w, "mUp",    MousePacket({}, TRUE),    "hkDown")
    \/ WorkerSend(w, "hkDown", KbPacket(HotMods, {Hot}), "hkUp")
    \/ WorkerSend(w, "hkUp",   KbPacket({}, {}),         "idle")

-----------------------------------------------------------------------------
(* The window system (external)                                            *)

\* The pointer crosses the border of the client area.
PointerCrosses ==
    /\ inside' = ~inside
    /\ UNCHANGED <<uiVars, mouseCap, armed, leaveMsg, worker, net>>

\* Tracking fires once the pointer is outside and no window holds the mouse.
PostLeave ==
    /\ armed /\ ~inside /\ ~mouseCap
    /\ armed' = FALSE /\ leaveMsg' = TRUE
    /\ UNCHANGED <<uiVars, mouseCap, inside, worker, net>>

\* The system takes the mouse capture away; main.cpp has no handler for it.
LoseMouseCapture ==
    /\ "steal" \in Faults /\ mouseCap
    /\ mouseCap' = FALSE
    /\ UNCHANGED <<uiVars, armed, leaveMsg, inside, worker, net>>

UserStep ==
    \/ BeginCapture
    \/ MouseMove \/ MouseWheel \/ ForwardKey
    \/ \E b \in Buttons : ButtonDown(b) \/ ButtonUp(b)
    \/ StartReverseGrab

PreviewNext ==
    \/ UserStep
    \/ MouseLeave
    \/ \E w \in Workers : GrabWorker(w)
    \/ PointerCrosses \/ PostLeave \/ LoseMouseCapture
=============================================================================
