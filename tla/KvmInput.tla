------------------------------ MODULE KvmInput ------------------------------
(***************************************************************************)
(* Remote control end to end: the preview application, the UDP path and    *)
(* the HID daemon of the board, down to the keys and buttons the target    *)
(* believes are held.                                                      *)
(***************************************************************************)
EXTENDS Preview, HidDaemon

vars == <<previewVars, daemonVars, targetVars, net>>

Init == PreviewInit /\ DaemonInit /\ net = <<>>

PreviewStep == PreviewNext /\ UNCHANGED <<daemonVars, targetVars>>
DaemonStep  == DaemonNext /\ UNCHANGED previewVars
NetworkStep == (Lose \/ Overtake) /\ UNCHANGED <<previewVars, daemonVars, targetVars>>

Next == PreviewStep \/ DaemonStep \/ NetworkStep

\* The threads of the application, the daemon's loop, the polling target and
\* the window system go on; the user, the pointer and every fault may not.
Fairness ==
    /\ \A w \in Workers : WF_vars(GrabWorker(w) /\ UNCHANGED <<daemonVars, targetVars>>)
    /\ WF_vars(MouseLeave /\ UNCHANGED <<daemonVars, targetVars>>)
    /\ WF_vars(PostLeave /\ UNCHANGED <<daemonVars, targetVars>>)
    /\ WF_vars(Receive /\ UNCHANGED previewVars)
    /\ WF_vars(Poll /\ UNCHANGED previewVars)

Spec     == Init /\ [][Next]_vars
FairSpec == Spec /\ Fairness

-----------------------------------------------------------------------------
(* What the target will hold once everything under way has been delivered *)

Reports == aio \o net

OfKind(k)        == {i \in DOMAIN Reports : Reports[i].kind = k}
LastReport(k, i) == i \in OfKind(k) /\ \A j \in OfKind(k) : j <= i

KeyboardWillBe(m, ks) ==
    /\ OfKind("kb") = {} => tmods = m /\ tkeys = ks
    /\ \A i \in DOMAIN Reports :
          LastReport("kb", i) => Reports[i].mods = m /\ Reports[i].keys = ks

ButtonsWillBe(b) ==
    /\ OfKind("mouse") = {} => tbtns = b
    /\ \A i \in DOMAIN Reports : LastReport("mouse", i) => Reports[i].btns = b

-----------------------------------------------------------------------------
(* Properties                                                              *)

\* Every variable has its type, and the queues keep to their bounds.
TypeOK ==
    /\ PreviewTypeOK /\ DaemonTypeOK
    /\ net \in Seq(Packet) /\ Len(net) <= MaxNet
    /\ Len(aio) <= AioMax

\* The program's belief that WM_MOUSELEAVE is armed is right: the system
\* tracks the pointer or has the message posted, never both and never neither
\* (g_tracking of ArmLeaveTracking and WM_MOUSELEAVE).
LeaveTracked ==
    /\ tracking = (armed \/ leaveMsg)
    /\ ~(armed /\ leaveMsg)

\* While remote control is on, leaving the window will be noticed: nothing
\* else ends it (BeginCapture, WM_MOUSELEAVE, StartReverseGrab).
CaptureCanEnd == capture => armed \/ leaveMsg

\* On a network and a board that lose nothing, with no grab signalling, the
\* target ends up holding exactly the modifiers, keys and buttons of g_mods,
\* g_keys and g_btns: every handler that changes them sends them, and a
\* finished GrabWorker leaves nothing behind.
InSync ==
    ~Signalling => KeyboardWillBe(mods, keys) /\ ButtonsWillBe(btns)

\* With control off and no grab signalling everything is about to be released
\* on the target, even when the user took control back while a GrabWorker
\* still paced its packets among those of the window.
ReleasedAfterControl ==
    ~capture /\ ~Signalling => KeyboardWillBe({}, {}) /\ ButtonsWillBe({})

\* A step in which reports are lost: a datagram lost or overtaken, a report
\* dropped, AIO blocks cancelled, or a grab with no thread to send its releases.
Mishap ==
    \/ Len(net') < Len(net) /\ aio' = aio
    \/ Len(net') = Len(net) /\ net' # net
    \/ ~enabled'
    \/ capture /\ ~capture' /\ UNCHANGED <<net, worker>>

\* No loss is for good: once nothing more is lost, the next rounds of remote
\* control bring the target back to holding nothing whenever control is off
\* (ReleaseAllInput at both ends of control), whatever the daemon's restarts, the
\* network or a failing CreateThread had left held.
Recovers ==
    <>[][~Mishap]_vars /\ []<>capture /\ []<>~capture => <>[]ReleasedAfterControl

\* A drag is not torn by leaving the window: control that ends with a button
\* held was ended by the drag-out gesture, which hands over to a GrabWorker.
DragKeepsControl ==
    [][capture /\ ~capture' /\ btns # {} => worker' # worker]_vars

\* A GrabWorker's button-up reaches the target after its ESC did: the drag it
\* releases is cancelled, not dropped where the pointer happens to be.
NoStrayDrop ==
    [][ aio # <<>> /\ aio' = Tail(aio) /\ Head(aio).kind = "mouse" /\ Head(aio).grab
        => drag # "live" ]_vars

\* Nothing typed or clicked outside remote control reaches the network: only
\* a handler of a controlling window and a GrabWorker send.
NothingLeaks ==
    [][Len(net') > Len(net) => capture \/ capture' \/ Signalling]_vars

\* Once the user is done with remote control for good the target is left with
\* nothing held, whatever grabs were still signalling.
ReleasedInTheEnd ==
    <>[]~capture => <>[](tmods = {} /\ tkeys = {} /\ tbtns = {})

\* Moving out of the window without a button held ends remote control, unless
\* the pointer comes back or a button goes down first.
LeaveReleases ==
    capture /\ ~inside /\ ~mouseCap ~> ~capture \/ inside \/ mouseCap
=============================================================================
