----------------------------- MODULE KvmTarget ------------------------------
(***************************************************************************)
(* Where the datagrams of the preview application go: Preview sends,       *)
(* Retarget changes g_kvmAddr, which KvmSend reads at each sendto, and     *)
(* PingMonitor watches the target and ends the application.  What the      *)
(* network and a board do with a datagram is left to KvmInput; here a      *)
(* board is about to hold what the last datagrams sent to it say.          *)
(***************************************************************************)
EXTENDS Preview, PingMonitor

CONSTANT Together   \* bound: a behaviour has both the ping thread and input

ASSUME KvmTargetAssumption == Together \in BOOLEAN

VARIABLES
    boards,    \* what each endpoint has been told last, per device
    hasty      \* history: retargeted while a grab signalled, or ended then or in control

targetVars == <<boards, hasty>>
vars       == <<previewVars, net, retargetVars, pingVars, targetVars>>

Held     == [mods : SUBSET Mods, keys : SUBSET Keys, btns : SUBSET Buttons]
Released == [mods |-> {}, keys |-> {}, btns |-> {}]

Init ==
    /\ PreviewInit /\ net = <<>>
    /\ RetargetInit /\ PingInit
    /\ boards = [e \in Endpoint |-> Released]
    /\ hasty = FALSE

\* What h becomes when datagram p has arrived.
Told(h, p) ==
    IF p.kind = "kb" THEN [h EXCEPT !.mods = p.mods, !.keys = p.keys]
                     ELSE [h EXCEPT !.btns = p.btns]

\* KvmSend of what a step has appended to net: none, one or two datagrams.
KvmSend ==
    LET n == Len(net') - Len(net)
        h == IF n = 0 THEN boards[addr] ELSE Told(boards[addr], net'[Len(net) + 1])
    IN  boards' = [boards EXCEPT ![addr] =
                     IF n = 2 THEN Told(h, net'[Len(net) + 2]) ELSE h]

\* The window thread dispatches input only in main's loop: the dialog disables
\* the window, but WM_MOUSELEAVE is posted and comes through its loop too.
WindowInput ==
    \/ ui = "window" /\ (Together \/ thread = "none") /\ UserStep
    \/ Dispatching /\ MouseLeave

\* The workers go on until the process ends.
WorkerTurn == ui # "gone" /\ \E w \in Workers : GrabWorker(w)

PreviewStep ==
    /\ WindowInput \/ WorkerTurn \/ PointerCrosses \/ PostLeave \/ LoseMouseCapture
    /\ KvmSend
    /\ UNCHANGED <<retargetVars, pingVars, hasty>>

\* The datagram at the head of net has left.
Arrive ==
    /\ net # <<>> /\ net' = Tail(net)
    /\ UNCHANGED <<previewVars, retargetVars, pingVars, targetVars>>

\* Variant: the key is looked at before g_capture is.
OpenOptionsAlways ==
    /\ InputTurn
    /\ ShowKvmOptions
    /\ UNCHANGED <<previewVars, net, pingVars, targetVars>>

\* The key O outside control, and the menu of the title bar, which the pointer
\* reaches by leaving the client area: that has ended control, if it was tracked.
OpenOptions ==
    /\ InputTurn /\ (capture => "track" \in Faults)
    /\ ShowKvmOptions
    /\ UNCHANGED <<previewVars, net, pingVars, targetVars>>

Options ==
    /\ RetargetStep
    /\ hasty' = (hasty \/ (ui' = "entered" /\ Signalling))
    /\ UNCHANGED <<previewVars, net, pingVars, boards>>

\* WM_CLOSE, from ESC or a menu outside control and from the system at any
\* time: main ends, and the workers with it.  Nothing is released.
Exit ==
    /\ End
    /\ hasty' = (hasty \/ (ui' = "gone" /\ (Signalling \/ capture)))
    /\ UNCHANGED <<previewVars, net, boards>>

PingStep == PingThreadProc /\ UNCHANGED <<previewVars, net, targetVars>>

Next == PreviewStep \/ Arrive \/ OpenOptions \/ Options \/ Exit \/ PingStep

\* The ping thread goes on; the user need not do anything.
Fairness == WF_vars(PingStep)

Spec     == Init /\ [][Next]_vars
FairSpec == Spec /\ Fairness

-----------------------------------------------------------------------------
(* Properties                                                              *)

\* Every variable has its type.
TypeOK ==
    /\ PreviewTypeOK /\ RetargetTypeOK /\ PingTypeOK
    /\ net \in Seq(Packet) /\ Len(net) <= MaxNet
    /\ boards \in [Endpoint -> Held]
    /\ hasty \in BOOLEAN

\* No board is left with anything held: the ones the program has turned away
\* from never, the present one once control is off and no grab signals, also
\* when the program has ended.  Excepted are histories in which the target was
\* changed, or the program ended, in the fraction of a second a grab signals,
\* and those that the system ended in the middle of control.
NobodyLeftHeld ==
    ~hasty => /\ \A e \in Endpoint \ {addr} : boards[e] = Released
              /\ ~capture /\ ~Signalling => boards[addr] = Released
=============================================================================
