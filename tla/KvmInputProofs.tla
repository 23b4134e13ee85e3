--------------------------- MODULE KvmInputProofs ---------------------------
(***************************************************************************)
(* What TLAPS proves of KvmInput, for any sets of keys, modifiers, buttons *)
(* and worker threads and any queue bounds: types, the tracking of         *)
(* WM_MOUSELEAVE and that leaving ends control, when control may end       *)
(* during a drag, and who sends.                                           *)
(***************************************************************************)
EXTENDS KvmInput, SequenceTheorems, TLAPS

USE WireAssumption, PreviewAssumption, HidDaemonAssumption

-----------------------------------------------------------------------------
(* Types                                                                   *)

\* A datagram sent keeps the type and bound of net.
LEMMA SendType ==
  ASSUME net \in Seq(Packet), Len(net) <= MaxNet, NEW p \in Packet, Send(p)
  PROVE  net' \in Seq(Packet) /\ Len(net') <= MaxNet
  BY DEF Send

\* So do two.
LEMMA SendTwoType ==
  ASSUME net \in Seq(Packet), NEW p \in Packet, NEW q \in Packet, SendTwo(p, q)
  PROVE  net' \in Seq(Packet) /\ Len(net') <= MaxNet
<1>1. Append(net, p) \in Seq(Packet) /\ Len(Append(net, p)) = Len(net) + 1
  OBVIOUS
<1>2. QED  BY <1>1 DEF SendTwo

\* The two kinds of packet.
LEMMA PacketTypes ==
  /\ \A m \in SUBSET Mods, ks \in SUBSET Keys : KbPacket(m, ks) \in Packet
  /\ \A b \in SUBSET Buttons, g \in BOOLEAN : MousePacket(b, g) \in Packet
  BY DEF KbPacket, MousePacket, Packet

\* Types: ReleaseAllInput.
LEMMA ReleaseType ==
  ASSUME TypeOK, ReleaseAllInput
  PROVE  /\ mods' = {} /\ keys' = {} /\ btns' = {}
         /\ net' \in Seq(Packet) /\ Len(net') <= MaxNet
<1>1. KbPacket({}, {}) \in Packet /\ MousePacket({}, FALSE) \in Packet
  BY PacketTypes
<1>2. net \in Seq(Packet) /\ SendTwo(KbPacket({}, {}), MousePacket({}, FALSE))
  BY DEF TypeOK, ReleaseAllInput
<1>3. QED  BY <1>1, <1>2, SendTwoType DEF ReleaseAllInput

\* Types: SendMouse.
LEMMA MouseType ==
  ASSUME TypeOK, btns' \in SUBSET Buttons, SendMouse
  PROVE  net' \in Seq(Packet) /\ Len(net') <= MaxNet
<1>1. MousePacket(btns', FALSE) \in Packet
  BY PacketTypes
<1>2. QED  BY <1>1, SendType DEF TypeOK, SendMouse

\* Types: SendKeyboard.
LEMMA KeyboardType ==
  ASSUME TypeOK, mods' \in SUBSET Mods, keys' \in SUBSET Keys, SendKeyboard
  PROVE  net' \in Seq(Packet) /\ Len(net') <= MaxNet
<1>1. KbPacket(mods', keys') \in Packet
  BY PacketTypes
<1>2. QED  BY <1>1, SendType DEF TypeOK, SendKeyboard

\* Types: the steps of the application.
LEMMA PreviewTypes ==
  ASSUME TypeOK, PreviewNext, UNCHANGED <<daemonVars, targetVars>>
  PROVE  TypeOK'
<1> SUFFICES PreviewTypeOK' /\ net' \in Seq(Packet) /\ Len(net') <= MaxNet
  BY DEF TypeOK, DaemonTypeOK, daemonVars, targetVars
<1> USE DEF PreviewTypeOK
<1>0. TypeOK /\ PreviewTypeOK /\ net \in Seq(Packet) /\ Len(net) <= MaxNet
  BY DEF TypeOK
<1>1. CASE BeginCapture
  BY <1>0, <1>1, ReleaseType DEF BeginCapture, ArmLeaveTracking
<1>2. CASE MouseLeave
  BY <1>0, <1>2, ReleaseType DEF MouseLeave, EndCapture
<1>3. CASE MouseMove
  BY <1>0, <1>3, MouseType DEF MouseMove, ArmLeaveTracking
<1>4. CASE MouseWheel
  BY <1>0, <1>4, MouseType DEF MouseWheel, previewVars, uiVars, winVars
<1>5. CASE ForwardKey
  <2>1. mods' \in SUBSET Mods /\ keys' \in SUBSET Keys
    BY <1>0, <1>5 DEF ForwardKey, KeyDown, KeyUp
  <2>2. QED  BY <1>0, <1>5, <2>1, KeyboardType DEF ForwardKey, winVars
<1>6. ASSUME NEW b \in Buttons, ButtonDown(b)
      PROVE  PreviewTypeOK' /\ net' \in Seq(Packet) /\ Len(net') <= MaxNet
  BY <1>0, <1>6, MouseType DEF ButtonDown
<1>7. ASSUME NEW b \in Buttons, ButtonUp(b)
      PROVE  PreviewTypeOK' /\ net' \in Seq(Packet) /\ Len(net') <= MaxNet
  BY <1>0, <1>7, MouseType DEF ButtonUp
<1>8. CASE StartReverseGrab
  BY <1>0, <1>8 DEF StartReverseGrab, WorkerStep
<1>9. ASSUME NEW w \in Workers, GrabWorker(w)
      PROVE  PreviewTypeOK' /\ net' \in Seq(Packet) /\ Len(net') <= MaxNet
  <2>1. /\ KbPacket({}, {Esc}) \in Packet /\ KbPacket({}, {}) \in Packet
        /\ KbPacket(HotMods, {Hot}) \in Packet /\ MousePacket({}, TRUE) \in Packet
    BY PacketTypes
  <2>2. ASSUME NEW s, NEW t \in WorkerStep, NEW p \in Packet, WorkerSend(w, s, p, t)
        PROVE  PreviewTypeOK' /\ net' \in Seq(Packet) /\ Len(net') <= MaxNet
    BY <1>0, <2>2, SendType DEF WorkerSend, uiVars, winVars
  <2>3. QED  BY <1>9, <2>1, <2>2 DEF GrabWorker, WorkerStep
<1>10. CASE PointerCrosses \/ PostLeave \/ LoseMouseCapture
  BY <1>0, <1>10 DEF PointerCrosses, PostLeave, LoseMouseCapture, uiVars
<1>11. QED
  BY <1>1, <1>2, <1>3, <1>4, <1>5, <1>6, <1>7, <1>8, <1>9, <1>10 DEF PreviewNext, UserStep

\* Types: the steps of the daemon and the target.
LEMMA DaemonTypes ==
  ASSUME TypeOK, DaemonNext, UNCHANGED previewVars
  PROVE  TypeOK'
<1> SUFFICES /\ DaemonTypeOK' /\ Len(aio') <= AioMax
             /\ net' \in Seq(Packet) /\ Len(net') <= MaxNet
  BY DEF TypeOK, PreviewTypeOK, previewVars, uiVars, winVars
<1> USE DEF TypeOK, DaemonTypeOK, targetVars
<1>1. CASE Receive
  <2>1. Head(net) \in Packet /\ net' \in Seq(Packet) /\ Len(net') <= MaxNet
    BY <1>1 DEF Receive
  <2>2. aio' \in Seq(Packet) /\ Len(aio') <= AioMax
    BY <1>1, <2>1, HidDaemonAssumption DEF Receive, Submit, EndpointFull, SubmitAIO
  <2>3. QED  BY <1>1, <2>1, <2>2 DEF Receive
<1>2. CASE Poll
  <2>1. /\ Head(aio) \in Packet
        /\ aio' \in Seq(Packet) /\ Len(aio') <= AioMax
        /\ UNCHANGED <<up, enabled, net>>
    BY <1>2 DEF Poll
  <2>2. CASE Head(aio).kind = "kb"
    BY <1>2, <2>1, <2>2 DEF Poll, Packet
  <2>3. CASE Head(aio).kind = "mouse"
    BY <1>2, <2>1, <2>3 DEF Poll, Packet, DragAfter
  <2>4. Head(aio).kind = "kb" \/ Head(aio).kind = "mouse"
    BY <2>1 DEF Packet
  <2>5. QED  BY <2>2, <2>3, <2>4
<1>3. CASE Disable \/ Stop
  <2>0. <<>> \in Seq(Packet) /\ Len(<<>>) = 0
    BY EmptySeq
  <2>1. aio' = <<>>
    BY <1>3 DEF Disable, Stop
  <2>2. aio' \in Seq(Packet) /\ Len(aio') <= AioMax
    BY <2>0, <2>1, HidDaemonAssumption
  <2>3. UNCHANGED <<targetVars, net>> /\ up' \in BOOLEAN /\ enabled' \in BOOLEAN
    BY <1>3 DEF Disable, Stop
  <2>4. QED  BY <2>2, <2>3
<1>4. CASE Enable \/ Start
  BY <1>4 DEF Enable, Start
<1>5. QED  BY <1>1, <1>2, <1>3, <1>4 DEF DaemonNext

\* The network makes a sequence of datagrams no longer.
LEMMA LoseType ==
  ASSUME net \in Seq(Packet), Lose
  PROVE  net' \in Seq(Packet) /\ Len(net') = Len(net) - 1
<1>1. PICK i \in 1 .. Len(net) :
         net' = SubSeq(net, 1, i - 1) \o SubSeq(net, i + 1, Len(net))
  BY DEF Lose
<1> DEFINE before == SubSeq(net, 1, i - 1)
           after  == SubSeq(net, i + 1, Len(net))
<1>2. before \in Seq(Packet) /\ Len(before) = i - 1
  BY <1>1
<1>3. after \in Seq(Packet) /\ Len(after) = Len(net) - i
  BY <1>1
<1>4. net' = before \o after
  BY <1>1
<1> HIDE DEF before, after
<1>5. before \o after \in Seq(Packet) /\ Len(before \o after) = Len(before) + Len(after)
  BY <1>2, <1>3, ConcatProperties
<1>6. Len(before) + Len(after) = Len(net) - 1
  BY <1>1, <1>2, <1>3
<1>7. QED  BY <1>4, <1>5, <1>6

\* Types: two datagrams change places.
LEMMA OvertakeType ==
  ASSUME net \in Seq(Packet), Overtake
  PROVE  net' \in Seq(Packet) /\ Len(net') = Len(net)
<1>1. PICK i \in 1 .. Len(net) - 1 :
         net' = [j \in DOMAIN net |->
                   CASE j = i     -> net[i + 1]
                     [] j = i + 1 -> net[i]
                     [] OTHER     -> net[j]]
  BY DEF Overtake
<1>2. DOMAIN net = 1 .. Len(net) /\ net \in [1 .. Len(net) -> Packet] /\ Len(net) \in Nat
  OBVIOUS
<1>3. net[i] \in Packet /\ net[i + 1] \in Packet
  BY <1>1, <1>2
<1>4. net' \in [1 .. Len(net) -> Packet]
  BY <1>1, <1>2, <1>3
<1>5. net' \in Seq(Packet)
  BY <1>2, <1>4, SeqDef
<1>6. QED  BY <1>2, <1>4, <1>5, LenProperties

\* Types: the steps of the network.
LEMMA NetworkTypes ==
  ASSUME TypeOK, NetworkStep
  PROVE  TypeOK' /\ ~(Len(net') > Len(net))
<1>1. net \in Seq(Packet) /\ Len(net) \in Nat /\ Len(net) <= MaxNet
  BY DEF TypeOK
<1>2. net' \in Seq(Packet) /\ (Len(net') = Len(net) - 1 \/ Len(net') = Len(net))
  BY <1>1, LoseType, OvertakeType DEF NetworkStep
<1>3. Len(net') <= MaxNet /\ ~(Len(net') > Len(net))
  BY <1>1, <1>2, WireAssumption
<1>4. PreviewTypeOK' /\ DaemonTypeOK' /\ Len(aio') <= AioMax
  BY DEF TypeOK, PreviewTypeOK, DaemonTypeOK, NetworkStep, previewVars, uiVars, winVars,
         daemonVars, targetVars
<1>5. QED  BY <1>2, <1>3, <1>4 DEF TypeOK

\* Every variable keeps its type and every queue its bound, whatever fails.
THEOREM Typing == Spec => []TypeOK
<1>1. Init => TypeOK
  <2>1. Init => PreviewTypeOK
    BY DEF Init, PreviewInit, PreviewTypeOK, WorkerStep
  <2>2. Init => DaemonTypeOK
    BY DEF Init, DaemonInit, DaemonTypeOK
  <2>3. Init => net \in Seq(Packet) /\ Len(net) <= MaxNet /\ Len(aio) <= AioMax
    BY DEF Init, DaemonInit
  <2>4. QED  BY <2>1, <2>2, <2>3 DEF TypeOK
<1>2. TypeOK /\ [Next]_vars => TypeOK'
  <2>1. ASSUME TypeOK, UNCHANGED vars PROVE TypeOK'
    BY <2>1 DEF TypeOK, PreviewTypeOK, DaemonTypeOK, vars, previewVars, uiVars, winVars,
                daemonVars, targetVars
  <2>2. QED
    BY <2>1, PreviewTypes, DaemonTypes, NetworkTypes DEF Next, PreviewStep, DaemonStep
<1>3. QED  BY <1>1, <1>2, PTL DEF Spec

-----------------------------------------------------------------------------
(* WM_MOUSELEAVE                                                           *)

\* LeaveTracked is inductive.
LEMMA TrackedStep ==
  ASSUME TypeOK, LeaveTracked, PreviewNext
  PROVE  LeaveTracked'
<1>0. /\ tracking \in BOOLEAN /\ armed \in BOOLEAN /\ leaveMsg \in BOOLEAN
      /\ tracking' = tracking /\ armed' = armed /\ leaveMsg' = leaveMsg => LeaveTracked'
  BY DEF TypeOK, PreviewTypeOK, LeaveTracked
<1>1. CASE BeginCapture \/ MouseMove
  BY <1>0, <1>1 DEF BeginCapture, MouseMove, ArmLeaveTracking, InputTurn, LeaveTracked
<1>2. CASE MouseLeave
  BY <1>0, <1>2 DEF MouseLeave, LeaveTracked
<1>3. CASE PostLeave
  BY <1>0, <1>3 DEF PostLeave, LeaveTracked, uiVars
<1>4. CASE MouseWheel \/ ForwardKey \/ StartReverseGrab \/ PointerCrosses \/ LoseMouseCapture
  BY <1>0, <1>4 DEF MouseWheel, ForwardKey, StartReverseGrab, PointerCrosses,
              LoseMouseCapture, previewVars, uiVars, winVars
<1>5. ASSUME NEW b \in Buttons, ButtonDown(b) \/ ButtonUp(b)
      PROVE  LeaveTracked'
  BY <1>0, <1>5 DEF ButtonDown, ButtonUp
<1>6. ASSUME NEW w \in Workers, GrabWorker(w)
      PROVE  LeaveTracked'
  BY <1>0, <1>6 DEF GrabWorker, WorkerSend, uiVars, winVars
<1>7. QED  BY <1>1, <1>2, <1>3, <1>4, <1>5, <1>6 DEF PreviewNext, UserStep

\* g_tracking is right about the window system, even when TrackMouseEvent
\* fails.
THEOREM Tracking == Spec => []LeaveTracked
<1>1. Init => LeaveTracked
  BY DEF Init, PreviewInit, LeaveTracked
<1>2. TypeOK /\ LeaveTracked /\ [Next]_vars => LeaveTracked'
  <2>1. ASSUME LeaveTracked, UNCHANGED previewVars PROVE LeaveTracked'
    BY <2>1 DEF LeaveTracked, previewVars, uiVars, winVars
  <2>2. QED
    BY <2>1, TrackedStep DEF Next, PreviewStep, DaemonStep, NetworkStep, vars
<1>3. QED  BY <1>1, <1>2, Typing, PTL DEF Spec

\* As long as TrackMouseEvent succeeds, control is never on with the program
\* deaf to the pointer leaving its window.
THEOREM CanEnd == ASSUME "track" \notin Faults PROVE Spec => []CaptureCanEnd
<1> DEFINE Armed == capture => tracking
<1>1. Init => Armed
  BY DEF Init, PreviewInit
<1>2. Armed /\ [Next]_vars => Armed'
  <2> SUFFICES ASSUME Armed, [Next]_vars PROVE Armed'
    OBVIOUS
  <2>1. CASE UNCHANGED previewVars
    BY <2>1 DEF previewVars, uiVars
  <2>2. CASE BeginCapture \/ MouseMove
    BY <2>2 DEF BeginCapture, MouseMove, ArmLeaveTracking
  <2>3. CASE MouseLeave
    BY <2>3 DEF MouseLeave, EndCapture
  <2>4. CASE MouseWheel \/ ForwardKey \/ StartReverseGrab
             \/ PointerCrosses \/ PostLeave \/ LoseMouseCapture
    BY <2>4 DEF MouseWheel, ForwardKey, StartReverseGrab, PointerCrosses, PostLeave,
                LoseMouseCapture, previewVars, uiVars
  <2>5. ASSUME NEW b \in Buttons, ButtonDown(b) \/ ButtonUp(b) PROVE Armed'
    BY <2>5 DEF ButtonDown, ButtonUp
  <2>6. ASSUME NEW w \in Workers, GrabWorker(w) PROVE Armed'
    BY <2>6 DEF GrabWorker, WorkerSend, uiVars
  <2>7. QED
    BY <2>1, <2>2, <2>3, <2>4, <2>5, <2>6
       DEF Next, PreviewStep, PreviewNext, UserStep, DaemonStep, NetworkStep, vars
<1>3. LeaveTracked /\ Armed => CaptureCanEnd
  BY DEF LeaveTracked, CaptureCanEnd
<1>4. QED  BY <1>1, <1>2, <1>3, Tracking, PTL DEF Spec

\* A WM_MOUSELEAVE goes only when it is handled, and that ends control.
LEMMA LeaveEnds ==
  ASSUME [Next]_vars, leaveMsg, ~leaveMsg'
  PROVE  ~capture'
<1>1. ~UNCHANGED leaveMsg
  OBVIOUS
<1>2. MouseLeave
  <2>1. ~(DaemonStep \/ NetworkStep \/ UNCHANGED vars)
    BY <1>1 DEF DaemonStep, NetworkStep, vars, previewVars, winVars
  <2>2. ~(BeginCapture \/ MouseMove \/ MouseWheel \/ ForwardKey \/ StartReverseGrab)
    BY <1>1 DEF BeginCapture, MouseMove, MouseWheel, ForwardKey, StartReverseGrab, previewVars, winVars
  <2>3. ~\E b \in Buttons : ButtonDown(b) \/ ButtonUp(b)
    BY <1>1 DEF ButtonDown, ButtonUp
  <2>4. ~\E w \in Workers : GrabWorker(w)
    BY <1>1 DEF GrabWorker, WorkerSend, winVars
  <2>5. ~(PointerCrosses \/ PostLeave \/ LoseMouseCapture)
    BY DEF PointerCrosses, PostLeave, LoseMouseCapture
  <2>6. QED  BY <2>1, <2>2, <2>3, <2>4, <2>5 DEF Next, PreviewStep, PreviewNext, UserStep
<1>3. QED  BY <1>2 DEF MouseLeave, EndCapture

\* WM_MOUSELEAVE and ArmLeaveTracking: if TrackMouseEvent succeeds, tracking
\* that is due fires and the window thread comes to a posted message, moving out
\* of the window without a button held ends remote control.  Of the assumptions
\* the first is the fairness of PostLeave with its ENABLED written out, the
\* second what the fairness of MouseLeave is for.
THEOREM Leaving ==
  ASSUME "track" \notin Faults
  PROVE  /\ Spec
         /\ <>[](armed /\ ~inside /\ ~mouseCap)
               => []<><<PostLeave /\ UNCHANGED <<daemonVars, targetVars>>>>_vars
         /\ leaveMsg ~> ~leaveMsg
         => LeaveReleases
<1>1. CaptureCanEnd => (capture => armed \/ leaveMsg)
  BY DEF CaptureCanEnd
<1>2. [Next]_vars /\ leaveMsg /\ ~leaveMsg' => ~capture'
  BY LeaveEnds
<1>3. PostLeave => leaveMsg'
  BY DEF PostLeave
<1>4. QED  BY <1>1, <1>2, <1>3, CanEnd, PTL DEF Spec, LeaveReleases

-----------------------------------------------------------------------------
(* The drag-out gesture                                                    *)

\* A button held while controlling holds the mouse capture too, and then
\* WM_MOUSELEAVE is not on its way.
DragHeld == capture /\ btns # {} => mouseCap /\ ~leaveMsg

\* DragHeld is inductive.
LEMMA DragHeldStep ==
  ASSUME "steal" \notin Faults, DragHeld, [Next]_vars
  PROVE  DragHeld'
<1> USE DEF DragHeld
<1>1. CASE UNCHANGED previewVars
  BY <1>1 DEF previewVars, uiVars, winVars
<1>2. CASE BeginCapture
  BY <1>2 DEF BeginCapture, ReleaseAllInput
<1>3. CASE MouseMove \/ MouseWheel \/ ForwardKey
  BY <1>3 DEF MouseMove, MouseWheel, ForwardKey, previewVars, uiVars, winVars
<1>4. ASSUME NEW b \in Buttons, ButtonDown(b) \/ ButtonUp(b) PROVE DragHeld'
  BY <1>4 DEF ButtonDown, ButtonUp, InputTurn
<1>5. CASE StartReverseGrab \/ MouseLeave
  BY <1>5 DEF StartReverseGrab, MouseLeave, EndCapture
<1>6. ASSUME NEW w \in Workers, GrabWorker(w) PROVE DragHeld'
  BY <1>6 DEF GrabWorker, WorkerSend, uiVars, winVars
<1>7. CASE PointerCrosses \/ PostLeave \/ LoseMouseCapture
  BY <1>7 DEF PointerCrosses, PostLeave, LoseMouseCapture, uiVars
<1>8. QED
  BY <1>1, <1>2, <1>3, <1>4, <1>5, <1>6, <1>7
     DEF Next, PreviewStep, PreviewNext, UserStep, DaemonStep, NetworkStep, vars

\* The only step that ends control with a button held starts a GrabWorker.
LEMMA DragStep ==
  ASSUME "thread" \notin Faults, TypeOK, DragHeld, Next, capture, ~capture', btns # {}
  PROVE  worker' # worker
<1>1. CASE StartReverseGrab
  <2>1. PICK w \in Workers :
           worker[w] = "idle" /\ worker' = [worker EXCEPT ![w] = "esc"]
    BY <1>1 DEF StartReverseGrab
  <2>2. worker'[w] = "esc"
    BY <2>1 DEF TypeOK, PreviewTypeOK
  <2>3. QED  BY <2>1, <2>2
<1>2. ~MouseLeave
  BY DEF MouseLeave, DragHeld
<1>3. ~(BeginCapture \/ MouseMove \/ MouseWheel \/ ForwardKey)
  BY DEF BeginCapture, MouseMove, MouseWheel, ForwardKey, previewVars, uiVars
<1>4. ~\E b \in Buttons : ButtonDown(b) \/ ButtonUp(b)
  BY DEF ButtonDown, ButtonUp
<1>5. ~\E w \in Workers : GrabWorker(w)
  BY DEF GrabWorker, WorkerSend, uiVars
<1>6. ~(PointerCrosses \/ PostLeave \/ LoseMouseCapture) /\ ~UNCHANGED previewVars
  BY DEF PointerCrosses, PostLeave, LoseMouseCapture, previewVars, uiVars
<1>7. QED
  BY <1>1, <1>2, <1>3, <1>4, <1>5, <1>6
     DEF Next, PreviewStep, PreviewNext, UserStep, DaemonStep, NetworkStep

\* As long as nobody takes the mouse capture away and threads can be created,
\* control with a button held ends only by handing over to a GrabWorker.
THEOREM DragKept ==
  ASSUME "steal" \notin Faults, "thread" \notin Faults
  PROVE  Spec => DragKeepsControl
<1>1. Init => DragHeld
  BY DEF Init, PreviewInit, DragHeld
<1>2. DragHeld /\ [Next]_vars => DragHeld'
  BY DragHeldStep
<1>3. TypeOK /\ DragHeld /\ [Next]_vars
        => [capture /\ ~capture' /\ btns # {} => worker' # worker]_vars
  BY DragStep
<1>4. QED  BY <1>1, <1>2, <1>3, Typing, PTL DEF Spec, DragKeepsControl

\* Only a controlling window and a GrabWorker send, whatever fails.
THEOREM Quiet == Spec => NothingLeaks
<1> DEFINE Speaks == Len(net') > Len(net) => capture \/ capture' \/ Signalling
<1>1. TypeOK /\ Next => Speaks
  <2> SUFFICES ASSUME TypeOK, Next, ~capture, ~capture', ~Signalling
               PROVE  ~(Len(net') > Len(net))
    OBVIOUS
  <2>0. net \in Seq(Packet) /\ Len(net) \in Nat
    BY DEF TypeOK
  <2>1. CASE UNCHANGED net
    BY <2>0, <2>1
  <2>2. CASE Receive
    BY <2>0, <2>2 DEF Receive
  <2>3. CASE NetworkStep
    BY <2>3, NetworkTypes
  <2>4. ~\E w \in Workers : GrabWorker(w)
    BY DEF GrabWorker, WorkerSend, Signalling
  <2>5. CASE MouseLeave
    BY <2>0, <2>5 DEF MouseLeave, EndCapture
  <2>6. QED
    BY <2>1, <2>2, <2>3, <2>4, <2>5
       DEF Next, PreviewStep, PreviewNext, UserStep, DaemonStep, DaemonNext, Poll, Disable,
           Enable, Stop, Start, BeginCapture, MouseMove, MouseWheel, ForwardKey, ButtonDown,
           ButtonUp, StartReverseGrab, PointerCrosses, PostLeave, LoseMouseCapture
<1>2. TypeOK /\ [Next]_vars => [Speaks]_vars
  BY <1>1
<1>3. QED  BY <1>2, Typing, PTL DEF Spec, NothingLeaks
=============================================================================
