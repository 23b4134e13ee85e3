-------------------------- MODULE KvmTargetProofs ---------------------------
(***************************************************************************)
(* The ping thread against the dialog and the end of the application, that *)
(* it catches up with the target, and that no board is left with a key or  *)
(* a button held, for any endpoints, keys, buttons and workers.            *)
(***************************************************************************)
EXTENDS KvmTarget, SequenceTheorems, TLAPS

USE WireAssumption, PreviewAssumption, RetargetAssumption

-----------------------------------------------------------------------------
(* The ping thread                                                         *)

\* Once main has told the thread to stop it stays told, and the thread is past
\* its lock by the time the lock is deleted.
StopInv ==
    /\ ui \in {"waiting", "gone"} /\ thread # "none" => ~pingRun
    /\ LockAlive

PingInv == RetargetTypeOK /\ PingTypeOK /\ StaleOnce /\ StopInv

\* The invariant holds when main has started the thread.
LEMMA PingStart == Init => PingInv
  BY DEF Init, RetargetInit, PingInit, PingInv, RetargetTypeOK, PingTypeOK, StaleOnce, StopInv,
         LockAlive, Targets, Endpoint, UiState, ThreadState

\* A step of the thread.
LEMMA ThreadStep == ASSUME PingInv, PingThreadProc PROVE PingInv'
<1> USE DEF PingInv, PingTypeOK, RetargetTypeOK, StaleOnce, StopInv, LockAlive, Dispatching,
            retargetVars, ThreadState
<1>1. CASE PingCheck
  BY <1>1 DEF PingCheck
<1>2. CASE PingCopy
  BY <1>2 DEF PingCopy
<1>3. CASE PingEcho
  BY <1>3 DEF PingEcho
<1>4. CASE PingSleep
  BY <1>4 DEF PingSleep
<1> QED BY <1>1, <1>2, <1>3, <1>4 DEF PingThreadProc

\* A step of the dialog: only ApplyPing ends a change of the target, and it
\* clears the result.
LEMMA DialogStep ==
  ASSUME PingInv, ShowKvmOptions \/ RetargetStep, UNCHANGED pingVars
  PROVE  PingInv'
<1> USE DEF PingInv, PingTypeOK, RetargetTypeOK, StaleOnce, StopInv, LockAlive, Dispatching,
            pingVars, UiState
<1>1. CASE ShowKvmOptions
  BY <1>1 DEF ShowKvmOptions
<1>2. CASE CloseOptions
  BY <1>2 DEF CloseOptions
<1>3. CASE Apply
  BY <1>3 DEF Apply, Targets
<1>4. CASE ApplyPort
  BY <1>4 DEF ApplyPort, Endpoint
<1>5. CASE ApplyAddr
  BY <1>5 DEF ApplyAddr, Endpoint
<1>6. CASE ApplyPing
  BY <1>6 DEF ApplyPing
<1> QED BY <1>1, <1>2, <1>3, <1>4, <1>5, <1>6 DEF RetargetStep

\* A step of main's end.
LEMMA EndStep == ASSUME PingInv, End PROVE PingInv'
<1> USE DEF PingInv, PingTypeOK, RetargetTypeOK, StaleOnce, StopInv, LockAlive, Dispatching,
            pingVars, UiState
<1>1. CASE Quit
  BY <1>1 DEF Quit
<1>2. CASE StopPing
  BY <1>2 DEF StopPing
<1>3. CASE WaitPing
  BY <1>3 DEF WaitPing
<1> QED BY <1>1, <1>2, <1>3 DEF End

\* A step that is none of theirs.
LEMMA OtherStep == ASSUME PingInv, UNCHANGED <<retargetVars, pingVars>> PROVE PingInv'
  BY DEF PingInv, PingTypeOK, RetargetTypeOK, StaleOnce, StopInv, LockAlive, Dispatching,
         pingVars, retargetVars

\* The invariant is inductive.
LEMMA PingNext == PingInv /\ [Next]_vars => PingInv'
<1> SUFFICES ASSUME PingInv, [Next]_vars PROVE PingInv'
  OBVIOUS
<1>1. CASE UNCHANGED vars
  BY <1>1, OtherStep DEF vars
<1>2. CASE PreviewStep \/ Arrive
  BY <1>2, OtherStep DEF PreviewStep, Arrive
<1>3. CASE OpenOptions \/ Options
  BY <1>3, DialogStep DEF OpenOptions, Options
<1>4. CASE Exit
  BY <1>4, EndStep DEF Exit
<1>5. CASE PingStep
  BY <1>5, ThreadStep DEF PingStep
<1> QED BY <1>1, <1>2, <1>3, <1>4, <1>5 DEF Next

\* The invariant holds of every behaviour.
LEMMA PingInvariant == Spec => []PingInv
  BY PingStart, PingNext, PTL DEF Spec

\* ApplyKvmTarget and PingThreadProc: a result of an old target lasts until the
\* next ping is back and no longer.
THEOREM Stale == Spec => []StaleOnce
<1>1. PingInv => StaleOnce
  BY DEF PingInv
<1> QED BY <1>1, PingInvariant, PTL

\* main's cleanup and PingThreadProc: no lock is entered after its deletion.
THEOREM Alive == Spec => []LockAlive
<1>1. PingInv => LockAlive
  BY DEF PingInv, StopInv
<1> QED BY <1>1, PingInvariant, PTL

-----------------------------------------------------------------------------
(* The ping catches up                                                     *)

\* The thread is told to stop at the end of main only, and stops only then.
RunInv ==
    /\ ui \notin {"waiting", "gone"} => pingRun
    /\ thread = "done" => ~pingRun

\* RunInv is inductive.
LEMMA RunStep == ASSUME RunInv, [Next]_vars PROVE RunInv'
<1> USE DEF RunInv
<1>1. CASE UNCHANGED vars
  BY <1>1 DEF vars, retargetVars, pingVars
<1>2. CASE PreviewStep \/ Arrive
  BY <1>2 DEF PreviewStep, Arrive, retargetVars, pingVars
<1>3. CASE OpenOptions \/ Options
  BY <1>3 DEF OpenOptions, Options, ShowKvmOptions, RetargetStep, CloseOptions, Apply, ApplyPort,
              ApplyAddr, ApplyPing, pingVars
<1>4. CASE Exit
  <2>1. CASE StopPing
    <3>1. thread = "none" => UNCHANGED pingRun /\ ui' = "gone" /\ thread' # "done"
      BY <2>1 DEF StopPing
    <3>2. thread # "none" => pingRun' = FALSE /\ ui' = "waiting"
      BY <2>1 DEF StopPing
    <3> QED BY <3>1, <3>2
  <2>2. CASE Quit \/ WaitPing
    BY <2>2 DEF Quit, WaitPing, Dispatching, pingVars
  <2> QED BY <1>4, <2>1, <2>2 DEF Exit, End
<1>5. CASE PingStep
  BY <1>5 DEF PingStep, PingThreadProc, PingCheck, PingCopy, PingEcho, PingSleep, retargetVars
<1> QED BY <1>1, <1>2, <1>3, <1>4, <1>5 DEF Next

\* RunInv holds of every behaviour.
LEMMA RunInvariant == Spec => []RunInv
<1>1. Init => RunInv
  BY DEF Init, PingInit, RunInv
<1> QED BY <1>1, RunStep, PTL DEF Spec

\* What the thread has ahead of it until it shows t, the most first; Astray is
\* an echo of another target under way.
Astray(t)  == thread = "echo" /\ ip # t
Sleeping   == thread = "sleep"
Checking   == thread = "check"
Copying    == thread = "copy"
Asking(t)  == thread = "echo" /\ ip = t
Showing(t) == pingMs = t /\ (thread = "echo" => ip = t)
Settled(t) == Dispatching /\ target = t

\* When the thread can take its next step: the one it may wait for is the lock.
PingReady == thread \in {"check", "echo", "sleep"} \/ (thread = "copy" /\ ~Locked)

\* With the target left alone the thread is somewhere on its way, and ready.
LEMMA OnItsWay ==
  ASSUME NEW t, PingInv, RunInv, Settled(t), thread # "none"
  PROVE  /\ Astray(t) \/ Sleeping \/ Checking \/ Copying \/ Asking(t)
         /\ PingReady
  BY DEF PingInv, PingTypeOK, ThreadState, RunInv, Settled, Dispatching, Locked, Astray, Sleeping,
         Checking, Copying, Asking, PingReady

\* Each of its steps brings t nearer, and what shows t keeps showing it.
LEMMA PingNearer ==
  ASSUME NEW t, RunInv, Settled(t), PingStep
  PROVE  /\ Astray(t) => Sleeping'
         /\ Sleeping => Checking'
         /\ Checking => Copying'
         /\ Copying => Asking(t)'
         /\ Asking(t) => Showing(t)'
         /\ Showing(t) => Showing(t)'
  BY DEF PingStep, PingThreadProc, PingCheck, PingCopy, PingEcho, PingSleep, retargetVars, RunInv,
         Settled, Dispatching, Astray, Sleeping, Checking, Copying, Asking, Showing

\* Others do not disturb it as long as they leave the target alone.
LEMMA PingUndisturbed ==
  ASSUME NEW t, Settled(t), Settled(t)', [Next]_vars, ~PingStep
  PROVE  UNCHANGED <<thread, ip, pingMs>>
<1>1. CASE UNCHANGED vars
  BY <1>1 DEF vars, retargetVars, pingVars
<1>2. CASE PreviewStep \/ Arrive
  BY <1>2 DEF PreviewStep, Arrive, retargetVars, pingVars
<1>3. CASE OpenOptions \/ Options
  BY <1>3 DEF OpenOptions, Options, ShowKvmOptions, RetargetStep, CloseOptions, Apply, ApplyPort,
              ApplyAddr, ApplyPing, pingVars, Settled, Dispatching
<1>4. CASE Exit
  BY <1>4 DEF Exit, End, Quit, StopPing, WaitPing, pingVars, Settled, Dispatching
<1> QED BY <1>1, <1>2, <1>3, <1>4 DEF Next

\* The thread stays created, or not.
LEMMA ThreadKept == ASSUME [Next]_vars, thread = "none" PROVE thread' = "none"
<1>1. CASE UNCHANGED vars
  BY <1>1 DEF vars, pingVars
<1>2. CASE PreviewStep \/ Arrive \/ OpenOptions \/ Options
  BY <1>2 DEF PreviewStep, Arrive, OpenOptions, Options, pingVars
<1>3. CASE Exit
  BY <1>3 DEF Exit, End, Quit, StopPing, WaitPing, pingVars
<1>4. CASE PingStep
  BY <1>4 DEF PingStep, PingThreadProc, PingCheck, PingCopy, PingEcho, PingSleep
<1> QED BY <1>1, <1>2, <1>3, <1>4 DEF Next

\* PingThreadProc against ApplyKvmTarget: if the thread goes on whenever it can,
\* a target that the user leaves alone is the one whose ping is shown for good,
\* whatever pings of others were under way and however often the dialog is
\* opened.  The assumption is Fairness with its ENABLED written out.
THEOREM CatchesUp == Spec /\ (<>[]PingReady => []<><<PingStep>>_vars) => PingCatchesUp
<1>1. ASSUME NEW t \in Targets
      PROVE  Spec /\ (<>[]PingReady => []<><<PingStep>>_vars)
                => (<>[]Settled(t) => <>[](pingMs = t \/ thread = "none"))
  <2>1. PingInv /\ RunInv /\ Settled(t) =>
           \/ thread = "none"
           \/ (Astray(t) \/ Sleeping \/ Checking \/ Copying \/ Asking(t)) /\ PingReady
    BY OnItsWay
  <2>2. RunInv /\ Settled(t) /\ <<PingStep>>_vars =>
           /\ Astray(t) => Sleeping'
           /\ Sleeping => Checking'
           /\ Checking => Copying'
           /\ Copying => Asking(t)'
           /\ Asking(t) => Showing(t)'
    BY PingNearer
  <2>3. RunInv /\ Settled(t) /\ Settled(t)' /\ [Next]_vars =>
           /\ Astray(t) => Astray(t)' \/ Sleeping'
           /\ Sleeping => Sleeping' \/ Checking'
           /\ Checking => Checking' \/ Copying'
           /\ Copying => Copying' \/ Asking(t)'
           /\ Asking(t) => Asking(t)' \/ Showing(t)'
           /\ Showing(t) => Showing(t)'
    <3>1. ASSUME UNCHANGED <<thread, ip, pingMs>>
          PROVE  /\ Astray(t) => Astray(t)'
                 /\ Sleeping => Sleeping'
                 /\ Checking => Checking'
                 /\ Copying => Copying'
                 /\ Asking(t) => Asking(t)'
                 /\ Showing(t) => Showing(t)'
      BY <3>1 DEF Astray, Sleeping, Checking, Copying, Asking, Showing
    <3> QED BY <3>1, PingNearer, PingUndisturbed
  <2>4. Showing(t) => pingMs = t
    BY DEF Showing
  <2>5. thread = "none" /\ [Next]_vars => (thread = "none")'
    BY ThreadKept
  <2> QED BY <2>1, <2>2, <2>3, <2>4, <2>5, PingInvariant, RunInvariant, PTL DEF Spec
<1> QED BY <1>1 DEF PingCatchesUp, Settled

-----------------------------------------------------------------------------
(* What a step tells the boards                                            *)

\* The state of the present board after a step, as its sends make it.
Says(h) == boards' = [boards EXCEPT ![addr] = h]

\* The two kinds of packet.
LEMMA PacketTypes ==
  /\ \A m \in SUBSET Mods, ks \in SUBSET Keys : KbPacket(m, ks) \in Packet
  /\ \A b \in SUBSET Buttons, g \in BOOLEAN : MousePacket(b, g) \in Packet
  BY DEF KbPacket, MousePacket, Packet

\* A datagram changes what the board holds of its device, and keeps the type.
LEMMA ToldMeans ==
  ASSUME NEW h \in Held
  PROVE  /\ \A m \in SUBSET Mods, ks \in SUBSET Keys :
               Told(h, KbPacket(m, ks)) = [mods |-> m, keys |-> ks, btns |-> h.btns]
         /\ \A b \in SUBSET Buttons, g \in BOOLEAN :
               Told(h, MousePacket(b, g)) = [mods |-> h.mods, keys |-> h.keys, btns |-> b]
  BY DEF Told, KbPacket, MousePacket, Held

\* A step that sends nothing tells nobody anything.
LEMMA SaysNothing ==
  ASSUME TypeOK, KvmSend, net' = net
  PROVE  boards' = boards
<1>1. Len(net') - Len(net) = 0
  BY DEF TypeOK
<1> QED BY <1>1 DEF KvmSend, TypeOK

\* One datagram tells the present board.
LEMMA SaysOne ==
  ASSUME TypeOK, KvmSend, NEW p \in Packet, Send(p)
  PROVE  Says(Told(boards[addr], p)) /\ net' \in Seq(Packet) /\ Len(net') <= MaxNet
<1>1. /\ net' \in Seq(Packet) /\ Len(net') = Len(net) + 1
      /\ net'[Len(net) + 1] = p
  BY DEF TypeOK, Send
<1>2. Len(net') - Len(net) = 1
  BY <1>1 DEF TypeOK
<1> QED BY <1>1, <1>2 DEF KvmSend, Says, TypeOK, Send

\* Two datagrams tell it one after the other.
LEMMA SaysTwo ==
  ASSUME TypeOK, KvmSend, NEW p \in Packet, NEW q \in Packet, SendTwo(p, q)
  PROVE  /\ Says(Told(Told(boards[addr], p), q))
         /\ net' \in Seq(Packet) /\ Len(net') <= MaxNet
<1> DEFINE one == Append(net, p)
<1>1. one \in Seq(Packet) /\ Len(one) = Len(net) + 1 /\ one[Len(net) + 1] = p
  BY DEF TypeOK
<1>2. /\ net' = Append(one, q) /\ net' \in Seq(Packet) /\ Len(net') = Len(one) + 1
      /\ net'[Len(one) + 1] = q /\ net'[Len(net) + 1] = one[Len(net) + 1]
  BY <1>1 DEF TypeOK, SendTwo
<1> HIDE DEF one
<1>3. Len(net') - Len(net) = 2 /\ net'[Len(net) + 1] = p /\ net'[Len(net) + 2] = q
  BY <1>1, <1>2 DEF TypeOK
<1> QED BY <1>1, <1>2, <1>3 DEF KvmSend, Says, TypeOK, SendTwo

\* ReleaseAllInput leaves the present board with nothing held.
LEMMA ReleaseSays ==
  ASSUME TypeOK, KvmSend, ReleaseAllInput
  PROVE  /\ Says(Released) /\ mods' = {} /\ keys' = {} /\ btns' = {}
         /\ net' \in Seq(Packet) /\ Len(net') <= MaxNet
<1>1. KbPacket({}, {}) \in Packet /\ MousePacket({}, FALSE) \in Packet
  BY PacketTypes
<1>2. boards[addr] \in Held
  BY DEF TypeOK, RetargetTypeOK
<1>3. Told(boards[addr], KbPacket({}, {})) \in Held
  BY <1>2, ToldMeans DEF Held
<1>4. Told(boards[addr], KbPacket({}, {})).mods = {} /\ Told(boards[addr], KbPacket({}, {})).keys = {}
  BY <1>2, ToldMeans
<1>5. Told(Told(boards[addr], KbPacket({}, {})), MousePacket({}, FALSE)) = Released
  <2>1. PICK h \in Held : h = Told(boards[addr], KbPacket({}, {}))
    BY <1>3
  <2>2. Told(h, MousePacket({}, FALSE)) = [mods |-> h.mods, keys |-> h.keys, btns |-> {}]
    BY ToldMeans
  <2> QED BY <2>1, <2>2, <1>4 DEF Released
<1> QED BY <1>1, <1>5, SaysTwo DEF ReleaseAllInput

\* A keyboard and a mouse datagram each tell the present board of one device.
LEMMA KeyboardSays ==
  ASSUME TypeOK, KvmSend, NEW m \in SUBSET Mods, NEW ks \in SUBSET Keys, Send(KbPacket(m, ks))
  PROVE  /\ Says([mods |-> m, keys |-> ks, btns |-> boards[addr].btns])
         /\ net' \in Seq(Packet) /\ Len(net') <= MaxNet
<1>1. KbPacket(m, ks) \in Packet /\ boards[addr] \in Held
  BY PacketTypes DEF TypeOK, RetargetTypeOK
<1> QED BY <1>1, SaysOne, ToldMeans

\* ... and of the buttons.
LEMMA MouseSays ==
  ASSUME TypeOK, KvmSend, NEW b \in SUBSET Buttons, NEW g \in BOOLEAN, Send(MousePacket(b, g))
  PROVE  /\ Says([mods |-> boards[addr].mods, keys |-> boards[addr].keys, btns |-> b])
         /\ net' \in Seq(Packet) /\ Len(net') <= MaxNet
<1>1. MousePacket(b, g) \in Packet /\ boards[addr] \in Held
  BY PacketTypes DEF TypeOK, RetargetTypeOK
<1> QED BY <1>1, SaysOne, ToldMeans

-----------------------------------------------------------------------------
(* What the boards hold                                                    *)

\* A worker has its button-up still to send.
Pending == \E w \in Workers : worker[w] \in {"esc", "escUp", "mUp"}

\* What board state h may be with control off: keys only as long as some worker
\* signals, since the last it sends releases them; buttons until its button-up.
Fading(h) ==
    /\ h.mods # {} \/ h.keys # {} => Signalling
    /\ h.btns # {} => Pending

\* CreateThread succeeds: StartReverseGrab leaves the releases to its worker; and
\* so does TrackMouseEvent: leaving the client area ends control.
Dependable == "thread" \notin Faults /\ "track" \notin Faults

\* The histories in which nothing is left held.
Regular == ~hasty /\ Dependable

HeldInv ==
    /\ TypeOK
    /\ Regular =>
         /\ ui \in {"dialog", "entered", "port", "addr"} => ~capture
         /\ ui \in {"entered", "port", "addr", "gone"} => ~Signalling
         /\ ui = "gone" => ~capture
         /\ \A e \in Endpoint \ {addr} : boards[e] = Released
         /\ ~capture => Fading(boards[addr])

\* Nothing is held when the program starts.
LEMMA HeldInit == Init => HeldInv
<1> SUFFICES ASSUME Init PROVE HeldInv
  OBVIOUS
<1>1. PreviewTypeOK /\ RetargetTypeOK /\ PingTypeOK
  BY PingStart DEF Init, PreviewInit, PingInv, PreviewTypeOK, WorkerStep
<1>2. Released \in Held
  BY DEF Released, Held
<1>3. boards \in [Endpoint -> Held]
  BY <1>2 DEF Init
<1>4. net \in Seq(Packet) /\ Len(net) <= MaxNet
  BY DEF Init
<1>5. TypeOK
  BY <1>1, <1>3, <1>4 DEF TypeOK, Init
<1> QED BY <1>1, <1>5
        DEF Init, PreviewInit, RetargetInit, HeldInv, Regular, Fading, Released, RetargetTypeOK

\* A step of Preview keeps the invariant if it leaves the present board with
\* some h that may be held then.
LEMMA Enough ==
  ASSUME HeldInv, NEW h \in Held, Says(h), UNCHANGED <<retargetVars, pingVars, hasty>>,
         PreviewTypeOK', net' \in Seq(Packet), Len(net') <= MaxNet,
         ui # "window" => (capture' => capture) /\ (Signalling' => Signalling),
         Regular => (~capture' => Fading(h)')
  PROVE  HeldInv'
<1>1. addr \in Endpoint /\ boards \in [Endpoint -> Held] /\ UNCHANGED <<addr, ui, hasty>>
  BY DEF HeldInv, TypeOK, RetargetTypeOK, retargetVars
<1>2. /\ boards' \in [Endpoint -> Held] /\ boards'[addr] = h
      /\ \A e \in Endpoint \ {addr} : boards'[e] = boards[e]
  BY <1>1 DEF Says
<1>3. TypeOK'
  BY <1>2 DEF HeldInv, TypeOK, RetargetTypeOK, retargetVars, PingTypeOK, pingVars
<1>4. Regular' <=> Regular
  BY <1>1 DEF Regular, Dependable
<1>5. ASSUME Regular PROVE ~capture' => Fading(boards[addr])'
  BY <1>1, <1>2, <1>5 DEF Fading
<1> QED BY <1>1, <1>2, <1>3, <1>5, <1>4 DEF HeldInv

\* Where the window thread dispatches input, and who is still signalling when
\* the workers do not move.
LEMMA SameWorkers ==
  ASSUME worker' = worker
  PROVE  (Signalling' <=> Signalling) /\ (Pending' <=> Pending)
  BY DEF Signalling, Pending

\* The present board has a state.
LEMMA BoardHeld == ASSUME HeldInv PROVE boards[addr] \in Held
  BY DEF HeldInv, TypeOK, RetargetTypeOK

\* Steps that send nothing and leave control and the workers alone.
LEMMA QuietStep ==
  ASSUME HeldInv, KvmSend, UNCHANGED <<retargetVars, pingVars, hasty>>,
         PreviewTypeOK', net' = net, UNCHANGED <<capture, worker>>
  PROVE  HeldInv'
<1>1. boards' = boards
  BY SaysNothing DEF HeldInv
<1>2. Says(boards[addr])
  BY <1>1 DEF Says, HeldInv, TypeOK
<1>3. Regular => (~capture' => Fading(boards[addr])')
  BY <1>1, SameWorkers DEF HeldInv, Fading, retargetVars
<1>4. net' \in Seq(Packet) /\ Len(net') <= MaxNet
  BY DEF HeldInv, TypeOK
<1>5. UNCHANGED <<addr, ui>>
  BY DEF retargetVars
<1>6. Fading(boards[addr])' <=> Fading(boards[addr])
  BY <1>1, <1>5, SameWorkers DEF Fading
<1> QED BY <1>1, <1>2, <1>3, <1>4, <1>5, SameWorkers, BoardHeld, Enough

\* The steps that release everything.
LEMMA ReleasingStep ==
  ASSUME HeldInv, KvmSend, UNCHANGED <<retargetVars, pingVars, hasty>>, PreviewTypeOK',
         Says(Released), net' \in Seq(Packet), Len(net') <= MaxNet,
         worker' = worker, ui # "window" => (capture' => capture)
  PROVE  HeldInv'
<1>1. Released \in Held /\ Fading(Released)'
  BY DEF Released, Held, Fading
<1> QED BY <1>1, SameWorkers, Enough

\* The steps of a controlling window that go on controlling.
LEMMA ControlStep ==
  ASSUME HeldInv, UNCHANGED <<retargetVars, pingVars, hasty>>, PreviewTypeOK',
         NEW h \in Held, Says(h), net' \in Seq(Packet), Len(net') <= MaxNet,
         worker' = worker, capture' = capture, capture
  PROVE  HeldInv'
  BY SameWorkers, Enough

\* What the handlers of the application's input do.
LEMMA InputStep ==
  ASSUME HeldInv, ui = "window", UserStep, KvmSend,
         UNCHANGED <<retargetVars, pingVars, hasty>>
  PROVE  HeldInv'
<1>0. TypeOK /\ PreviewTypeOK /\ boards[addr] \in Held /\ net \in Seq(Packet) /\ Len(net) <= MaxNet
  BY BoardHeld DEF HeldInv, TypeOK
<1>1. CASE BeginCapture
  <2>1. PreviewTypeOK'
    BY <1>0, <1>1, ReleaseSays DEF BeginCapture, ArmLeaveTracking, PreviewTypeOK
  <2> QED BY <1>0, <1>1, <2>1, ReleaseSays, ReleasingStep DEF BeginCapture
<1>2. ASSUME capture, capture' = capture, worker' = worker, PreviewTypeOK',
             SendMouse \/ SendKeyboard
      PROVE  HeldInv'
  <2>1. btns' \in SUBSET Buttons /\ mods' \in SUBSET Mods /\ keys' \in SUBSET Keys
    BY <1>2 DEF PreviewTypeOK
  <2>2. CASE SendMouse
    <3> DEFINE h == [mods |-> boards[addr].mods, keys |-> boards[addr].keys, btns |-> btns']
    <3>1. h \in Held
      BY <1>0, <2>1 DEF Held
    <3>2. Says(h) /\ net' \in Seq(Packet) /\ Len(net') <= MaxNet
      BY <1>0, <2>1, <2>2, MouseSays DEF SendMouse
    <3> QED BY <1>2, <3>1, <3>2, ControlStep
  <2>3. CASE SendKeyboard
    <3> DEFINE h == [mods |-> mods', keys |-> keys', btns |-> boards[addr].btns]
    <3>1. h \in Held
      BY <1>0, <2>1 DEF Held
    <3>2. Says(h) /\ net' \in Seq(Packet) /\ Len(net') <= MaxNet
      BY <1>0, <2>1, <2>3, KeyboardSays DEF SendKeyboard
    <3> QED BY <1>2, <3>1, <3>2, ControlStep
  <2> QED BY <1>2, <2>2, <2>3
<1>3. CASE MouseMove
  <2>1. PreviewTypeOK'
    BY <1>0, <1>3 DEF MouseMove, ArmLeaveTracking, PreviewTypeOK
  <2> QED BY <1>2, <1>3, <2>1, QuietStep DEF MouseMove
<1>4. CASE MouseWheel
  <2>1. PreviewTypeOK' /\ UNCHANGED <<capture, worker>>
    BY <1>0, <1>4 DEF MouseWheel, PreviewTypeOK, previewVars, uiVars, winVars
  <2> QED BY <1>2, <1>4, <2>1 DEF MouseWheel
<1>5. CASE ForwardKey
  <2>1. mods' \in SUBSET Mods /\ keys' \in SUBSET Keys
    BY <1>0, <1>5 DEF ForwardKey, KeyDown, KeyUp, PreviewTypeOK
  <2>2. PreviewTypeOK'
    BY <1>0, <1>5, <2>1 DEF ForwardKey, PreviewTypeOK, winVars
  <2> QED BY <1>2, <1>5, <2>2 DEF ForwardKey
<1>6. ASSUME NEW b \in Buttons, ButtonDown(b) PROVE HeldInv'
  <2>1. PreviewTypeOK'
    BY <1>0, <1>6 DEF ButtonDown, PreviewTypeOK
  <2> QED BY <1>2, <1>6, <2>1 DEF ButtonDown
<1>7. ASSUME NEW b \in Buttons, ButtonUp(b) PROVE HeldInv'
  <2>1. PreviewTypeOK'
    BY <1>0, <1>7 DEF ButtonUp, PreviewTypeOK
  <2> QED BY <1>2, <1>7, <2>1 DEF ButtonUp
<1>8. CASE StartReverseGrab
  <2>1. PreviewTypeOK'
    BY <1>0, <1>8 DEF StartReverseGrab, PreviewTypeOK, WorkerStep
  <2>3. ASSUME Regular PROVE \E w \in Workers : worker'[w] = "esc"
    <3>1. PICK w \in Workers : worker' = [worker EXCEPT ![w] = "esc"]
      BY <1>8, <2>3 DEF StartReverseGrab, Regular, Dependable
    <3>2. worker'[w] = "esc"
      BY <1>0, <3>1 DEF PreviewTypeOK
    <3> QED BY <3>2
  <2>4. boards' = boards
    BY <1>0, <1>8, SaysNothing DEF StartReverseGrab
  <2>5. Says(boards[addr])
    BY <1>0, <2>4 DEF Says, TypeOK
  <2>6. Regular => Fading(boards[addr])'
    BY <2>3 DEF Fading, Signalling, Pending
  <2>7. boards'[addr'] = boards[addr]
    BY <2>4 DEF retargetVars
  <2>8. net' \in Seq(Packet) /\ Len(net') <= MaxNet
    BY <1>0, <1>8 DEF StartReverseGrab
  <2> QED BY <1>0, <2>1, <2>5, <2>6, <2>7, <2>8, <2>4, Enough
<1> QED BY <1>1, <1>3, <1>4, <1>5, <1>6, <1>7, <1>8 DEF UserStep

\* Leaving the window releases, or control is off already.
LEMMA LeaveStep ==
  ASSUME HeldInv, MouseLeave, KvmSend, UNCHANGED <<retargetVars, pingVars, hasty>>
  PROVE  HeldInv'
<1>0. TypeOK /\ PreviewTypeOK
  BY DEF HeldInv, TypeOK
<1>1. CASE capture
  <2>1. ReleaseAllInput /\ worker' = worker /\ ~capture' /\ mouseCap' = FALSE
    BY <1>1 DEF MouseLeave, EndCapture
  <2>2. PreviewTypeOK'
    BY <1>0, <1>1, <2>1, ReleaseSays DEF MouseLeave, EndCapture, PreviewTypeOK
  <2> QED BY <1>0, <2>1, <2>2, ReleaseSays, ReleasingStep
<1>2. CASE ~capture
  <2>1. PreviewTypeOK' /\ net' = net /\ UNCHANGED <<capture, worker>>
    BY <1>0, <1>2 DEF MouseLeave, EndCapture, PreviewTypeOK
  <2> QED BY <2>1, QuietStep
<1> QED BY <1>1, <1>2

\* A worker's packet: keys it leaves down are its own or another's to release,
\* and buttons go with its button-up.
LEMMA GrabStep ==
  ASSUME HeldInv, NEW w \in Workers, GrabWorker(w), KvmSend,
         UNCHANGED <<retargetVars, pingVars, hasty>>
  PROVE  HeldInv'
<1>0. TypeOK /\ PreviewTypeOK /\ boards[addr] \in Held /\ Signalling
  BY BoardHeld DEF HeldInv, TypeOK, GrabWorker, WorkerSend, Signalling
<1>1. UNCHANGED <<uiVars, winVars, ui, addr, hasty>>
  BY DEF GrabWorker, WorkerSend, retargetVars
<1>2. PreviewTypeOK'
  BY <1>0, <1>1 DEF GrabWorker, WorkerSend, PreviewTypeOK, uiVars, winVars, WorkerStep
<1>3. \A v \in Workers \ {w} : worker'[v] = worker[v]
  BY <1>0 DEF GrabWorker, WorkerSend, PreviewTypeOK
<1>4. ASSUME NEW h \in Held, Says(h), net' \in Seq(Packet), Len(net') <= MaxNet,
             Regular /\ ~capture => Fading(h)'
      PROVE  HeldInv'
  BY <1>0, <1>1, <1>2, <1>4, Enough DEF uiVars
<1>5. ASSUME NEW m \in SUBSET Mods, NEW ks \in SUBSET Keys, Send(KbPacket(m, ks)),
             m # {} \/ ks # {} => Signalling', Pending => Pending'
      PROVE  HeldInv'
  <2>1. PICK h \in Held : h = [mods |-> m, keys |-> ks, btns |-> boards[addr].btns]
    BY <1>0 DEF Held
  <2>2. Says(h) /\ net' \in Seq(Packet) /\ Len(net') <= MaxNet
    BY <1>0, <1>5, <2>1, KeyboardSays
  <2>3. Regular /\ ~capture => (h.btns # {} => Pending)
    BY <2>1 DEF HeldInv, Fading
  <2>4. h.mods # {} \/ h.keys # {} => Signalling'
    BY <1>5, <2>1
  <2>5. Regular /\ ~capture => Fading(h)'
    BY <1>5, <2>3, <2>4 DEF Fading
  <2> QED BY <2>2, <2>5, <1>4
<1>6. ASSUME worker[w] = "mUp", worker'[w] = "hkDown", Send(MousePacket({}, TRUE))
      PROVE  HeldInv'
  <2>1. PICK h \in Held : h = [mods |-> boards[addr].mods, keys |-> boards[addr].keys, btns |-> {}]
    BY <1>0 DEF Held
  <2>2. Says(h) /\ net' \in Seq(Packet) /\ Len(net') <= MaxNet
    BY <1>0, <1>6, <2>1, MouseSays
  <2>3. Signalling'
    BY <1>6 DEF Signalling
  <2>4. Fading(h)'
    BY <2>1, <2>3 DEF Fading
  <2> QED BY <2>2, <2>4, <1>4
<1>7. /\ \A s \in WorkerStep \ {"mUp"}, t \in {"escUp", "mUp", "hkUp", "idle"} :
            worker[w] = s /\ worker'[w] = t /\ (s \in {"esc", "escUp"} => t \in {"escUp", "mUp"})
            => (Pending => Pending')
  BY <1>3 DEF Pending, WorkerStep
<1>8. \A t \in WorkerStep \ {"idle"} : worker'[w] = t => Signalling'
  BY DEF Signalling
<1>9. /\ {} \in SUBSET Mods /\ {} \in SUBSET Keys /\ {Esc} \in SUBSET Keys
      /\ HotMods \in SUBSET Mods /\ {Hot} \in SUBSET Keys
  OBVIOUS
<1>10. \A s, t \in WorkerStep : \A p :
         WorkerSend(w, s, p, t) => worker[w] = s /\ worker'[w] = t /\ Send(p)
  BY <1>0 DEF WorkerSend, PreviewTypeOK
<1>11. CASE WorkerSend(w, "esc", KbPacket({}, {Esc}), "escUp")
  BY <1>5, <1>7, <1>8, <1>9, <1>10, <1>11 DEF WorkerStep
<1>12. CASE WorkerSend(w, "escUp", KbPacket({}, {}), "mUp")
  BY <1>5, <1>7, <1>8, <1>9, <1>10, <1>12 DEF WorkerStep
<1>13. CASE WorkerSend(w, "mUp", MousePacket({}, TRUE), "hkDown")
  BY <1>6, <1>10, <1>13 DEF WorkerStep
<1>14. CASE WorkerSend(w, "hkDown", KbPacket(HotMods, {Hot}), "hkUp")
  BY <1>5, <1>7, <1>8, <1>9, <1>10, <1>14 DEF WorkerStep
<1>15. CASE WorkerSend(w, "hkUp", KbPacket({}, {}), "idle")
  BY <1>5, <1>7, <1>9, <1>10, <1>15 DEF WorkerStep
<1> QED BY <1>11, <1>12, <1>13, <1>14, <1>15 DEF GrabWorker

\* The steps of the window system, and datagrams leaving.
LEMMA SystemStep ==
  ASSUME HeldInv, PointerCrosses \/ PostLeave \/ LoseMouseCapture, KvmSend,
         UNCHANGED <<retargetVars, pingVars, hasty>>
  PROVE  HeldInv'
<1>1. PreviewTypeOK' /\ net' = net /\ UNCHANGED <<capture, worker>>
  BY DEF HeldInv, TypeOK, PreviewTypeOK, PointerCrosses, PostLeave, LoseMouseCapture, uiVars
<1> QED BY <1>1, QuietStep

\* A datagram leaving net changes nothing a board was told.
LEMMA ArriveStep == ASSUME HeldInv, Arrive PROVE HeldInv'
<1>1. net' \in Seq(Packet) /\ Len(net') <= MaxNet
  BY DEF HeldInv, TypeOK, Arrive
<1>2. TypeOK' /\ UNCHANGED <<capture, worker, ui, addr, hasty, boards>>
  BY <1>1 DEF HeldInv, TypeOK, Arrive, previewVars, uiVars, winVars, retargetVars, pingVars,
              targetVars, PreviewTypeOK, RetargetTypeOK, PingTypeOK
<1> QED BY <1>2, SameWorkers DEF HeldInv, Fading, Regular

\* The steps of the dialog, the ping thread and main's end leave the boards and
\* the input alone; their own types are PingInv's.
LEMMA Untouched ==
  ASSUME HeldInv, PingInv', UNCHANGED <<previewVars, net, boards>>, hasty' \in BOOLEAN
  PROVE  TypeOK' /\ UNCHANGED <<capture, worker, boards>>
<1>1. PreviewTypeOK' /\ UNCHANGED <<capture, worker>>
  BY DEF HeldInv, TypeOK, previewVars, uiVars, winVars, PreviewTypeOK
<1> QED BY <1>1 DEF HeldInv, TypeOK, PingInv

\* The ping thread changes nothing the boards depend on.
LEMMA PingHeldStep == ASSUME HeldInv, PingInv', PingStep PROVE HeldInv'
<1>1. UNCHANGED <<previewVars, net, boards, hasty, ui, addr>>
  BY DEF PingStep, PingThreadProc, PingCheck, PingCopy, PingEcho, PingSleep, retargetVars, targetVars
<1>2. TypeOK' /\ UNCHANGED <<capture, worker, boards>>
  BY <1>1, Untouched DEF HeldInv, TypeOK
<1> QED BY <1>1, <1>2, SameWorkers DEF HeldInv, Fading, Regular

\* The dialog opens with control off, and changes the target with nothing held
\* by the present board unless a grab signals.
LEMMA OptionsStep == ASSUME HeldInv, PingInv', OpenOptions \/ Options PROVE HeldInv'
<1>1. UNCHANGED <<previewVars, net, boards>> /\ hasty' \in BOOLEAN
  BY DEF OpenOptions, Options, targetVars, HeldInv, TypeOK, Signalling
<1>2. TypeOK' /\ UNCHANGED <<capture, worker, boards>>
  BY <1>1, Untouched
<1>3. CASE OpenOptions
  BY <1>2, <1>3, SameWorkers
     DEF OpenOptions, ShowKvmOptions, HeldInv, Fading, Regular, Dependable, targetVars
<1>4. CASE Options /\ Apply
  BY <1>2, <1>4, SameWorkers DEF Options, Apply, HeldInv, Fading, Regular
<1>5. CASE Options /\ (CloseOptions \/ ApplyPing)
  BY <1>2, <1>5, SameWorkers
     DEF Options, CloseOptions, ApplyPing, HeldInv, Fading, Regular
<1>6. CASE Options /\ (ApplyPort \/ ApplyAddr)
  <2>1. ui \in {"entered", "port"} /\ ui' \in {"port", "addr"} /\ addr' \in Endpoint
    BY <1>6, <1>2 DEF ApplyPort, ApplyAddr, TypeOK, RetargetTypeOK
  <2>2. hasty' = hasty
    BY <2>1, <1>6 DEF Options, HeldInv, TypeOK
  <2>3. ASSUME Regular PROVE \A e \in Endpoint : boards[e] = Released
    <3>1. ~capture /\ ~Signalling /\ ~Pending
      BY <2>1, <2>3 DEF HeldInv, Signalling, Pending
    <3>2. boards[addr] = Released
      BY <2>3, <3>1, BoardHeld DEF HeldInv, Fading, Held, Released
    <3> QED BY <2>3, <3>2 DEF HeldInv
  <2>4. Regular => Fading(boards[addr])'
    BY <1>2, <2>1, <2>3 DEF Fading, Released
  <2> QED BY <1>2, <2>1, <2>3, <2>4, <2>2, SameWorkers DEF HeldInv, Regular
<1> QED BY <1>3, <1>4, <1>5, <1>6 DEF Options, RetargetStep

\* The end of the program excuses itself when a grab signals or control is on.
LEMMA ExitStep == ASSUME HeldInv, PingInv', Exit PROVE HeldInv'
<1>1. UNCHANGED <<previewVars, net, boards, addr>> /\ hasty' \in BOOLEAN
  BY DEF Exit, End, Quit, StopPing, WaitPing, HeldInv, TypeOK, PreviewTypeOK, Signalling
<1>2. TypeOK' /\ UNCHANGED <<capture, worker, boards>>
  BY <1>1, Untouched
<1>3. ui' \in {"leaving", "waiting", "gone"}
  BY DEF Exit, End, Quit, StopPing, WaitPing
<1>4. Regular' => Regular /\ (ui' = "gone" => ~Signalling /\ ~capture)
  BY DEF Exit, Regular, Dependable
<1> QED BY <1>1, <1>2, <1>3, <1>4, SameWorkers DEF HeldInv, Fading

\* The invariant is inductive.
LEMMA HeldStep == HeldInv /\ PingInv' /\ [Next]_vars => HeldInv'
<1> SUFFICES ASSUME HeldInv, PingInv', [Next]_vars PROVE HeldInv'
  OBVIOUS
<1>1. CASE UNCHANGED vars
  <2>1. TypeOK' /\ UNCHANGED <<capture, worker, boards>>
    BY <1>1, Untouched DEF vars, targetVars, HeldInv, TypeOK
  <2>2. UNCHANGED <<ui, addr, hasty>>
    BY <1>1 DEF vars, retargetVars, targetVars
  <2> QED BY <2>1, <2>2, SameWorkers DEF HeldInv, Fading, Regular
<1>2. CASE PreviewStep
  BY <1>2, InputStep, LeaveStep, GrabStep, SystemStep DEF PreviewStep, WindowInput, WorkerTurn
<1> QED BY <1>1, <1>2, ArriveStep, OptionsStep, ExitStep, PingHeldStep DEF Next

\* The invariant holds of every behaviour.
LEMMA HeldInvariant == Spec => []HeldInv
  BY HeldInit, HeldStep, PingInvariant, PTL DEF Spec

\* Every variable of the window, the dialog, the ping thread and the workers
\* keeps its type, under every fault.
THEOREM Typing == Spec => []TypeOK
<1>1. HeldInv => TypeOK
  BY DEF HeldInv
<1> QED BY <1>1, HeldInvariant, PTL

\* ShowKvmOptions, ApplyKvmTarget, GrabWorker and the handlers of the window:
\* no board is left with anything held, for any number of boards and grabs.
THEOREM NobodyLeft == ASSUME Dependable PROVE Spec => []NobodyLeftHeld
<1>1. HeldInv => NobodyLeftHeld
  <2> SUFFICES ASSUME HeldInv, ~hasty PROVE NobodyLeftHeld
    BY DEF NobodyLeftHeld
  <2>1. Regular /\ (~Signalling => ~Pending)
    BY DEF Regular, Signalling, Pending
  <2> QED BY <2>1, BoardHeld DEF HeldInv, NobodyLeftHeld, Fading, Held, Released
<1> QED BY <1>1, HeldInvariant, PTL
=============================================================================
