-------------------------- MODULE ShareImageProofs --------------------------
(***************************************************************************)
(* What TLAPS proves of ShareImage, for any number of scripts, loop        *)
(* devices, crashes and abandoned gadgets: when scripts are run one at a   *)
(* time and umount succeeds, the image has one owner at a time, and the    *)
(* target gets its keyboard, mouse and drive back.                         *)
(***************************************************************************)
EXTENDS ShareImage, FiniteSetTheorems, TLAPS

\* The conditions under which the image is exclusive: TLC shows that two
\* scripts at once break it.
OneAtATime == Serial /\ "umount" \notin Failures

\* SerialInv holds before the first script.
THEOREM SerialInit == Init => SerialInv
  BY ShareImageAssumption
     DEF Init, SerialInv, TypeOK, Window, ScriptPC, Ops, DaemonState, LoopOrNone, LunOpen

\* A script alone among the others.
LEMMA OthersIdle ==
  ASSUME SerialInv, NEW s \in Scripts, pc[s] # "idle"
  PROVE  \A t \in Scripts \ {s} : pc[t] = "idle"
  BY DEF SerialInv

\* SerialInv: the steps of the service.
LEMMA DaemonStepInv ==
  ASSUME OneAtATime, SerialInv, DaemonNext
  PROVE  SerialInv'
<1> USE ShareImageAssumption
        DEF SerialInv, TypeOK, Window, DaemonState, LoopOrNone, LunOpen, scriptVars, kernelVars
<1>1. CASE DaemonAttach
  BY <1>1 DEF DaemonAttach
<1>2. CASE DaemonLun
  BY <1>2 DEF DaemonLun
<1>3. CASE DaemonBind
  BY <1>3 DEF DaemonBind
<1>4. CASE HidProcessDies
  BY <1>4 DEF HidProcessDies, CloseLoop
<1>5. CASE DaemonRestart
  BY <1>5 DEF DaemonRestart
<1>6. CASE DaemonPauses
  BY <1>6 DEF DaemonPauses
<1>7. QED  BY <1>1, <1>2, <1>3, <1>4, <1>5, <1>6 DEF DaemonNext

\* No script has the image mounted, or is in its window, when none runs.
LEMMA BeginInv ==
  ASSUME OneAtATime, SerialInv, NEW s \in Scripts, Begin(s)
  PROVE  SerialInv'
  BY DEF Begin, OneAtATime, Idle, SerialInv, TypeOK, Window, ScriptPC, LunOpen, daemonVars, kernelVars

\* The commands of a running script.  A script that fails before its mount
\* reaches the trap with nothing mounted.
LEMMA ScriptStepInv ==
  ASSUME OneAtATime, SerialInv, NEW s \in Scripts, Script(s)
  PROVE  SerialInv'
<1> USE ShareImageAssumption
        DEF SerialInv, TypeOK, Window, ScriptPC, DaemonState, LoopOrNone, LunOpen, Goto
<1>1. \A t \in Scripts \ {s} : pc[t] = "idle"
  BY OthersIdle DEF Script, StopGadget, UnbindAll, DetachStale, AttachImage, MountImage,
     Work, Umount, Release, StartGadget, TrapStart, FailAt
<1>2. ASSUME NEW step \in {"stop", "attach", "mount", "work"}, FailAt(s, step)
      PROVE  SerialInv'
  BY <1>1, <1>2 DEF FailAt, daemonVars, kernelVars
<1>3. CASE StopGadget(s)
  BY <1>1, <1>2, <1>3 DEF StopGadget, ServiceStop, CloseLoop
<1>4. CASE UnbindAll(s)
  BY <1>1, <1>4 DEF UnbindAll, kernelVars
<1>5. CASE DetachStale(s)
  BY <1>1, <1>5 DEF DetachStale, DetachLoops, daemonVars
<1>6. CASE AttachImage(s)
  BY <1>1, <1>2, <1>6 DEF AttachImage, FindLoop, daemonVars
<1>7. CASE MountImage(s)
  <2>1. CASE LOOP[s] \in attached /\ Goto(s, "mount", "work")
    <3>1. mnt = <<>> /\ daemon = "off"
      BY <1>1, <2>1
    <3>2. CASE mnt' = <<LOOP[s]>> \o mnt
      <4>1. mnt' = <<LOOP[s]>> /\ mnt' \in Seq(Loops)
        BY <3>1, <3>2, <2>1
      <4>2. QED  BY <1>1, <1>7, <2>1, <3>1, <4>1 DEF MountImage, FailAt, daemonVars, kernelVars
    <3>3. QED  BY <1>2, <1>7, <2>1, <3>2 DEF MountImage, FailAt
  <2>2. QED
    BY <1>1, <1>2, <1>7, <2>1 DEF MountImage, daemonVars, kernelVars
<1>8. CASE Work(s)
  BY <1>1, <1>2, <1>8 DEF Work, daemonVars, kernelVars
<1>9. ASSUME NEW from \in {"umount", "trapUmount"}, NEW to \in {"release", "trapRelease"},
             from = "umount" <=> to = "release", Umount(s, from, to)
      PROVE  SerialInv'
  <2>1. mnt' = <<>>
    BY <1>9 DEF Umount, OneAtATime, kernelVars
  <2>2. attached' \in SUBSET Loops /\ lazy' \in SUBSET Loops
    BY <1>9 DEF Umount, CloseLoop, kernelVars
  <2>3. QED  BY <1>1, <1>9, <2>1, <2>2 DEF Umount, daemonVars
<1>10. ASSUME NEW from \in {"release", "trapRelease"}, NEW to \in {"start", "trapStart"},
              from = "release" <=> to = "start", Release(s, from, to)
       PROVE  SerialInv'
  BY <1>1, <1>10 DEF Release, DetachLoops, daemonVars
<1>11. CASE StartGadget(s)
  BY <1>1, <1>11 DEF StartGadget, ServiceStart, kernelVars
<1>12. CASE TrapStart(s)
  BY <1>1, <1>12 DEF TrapStart, ServiceStart, kernelVars
<1>13. QED
  BY <1>3, <1>4, <1>5, <1>6, <1>7, <1>8, <1>9, <1>10, <1>11, <1>12 DEF Script

\* SerialInv: a step of nobody.
LEMMA StutterInv ==
  ASSUME SerialInv, UNCHANGED vars
  PROVE  SerialInv'
  BY DEF SerialInv, TypeOK, LunOpen, vars, scriptVars, daemonVars, kernelVars

\* SerialInv is inductive.
LEMMA StepInv ==
  ASSUME OneAtATime, SerialInv, [Next]_vars
  PROVE  SerialInv'
  BY DaemonStepInv, BeginInv, ScriptStepInv, StutterInv DEF Next

\* The service is off while a script works on the image, and what is mounted
\* is unmounted before the service starts (kvm-share.sh, kvm-drop.sh).
THEOREM SerialInvariant == ASSUME OneAtATime PROVE Spec => []SerialInv
<1>1. Init => SerialInv
  BY SerialInit
<1>2. SerialInv /\ [Next]_vars => SerialInv'
  BY StepInv
<1>3. QED  BY <1>1, <1>2, PTL DEF Spec

\* The image is never mounted while the target has it, and never twice.
THEOREM Exclusive == ASSUME OneAtATime PROVE Spec => []ExclusiveImage
<1>1. ASSUME SerialInv PROVE ExclusiveImage
  <2>1. CASE mnt = <<>>
    BY <2>1 DEF ExclusiveImage, MountedOnlyDetached
  <2>2. CASE mnt # <<>>
    <3>1. Len(mnt) = 1 /\ bound = None
      BY <1>1, <2>2 DEF SerialInv
    <3>2. Len(mnt) <= 1
      BY <3>1
    <3>3. QED  BY <3>1, <3>2 DEF ExclusiveImage, MountedOnlyDetached
  <2>3. QED  BY <2>1, <2>2
<1>2. QED  BY <1>1, SerialInvariant, PTL

-----------------------------------------------------------------------------
(* ShareImage implements ImageOwnership                                    *)

\* Only binding and unbinding the UDC, mounting and unmounting matter.
LEMMA OwnerUnchanged ==
  ASSUME UNCHANGED <<bound, mnt>>
  PROVE  UNCHANGED ImageOwner
  BY DEF ImageOwner

\* A step of the service is one of ImageOwnership, or none.
LEMMA DaemonRefines ==
  ASSUME OneAtATime, SerialInv, SerialInv', DaemonNext
  PROVE  [Ownership!OwnerNext]_ImageOwner
<1> USE DEF Ownership!OwnerNext
<1>1. CASE DaemonAttach \/ DaemonLun \/ DaemonPauses \/ DaemonRestart
  BY <1>1, OwnerUnchanged DEF DaemonAttach, DaemonLun, DaemonPauses, DaemonRestart, kernelVars
<1>2. CASE DaemonBind
  <2>1. mnt = <<>> /\ mnt' = mnt /\ bound = None /\ bound' # None
    BY <1>2, ShareImageAssumption DEF DaemonBind, SerialInv, LunOpen, kernelVars
  <2>2. Ownership!Expose
    BY <2>1 DEF Ownership!Expose, ImageOwner
  <2>3. QED  BY <2>2
<1>3. CASE HidProcessDies
  <2>1. mnt = <<>> /\ mnt' = mnt /\ bound' = None
    BY <1>3 DEF HidProcessDies, SerialInv
  <2>2. Ownership!Detach \/ UNCHANGED ImageOwner
    BY <2>1 DEF Ownership!Detach, ImageOwner
  <2>3. QED  BY <2>2
<1>4. QED  BY <1>1, <1>2, <1>3 DEF DaemonNext

\* A command of a script is a step of ImageOwnership, or none.
LEMMA ScriptRefines ==
  ASSUME OneAtATime, SerialInv, SerialInv', NEW s \in Scripts, Begin(s) \/ Script(s)
  PROVE  [Ownership!OwnerNext]_ImageOwner
<1> USE DEF Ownership!OwnerNext
<1>1. ASSUME NEW step, FailAt(s, step)
      PROVE  UNCHANGED ImageOwner
  BY <1>1, OwnerUnchanged DEF FailAt, daemonVars, kernelVars
<1>2. CASE Begin(s)
  BY <1>2, OwnerUnchanged DEF Begin, daemonVars, kernelVars
<1>3. CASE StopGadget(s)
  <2>1. CASE UNCHANGED <<bound, mnt>>
    BY <2>1, OwnerUnchanged
  <2>2. CASE daemon # "off" /\ bound' = None /\ mnt' = mnt
    <3>1. mnt = <<>>
      BY <2>2 DEF SerialInv
    <3>2. Ownership!Detach \/ UNCHANGED ImageOwner
      BY <2>2, <3>1 DEF Ownership!Detach, ImageOwner
    <3>3. QED  BY <3>2
  <2>3. CASE daemon = "off" /\ bound' = None /\ mnt' = mnt
    <3>1. bound = None
      BY <2>3 DEF SerialInv
    <3>2. QED  BY <2>1, <2>3, <3>1
  <2>4. QED
    BY <1>1, <1>3, <2>2, <2>3 DEF StopGadget, ServiceStop
<1>4. CASE UnbindAll(s)
  <2>1. bound = None
    BY <1>4 DEF UnbindAll, Goto, SerialInv, Window
  <2>2. QED  BY <1>4, <2>1, OwnerUnchanged DEF UnbindAll, kernelVars
<1>5. CASE DetachStale(s) \/ AttachImage(s) \/ Work(s) \/ StartGadget(s) \/ TrapStart(s)
           \/ Release(s, "release", "start") \/ Release(s, "trapRelease", "trapStart")
  BY <1>1, <1>5, OwnerUnchanged
     DEF DetachStale, AttachImage, Work, StartGadget, TrapStart, Release, ServiceStart,
         daemonVars, kernelVars
<1>6. CASE MountImage(s)
  <2>1. CASE UNCHANGED <<bound, mnt>>
    BY <2>1, OwnerUnchanged
  <2>2. CASE Goto(s, "mount", "work") /\ UNCHANGED daemonVars /\ mnt' = <<LOOP[s]>> \o mnt
    <3>1. bound = None /\ bound' = None
      BY <2>2 DEF Goto, SerialInv, Window, daemonVars
    <3>2. mnt = <<>>
      BY <2>2 DEF Goto, SerialInv
    <3>3. mnt' # <<>>
      BY <2>2, <3>2
    <3>4. Ownership!Mount
      BY <3>1, <3>2, <3>3 DEF Ownership!Mount, ImageOwner
    <3>5. QED  BY <3>4
  <2>3. QED
    BY <1>1, <1>6, <2>1, <2>2 DEF MountImage, daemonVars, kernelVars
<1>7. ASSUME NEW from, NEW to, Umount(s, from, to)
      PROVE  [Ownership!OwnerNext]_ImageOwner
  <2>1. CASE UNCHANGED <<bound, mnt>>
    BY <2>1, OwnerUnchanged
  <2>2. CASE mnt # <<>> /\ mnt' = Tail(mnt) /\ UNCHANGED daemonVars
    <3>1. bound = None /\ bound' = None
      BY <2>2 DEF SerialInv, daemonVars
    <3>2. mnt' = <<>>
      BY <2>2 DEF SerialInv, TypeOK
    <3>3. Ownership!Unmount
      BY <2>2, <3>1, <3>2 DEF Ownership!Unmount, ImageOwner
    <3>4. QED  BY <3>3
  <2>3. QED  BY <1>7, <2>1, <2>2 DEF Umount, daemonVars, kernelVars
<1>8. QED
  BY <1>2, <1>3, <1>4, <1>5, <1>6, <1>7 DEF Script

\* The scripts and the service together keep the promise of ImageOwnership:
\* the image goes from the target to nobody, to the board, and back.
THEOREM Refinement == ASSUME OneAtATime PROVE Spec => OwnershipKept
<1>1. Init => Ownership!OwnerInit
  BY DEF Init, Ownership!OwnerInit, ImageOwner
<1>2. SerialInv /\ SerialInv' /\ [Next]_vars => [Ownership!OwnerNext]_ImageOwner
  <2>1. ASSUME UNCHANGED vars PROVE UNCHANGED ImageOwner
    BY <2>1, OwnerUnchanged DEF vars, daemonVars, kernelVars
  <2>2. QED  BY <2>1, DaemonRefines, ScriptRefines DEF Next
<1>3. QED
  BY <1>1, <1>2, SerialInvariant, PTL DEF Spec, OwnershipKept, Ownership!OwnerSpec

-----------------------------------------------------------------------------
(* Loop devices, with any number of scripts at once                        *)

\* The service has a loop device, opened or about to be.
Configured == daemon = "lun" \/ LunOpen

\* An open device is attached, and one that waits to be detached is open.
OpenInv ==
    /\ TypeOK
    /\ Configured => gloop \in Loops
    /\ bound # None => daemon \in {"install", "run"} /\ bound = gloop
    /\ Opened \subseteq attached
    /\ lazy \subseteq Opened

\* OpenInv holds before the first start.
LEMMA OpenInit == Init => OpenInv
  BY ShareImageAssumption
     DEF Init, OpenInv, TypeOK, ScriptPC, Ops, DaemonState, LoopOrNone, Opened, MountedLoops, Configured, LunOpen

\* Mounting and unmounting, as sets of devices.
LEMMA MountedHead ==
  ASSUME mnt \in Seq(Loops), NEW l \in Loops, mnt' = <<l>> \o mnt
  PROVE  mnt' \in Seq(Loops) /\ MountedLoops' = MountedLoops \cup {l} /\ Len(mnt') = Len(mnt) + 1
<1>1. mnt' \in Seq(Loops) /\ Len(mnt') = Len(mnt) + 1
  OBVIOUS
<1>2. \A i \in 1 .. Len(mnt') : mnt'[i] = IF i = 1 THEN l ELSE mnt[i - 1]
  OBVIOUS
<1>3. \A i \in 1 .. Len(mnt) : i + 1 \in 1 .. Len(mnt') /\ mnt'[i + 1] = mnt[i]
  BY <1>1, <1>2
<1>4. /\ \A x : x \in MountedLoops <=> \E i \in 1 .. Len(mnt) : x = mnt[i]
      /\ \A x : x \in MountedLoops' <=> \E i \in 1 .. Len(mnt') : x = mnt'[i]
  <2>1. DOMAIN mnt = 1 .. Len(mnt) /\ DOMAIN mnt' = 1 .. Len(mnt')
    BY <1>1
  <2>2. QED  BY <2>1 DEF MountedLoops
<1>5. 1 \in 1 .. Len(mnt') /\ mnt'[1] = l
  BY <1>1, <1>2
<1>6. MountedLoops' \subseteq MountedLoops \cup {l}
  <2>1. \A i \in 1 .. Len(mnt') : i = 1 \/ i - 1 \in 1 .. Len(mnt)
    BY <1>1
  <2>2. QED  BY <1>2, <1>4, <2>1
<1>7. QED  BY <1>1, <1>3, <1>4, <1>5, <1>6

\* What is mounted before one mount goes.
LEMMA MountedTail ==
  ASSUME mnt \in Seq(Loops), mnt # <<>>, mnt' = Tail(mnt)
  PROVE  /\ mnt' \in Seq(Loops) /\ Len(mnt') = Len(mnt) - 1 /\ Head(mnt) \in Loops
         /\ MountedLoops = MountedLoops' \cup {Head(mnt)}
<1>1. mnt' \in Seq(Loops) /\ Len(mnt') = Len(mnt) - 1 /\ Head(mnt) = mnt[1] /\ Head(mnt) \in Loops
  OBVIOUS
<1>2. \A i \in 1 .. Len(mnt') : i + 1 \in 1 .. Len(mnt) /\ mnt'[i] = mnt[i + 1]
  OBVIOUS
<1>3. \A i \in 1 .. Len(mnt) : i # 1 => i - 1 \in 1 .. Len(mnt') /\ mnt'[i - 1] = mnt[i]
  BY <1>1, <1>2
<1>4. 1 \in 1 .. Len(mnt)
  OBVIOUS
<1>5. /\ \A x : x \in MountedLoops <=> \E i \in 1 .. Len(mnt) : x = mnt[i]
      /\ \A x : x \in MountedLoops' <=> \E i \in 1 .. Len(mnt') : x = mnt'[i]
  <2>1. DOMAIN mnt = 1 .. Len(mnt) /\ DOMAIN mnt' = 1 .. Len(mnt')
    BY <1>1
  <2>2. QED  BY <2>1 DEF MountedLoops
<1>6. MountedLoops' \cup {Head(mnt)} \subseteq MountedLoops
  BY <1>1, <1>2, <1>4, <1>5
<1>7. ASSUME NEW x \in MountedLoops PROVE x \in MountedLoops' \cup {Head(mnt)}
  <2>1. PICK i \in 1 .. Len(mnt) : x = mnt[i]
    BY <1>5
  <2>2. CASE i # 1
    <3>1. i - 1 \in 1 .. Len(mnt') /\ x = mnt'[i - 1]
      BY <1>3, <2>1, <2>2
    <3>2. QED  BY <1>5, <3>1
  <2>3. QED  BY <1>1, <2>1, <2>2
<1>8. QED  BY <1>1, <1>6, <1>7

\* Who detaches a device leaves the open ones, which wait.
LEMMA DetachOpen ==
  ASSUME OpenInv, NEW D, DetachLoops(D), UNCHANGED <<daemonVars, mnt>>
  PROVE  /\ Opened' = Opened /\ Opened' \subseteq attached' /\ lazy' \subseteq Opened'
         /\ attached' \in SUBSET Loops /\ lazy' \in SUBSET Loops
  BY DEF OpenInv, TypeOK, DetachLoops, Opened, MountedLoops, LunOpen, daemonVars

\* The last opener of a device that waits takes it away.
LEMMA CloseOpen ==
  ASSUME OpenInv, NEW l, CloseLoop(l), Opened = Opened' \cup {l}
  PROVE  /\ Opened' \subseteq attached' /\ lazy' \subseteq Opened'
         /\ attached' \in SUBSET Loops /\ lazy' \in SUBSET Loops
  BY DEF OpenInv, TypeOK, CloseLoop

\* A step that touches neither the gadget nor the kernel's lists.
LEMMA OpenKept ==
  ASSUME OpenInv, UNCHANGED <<daemonVars, kernelVars>>,
         pc' \in [Scripts -> ScriptPC], op' \in [Scripts -> Ops], LOOP' \in [Scripts -> LoopOrNone]
  PROVE  OpenInv'
  BY DEF OpenInv, TypeOK, Opened, MountedLoops, Configured, LunOpen, daemonVars, kernelVars

\* What the service does between the commands of the scripts.
LEMMA DaemonOpen ==
  ASSUME OpenInv, DaemonNext
  PROVE  OpenInv'
<1> USE DEF TypeOK, DaemonState, LoopOrNone, Configured, scriptVars, kernelVars
<1>1. CASE DaemonAttach
  <2>1. PICK l \in Loops : /\ attached' = (attached \cap Opened) \cup {l} /\ gloop' = l
                           /\ lazy' = lazy \cup (attached \cap Opened)
    BY <1>1 DEF DaemonAttach
  <2>2. Opened' = Opened
    BY <1>1 DEF DaemonAttach, Opened, MountedLoops, LunOpen
  <2>3. QED  BY <1>1, <2>1, <2>2 DEF DaemonAttach, OpenInv, LunOpen
<1>2. CASE DaemonLun
  <2>1. Opened' \subseteq Opened \cup (IF gloop \in attached THEN {gloop} ELSE {}) /\ Opened \subseteq Opened'
    BY <1>2 DEF DaemonLun, Opened, MountedLoops, LunOpen
  <2>2. QED  BY <1>2, <2>1 DEF DaemonLun, OpenInv, LunOpen
<1>3. CASE DaemonBind
  <2>1. Opened' = Opened
    BY <1>3 DEF DaemonBind, Opened, MountedLoops, LunOpen
  <2>2. QED  BY <1>3, <2>1 DEF DaemonBind, OpenInv, LunOpen
<1>4. CASE HidProcessDies
  <2>1. CASE CloseLoop(gloop) /\ LunOpen /\ daemon' \in {"failed", "exited"} /\ UNCHANGED leftover
    <3>1. Opened = Opened' \cup {gloop}
      BY <1>4, <2>1 DEF HidProcessDies, Opened, MountedLoops, LunOpen
    <3>2. Opened' \subseteq attached' /\ lazy' \subseteq Opened' /\ attached' \in SUBSET Loops /\ lazy' \in SUBSET Loops
      BY <2>1, <3>1, CloseOpen
    <3>3. QED  BY <1>4, <2>1, <3>2 DEF HidProcessDies, OpenInv, LunOpen
  <2>2. CASE daemon = "install" /\ daemon' = "widowed" /\ UNCHANGED <<attached, lazy>>
    <3>1. Opened' = Opened
      BY <1>4, <2>2 DEF HidProcessDies, Opened, MountedLoops, LunOpen
    <3>2. QED  BY <1>4, <2>2, <3>1 DEF HidProcessDies, OpenInv, LunOpen
  <2>3. CASE /\ daemon = "install" /\ daemon' = "exited" /\ leftover' = leftover \cup {gloop}
             /\ UNCHANGED <<attached, lazy>>
    <3>1. Opened' = Opened
      BY <1>4, <2>3 DEF HidProcessDies, Opened, MountedLoops, LunOpen
    <3>2. QED  BY <1>4, <2>3, <3>1 DEF HidProcessDies, OpenInv, LunOpen
  <2>4. QED  BY <1>4, <2>1, <2>2, <2>3 DEF HidProcessDies, LunOpen
<1>5. CASE DaemonRestart \/ DaemonPauses
  <2>1. Opened' = Opened
    BY <1>5 DEF DaemonRestart, DaemonPauses, Opened, MountedLoops, LunOpen
  <2>2. QED  BY <1>5, <2>1 DEF DaemonRestart, DaemonPauses, OpenInv, LunOpen
<1>6. QED  BY <1>1, <1>2, <1>3, <1>4, <1>5 DEF DaemonNext

\* systemctl stop and start.
LEMMA StopOpen ==
  ASSUME OpenInv, ServiceStop, UNCHANGED <<op, LOOP>>, pc' \in [Scripts -> ScriptPC]
  PROVE  OpenInv'
<1> USE DEF TypeOK, DaemonState, LoopOrNone, Configured
<1>1. mnt' = mnt /\ daemon' = "off" /\ gloop' = gloop /\ bound' = None
  BY DEF ServiceStop
<1>2. CASE LunOpen /\ leftover' = leftover /\ CloseLoop(gloop)
  <2>1. Opened = Opened' \cup {gloop}
    BY <1>1, <1>2 DEF Opened, MountedLoops, LunOpen
  <2>2. Opened' \subseteq attached' /\ lazy' \subseteq Opened' /\ attached' \in SUBSET Loops /\ lazy' \in SUBSET Loops
    BY <1>2, <2>1, CloseOpen
  <2>3. QED  BY <1>1, <1>2, <2>2 DEF ServiceStop, OpenInv, LunOpen
<1>3. CASE LunOpen /\ leftover' = leftover \cup {gloop} /\ UNCHANGED <<attached, lazy>>
  <2>1. Opened' = Opened
    BY <1>1, <1>3 DEF Opened, MountedLoops, LunOpen
  <2>2. QED  BY <1>1, <1>3, <2>1 DEF ServiceStop, OpenInv, LunOpen
<1>4. CASE ~LunOpen /\ UNCHANGED <<leftover, attached, lazy>>
  <2>1. Opened' = Opened
    BY <1>1, <1>4 DEF Opened, MountedLoops, LunOpen
  <2>2. QED  BY <1>1, <1>4, <2>1 DEF ServiceStop, OpenInv, LunOpen
<1>5. QED  BY <1>2, <1>3, <1>4 DEF ServiceStop, LunOpen

\* OpenInv: systemctl start.
LEMMA StartOpen ==
  ASSUME OpenInv, ServiceStart, UNCHANGED <<op, kernelVars>>, pc' \in [Scripts -> ScriptPC],
         LOOP' \in [Scripts -> LoopOrNone]
  PROVE  OpenInv'
<1>1. Opened' = Opened
  BY DEF ServiceStart, Opened, MountedLoops, LunOpen, kernelVars
<1>2. QED  BY <1>1 DEF OpenInv, TypeOK, DaemonState, ServiceStart, Configured, LunOpen, kernelVars

\* The commands of the scripts.
LEMMA ScriptOpen ==
  ASSUME OpenInv, NEW s \in Scripts, Begin(s) \/ Script(s)
  PROVE  OpenInv'
<1> USE DEF Goto
<1>t. /\ pc' \in [Scripts -> ScriptPC] /\ op' \in [Scripts -> Ops] /\ LOOP' \in [Scripts -> LoopOrNone]
  <2> USE DEF OpenInv, TypeOK, ScriptPC, LoopOrNone, FailAt
  <2>1. CASE Begin(s) \/ StopGadget(s) \/ UnbindAll(s) \/ DetachStale(s) \/ StartGadget(s) \/ TrapStart(s)
    BY <2>1 DEF Begin, StopGadget, UnbindAll, DetachStale, StartGadget, TrapStart
  <2>2. CASE AttachImage(s) \/ MountImage(s) \/ Work(s)
    BY <2>2 DEF AttachImage, MountImage, Work, FindLoop
  <2>3. CASE \/ Umount(s, "umount", "release") \/ Release(s, "release", "start")
             \/ Umount(s, "trapUmount", "trapRelease") \/ Release(s, "trapRelease", "trapStart")
    BY <2>3 DEF Umount, Release
  <2>4. QED  BY <2>1, <2>2, <2>3 DEF Script
<1>1. ASSUME NEW step, FailAt(s, step)
      PROVE  OpenInv'
  BY <1>t, <1>1, OpenKept DEF FailAt
<1>2. CASE Begin(s)
  BY <1>t, <1>2, OpenKept DEF Begin
<1>3. CASE StopGadget(s)
  BY <1>t, <1>1, <1>3, StopOpen DEF StopGadget
<1>4. CASE UnbindAll(s)
  <2>1. Opened' = Opened
    BY <1>4 DEF UnbindAll, Opened, MountedLoops, LunOpen, kernelVars
  <2>2. QED  BY <1>t, <1>4, <2>1 DEF UnbindAll, OpenInv, TypeOK, LoopOrNone, kernelVars, Configured, LunOpen
<1>5. CASE DetachStale(s)
  <2>1. DetachLoops(attached) /\ UNCHANGED <<daemonVars, mnt>>
    BY <1>5 DEF DetachStale
  <2>2. /\ Opened' = Opened /\ Opened' \subseteq attached' /\ lazy' \subseteq Opened'
        /\ attached' \in SUBSET Loops /\ lazy' \in SUBSET Loops
    BY <2>1, DetachOpen
  <2>3. QED  BY <1>t, <2>1, <2>2 DEF OpenInv, TypeOK, Configured, LunOpen, daemonVars
<1>6. CASE AttachImage(s)
  <2>1. CASE \E l \in Loops : FindLoop(l) /\ UNCHANGED <<daemonVars, mnt>>
    <3>1. Opened' = Opened
      BY <2>1 DEF Opened, MountedLoops, LunOpen, daemonVars
    <3>2. QED  BY <1>t, <2>1, <3>1 DEF FindLoop, OpenInv, TypeOK, Configured, LunOpen, daemonVars
  <2>2. QED  BY <1>1, <1>6, <2>1 DEF AttachImage
<1>7. CASE MountImage(s)
  <2>1. CASE LOOP[s] \in attached /\ mnt' = <<LOOP[s]>> \o mnt /\ UNCHANGED <<daemonVars, attached, lazy>>
    <3>1. LOOP[s] \in Loops /\ mnt \in Seq(Loops)
      BY <2>1 DEF OpenInv, TypeOK
    <3>2. mnt' \in Seq(Loops) /\ MountedLoops' = MountedLoops \cup {LOOP[s]}
      BY <2>1, <3>1, MountedHead
    <3>3. Opened' = Opened \cup {LOOP[s]}
      BY <2>1, <3>2 DEF Opened, LunOpen, daemonVars
    <3>4. QED  BY <1>t, <2>1, <3>2, <3>3 DEF OpenInv, TypeOK, Configured, LunOpen, daemonVars
  <2>2. CASE UNCHANGED <<daemonVars, kernelVars>>
    BY <1>t, <2>2, OpenKept
  <2>3. QED  BY <1>1, <1>7, <2>1, <2>2 DEF MountImage
<1>8. CASE Work(s)
  BY <1>t, <1>1, <1>8, OpenKept DEF Work
<1>9. ASSUME NEW from, NEW to, Umount(s, from, to)
      PROVE  OpenInv'
  <2>1. CASE mnt # <<>> /\ mnt' = Tail(mnt) /\ CloseLoop(Head(mnt))
    <3>1. mnt \in Seq(Loops)
      BY DEF OpenInv, TypeOK
    <3>2. mnt' \in Seq(Loops) /\ MountedLoops = MountedLoops' \cup {Head(mnt)}
      BY <2>1, <3>1, MountedTail
    <3>3. Opened = Opened' \cup {Head(mnt)}
      BY <1>9, <3>2 DEF Umount, Opened, LunOpen, daemonVars
    <3>4. Opened' \subseteq attached' /\ lazy' \subseteq Opened' /\ attached' \in SUBSET Loops /\ lazy' \in SUBSET Loops
      BY <2>1, <3>3, CloseOpen
    <3>5. QED  BY <1>t, <1>9, <3>2, <3>4 DEF Umount, OpenInv, TypeOK, Configured, LunOpen, daemonVars
  <2>2. QED  BY <1>t, <1>9, <2>1, OpenKept DEF Umount
<1>10. ASSUME NEW from, NEW to, Release(s, from, to)
       PROVE  OpenInv'
  <2>1. DetachLoops({LOOP[s]}) /\ UNCHANGED <<daemonVars, mnt>>
    BY <1>10 DEF Release
  <2>2. /\ Opened' = Opened /\ Opened' \subseteq attached' /\ lazy' \subseteq Opened'
        /\ attached' \in SUBSET Loops /\ lazy' \in SUBSET Loops
    BY <2>1, DetachOpen
  <2>3. QED  BY <1>t, <2>1, <2>2 DEF OpenInv, TypeOK, Configured, LunOpen, daemonVars
<1>11. CASE StartGadget(s) \/ TrapStart(s)
  BY <1>t, <1>11, StartOpen DEF StartGadget, TrapStart
<1>12. QED
  BY <1>2, <1>3, <1>4, <1>5, <1>6, <1>7, <1>8, <1>9, <1>10, <1>11 DEF Script

\* OpenInv is inductive.
LEMMA StepOpen == OpenInv /\ [Next]_vars => OpenInv'
<1>1. ASSUME OpenInv, UNCHANGED vars PROVE OpenInv'
  BY <1>1, OpenKept DEF vars, scriptVars, OpenInv, TypeOK
<1>2. QED  BY <1>1, DaemonOpen, ScriptOpen DEF Next

\* OpenInv holds of every behaviour.
LEMMA OpenInvariant == Spec => []OpenInv
  BY OpenInit, StepOpen, PTL DEF Spec

\* The drive the target sees keeps its loop device, however many scripts run
\* at once, whatever fails and although their traps detach devices by a name
\* that may have passed to the gadget.
THEOREM Backed == Spec => []DriveBacked
<1>1. ASSUME OpenInv PROVE DriveBacked
  BY <1>1 DEF OpenInv, DriveBacked, Opened, LunOpen
<1>2. QED  BY <1>1, OpenInvariant, PTL

\* The scripts that have mounted the image or may have, and those that still
\* detach the device they attached.
Mounters == {s \in Scripts : pc[s] \in {"work", "umount", "trapUmount"}}
Keepers ==
    {s \in Scripts : pc[s] \in {"mount", "work", "umount", "release", "start", "trapUmount", "trapRelease"}}

\* What somebody still takes off the image: a script, or the last opener.
AccountInv ==
    /\ Len(mnt) <= Cardinality(Mounters)
    /\ Configured =>
          \A l \in attached \ (leftover \cup lazy \cup {gloop}) : \E s \in Keepers : LOOP[s] = l

\* Where umount works and the scripts are finitely many.
Unmountable == IsFiniteSet(Scripts) /\ "umount" \notin Failures

\* AccountInv holds before the first start.
LEMMA AccountInit == ASSUME Unmountable PROVE Init => AccountInv
<1> SUFFICES ASSUME Init PROVE AccountInv
  OBVIOUS
<1>1. Mounters = {}
  BY DEF Init, Mounters
<1>2. Cardinality(Mounters) = 0 /\ Len(mnt) = 0
  BY <1>1, FS_EmptySet DEF Init
<1>3. QED  BY <1>2 DEF Init, AccountInv, Configured, LunOpen

\* The number of mounts follows the scripts that may have one.
LEMMA MountsCounted ==
  ASSUME Unmountable, OpenInv, Len(mnt) <= Cardinality(Mounters),
         \/ mnt' = mnt /\ Mounters \subseteq Mounters'
         \/ \E s \in Mounters' \ Mounters, l \in Loops : mnt' = <<l>> \o mnt /\ Mounters' = Mounters \cup {s}
         \/ \E s \in Mounters : mnt # <<>> /\ mnt' = Tail(mnt) /\ Mounters' = Mounters \ {s}
         \/ mnt = <<>> /\ mnt' = mnt
  PROVE  Len(mnt') <= Cardinality(Mounters')
<1>1. IsFiniteSet(Mounters) /\ IsFiniteSet(Mounters')
  <2>1. Mounters \subseteq Scripts /\ Mounters' \subseteq Scripts
    BY DEF Mounters
  <2>2. QED  BY <2>1, FS_Subset DEF Unmountable
<1>2. Cardinality(Mounters) \in Nat /\ Cardinality(Mounters') \in Nat /\ mnt \in Seq(Loops) /\ Len(mnt) \in Nat
  <2>1. mnt \in Seq(Loops)
    BY DEF OpenInv, TypeOK
  <2>2. QED  BY <1>1, <2>1, FS_CardinalityType
<1>3. CASE mnt' = mnt /\ Mounters \subseteq Mounters'
  BY <1>1, <1>2, <1>3, FS_Subset
<1>4. CASE \E s \in Mounters' \ Mounters, l \in Loops : mnt' = <<l>> \o mnt /\ Mounters' = Mounters \cup {s}
  <2>1. PICK s \in Mounters' \ Mounters, l \in Loops : mnt' = <<l>> \o mnt /\ Mounters' = Mounters \cup {s}
    BY <1>4
  <2>2. Cardinality(Mounters') = Cardinality(Mounters) + 1
    BY <1>1, <2>1, FS_AddElement
  <2>3. Len(mnt') = Len(mnt) + 1
    BY <1>2, <2>1, MountedHead
  <2>4. QED  BY <1>2, <2>2, <2>3
<1>5. CASE \E s \in Mounters : mnt # <<>> /\ mnt' = Tail(mnt) /\ Mounters' = Mounters \ {s}
  <2>1. PICK s \in Mounters : mnt # <<>> /\ mnt' = Tail(mnt) /\ Mounters' = Mounters \ {s}
    BY <1>5
  <2>2. Cardinality(Mounters') = Cardinality(Mounters) - 1
    BY <1>1, <2>1, FS_RemoveElement
  <2>3. Len(mnt') = Len(mnt) - 1
    BY <1>2, <2>1, MountedTail
  <2>4. QED  BY <1>2, <2>2, <2>3
<1>6. CASE mnt = <<>> /\ mnt' = mnt
  BY <1>2, <1>6
<1>7. QED  BY <1>3, <1>4, <1>5, <1>6

\* Steps that attach no device and move no script out of its duties.
LEMMA AccountKept ==
  ASSUME Unmountable, OpenInv, AccountInv,
         mnt' = mnt, Mounters \subseteq Mounters', LOOP' = LOOP, Keepers \subseteq Keepers',
         leftover \subseteq leftover', gloop' = gloop,
         Configured' => Configured,
         attached' \ lazy' \subseteq attached \ lazy
  PROVE  AccountInv'
<1>1. Len(mnt') <= Cardinality(Mounters')
  BY MountsCounted DEF AccountInv
<1>2. QED  BY <1>1 DEF AccountInv

\* AccountInv: the steps of the service.
LEMMA DaemonAccount ==
  ASSUME Unmountable, OpenInv, AccountInv, DaemonNext
  PROVE  AccountInv'
<1>k. Mounters \subseteq Mounters' /\ Keepers \subseteq Keepers' /\ LOOP' = LOOP /\ mnt' = mnt
  BY DEF DaemonNext, DaemonAttach, DaemonLun, DaemonBind, DaemonPauses, HidProcessDies, DaemonRestart,
         Mounters, Keepers, scriptVars, kernelVars
<1>1. CASE DaemonAttach
  <2>1. attached' \ lazy' \subseteq {gloop'}
    BY <1>1 DEF DaemonAttach
  <2>2. Len(mnt') <= Cardinality(Mounters')
    BY <1>k, MountsCounted DEF AccountInv
  <2>3. QED  BY <2>1, <2>2 DEF AccountInv
<1>2. CASE DaemonLun \/ DaemonBind \/ DaemonPauses \/ DaemonRestart
  BY <1>2, <1>k, AccountKept
     DEF DaemonLun, DaemonBind, DaemonPauses, DaemonRestart, Configured, LunOpen, kernelVars
<1>3. CASE HidProcessDies
  <2>1. (Configured' => Configured) /\ UNCHANGED gloop /\ leftover \subseteq leftover'
    BY <1>3 DEF HidProcessDies, Configured, LunOpen
  <2>2. attached' \ lazy' \subseteq attached \ lazy
    BY <1>3 DEF HidProcessDies, CloseLoop
  <2>3. QED  BY <2>1, <2>2, <1>k, AccountKept
<1>4. QED  BY <1>1, <1>2, <1>3 DEF DaemonNext

\* A script attaches a device it will detach, and mounts what it will unmount.
LEMMA ScriptAccount ==
  ASSUME Unmountable, OpenInv, AccountInv, NEW s \in Scripts, Begin(s) \/ Script(s)
  PROVE  AccountInv'
<1>t. pc \in [Scripts -> ScriptPC] /\ LOOP \in [Scripts -> LoopOrNone] /\ mnt \in Seq(Loops)
  BY DEF OpenInv, TypeOK
<1>1. ASSUME NEW step \in {"stop", "attach", "mount", "work"}, FailAt(s, step)
      PROVE  AccountInv'
  <2>1. Mounters \subseteq Mounters' /\ Keepers \subseteq Keepers'
    BY <1>t, <1>1 DEF FailAt, Goto, Mounters, Keepers
  <2>2. QED  BY <1>1, <2>1, AccountKept DEF FailAt, Configured, LunOpen, daemonVars, kernelVars
<1>2. CASE Begin(s)
  <2>1. Mounters \subseteq Mounters' /\ Keepers \subseteq Keepers'
    BY <1>t, <1>2 DEF Begin, Mounters, Keepers
  <2>2. QED  BY <1>2, <2>1, AccountKept DEF Begin, Configured, LunOpen, daemonVars, kernelVars
<1>3. CASE StopGadget(s)
  <2>1. CASE Goto(s, "stop", "unbind") /\ ServiceStop /\ UNCHANGED <<op, LOOP>>
    <3>1. Mounters \subseteq Mounters' /\ Keepers \subseteq Keepers'
      BY <1>t, <2>1 DEF Goto, Mounters, Keepers
    <3>2. attached' \ lazy' \subseteq attached \ lazy
      BY <2>1 DEF ServiceStop, CloseLoop
    <3>3. leftover \subseteq leftover' /\ daemon' = "off" /\ gloop' = gloop /\ mnt' = mnt
      BY <2>1 DEF ServiceStop
    <3>4. QED  BY <2>1, <3>1, <3>2, <3>3, AccountKept DEF Configured, LunOpen
  <2>2. QED  BY <1>1, <1>3, <2>1 DEF StopGadget
<1>4. CASE UnbindAll(s)
  <2>1. Mounters \subseteq Mounters' /\ Keepers \subseteq Keepers'
    BY <1>t, <1>4 DEF UnbindAll, Goto, Mounters, Keepers
  <2>2. QED  BY <1>4, <2>1, AccountKept DEF UnbindAll, Configured, LunOpen, kernelVars
<1>5. CASE DetachStale(s)
  <2>1. Mounters \subseteq Mounters' /\ Keepers \subseteq Keepers'
    BY <1>t, <1>5 DEF DetachStale, Goto, Mounters, Keepers
  <2>2. attached' \ lazy' \subseteq attached \ lazy
    BY <1>5 DEF DetachStale, DetachLoops
  <2>3. QED  BY <1>5, <2>1, <2>2, AccountKept DEF DetachStale, Configured, LunOpen, daemonVars
<1>6. CASE AttachImage(s)
  <2>1. CASE Goto(s, "attach", "mount") /\ UNCHANGED <<op, daemonVars, mnt>>
             /\ \E l \in Loops : FindLoop(l) /\ LOOP' = [LOOP EXCEPT ![s] = l]
    <3>1. PICK l \in Loops : FindLoop(l) /\ LOOP' = [LOOP EXCEPT ![s] = l]
      BY <2>1
    <3>2. Mounters \subseteq Mounters' /\ Keepers' = Keepers \cup {s} /\ s \notin Keepers
      BY <1>t, <2>1 DEF Goto, Mounters, Keepers
    <3>3. LOOP'[s] = l /\ \A t \in Scripts \ {s} : LOOP'[t] = LOOP[t]
      BY <1>t, <3>1
    <3>4. Keepers \subseteq Scripts
      BY DEF Keepers
    <3>5. Len(mnt') <= Cardinality(Mounters')
      BY <2>1, <3>2, MountsCounted DEF AccountInv
    <3>6. attached' = attached \cup {l} /\ lazy' = lazy
      BY <3>1 DEF FindLoop
    <3>7. QED  BY <2>1, <3>2, <3>3, <3>4, <3>5, <3>6 DEF AccountInv, Configured, LunOpen, daemonVars
  <2>2. QED  BY <1>1, <1>6, <2>1 DEF AttachImage
<1>7. CASE MountImage(s)
  <2>1. CASE Goto(s, "mount", "work") /\ LOOP[s] \in attached /\ mnt' = <<LOOP[s]>> \o mnt
             /\ UNCHANGED <<op, LOOP, daemonVars, attached, lazy>>
    <3>1. Mounters' = Mounters \cup {s} /\ s \in Mounters' \ Mounters /\ Keepers \subseteq Keepers'
      BY <1>t, <2>1 DEF Goto, Mounters, Keepers
    <3>2. LOOP[s] \in Loops
      BY <2>1 DEF OpenInv, TypeOK
    <3>3. Len(mnt') <= Cardinality(Mounters')
      BY <2>1, <3>1, <3>2, MountsCounted DEF AccountInv
    <3>4. QED  BY <2>1, <3>1, <3>3 DEF AccountInv, Configured, LunOpen, daemonVars
  <2>2. CASE Goto(s, "mount", "trapUmount") /\ UNCHANGED <<op, LOOP, daemonVars, kernelVars>>
    <3>1. Mounters \subseteq Mounters' /\ Keepers \subseteq Keepers'
      BY <1>t, <2>2 DEF Goto, Mounters, Keepers
    <3>2. QED  BY <2>2, <3>1, AccountKept DEF Configured, LunOpen, daemonVars, kernelVars
  <2>3. QED  BY <1>1, <1>7, <2>1, <2>2 DEF MountImage
<1>8. CASE Work(s)
  <2>1. CASE Goto(s, "work", IF op[s] = "drop" THEN "trapUmount" ELSE "umount")
             /\ UNCHANGED <<op, LOOP, daemonVars, kernelVars>>
    <3>1. Mounters \subseteq Mounters' /\ Keepers \subseteq Keepers'
      BY <1>t, <2>1 DEF Goto, Mounters, Keepers
    <3>2. QED  BY <2>1, <3>1, AccountKept DEF Configured, LunOpen, daemonVars, kernelVars
  <2>2. QED  BY <1>1, <1>8, <2>1 DEF Work
<1>9. ASSUME NEW from \in {"umount", "trapUmount"}, NEW to \in {"release", "trapRelease"}, Umount(s, from, to)
      PROVE  AccountInv'
  <2>1. Mounters' = Mounters \ {s} /\ s \in Mounters /\ Keepers \subseteq Keepers' /\ UNCHANGED <<LOOP, daemonVars>>
    BY <1>t, <1>9 DEF Umount, Goto, Mounters, Keepers
  <2>2. \/ mnt # <<>> /\ mnt' = Tail(mnt)
        \/ mnt = <<>> /\ mnt' = mnt
    BY <1>9 DEF Umount, Unmountable, kernelVars
  <2>3. Len(mnt') <= Cardinality(Mounters')
    BY <2>1, <2>2, MountsCounted DEF AccountInv
  <2>4. attached' \ lazy' \subseteq attached \ lazy
    BY <1>9 DEF Umount, CloseLoop, kernelVars
  <2>5. QED  BY <2>1, <2>3, <2>4 DEF AccountInv, Configured, LunOpen, daemonVars
<1>10. ASSUME NEW from \in {"release", "trapRelease"}, NEW to \in {"start", "trapStart"}, Release(s, from, to)
       PROVE  AccountInv'
  <2>1. Mounters \subseteq Mounters' /\ Keepers \ {s} \subseteq Keepers' /\ UNCHANGED <<LOOP, daemonVars, mnt>>
    BY <1>t, <1>10 DEF Release, Goto, Mounters, Keepers
  <2>2. attached' \ lazy' \subseteq (attached \ lazy) \ {LOOP[s]}
    BY <1>10 DEF Release, DetachLoops
  <2>3. Len(mnt') <= Cardinality(Mounters')
    BY <2>1, MountsCounted DEF AccountInv
  <2>4. QED  BY <2>1, <2>2, <2>3 DEF AccountInv, Configured, LunOpen, daemonVars
<1>11. CASE StartGadget(s) \/ TrapStart(s)
  <2>1. Mounters \subseteq Mounters' /\ Keepers \subseteq Keepers'
    BY <1>t, <1>11 DEF StartGadget, TrapStart, Goto, Mounters, Keepers
  <2>2. \A t \in Keepers : LOOP'[t] = LOOP[t]
    BY <1>t, <1>11 DEF StartGadget, TrapStart, Goto, Keepers
  <2>3. mnt' = mnt /\ attached' = attached /\ lazy' = lazy /\ leftover' = leftover /\ gloop' = gloop
        /\ (Configured' => Configured)
    BY <1>11 DEF StartGadget, TrapStart, ServiceStart, Configured, LunOpen, kernelVars
  <2>4. Len(mnt') <= Cardinality(Mounters')
    BY <2>1, <2>3, MountsCounted DEF AccountInv
  <2>5. QED  BY <2>1, <2>2, <2>3, <2>4 DEF AccountInv
<1>12. QED
  BY <1>2, <1>3, <1>4, <1>5, <1>6, <1>7, <1>8, <1>9, <1>10, <1>11 DEF Script

\* AccountInv: a step of nobody.
LEMMA AccountStutter ==
  ASSUME Unmountable, OpenInv, AccountInv, UNCHANGED vars
  PROVE  AccountInv'
<1>1. Mounters \subseteq Mounters' /\ Keepers \subseteq Keepers'
  BY DEF vars, scriptVars, Mounters, Keepers
<1>2. QED  BY <1>1, AccountKept DEF vars, scriptVars, Configured, LunOpen, daemonVars, kernelVars

\* No loop device of the image is lost, however many scripts run at once, as
\* long as umount works: what a script attached it detaches, and what was open
\* then goes with its last opener.
THEOREM Accounted == ASSUME Unmountable PROVE Spec => []LoopsAccounted
<1>1. Init => AccountInv
  BY AccountInit
<1>2. OpenInv /\ AccountInv /\ [Next]_vars => AccountInv'
  BY DaemonAccount, ScriptAccount, AccountStutter DEF Next
<1>3. ASSUME OpenInv, AccountInv PROVE LoopsAccounted
  <2> SUFFICES ASSUME Idle, LunOpen PROVE attached = {gloop} \cup leftover
    BY DEF LoopsAccounted
  <2>1. Mounters = {} /\ Keepers = {}
    BY DEF Idle, Mounters, Keepers
  <2>2. mnt = <<>>
    <3>1. mnt \in Seq(Loops) /\ Len(mnt) <= 0
      BY <1>3, <2>1, FS_EmptySet DEF AccountInv, OpenInv, TypeOK
    <3>2. QED  BY <3>1
  <2>3. MountedLoops = {}
    BY <2>2 DEF MountedLoops
  <2>4. Opened = {gloop} \cup leftover
    BY <2>3 DEF Opened
  <2>5. QED  BY <1>3, <2>1, <2>4 DEF AccountInv, OpenInv, Configured
<1>4. QED  BY <1>1, <1>2, <1>3, OpenInvariant, PTL DEF Spec

-----------------------------------------------------------------------------
(* The service comes back                                                  *)

\* What a script leaves to the service when it ends, scripts run one at a
\* time: it has the service off in its window only, a service that is off will
\* be started by a script's trap, and the drive of one that runs is exposed.
ServiceInv ==
    /\ \A s, t \in Scripts : pc[s] # "idle" /\ pc[t] # "idle" => s = t
    /\ \A s \in Scripts : pc[s] \in Window => daemon = "off"
    /\ daemon = "off" => ~Idle
    /\ daemon \in {"install", "run"} => bound # None

\* ServiceInv holds before the first script.
LEMMA ServiceInit == Init => ServiceInv
  BY DEF Init, ServiceInv, Window

\* ServiceInv: the steps of the service.
LEMMA DaemonService ==
  ASSUME OpenInv, ServiceInv, DaemonNext
  PROVE  ServiceInv'
<1>1. /\ pc' = pc /\ daemon' # "off" /\ daemon # "off"
      /\ daemon' \in {"install", "run"} =>
            \/ daemon = "bind" /\ bound' = gloop
            \/ daemon = "install" /\ bound' = bound
  BY DEF DaemonNext, DaemonAttach, DaemonLun, DaemonBind, DaemonPauses, HidProcessDies, DaemonRestart, scriptVars, LunOpen
<1>2. daemon = "bind" => gloop # None
  BY ShareImageAssumption DEF OpenInv, Configured, LunOpen
<1>3. QED  BY <1>1, <1>2 DEF ServiceInv, Idle

\* ServiceInv: the commands of the scripts.
LEMMA ScriptService ==
  ASSUME Serial, OpenInv, ServiceInv, NEW s \in Scripts, Begin(s) \/ Script(s)
  PROVE  ServiceInv'
<1>t. pc \in [Scripts -> ScriptPC] /\ pc' \in [Scripts -> ScriptPC]
  BY ScriptOpen DEF OpenInv, TypeOK
<1>1. \A t \in Scripts \ {s} : pc[t] = "idle"
  <2>1. CASE Begin(s)
    BY <2>1 DEF Begin, Idle
  <2>2. CASE Script(s)
    <3>1. pc[s] # "idle"
      BY <2>2 DEF Script, StopGadget, UnbindAll, DetachStale, AttachImage, MountImage, Work,
                  Umount, Release, StartGadget, TrapStart, FailAt, Goto
    <3>2. QED  BY <3>1 DEF ServiceInv
  <2>3. QED  BY <2>1, <2>2
<1>2. \A t \in Scripts \ {s} : pc'[t] = "idle"
  BY <1>t, <1>1 DEF Begin, Script, StopGadget, UnbindAll, DetachStale, AttachImage, MountImage,
     Work, Umount, Release, StartGadget, TrapStart, FailAt, Goto
<1>3. ASSUME NEW step \in {"stop", "attach", "mount", "work"}, FailAt(s, step)
      PROVE  ServiceInv'
  BY <1>t, <1>1, <1>2, <1>3 DEF FailAt, Goto, ServiceInv, Idle, Window, daemonVars
<1> USE <1>t, <1>1, <1>2 DEF ServiceInv, Goto, Idle, Window
<1>4. CASE Begin(s)
  BY <1>4 DEF Begin, daemonVars
<1>5. CASE StopGadget(s)
  BY <1>3, <1>5 DEF StopGadget, ServiceStop
<1>6. CASE UnbindAll(s)
  BY <1>6 DEF UnbindAll
<1>7. CASE DetachStale(s) \/ AttachImage(s) \/ MountImage(s) \/ Work(s)
  BY <1>3, <1>7 DEF DetachStale, AttachImage, MountImage, Work, daemonVars
<1>8. CASE \/ Umount(s, "umount", "release") \/ Release(s, "release", "start")
           \/ Umount(s, "trapUmount", "trapRelease") \/ Release(s, "trapRelease", "trapStart")
  BY <1>8 DEF Umount, Release, daemonVars
<1>9. CASE StartGadget(s) \/ TrapStart(s)
  BY <1>9 DEF StartGadget, TrapStart, ServiceStart
<1>10. QED
  BY <1>4, <1>5, <1>6, <1>7, <1>8, <1>9 DEF Script

\* ServiceInv is inductive.
LEMMA StepService ==
  ASSUME Serial, OpenInv, ServiceInv, [Next]_vars
  PROVE  ServiceInv'
<1>1. ASSUME UNCHANGED vars PROVE ServiceInv'
  BY <1>1 DEF vars, scriptVars, daemonVars, ServiceInv, Idle
<1>2. QED  BY <1>1, DaemonService, ScriptService DEF Next

\* The steps of a start-up that are ahead, the most first: a loop device that
\* a trap took away costs the service one failure and a second attempt.
Robbed == daemon = "lun" /\ gloop \notin attached
Failed == daemon = "failed"
Attaching == daemon = "attach"
Loading == daemon = "lun" /\ gloop \in attached
Binding == daemon = "bind"
Starting == daemon \in {"attach", "lun", "bind", "failed"}

\* The target has its keyboard, mouse and drive, or the HID process died, and
\* systemd takes the service for finished or sees it run.
Back == bound # None \/ daemon \in {"exited", "widowed"}

\* When no script runs, the service is back or on its way.
LEMMA BackOrStarting ==
  ASSUME OpenInv, ServiceInv, Idle
  PROVE  /\ Back \/ Starting
         /\ Starting <=> Robbed \/ Failed \/ Attaching \/ Loading \/ Binding
         /\ Starting => ~Back
  BY DEF OpenInv, TypeOK, DaemonState, ServiceInv, Back, Starting,
         Robbed, Failed, Attaching, Loading, Binding

\* While no script runs only the service steps: each step brings the start-up
\* nearer to its end, unless the HID process dies, and what is back stays.
LEMMA StartUpStep ==
  ASSUME OpenInv, ServiceInv, Idle, Idle', DaemonNext
  PROVE  /\ Robbed => Failed'
         /\ Failed => Attaching'
         /\ Attaching => Loading'
         /\ Loading => Binding'
         /\ Binding /\ ~HidProcessDies => Back'
         /\ Back => Back'
<1> USE ShareImageAssumption DEF Robbed, Failed, Attaching, Loading, Binding, Back, OpenInv, Configured,
        LunOpen, scriptVars, kernelVars
<1>1. CASE DaemonAttach
  BY <1>1 DEF DaemonAttach
<1>2. CASE DaemonLun
  BY <1>2 DEF DaemonLun
<1>3. CASE DaemonBind
  BY <1>3 DEF DaemonBind
<1>4. CASE HidProcessDies
  BY <1>4 DEF HidProcessDies
<1>5. CASE DaemonRestart
  BY <1>5 DEF DaemonRestart
<1>6. CASE DaemonPauses
  BY <1>6 DEF DaemonPauses
<1>7. QED  BY <1>1, <1>2, <1>3, <1>4, <1>5, <1>6 DEF DaemonNext

\* No script steps without running before or after.
LEMMA OnlyDaemon ==
  ASSUME OpenInv, Idle, Idle', [Next]_vars
  PROVE  DaemonNext \/ UNCHANGED vars
<1>1. ASSUME NEW s \in Scripts, Begin(s) PROVE FALSE
  BY <1>1 DEF Begin, Idle, OpenInv, TypeOK
<1>2. ASSUME NEW s \in Scripts, Script(s) PROVE FALSE
  BY <1>2 DEF Script, StopGadget, UnbindAll, DetachStale, AttachImage, MountImage, Work,
              Umount, Release, StartGadget, TrapStart, FailAt, Goto, Idle
<1>3. QED  BY <1>1, <1>2 DEF Next

\* A step of nobody leaves the start-up where it is.
LEMMA StartUpKept ==
  ASSUME UNCHANGED vars
  PROVE  /\ Robbed => Robbed'
         /\ Failed => Failed'
         /\ Attaching => Attaching'
         /\ Loading => Loading'
         /\ Binding => Binding'
         /\ Back => Back'
  BY DEF vars, daemonVars, kernelVars, Robbed, Failed, Attaching, Loading, Binding, Back

\* Abandoned gadgets keep few loop devices open.
LeftoverInv == IsFiniteSet(leftover) /\ Cardinality(leftover) <= MaxLeftover

\* LeftoverInv is inductive: only a service that is stopped, or loses its HID
\* process in __enter__, abandons one.
LEMMA StepLeftover ==
  ASSUME LeftoverInv, [Next]_vars
  PROVE  LeftoverInv'
<1>1. CASE leftover' = leftover
  BY <1>1 DEF LeftoverInv
<1>2. CASE leftover' = leftover \cup {gloop} /\ Cardinality(leftover) < MaxLeftover
  <2>1. IsFiniteSet(leftover') /\ Cardinality(leftover) \in Nat
        /\ (Cardinality(leftover') = Cardinality(leftover) \/ Cardinality(leftover') = Cardinality(leftover) + 1)
    BY <1>2, FS_AddElement, FS_CardinalityType DEF LeftoverInv
  <2>2. QED  BY <1>2, <2>1, ShareImageAssumption DEF LeftoverInv
<1>3. ASSUME DaemonNext
      PROVE  \/ leftover' = leftover
             \/ leftover' = leftover \cup {gloop} /\ Cardinality(leftover) < MaxLeftover
  BY <1>3 DEF DaemonNext, DaemonAttach, DaemonLun, DaemonBind, DaemonPauses, HidProcessDies, DaemonRestart
<1>4. ASSUME NEW s \in Scripts, Begin(s) \/ Script(s)
      PROVE  \/ leftover' = leftover
             \/ leftover' = leftover \cup {gloop} /\ Cardinality(leftover) < MaxLeftover
  <2>1. CASE StopGadget(s)
    BY <2>1 DEF StopGadget, ServiceStop, FailAt, daemonVars
  <2>2. CASE StartGadget(s) \/ TrapStart(s)
    BY <2>2 DEF StartGadget, TrapStart, ServiceStart
  <2>3. CASE Begin(s) \/ UnbindAll(s) \/ DetachStale(s) \/ AttachImage(s) \/ MountImage(s) \/ Work(s)
    BY <2>3 DEF Begin, UnbindAll, DetachStale, AttachImage, MountImage, Work, FailAt, daemonVars
  <2>4. CASE \/ Umount(s, "umount", "release") \/ Release(s, "release", "start")
             \/ Umount(s, "trapUmount", "trapRelease") \/ Release(s, "trapRelease", "trapStart")
    BY <2>4 DEF Umount, Release, daemonVars
  <2>5. QED  BY <1>4, <2>1, <2>2, <2>3, <2>4 DEF Script
<1>5. ASSUME UNCHANGED vars PROVE leftover' = leftover
  BY <1>5 DEF vars, daemonVars
<1>6. QED  BY <1>1, <1>2, <1>3, <1>4, <1>5 DEF Next

\* A start-up always finds its next step possible once no script runs: there
\* is a loop device to attach, as long as there are more than abandoned
\* gadgets hold, and the UDC is free.
THEOREM StartUpPossible ==
  ASSUME OneAtATime, IsFiniteSet(Loops), MaxLeftover < Cardinality(Loops)
  PROVE  Spec => [](Idle => /\ Attaching => Loops \ (attached \cap Opened) # {}
                            /\ Binding => bound = None)
<1>1. Spec => []LeftoverInv
  <2>1. Init => LeftoverInv
    BY ShareImageAssumption, FS_EmptySet DEF Init, LeftoverInv
  <2>2. LeftoverInv /\ [Next]_vars => LeftoverInv'
    BY StepLeftover
  <2>3. QED  BY <2>1, <2>2, PTL DEF Spec
<1>2. ASSUME SerialInv, OpenInv, LeftoverInv, Idle
      PROVE  (Attaching => Loops \ (attached \cap Opened) # {}) /\ (Binding => bound = None)
  <2>1. mnt = <<>>
    BY <1>2 DEF SerialInv, Idle
  <2>2. Attaching => Opened = leftover
    BY <2>1 DEF Attaching, Opened, MountedLoops, LunOpen
  <2>3. Loops # leftover
    BY <1>2, FS_CardinalityType, ShareImageAssumption DEF LeftoverInv
  <2>4. leftover \subseteq Loops
    BY <1>2 DEF OpenInv, TypeOK
  <2>5. QED  BY <1>2, <2>2, <2>3, <2>4 DEF OpenInv, Binding
<1>3. QED  BY <1>1, <1>2, SerialInvariant, OpenInvariant, PTL

\* "Whatever happens, leave the gadget running so KVM never stays dead"
\* (kvm-share.sh), when scripts run one at a time: if a start-up that nobody
\* stops goes on, the target has its keyboard, mouse and drive back for good
\* once no more scripts run, whatever the scripts' commands did, unless the HID
\* process died since the service was started.  Starting is where
\* StartUpPossible finds a next step; the HID process does not die for ever.
THEOREM ComesBack ==
  ASSUME Serial
  PROVE  Spec /\ (<>[]Starting => []<><<DaemonNext>>_vars) /\ <>[][~HidProcessDies]_vars
         => KvmComesBack
<1>1. Spec => []ServiceInv
  <2>1. OpenInv /\ ServiceInv /\ [Next]_vars => ServiceInv'
    BY StepService
  <2>2. QED  BY <2>1, ServiceInit, OpenInvariant, PTL DEF Spec
<1>2. OpenInv /\ ServiceInv /\ Idle => (Back \/ Starting) /\ (Starting => ~Back)
      /\ (Starting => Robbed \/ Failed \/ Attaching \/ Loading \/ Binding)
  BY BackOrStarting
<1>3. OpenInv /\ ServiceInv /\ Idle /\ Idle' /\ <<DaemonNext>>_vars /\ [~HidProcessDies]_vars =>
         /\ Robbed => Failed'
         /\ Failed => Attaching'
         /\ Attaching => Loading'
         /\ Loading => Binding'
         /\ Binding => Back'
  BY StartUpStep
<1>4. OpenInv /\ ServiceInv /\ Idle /\ Idle' /\ [Next]_vars /\ [~HidProcessDies]_vars =>
         /\ Robbed => Robbed' \/ Failed'
         /\ Failed => Failed' \/ Attaching'
         /\ Attaching => Attaching' \/ Loading'
         /\ Loading => Loading' \/ Binding'
         /\ Binding => Binding' \/ Back'
         /\ Back => Back'
  BY OnlyDaemon, StartUpStep, StartUpKept
<1>5. QED
  BY <1>1, <1>2, <1>3, <1>4, OpenInvariant, PTL DEF Spec, KvmComesBack, Back

=============================================================================
