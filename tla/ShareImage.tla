----------------------------- MODULE ShareImage -----------------------------
(***************************************************************************)
(* The disk image on the board and everyone who touches it: the transfer   *)
(* scripts (board/kvm-share.sh and board/kvm-drop.sh, which detach, mount  *)
(* and re-attach it the same way), the systemd service kvm-hid that        *)
(* exposes it to the target (board/kvm_hid.py, the unit in                 *)
(* board/deploy.sh), and the kernel's loop devices, mounts and UDC, which  *)
(* are external.  One command of a script is one step; the daemon's        *)
(* start-up runs between them.  The files on the image are left out.       *)
(***************************************************************************)
EXTENDS Naturals, Sequences, FiniteSets

CONSTANTS
    Scripts,     \* script processes that may run at once
    Loops,       \* loop devices
    None,        \* no loop device
    Serial,      \* TRUE: a script is started only when no other one runs
    Failures,    \* which commands may fail, a subset of FailureKinds
    MaxCrashes,  \* bound: times the daemon ends by itself
    MaxLeftover  \* bound: gadgets abandoned during start-up

FailureKinds == {"check", "stop", "attach", "mount", "work", "umount"}

ASSUME ShareImageAssumption ==
    /\ None \notin Loops
    /\ Serial \in BOOLEAN
    /\ Failures \subseteq FailureKinds
    /\ MaxCrashes \in Nat /\ MaxLeftover \in Nat

VARIABLES
    pc,        \* script: its next command
    op,        \* script: its first argument, "drop" for kvm-drop.sh
    LOOP,      \* script: its shell variable LOOP
    daemon,    \* the kvm-hid service: off, its start-up step, run, failed,
               \* exited with status 0, or widowed: it runs on without its HID
               \* process and without the UDC
    gloop,     \* the daemon's loop device, msc_backing
    bound,     \* the loop device the UDC exposes to the target, or None
    leftover,  \* loop devices that abandoned gadgets keep open
    attached,  \* loop devices attached to the image
    lazy,      \* those to be detached when the last opener closes them
    mnt,       \* what is mounted on /opt/kvm/mnt, the last mount first
    crashes    \* times the daemon ended by itself

scriptVars == <<pc, op, LOOP>>
daemonVars == <<daemon, gloop, bound, leftover, crashes>>
kernelVars == <<attached, lazy, mnt>>
vars == <<scriptVars, daemonVars, kernelVars>>

Ops == {"push", "pull", "list", "reverse", "sync", "drop"}

\* The operations whose work ends the script when it fails (set -e).
StrictOps == {"push", "list", "drop"}

ScriptPC ==
    { "idle", "stop", "unbind", "detach", "attach", "mount", "work",
      "umount", "release", "start", "trapUmount", "trapRelease", "trapStart" }

DaemonState ==
    {"off", "attach", "lun", "bind", "install", "run", "failed", "exited", "widowed"}

LoopOrNone == Loops \cup {None}

TypeOK ==
    /\ pc \in [Scripts -> ScriptPC] /\ op \in [Scripts -> Ops]
    /\ LOOP \in [Scripts -> LoopOrNone]
    /\ daemon \in DaemonState /\ gloop \in LoopOrNone /\ bound \in LoopOrNone
    /\ leftover \in SUBSET Loops
    /\ attached \in SUBSET Loops /\ lazy \in SUBSET Loops
    /\ mnt \in Seq(Loops) /\ crashes \in Nat

Init ==
    /\ pc = [s \in Scripts |-> "idle"]
    /\ op = [s \in Scripts |-> "list"]
    /\ LOOP = [s \in Scripts |-> None]
    /\ daemon = "attach" /\ gloop = None /\ bound = None /\ leftover = {}
    /\ attached = {} /\ lazy = {} /\ mnt = <<>> /\ crashes = 0

Idle == \A s \in Scripts : pc[s] = "idle"

-----------------------------------------------------------------------------
(* Loop devices (external)                                                 *)

\* The LUN of the daemon's gadget is open from its configuration to teardown.
LunOpen == daemon \in {"bind", "install", "run", "widowed"}

MountedLoops == {mnt[i] : i \in DOMAIN mnt}

Opened == MountedLoops \cup leftover \cup (IF LunOpen THEN {gloop} ELSE {})

\* losetup -d: a device somebody has open goes when the last opener does.
DetachLoops(D) ==
    /\ attached' = attached \ (D \ Opened)
    /\ lazy' = lazy \cup (D \cap attached \cap Opened)

\* An opener of l closes it; the last one to do so may detach it.
CloseLoop(l) ==
    IF l \in lazy \ Opened'
    THEN attached' = attached \ {l} /\ lazy' = lazy \ {l}
    ELSE UNCHANGED <<attached, lazy>>

\* losetup --find --show: a device that is not in use.
FindLoop(l) ==
    /\ l \in Loops \ attached
    /\ attached' = attached \cup {l}
    /\ UNCHANGED lazy

-----------------------------------------------------------------------------
(* The service: main() of kvm_hid.py under systemd                         *)

\* Variant: stale loop devices are left alone.
DaemonAttachOnly ==
    /\ daemon = "attach"
    /\ \E l \in Loops : FindLoop(l) /\ gloop' = l
    /\ daemon' = "lun"
    /\ UNCHANGED <<scriptVars, bound, leftover, crashes, mnt>>

\* main(): stale loops of the image are detached, a fresh one is attached.
DaemonAttach ==
    /\ daemon = "attach"
    /\ \E l \in Loops \ (attached \cap Opened) :
          /\ attached' = (attached \cap Opened) \cup {l}
          /\ lazy' = lazy \cup (attached \cap Opened)
          /\ gloop' = l
    /\ daemon' = "lun"
    /\ UNCHANGED <<scriptVars, bound, leftover, crashes, mnt>>

\* Variant: the error of writing lun.0/file is ignored.
DaemonLunUnchecked ==
    /\ daemon = "lun" /\ daemon' = "bind"
    /\ UNCHANGED <<scriptVars, gloop, bound, leftover, crashes, kernelVars>>

\* MassStorageFunction.start writes lun.0/file; with the loop device gone the
\* kernel refuses, the gadget is torn down and the process fails.
DaemonLun ==
    /\ daemon = "lun"
    /\ daemon' = IF gloop \in attached THEN "bind" ELSE "failed"
    /\ UNCHANGED <<scriptVars, gloop, bound, leftover, crashes, kernelVars>>

\* Gadget.__enter__ writes the UDC: the target sees the drive.
DaemonBind ==
    /\ daemon = "bind" /\ bound = None
    /\ bound' = gloop /\ daemon' = "install"
    /\ UNCHANGED <<scriptVars, gloop, leftover, crashes, kernelVars>>

\* GadgetSubprocessManager.__enter__ installs the SIGCHLD handler, waitForever
\* pauses.
DaemonPauses ==
    /\ daemon = "install" /\ daemon' = "run"
    /\ UNCHANGED <<scriptVars, gloop, bound, leftover, crashes, kernelVars>>

\* The HID process dies, and the kernel unbinds the UDC.  Before the binding
\* the write to the UDC fails, and with it the process.  Afterwards SIGCHLD
\* raises KeyboardInterrupt in the daemon, which takes the gadget down,
\* swallows the exception and exits with 0; still in __enter__ it abandons the
\* gadget and dies of SIGINT, as clean for systemd.  A SIGCHLD that comes before
\* the handler, or just before signal.pause, changes nothing.
HidProcessDies ==
    /\ crashes < MaxCrashes /\ crashes' = crashes + 1
    /\ bound' = None /\ UNCHANGED <<scriptVars, gloop, mnt>>
    /\ \/ /\ \/ daemon = "bind" /\ daemon' = "failed"
             \/ daemon \in {"install", "run"} /\ daemon' = "exited"
          /\ UNCHANGED leftover /\ CloseLoop(gloop)
       \/ /\ daemon = "install" /\ daemon' = "exited"
          /\ Cardinality(leftover) < MaxLeftover
          /\ leftover' = leftover \cup {gloop} /\ UNCHANGED <<attached, lazy>>
       \/ /\ daemon = "install" /\ daemon' = "widowed"
          /\ UNCHANGED <<leftover, attached, lazy>>

\* Restart=on-failure: a clean exit is none.
DaemonRestart ==
    /\ daemon = "failed"
    /\ daemon' = "attach"
    /\ UNCHANGED <<scriptVars, gloop, bound, leftover, crashes, kernelVars>>

DaemonNext ==
    \/ DaemonAttach \/ DaemonLun \/ DaemonBind \/ DaemonPauses
    \/ HidProcessDies \/ DaemonRestart

\* systemctl start: nothing to do for a service that runs or is starting.
ServiceStart ==
    /\ daemon' = IF daemon \in {"off", "failed", "exited"} THEN "attach" ELSE daemon
    /\ UNCHANGED <<gloop, bound, leftover, crashes>>

\* systemctl stop.  SIGTERM raises KeyboardInterrupt, and __exit__ tears a
\* gadget that runs down.  One still starting up is abandoned, because
\* __enter__ cleans up for Exception only, and so is one whose __exit__ the
\* death of the HID process interrupts; its LUN stays open, but the UDC goes
\* with the process.
ServiceStop ==
    /\ daemon' = "off" /\ bound' = None
    /\ UNCHANGED <<gloop, crashes, mnt>>
    /\ \/ /\ daemon \in {"install", "run", "widowed"}
          /\ UNCHANGED leftover
          /\ CloseLoop(gloop)
       \/ /\ daemon \in {"bind", "install", "run"}
          /\ Cardinality(leftover) < MaxLeftover
          /\ leftover' = leftover \cup {gloop}
          /\ UNCHANGED <<attached, lazy>>
       \/ /\ ~LunOpen
          /\ UNCHANGED <<leftover, attached, lazy>>

-----------------------------------------------------------------------------
(* The scripts                                                             *)

Goto(s, from, to) == pc[s] = from /\ pc' = [pc EXCEPT ![s] = to]

\* Variant: the trap only starts the service again.
FailAtRestarts(s, step) ==
    /\ step \in Failures
    /\ Goto(s, step, "trapStart")
    /\ UNCHANGED <<op, LOOP, daemonVars, kernelVars>>

\* set -e: a command that fails ends the script in its EXIT trap.
FailAt(s, step) ==
    /\ step \in Failures
    /\ Goto(s, step, "trapUmount")
    /\ UNCHANGED <<op, LOOP, daemonVars, kernelVars>>

\* Variant: stop_gadget is forgotten.
BeginAttached(s) ==
    /\ Serial => Idle
    /\ pc[s] = "idle"
    /\ pc' = [pc EXCEPT ![s] = "attach"]
    /\ \E o \in Ops : op' = [op EXCEPT ![s] = o]
    /\ UNCHANGED <<LOOP, daemonVars, kernelVars>>

\* The script starts.  A usage error, or a file too big for FAT32, ends it
\* before it has stopped anything.
Begin(s) ==
    /\ Serial => Idle
    /\ pc[s] = "idle"
    /\ \/ pc' = [pc EXCEPT ![s] = "stop"]
       \/ "check" \in Failures /\ pc' = [pc EXCEPT ![s] = "trapUmount"]
    /\ \E o \in Ops : op' = [op EXCEPT ![s] = o]
    /\ UNCHANGED <<LOOP, daemonVars, kernelVars>>

\* Variant: only the UDC is unbound, the service goes on.
StopGadgetUnbindOnly(s) ==
    /\ Goto(s, "stop", "unbind")
    /\ UNCHANGED <<op, LOOP, daemonVars, kernelVars>>

\* systemctl stop kvm-hid, then sleep 2.
StopGadget(s) ==
    \/ /\ Goto(s, "stop", "unbind")
       /\ ServiceStop
       /\ UNCHANGED <<op, LOOP>>
    \/ FailAt(s, "stop")

\* echo "" into every gadget's UDC.
UnbindAll(s) ==
    /\ Goto(s, "unbind", "detach")
    /\ bound' = None
    /\ UNCHANGED <<op, LOOP, daemon, gloop, leftover, crashes, kernelVars>>

\* losetup -d of every loop device of the image.
DetachStale(s) ==
    /\ Goto(s, "detach", "attach")
    /\ DetachLoops(attached)
    /\ UNCHANGED <<op, LOOP, daemonVars, mnt>>

\* LOOP=$(losetup --find --show -P "$IMG").
AttachImage(s) ==
    \/ /\ Goto(s, "attach", "mount")
       /\ \E l \in Loops : FindLoop(l) /\ LOOP' = [LOOP EXCEPT ![s] = l]
       /\ UNCHANGED <<op, daemonVars, mnt>>
    \/ FailAt(s, "attach")

\* mount "${LOOP}p1" "$MNT": the partition of a device that is gone does not
\* exist.
MountImage(s) ==
    \/ /\ Goto(s, "mount", "work")
       /\ LOOP[s] \in attached
       /\ mnt' = <<LOOP[s]>> \o mnt
       /\ UNCHANGED <<op, LOOP, daemonVars, attached, lazy>>
    \/ FailAt(s, "mount")
    \/ /\ LOOP[s] \notin attached
       /\ Goto(s, "mount", "trapUmount")
       /\ UNCHANGED <<op, LOOP, daemonVars, kernelVars>>

\* Copying.  kvm-drop.sh exits here and leaves the rest to its trap.
Work(s) ==
    \/ /\ Goto(s, "work", IF op[s] = "drop" THEN "trapUmount" ELSE "umount")
       /\ UNCHANGED <<op, LOOP, daemonVars, kernelVars>>
    \/ op[s] \in StrictOps /\ FailAt(s, "work")

\* umount "$MNT" || true: the last mount goes, unless it is busy.
Umount(s, from, to) ==
    /\ Goto(s, from, to)
    /\ UNCHANGED <<op, LOOP, daemonVars>>
    /\ \/ mnt # <<>> /\ mnt' = Tail(mnt) /\ CloseLoop(Head(mnt))
       \/ (mnt = <<>> \/ "umount" \in Failures) /\ UNCHANGED kernelVars

\* [ -n "$LOOP" ] && losetup -d "$LOOP" || true.  LOOP keeps its value: the
\* trap names the same device again, whoever has it by then.
Release(s, from, to) ==
    /\ Goto(s, from, to)
    /\ DetachLoops({LOOP[s]})
    /\ UNCHANGED <<op, LOOP, daemonVars, mnt>>

\* systemctl start kvm-hid; the script's last command, or the trap's.
StartGadget(s) ==
    /\ Goto(s, "start", "trapUmount")
    /\ ServiceStart
    /\ UNCHANGED <<op, LOOP, kernelVars>>

\* Variant: the trap does not start the service.
TrapEnds(s) ==
    /\ Goto(s, "trapStart", "idle")
    /\ LOOP' = [LOOP EXCEPT ![s] = None]
    /\ UNCHANGED <<op, daemonVars, kernelVars>>

TrapStart(s) ==
    /\ Goto(s, "trapStart", "idle")
    /\ LOOP' = [LOOP EXCEPT ![s] = None]
    /\ ServiceStart
    /\ UNCHANGED <<op, kernelVars>>

Script(s) ==
    \/ StopGadget(s) \/ UnbindAll(s) \/ DetachStale(s)
    \/ AttachImage(s) \/ MountImage(s) \/ Work(s)
    \/ Umount(s, "umount", "release") \/ Release(s, "release", "start")
    \/ StartGadget(s)
    \/ Umount(s, "trapUmount", "trapRelease")
    \/ Release(s, "trapRelease", "trapStart")
    \/ TrapStart(s)

Next == DaemonNext \/ \E s \in Scripts : Begin(s) \/ Script(s)

Spec == Init /\ [][Next]_vars

\* A script that started goes on, and so does the service's start-up; scripts
\* need not be started and the HID process need not die.
FairSpec ==
    /\ Spec
    /\ \A s \in Scripts : WF_vars(Script(s))
    /\ WF_vars(DaemonAttach) /\ WF_vars(DaemonLun)
    /\ WF_vars(DaemonBind) /\ WF_vars(DaemonPauses) /\ WF_vars(DaemonRestart)

-----------------------------------------------------------------------------
(* Properties                                                              *)

\* The image is never mounted on the board while the target has it: "that
\* image is a block-level disk owned by the target while connected, so we must
\* briefly detach it before the board may safely read or write it"
\* (kvm-share.sh:5).
MountedOnlyDetached == bound # None => mnt = <<>>

\* ... and never twice at once.
ExclusiveImage == MountedOnlyDetached /\ Len(mnt) <= 1

\* Who owns the image; "both" is no owner ImageOwnership knows.
ImageOwner ==
    IF bound = None
    THEN IF mnt = <<>> THEN "none" ELSE "board"
    ELSE IF mnt = <<>> THEN "target" ELSE "both"
Ownership == INSTANCE ImageOwnership WITH owner <- ImageOwner

\* The image has one owner at a time and changes hands only through "none":
\* the scripts and the service implement ImageOwnership.
OwnershipKept == Ownership!OwnerSpec

\* From systemctl stop to its own start a script has the service to itself.
Window ==
    {"unbind", "detach", "attach", "mount", "work", "umount", "release", "start"}

\* Why the image is exclusive when scripts run one at a time and umount works:
\* the service is off while a script is between its stop and its start; what
\* is mounted belongs to the one script, which unmounts it before it starts
\* the service, from its trap too.
SerialInv ==
    /\ TypeOK
    /\ \A s, t \in Scripts : pc[s] # "idle" /\ pc[t] # "idle" => s = t
    /\ LunOpen \/ daemon = "lun" => gloop \in Loops
    /\ bound # None => daemon \in {"install", "run"}
    /\ \A s \in Scripts : pc[s] \in Window => daemon = "off"
    /\ mnt # <<>> =>
          /\ Len(mnt) = 1 /\ daemon = "off"
          /\ \E s \in Scripts : pc[s] \in {"work", "umount", "trapUmount"}

\* The drive the target sees has its backing store, although the trap of a
\* finished script may detach the very loop device the new gadget got.
DriveBacked == bound # None => bound \in attached

\* No loop device is lost: once the gadget is up and no script runs, the image
\* has the gadget's loop device and those of abandoned gadgets only.
LoopsAccounted == Idle /\ LunOpen => attached = {gloop} \cup leftover

\* "Whatever happens, leave the gadget running so KVM never stays dead"
\* (kvm-share.sh): when no more scripts run, the target has its keyboard,
\* mouse and drive back for good, unless the HID process died since the service
\* was started, which systemd takes for a clean exit or nobody notices.
KvmComesBack == <>[]Idle => <>[](bound # None \/ daemon \in {"exited", "widowed"})
=============================================================================
