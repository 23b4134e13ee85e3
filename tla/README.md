# Verification of the HDMI-capture KVM

TLA+ models of a home-made KVM: a Windows PC (PC1) previews the HDMI output of
a second PC (the target) and controls it through an RK3568 board, which the
target sees as a USB keyboard, mouse and drive. The modules are checked with TLC
on small instances and, where section 8 says so, proved with TLAPS for every instance.

## 1. The system

| Component | Source | State it keeps | Operations | Model |
|---|---|---|---|---|
| Preview application, input | `main.cpp` 60-300, 745-985 | `g_capture`, `g_tracking`, `g_mods`, `g_keys`, `g_btns`, mouse capture, GrabWorker threads | window messages, `BeginCapture`, `EndCapture`, `StartReverseGrab`, `GrabWorker` | `Preview` |
| UDP path | `main.cpp` 62-130, `board/kvm_hid.py` 171-190 | datagrams under way | `KvmSend`, receive | `Wire` |
| HID daemon | `board/kvm_hid.py` | `_enabled`, AIO blocks of the IN endpoint | `serve`, `_send`, `onEnable`, `onDisable` | `HidDaemon`; from inside, `FunctionEvents` |
| Function process | `board/ref_init.py`, `board/ref_hid.py`, `board/kvm_hid.py` | ep0 events, `_halted`, AIO contexts, the poll block, eventfd | `processEvents`, `getEvents`, `onSetup`, `onEnable`, `onDisable`, `submit`, `halt` | `FunctionEvents`, `ControlPipe` |
| Gadget service | `board/kvm_hid.py` `main`, `board/ref_gadget.py`, unit in `board/deploy.sh` | configfs gadget, its lists, child processes; systemd state, loop device | build, bind, serve, signals, teardown; restart | `Gadget`, `GadgetLife`; the image in `ShareImage` |
| Shared image and scripts | `board/kvm-share.sh`, `board/kvm-drop.sh` | `LOOP`, mount, loop devices | stop, detach, attach, mount, work, unmount, start, EXIT trap | `ShareImage`, `ImageOwnership` |
| File drop | `main.cpp` DropWorker, `kvm-drop.ps1`, `board/kvm-drop.sh`, `agent/agent.ps1` | inbox, `_drop`, `$seen`, Desktop | clear, copy, drop, `Do-Forward` | `Delivery` |
| Sync daemon | `kvm-sync.ps1`, `kvm-share.sh sync` | `$known`, `$lastSeen`, inbox, the drive | start, `Push-Changed` every 1.5 s, Ctrl+C | `Delivery` |
| Drag-out | `main.cpp` GrabWorker, `kvm-grab.ps1`, `kvm-share.sh reverse`, `agent/agent.ps1` | `_pull`, revout, both Desktops | `Do-Reverse`, reverse, list, fetch, delete | signalling in `Preview`, files in `DragOut` |
| Target agent | `agent/agent.ps1` | `$seen`, the copy under way | `Do-Forward`, `Do-Reverse` on one thread, restart | `Transfers` composes `Delivery` and `DragOut` |
| Options dialog, ping, exit | `main.cpp` 77-97, 515-713, 938-1001, 1131-1142 | `g_kvmTarget`, `g_kvmPort`, `g_kvmAddr`, `g_pingMs`, `g_pingRun` | `ShowKvmOptions`, `Apply`, `ApplyKvmTarget`, `PingThreadProc`, cleanup | `Retarget`, `PingMonitor`, composed by `KvmTarget` |
| Video capture, OpenGL | `main.cpp` 295-513 | one frame, mode name | DeckLink callbacks | not modelled |
| Helpers, set-up, tests | remaining scripts | none | manual | not modelled |

How they interact: window messages on one thread change the forwarded state and
send datagrams; a GrabWorker thread sends its own; the daemon turns each
datagram into a report, which waits as an AIO block until the target polls it.
The transfer scripts, started over ssh by three independent PowerShell scripts,
stop the service, take the disk image for themselves and start the service
again. A drag-out ends in such a script too.

What is hard here: nothing acknowledges a datagram; the order of a drag-out is
kept by `Sleep`; control ends only through a window message whose arming is
cached in `g_tracking`; no lock keeps two scripts apart, neither around the image
nor around the inbox; a script's EXIT trap repeats what the script did, against
a daemon that is starting meanwhile; systemd restarts only what fails; the gadget
may be interrupted at any call of its construction; the function process learns
of everything through one eventfd, and its host may reset it at any time; a
failing scp or ssh ends a PowerShell script only when it prints something.
`PROJECT.json` lists every hazard with its line and the properties that cover it,
or why none does.

## 2. Remote control: `Wire`, `Preview`, `HidDaemon`, `KvmInput`

`Wire` has the packets and the network, `Preview` the application, `HidDaemon`
the board and the target's HID state, and `KvmInput` composes them: one variable
`net` is written by `Preview` and read by `HidDaemon`; `Next` interleaves the
window thread, the workers, the daemon, the target and the network.

* One window message is one step. `WndProc` runs on one thread and nothing else
  writes its globals. The two `sendto` calls of `ReleaseAllInput` are one step;
  a worker packet between them belongs to one of the two devices, and taking it
  before or after both gives each device the same sequence of reports.
* Each `Sleep` of `GrabWorker` is a point where the others run; the step names
  the packet it sends next (`esc`, `escUp`, `mUp`, `hkDown`, `hkUp`).
* `InputTurn`: `GetMessage` returns posted messages before input, so a posted
  `WM_MOUSELEAVE` is handled before the next click.
* Abstracted: coordinates and wheel counts (each mouse packet carries the whole
  button state), key positions in the report (`g_keys` is a set, of at most
  `NSlots` keys), the file transfer after the hotkey.
* External and modelled from use: TrackMouseEvent, SetCapture, the network, the
  target's HID host and its drag and drop (`Poll`, `DragAfter`).
* `grab` in a mouse packet is a ghost field: it says a GrabWorker sent it.
* Faults are a constant set: `loss`, `reorder`, `restart` (daemon or USB
  connection), `full` (slow target), `thread` (CreateThread fails), `track`
  (TrackMouseEvent fails), `steal` (mouse capture taken away), `reentry` (control
  taken back while a worker signals).

| Property | Says | Run |
|---|---|---|
| `TypeOK` | types; the AIO queue never exceeds its limit | kvm_faults |
| `LeaveTracked` | `g_tracking` is right about the window system | kvm_faults |
| `NothingLeaks` | only a controlling window and a GrabWorker send | kvm_faults |
| `Recovers` | once nothing more is lost, rounds of control repair what losses, restarts and failed threads left held | kvm_faults |
| `CaptureCanEnd` | control that is on will notice the pointer leaving | kvm_reliable |
| `InSync` | what the target will hold is what the program believes | kvm_reliable |
| `DragKeepsControl` | a drag ends control only through the drag-out gesture | kvm_reliable |
| `NoStrayDrop` | a drag-out's button-up finds the drag cancelled | kvm_reliable |
| `ReleasedAfterControl` | with control off and no worker signalling everything is being released, also after control was taken back during a grab | kvm_liveness |
| `ReleasedInTheEnd` | once the user is done, the target holds nothing | kvm_liveness |
| `LeaveReleases` | leaving the window without a button ends control | kvm_liveness |

Bounds: one modifier and two keys against one report slot (so a key beyond the
report is dropped), two buttons in kvm_reliable (so one goes up with the other
held), one GrabWorker, two in kvm_liveness (so two drag-outs overlap), two or three
datagrams under way, one or two AIO blocks. `MaxNet` is a bound of the model: a
step that would exceed it waits. In the runs without `full` the daemon takes a
datagram only when the endpoint has room; in kvm_faults it drops the report, as
the code does.

Fairness, used by kvm_liveness only: weak fairness of each worker's next packet (an
OS thread sleeping), of the window thread's handling of `WM_MOUSELEAVE`, of the
window system's posting it, of the daemon's receive loop (an endless epoll loop)
and of the target's polling. Nothing is assumed of the user, the pointer or faults.

### The target, its options and its ping: `Retarget`, `PingMonitor`, `KvmTarget`

`Retarget` has the options dialog, one step for each write of `Apply` and
`ApplyKvmTarget` that another thread can see: `entered` (g_kvmTarget and g_kvmPort, under
the lock), `port` and `addr` (the two halves of g_kvmAddr), and the store of -2.
`PingMonitor` has the ping thread (`check`, `copy` under the lock, `echo`, `sleep`) and main's
end, which waits at most 1500 ms for the thread; only an echo can outlast that. `g_pingMs` is
kept as the target it was measured for. `KvmTarget` composes them with `Preview`: `KvmSend`
reads `g_kvmAddr` at each `sendto`, and `boards` is what each endpoint was told last. The
dialog's own message loop dispatches `WM_MOUSELEAVE` but no input (the window is disabled),
and it opens only outside control, unless TrackMouseEvent has failed.

Run kvm_target checks

* `StaleOnce`: a result of an old target is shown for one ping at most;
* `LockAlive`: the thread does not enter the lock that main has deleted;
* `NobodyLeftHeld`: a board the program turns away from is never left with a key or a button
  held, nor the present one outside control and grabs, unless the target is changed during
  the third of a second a grab signals, or the program ends then or in the middle of control
  (then nothing is released: `hasty`);
* `PingCatchesUp`: the right result is shown in the end.

Bounds: two boards and 0.0.0.0, where an invalid argv leads, one port, two keys, no modifier,
one button and one worker. With `Together = FALSE` a behaviour has the ping thread or input
but not both: they meet only through the variables of `Retarget`, which both kinds of
behaviour change in every way (1.2 million states; the theorems of section 8 hold for both
values). Fairness: the ping thread goes on; nothing is assumed of the user.

## 3. The shared image: `ShareImage`, `ImageOwnership`

One command of a script is one step, so the service's start-up runs between
them (the unit is `Type=simple`: `systemctl start` returns at once). A script goes
`stop`, `unbind`, `detach` (the three parts of `stop_gadget`), `attach`, `mount`
(`mount_img`), `work`, `umount`, `release` (`umount_img`), `start`, then the EXIT
trap `trapUmount`, `trapRelease`, `trapStart`. `kvm-drop.sh` goes from `work` to the
trap. Under `set -e` a failing command jumps to the trap; the ones guarded by
`|| true` do not. `LOOP` keeps its value, so the trap names the device again.

The service goes `attach` (stale loops detached, a fresh one attached), `lun`,
`bind`, `install` (the UDC is written, the SIGCHLD handler not yet installed or the pause
not yet reached), `run`. A refused LUN makes it `failed`, and `Restart=on-failure` starts
it again. The kernel unbinds the UDC when the HID process dies; what the service makes of
that depends on when:

* in `bind` the write to the UDC fails, and with it the process: `failed`;
* in `install` and `run` the handler raises KeyboardInterrupt: `GadgetSubprocessManager`
  takes the gadget down, swallows the exception and ends with status 0, or, still in
  `__enter__`, abandons the gadget and dies of SIGINT, which is as clean for systemd: the
  service is `exited`, and only the next `systemctl start` brings it back;
* in `install` the signal may also come before the handler, or between it and the pause:
  nobody notices, the service is `widowed`, unbound but running, and a `systemctl start`
  does nothing; only a stop and start bring the target its devices back.

SIGTERM tears a gadget that is bound down. In `bind` it abandons the gadget with its LUN
open (`leftover`), because `Gadget.__enter__` cleans up for `Exception` only; in `install`
it may, and in `run` too if the death of the HID process interrupts `__exit__`.

Loop devices are external: `losetup -d` of an open device takes effect when its last
opener closes it (`lazy`). The files on the image are left to section 6. The work of
`pull`, `sync` and `reverse` ignores its errors, that of the others (`StrictOps`) does
not.

`ImageOwnership` is what the board promises: one owner, target or board, and the
image changes hands only through nobody. The refinement maps `owner` from the UDC
and the mounts; "both" is a value the abstract module knows no step for.

Run image_serial (scripts one at a time, every failure but a failing `umount`, one
death of the HID process, one abandoned gadget, two scripts, three loop devices: one
for the gadget, one for a script, one for what is left over) checks `SerialInv` (the
inductive invariant), `ExclusiveImage`, `OwnershipKept` and `KvmComesBack` (when no more
scripts run the gadget is back for good, unless the HID process died since the service was
started: `exited` or `widowed`). 191,988 states. Fairness: a started script goes on, and so
do the service's start-up steps and systemd's restart.

Run image_concurrent (7.9 million states) lets two scripts run at once, with failing mounts,
one abandoned gadget and one death of the HID process, over three loop devices. Each
`stop_gadget` detaches every loop device of the image, the other script's and the
starting gadget's too, and each trap detaches a device that may have a new user. Two
things survive that: `DriveBacked` (the drive the target sees never loses its loop
device: writing `lun.0/file` checks it, and from then on it is open) and
`LoopsAccounted` (no loop device leaks).

## 4. The gadget process: `Gadget`, `GadgetLife`

`Gadget` follows the thread of `GadgetSubprocessManager` through `__enter` (one step
per configfs call: `mkdir`, the language `messages`, `mkdtemp`, `mount`, `fork`,
`options`, `link`), the wait for the ready markers, the write to `UDC`, the installing
of the SIGCHLD handler, `signal.pause`, and `__unenter` (`kill`, `join`, `unlink`,
`rmdir`). Every call may fail (`Failures`), SIGTERM and the death of a child may come
between any two. `dirs`, `links`, `funcs` and `result` are the lists the code keeps; `fs`,
`linked`, `tmp`, `udc` and `child` are what exists. `reported` and `spoilt` are
history: what an error was printed about, and that a call failed which nothing can
undo (an unlink, an umount). A `KeyboardInterrupt` or `SystemExit` while `__enter` runs
leaves the gadget `abandoned`: its cleanup catches `Exception` only. The kernel unbinds the
UDC when the first function process dies; that is the reason why the links, which
`LeaveServing` never unbinds for, go unseen by the target.

`GadgetLife` is the promise: parts grow only before the gadget is shown, it is shown
only whole, parts go only after it has been hidden for good.

Run gadget_kvm takes the daemon's gadget (one configuration, one functionfs function,
one kernel function, two language directories, so every kind of directory occurs),
every failure and two SIGTERMs (the second arrives during the teardown of the first). It
checks `UndoInv` (the lists agree with what exists, at every point; it includes `LifeInv`
and that the types), `NothingLeft`, the refinement `ShownWhole`,
`AlwaysSettles`: start-up and teardown end, nobody waits for a child that was never told
to go; and `ExitsWithFunction`: a function process that dies during the pause ends the
gadget. Fairness: the gadget process and its children go on; signals and failures do not
have to happen.

## 5. The function process: `FunctionEvents`, `ControlPipe`

One thread waits in `serve` for the eventfd and the UDP socket. AIO completions,
configuration changes and control requests all arrive through the eventfd: directly, or,
with `quirks_ffs_unsafe_eventfd` as the daemon sets it, through an AIO poll of endpoint 0
that must be submitted again each time. The model has functionfs's queue of events (the
latest configuration change and one request), the AIO contexts of the IN and the OUT
endpoints, and the thread's program points: `poll`, `getin`, `getout`, `out` (a block handed
to `onComplete`), `ep0`, `change`, `setup`, `answer`, `repoll`, the `raise` path and the
closing of the process. `onSetup` is modelled for all that `Function` and `HIDFunction`
tell apart: recipient, type, direction, name, whether it names an endpoint, whether its
length fits. `ControlPipe` is what a host may expect: a request is answered at most once,
never unasked, with data or a status if it is one of the entitled requests and with a
stall otherwise.

Run function_events has one OUT endpoint with one block, one IN block (so every report
meets the limit), both settings of the quirk, and a request of each kind `onSetup` tells
apart. It checks `NeverDeaf` (no wake-up is lost), `StaysAlive` (no exception of the
process's own ends it), `KnowsWhetherEnabled`, `OutsServed`, the refinement
`AnswersOnce`, and with fairness `Answered` and `ServesAgain`. Abstracted: functionfs's BIND and UNBIND
events, which the process answers with nothing but come in the same queue (at teardown an
UNBIND may replace a DISABLE nobody has read), and the `-ESHUTDOWN` end of the ep0 poll, in
which the daemon stops looking: both belong to a gadget that is being unbound, with which
the process ends. Fairness: the process and
the kernel's completions are weakly fair; waking up is strongly fair, because a datagram
may be at hand at each `epoll` but `epoll` returns every descriptor that is ready and
`serve` looks at all of them.

What the model showed and the properties except: a host that disables and enables the
function before the process has seen its cancelled OUT blocks leaves the endpoint without
any (`hurried`, of the latest enabling: `onEnable` resubmits only released blocks); after a re-enable `_halted` is
still set though the endpoint is not; and a host that gives a request up before it is
answered ends the process, since the stall in the handler raises as well (`StaysAlive`
excepts that cause).

## 6. Files: `Delivery`, `DragOut`, `Transfers`

A directory is a function from names to contents; a content says which drop, drag-out or
version of a file it is, or `Torn` for half a file. `Delivery` has the drops
(`kvm-drop.ps1`: `clear`, `copy`, `run`), the daemon (`kvm-sync.ps1`: `off`, `sleep`,
`clear`, `copy`, `run`), the inbox they share, and `Do-Forward`, whose `File.Copy` begins
(`ForwardStarts`: the file on the Desktop is `Torn` from now on), and is complete, fails, or
is cut short by a restart (`Forwarded`, `ForwardFails`, `AgentForgets`). `DragOut` has the
hotkey, the copy of `Do-Reverse` under a temporary name, and `kvm-grab.ps1` (`reverse`,
`list`, `fetch`, `delete`). `Transfers` composes them and adds what they share: one agent
thread, so a copy in one direction holds up the other, and its restarts, which forget
`$seen` and the copy.

The daemon starts at any time (`SyncStarts`), with whatever the folder holds by then: that
counts as known (`kvm-sync.ps1` 31-34), and of what is not on the drive `skipped`, a history
variable, takes note, version by version. It stops at any time (`SyncStops`: Ctrl+C, PC1
going down) and forgets `$known` and `$lastSeen`; what the call under way does on the board
is done at that step, or never.

A script on the board is one step: while it runs the target has no drive, and `ShareImage`
models its inside. The scripts set `$ErrorActionPreference = "Stop"` and redirect
stderr, so a call that fails with a message ends them (the sync daemon's loop catches
that and tries again); one that fails in silence is noticed only where the exit status is
looked at. `mishaps` records what has gone wrong unnoticed, and every property says which
it excepts: `unnoticed` (a silent failure), `inbox` and `revout` (two scripts
at once in that directory, which nothing prevents), `cp` (a copy error a board script
discards), `hurry` (a drop empties `_drop` before the agent took the last one), `redo` (the
same while a restarted agent has yet to copy a file again that had arrived).

| Property | Says | Mishaps it excepts |
|---|---|---|
| `PushedOrSkipped` | what the daemon will not push again is on the drive as in the folder, unless it is `skipped` | unnoticed, inbox, cp |
| `DropKept` | what a drop reported with OK is or was on the Desktop, or waits for the agent | unnoticed, inbox, hurry |
| `WholeOnDesktop` | half a file on the Desktop is being copied or will be copied again | unnoticed, inbox, cp, hurry, redo |
| `NeverPullsPartial` | the board pulls no half of a file | cp, and only for revout |
| `StagedKept` | what the agent staged is in `_pull`, in revout or on PC1, unless another of its name was staged | unnoticed, revout, cp |
| `DropArrives` | each file of a drop that was reported gets to the Desktop | as `DropKept` |
| `PushedInTheEnd` | a file left alone while the daemon runs is on the drive in the end, however often pushing failed, unless it is `skipped` | unnoticed, inbox, cp |

Each excepted
mishap is a way the code does lose a file; the README of the repository promises nothing
about them.

Run transfers (41,015 states) checks all seven: two file names, two drops, two drag-outs, two
versions of files written into the folder. `Casts` bounds who takes part: two drops, a drop
and the daemon, two drag-outs, a drop and a drag-out, and the daemon alone; that is every
pair that shares a directory or the agent. The daemon and two drag-outs have two files, the
others one; a behaviour has at most one kind of mishap, and none with two files or with the
daemon and a drop. Restarts of the agent and of the daemon are no mishaps and not bounded.
What bounds the casts is the time for the liveness properties; the safety properties hold
with two files and one kind of mishap in larger casts too (320,470 states without
fairness), and section 8 proves them for any cast.

Fairness: the copy of `Do-Reverse` ends (weak), the daemon scans (weak), and what is tried
again and again succeeds at last (strong): each call of a push (of its copies one for each
number of files left), and the beginning and the end of the agent's copy of a file, which
failures and restarts may cut short any number of times. Nothing makes the daemon start or
go on running. A drop that fails is not retried and nothing is assumed of it.

Abstracted: a file that is still being written looks different at each scan, so `Changed`
never takes half of one; with a writer that pauses for longer than a scan the code does.
Edits that the user makes on the Desktop, which a restarted agent overwrites, are left out.

## 7. What the code does not keep

Three runs expect a violation, each of something the repository says:

* kvm_lost_esc: with the ESC datagram lost a drag-out drops the file where the
  pointer is (`NoStrayDrop`; `main.cpp` 784-786 says it is not dropped).
* image_two_scripts: with two scripts at once the target gets the image while the
  board has it mounted (`kvm-share.sh` 5-8).
* image_two_scripts_dead: with two scripts at once and nothing failing, one empties the
  UDC of the gadget the other has started; the daemon runs on unbound and every later
  `systemctl start` does nothing (`kvm-share.sh` 27, `README.md` 90-91).

Worth knowing besides:

* a HID process that dies leaves the service stopped; one that dies after the bind and
  before the SIGCHLD handler is installed, or before the pause, is not even noticed
  (`ref_gadget.py` 564-591), and the service runs on without the UDC: `ExitsWithFunction`
  speaks of the pause, and `KvmComesBack` excepts both ends (`exited`, `widowed`);
* a target that shuts down while its agent copies to the Desktop has half a file there until
  the agent, started again, copies it anew, and for good if a drop empties `_drop` before;
* `$known` is not the "last value successfully pushed" (`kvm-sync.ps1` 29): the next lines
  enter what the folder holds when the daemon starts, so a file written before that, or one
  whose push failed before a restart, is not pushed until it changes (`skipped`:
  `PushedOrSkipped` without it fails in TLC when two writes and a start have happened);
* releases are sent once, so a lost one sticks on the target until control is taken again;
* a GrabWorker that sends between the two writes of `ApplyKvmTarget` sends to the new port of
  the old address: the lock guards `g_kvmAddr` (`main.cpp` 80) but `KvmSend` takes none;
* the echo of an old target that comes back after the change is shown as the new one's
  latency until the next ping (`main.cpp` 96, 540);
* as sections 5 and 6 say, the mishaps and `hurried` histories the properties except.

## 8. Proofs

All theorems hold for any value of the constants, under the modules' assumptions and
those named here. Every safety property of the runs has one. What a proof has made
superfluous to check on an instance is left to it: the types of `KvmTarget`,
`FunctionEvents` and `Transfers`, `LeftIsReported` and `HaltIsTold` (no GET_STATUS says of a
halted endpoint that it is not).

Liveness: ENABLED is beyond the prover, so a theorem about what happens in the end takes
its fairness as a hypothesis, WF or SF with the ENABLED written out as a state predicate:
`<>[]PingReady => []<><<PingStep>>_vars`. Each hypothesis follows from the fairness its run
assumes: the predicate implies the guards of the action, and TLC agrees on the instance of
the run. The rest of the argument is proved: that the phases follow each other, that each
ends in the next whatever the others do, and that the last one is never left.

| Module | Theorem | Property | Assumes |
|---|---|---|---|
| `InputSyncProofs` | `ReleasedUnharmed` | `ReleasedAfterControl` | no mishap |
| | `SynchronizedUnharmed` | `InSync` | no mishap, `Patient` |
| | `CancelledUnharmed` | `NoStrayDrop` | no mishap, `Patient` |
| | `Released`, `Synchronized`, `Cancelled` | the same | `Reliable` for no mishap |
| | `Recovery` | `Recovers` | |
| | `Resynchronized` | `InSync` in the end | `Patient` |
| | `DragsCancelledAgain` | `NoStrayDrop` in the end | `Patient` |
| | `ReleasedAtLast` | `ReleasedInTheEnd` | no mishap; with control off, queues drain and grabs end |
| `KvmInputProofs` | `Typing`, `Tracking`, `Quiet` | `TypeOK`, `LeaveTracked`, `NothingLeaks` | |
| | `CanEnd` | `CaptureCanEnd` | no `track` |
| | `DragKept` | `DragKeepsControl` | no `steal`, no `thread` |
| | `Leaving` | `LeaveReleases` | no `track`; `PostLeave` fair, messages are handled |
| `KvmTargetProofs` | `Typing`, `Stale`, `Alive` | types, `StaleOnce`, `LockAlive` | |
| | `NobodyLeft` | `NobodyLeftHeld` | `Dependable` (no `thread`, no `track`) |
| | `CatchesUp` | `PingCatchesUp` | `PingStep` fair |
| `ShareImageProofs` | `SerialInvariant`, `Exclusive`, `Refinement` | `SerialInv`, `ExclusiveImage`, `OwnershipKept` | `OneAtATime` |
| | `Backed` | `DriveBacked` | |
| | `Accounted` | `LoopsAccounted` | `Unmountable` |
| | `StartUpPossible` | the guards of a start-up | `OneAtATime`, enough loop devices |
| | `ComesBack` | `KvmComesBack` (`exited` and `widowed` excepted) | `Serial`; the start-up goes on, the HID process does not die for ever |
| `GadgetProofs` | `Lifetime`, `Implements`, `Undoable`, `Undone` | `LifeInv`, `ShownWhole`, `UndoInv`, `NothingLeft` | |
| | `NothingForgotten` | `LeftIsReported` | |
| `FunctionEventsProofs` | `WakesUp`, `KnowsEnabled`, `Alive`, `OutsAreServed`, `Answers` | `NeverDeaf`, `KnowsWhetherEnabled`, `StaysAlive`, `OutsServed`, `AnswersOnce` | |
| | `Types`, `HaltTold` | types, `HaltIsTold` | |
| `TransfersProofs` | `PullsWhole`, `StagedStays`, `ReportedIsKept`, `DesktopWhole`, `KnownOnDrive` | `NeverPullsPartial`, `StagedKept`, `DropKept`, `WholeOnDesktop`, `PushedOrSkipped` | |
| | `Types` | types | |
| | `Arrives` | `DropArrives` | the agent completes copies of a file that waits |
| | `PushedAtLast` | `PushedInTheEnd` | `Scan` fair, a push ends well at last |

`InputSyncProofs` is about the queue `aio \o net`, its last report of each device, and what
polling, receiving and sending do to those. A mishap is a step that loses or overtakes a
report, leaves the function unconfigured or fails to create a worker; the safety theorems speak of the
behaviours without one, and `NoMishaps` derives that from `Reliable` (no `loss`, `reorder`,
`restart`, `full`, `thread`). `Patient` is "no `reentry`". `ReleasedAfterControl` is not
inductive: `HandInv` adds that without control the buttons are about to be released or some
worker has yet to send its button-up. `MatchInv` adds that nobody signals while control is
on. `CancelInv` says that ESC lies in the queue before each worker's button-up with no
press in between, or the drag is over already, and that this will hold of the button-up of
a worker that has sent ESC. What makes the program recover is that `BeginCapture`
establishes `HandInv`, and for a patient user `MatchInv`, from any state at all, because
`ReleaseAllInput` overwrites both devices; `CancelInv` comes back only when everything under
way has been delivered, so a button-up whose ESC was lost may still do harm till then.

`KvmInputProofs`: `CanEnd` proves `capture => tracking`, which `Tracking` turns into
`CaptureCanEnd`. The invariant of `DragKept`, `DragHeld`, says that a button held holds the
mouse capture too, with no `WM_MOUSELEAVE` on its way. `Leaving` rests on `CanEnd` (with
control on there is tracking or the message) and on the message's going only when it is
handled.

`KvmTargetProofs`: `PingInv` adds that a thread told to stop stays told. `HeldInv`, of
`NobodyLeft`, adds where control and grabs may be while the dialog is open or the program is
over, and that with control off keys are held only while some worker signals, buttons only
while one has its button-up to send. `CatchesUp` follows the thread through an echo of
another target, the sleep, the check and the copy to the echo of the target itself;
`RunInv` says that nobody tells it to stop meanwhile.

`ShareImageProofs`: `OneAtATime` is "scripts run one at a time, `umount` succeeds"; the
two-script runs show that the first is needed, and `SerialInv` without the second fails in
TLC. Neither exclusivity nor the refinement is inductive: that a script mounts only while
the service is off follows from where the script is (`Window`), and that nothing is mounted
when the service starts from whose mount it is. `OpenInv`, of `Backed`, says that open
devices are attached and only open ones wait for their last close. `AccountInv`, of
`Accounted`, gives every attached device an owner (`Unmountable`: finitely many scripts,
`umount` succeeds). `ServiceInv`, of `ComesBack`, says that the service is off only while a
script runs, which will start it in its last command or in its trap, so that once the
scripts are over the service is back, or in one of five phases of starting, or has lost its
HID process, which the property excepts (`exited`, `widowed`); the theorem needs no `umount`
to succeed, and lets the HID process die any number of times, but not for ever. `StartUpPossible` shows that its fairness is not vacuous:
the next phase can always be entered.

`GadgetProofs`, for any layout with at least one functionfs function and any failures: the
inductive invariants are `LifeInv` and `UndoInv` themselves, which TLC checks too: what is
built is a prefix of the layout, the lists hold it in order, and no function process lives
when its links go.

`FunctionEventsProofs`, for any endpoints, limits, requests and either setting of the quirk:
the inductive invariant `Inv` adds which blocks and events there may be at each program
point. `OutInv`, of `OutsAreServed`, adds that no block is being shut down while the host
has the function enabled, hurried enablings excepted.

`TransfersProofs`, for any files, drops, drag-outs, casts and mishaps (the names are
finite). `DragInv`: what is in `_pull` and revout was staged, what a script deletes it has
fetched. `DropInv`: as long as nobody shares the inbox there is one user of it, and it has
in it what that one copied so far. `AgentInv`, of `DesktopWhole`, says
that half a file on the Desktop is one the agent has under way or has yet to see, and that
`_drop` and what is under way are whole. `PushInv`: no content comes back to the folder, and
what is being pushed was not known and, unless it changed since, is in the inbox; what a
start made known is on the drive or skipped. `Arrives` joins `DropKept` (a reported file
waits or has arrived) with the agent's coming to it: the first copy to end may have been
begun from an older drop, the next is of this one (`CopiesStay`). `PushedAtLast`: once the
folder's file is left alone and the daemon runs, each scan either knows its version or takes
exactly that one into the next push, and a push that ends well makes it known, which
`PushedOrSkipped` says is on the drive, or skipped.

Only model-checked: `Answered` and `ServesAgain` of `FunctionEvents`, `AlwaysSettles` and
`ExitsWithFunction` of `Gadget`. They run through loops of any length (blocks fetched, lists
joined, unlinked and removed), whose proof is an induction inside a temporal argument.

## 9. Not modelled

* Video capture and OpenGL: one frame in flight, no protocol of its own.
* The descriptors and constants of `ref_functionfs.py` and `ref_hid.py`, the tables of
  virtual keys: data without control.
* `ref_device.py`: a throughput example the daemon does not use.
* `kvm-push.ps1`, `kvm-pull.ps1`: run by hand; their board side is in `ShareImage`.
* How the agent finds the selection, `subst` and the mirror of the drive in the folder,
  installation, set-up, diagnostics and test scripts.
