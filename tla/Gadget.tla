------------------------------- MODULE Gadget -------------------------------
(***************************************************************************)
(* The life of one gadget process, board/ref_gadget.py as kvm_hid.py uses  *)
(* it: GadgetSubprocessManager builds the gadget in configfs directory by  *)
(* directory, forks a child for every functionfs function, binds the UDC,  *)
(* waits for signals and takes everything apart again.  Every call that    *)
(* may raise is a program point of its own, where a signal may arrive and  *)
(* children may die.  The kernel (configfs, functionfs, UDC) and systemd's *)
(* SIGTERM to the whole control group are external.                        *)
(***************************************************************************)
EXTENDS Naturals, Sequences, FiniteSets

CONSTANTS
    Layout,    \* the directories in the order __enter makes them
    Kind,      \* what each is, one of Kinds
    Parent,    \* the directory each is made in, itself for the gadget
    Config,    \* the configuration a function is linked into
    Failures,  \* which calls may fail, a subset of FailureKinds
    MaxTerms   \* bound: SIGTERMs the process gets

Kinds == {"gadget", "lang", "config", "ffs", "kernel"}

BuildPoints == {"mkdir", "messages", "mkdtemp", "mount", "fork", "options", "link"}
FailureKinds == BuildPoints \cup {"udc list", "udc", "unlink", "umount", "child"}

Elems(s) == {s[k] : k \in DOMAIN s}
Dirs == Elems(Layout)
OfKind(kind) == {d \in Dirs : Kind[d] = kind}
Ffs == OfKind("ffs")
Functions == Ffs \cup OfKind("kernel")

ASSUME GadgetAssumption ==
    /\ Layout \in Seq(Dirs) /\ Layout # <<>>
    /\ \A j, k \in DOMAIN Layout : Layout[j] = Layout[k] => j = k
    /\ Kind \in [Dirs -> Kinds]
    /\ Parent \in [Dirs -> Dirs]
    /\ \A k \in DOMAIN Layout :
          /\ k = 1 <=> Kind[Layout[k]] = "gadget"
          /\ k = 1 => Parent[Layout[k]] = Layout[k]
          /\ k > 1 => \E j \in 1 .. k-1 : Parent[Layout[k]] = Layout[j]
    /\ Config \in [Functions -> OfKind("config")]
    /\ Failures \subseteq FailureKinds /\ MaxTerms \in Nat

\* At least one function closes endpoint files when its process ends.
ASSUME HasFfs == Ffs # {}

VARIABLES
    pc,         \* where the gadget process is
    i,          \* index of its loop over Layout or over __function_list
    fs,         \* configfs: directories that exist
    linked,     \* configfs: functions that are linked into their configuration
    udc,        \* the UDC is bound to the gadget
    dirs,       \* __dir_list
    links,      \* __link_list
    result,     \* __writeLangDict: directories not in __dir_list yet
    funcs,      \* __function_list
    tmp,        \* function: its mountpoint is absent, a directory, or mounted
    child,      \* function: its process
    marked,     \* functions whose process has written the ready marker
    signalled,  \* functions whose process has a SIGINT or SIGTERM pending
    armed,      \* the SIGCHLD handler is installed
    chld,       \* ... and its signal has arrived
    terms,      \* SIGTERMs so far
    reported,   \* what the teardown has printed an error about: <<name, what>>
    spoilt      \* a call failed that the teardown cannot undo

kernelVars == <<fs, linked, udc, tmp>>
listVars == <<dirs, links, result, funcs>>
childVars == <<child, marked, signalled>>
signalVars == <<armed, chld, terms>>
noteVars == <<reported, spoilt>>
vars == <<pc, i, kernelVars, listVars, childVars, signalVars, noteVars>>

Ended == {"gone", "abandoned"}
Teardown == {"kill", "join", "unlink", "rmdir"}
PCs ==
    BuildPoints \cup Teardown \cup Ended
    \cup {"init", "wait", "udc", "install", "serve", "paused", "exiting"}

KernelTypes ==
    /\ fs \in SUBSET Dirs /\ linked \in SUBSET Functions /\ udc \in BOOLEAN
    /\ tmp \in [Ffs -> {"none", "dir", "mounted"}]
ListTypes ==
    /\ dirs \in Seq(Dirs) /\ links \in Seq(Functions)
    /\ result \in Seq(Dirs) /\ funcs \in Seq(Functions)
ChildTypes ==
    /\ child \in [Ffs -> {"none", "alive", "dead"}]
    /\ marked \in SUBSET Ffs /\ signalled \in SUBSET Ffs
SignalTypes == armed \in BOOLEAN /\ chld \in BOOLEAN /\ terms \in 0 .. MaxTerms
NoteTypes ==
    reported \subseteq Dirs \X {"dir", "link", "function"} /\ spoilt \in BOOLEAN

TypeOK ==
    /\ pc \in PCs /\ i \in Nat \ {0}
    /\ KernelTypes /\ ListTypes /\ ChildTypes /\ SignalTypes /\ NoteTypes

Init ==
    /\ pc = "init" /\ i = 1
    /\ fs = {} /\ linked = {} /\ udc = FALSE /\ tmp = [f \in Ffs |-> "none"]
    /\ dirs = <<>> /\ links = <<>> /\ result = <<>> /\ funcs = <<>>
    /\ child = [f \in Ffs |-> "none"] /\ marked = {} /\ signalled = {}
    /\ armed = FALSE /\ chld = FALSE /\ terms = 0
    /\ reported = {} /\ spoilt = FALSE

Goto(from, to) == pc = from /\ pc' = to

-----------------------------------------------------------------------------
(* Gadget.__init__ and __enter                                             *)

Item == Layout[i]

\* The UDC is chosen: there must be exactly one, or the named one must exist.
Prepare ==
    /\ \/ Goto("init", "mkdir")
       \/ "udc list" \in Failures /\ Goto("init", "gone")
    /\ UNCHANGED <<i, kernelVars, listVars, childVars, signalVars, noteVars>>

\* On to the next directory, or to waiting for the functions.
Advance ==
    IF i < Len(Layout) THEN pc' = "mkdir" /\ i' = i + 1
                       ELSE pc' = "wait" /\ i' = 1

\* A language directory: __writeLangDict makes it and collects it in result ...
MakeLang ==
    /\ Kind[Item] = "lang" /\ Goto("mkdir", "messages")
    /\ fs' = fs \cup {Item} /\ result' = Append(result, Item)
    /\ UNCHANGED <<i, linked, udc, tmp, dirs, links, funcs, childVars, signalVars, noteVars>>

\* The next language belongs to the same dictionary.
MoreLangs ==
    /\ i < Len(Layout) /\ Kind[Layout[i+1]] = "lang"
    /\ Parent[Layout[i+1]] = Parent[Item]

\* Variant: the directories are never handed to __dir_list.
WriteMessagesForgets ==
    /\ pc = "messages" /\ Advance
    /\ result' = IF MoreLangs THEN result ELSE <<>>
    /\ UNCHANGED <<dirs, links, funcs, kernelVars, childVars, signalVars, noteVars>>

\* ... which __enter appends to __dir_list when the whole dictionary is written.
WriteMessages ==
    /\ pc = "messages" /\ Advance
    /\ IF MoreLangs THEN UNCHANGED <<dirs, result>>
                    ELSE dirs' = dirs \o result /\ result' = <<>>
    /\ UNCHANGED <<links, funcs, kernelVars, childVars, signalVars, noteVars>>

\* mkdir of the gadget (mkdtemp) or of a configuration, and their attributes.
MakeDir ==
    /\ Kind[Item] \in {"gadget", "config"} /\ pc = "mkdir" /\ Advance
    /\ fs' = fs \cup {Item} /\ dirs' = Append(dirs, Item)
    /\ UNCHANGED <<linked, udc, tmp, links, result, funcs, childVars, signalVars, noteVars>>

\* mkdir of a function, which joins __function_list before it is started.
MakeFunction ==
    /\ Item \in Functions
    /\ Goto("mkdir", IF Item \in Ffs THEN "mkdtemp" ELSE "options")
    /\ fs' = fs \cup {Item} /\ dirs' = Append(dirs, Item) /\ funcs' = Append(funcs, Item)
    /\ UNCHANGED <<i, linked, udc, tmp, links, result, childVars, signalVars, noteVars>>

\* ConfigFunctionFFS._mount: a temporary directory ...
MakeMountpoint ==
    /\ Goto("mkdtemp", "mount")
    /\ tmp' = [tmp EXCEPT ![Item] = "dir"]
    /\ UNCHANGED <<i, fs, linked, udc, listVars, childVars, signalVars, noteVars>>

\* ... on which functionfs is mounted.
MountFunction ==
    /\ Goto("mount", "fork")
    /\ tmp' = [tmp EXCEPT ![Item] = "mounted"]
    /\ UNCHANGED <<i, fs, linked, udc, listVars, childVars, signalVars, noteVars>>

\* ConfigFunctionFFSSubprocess.start: the function's process.
ForkChild ==
    /\ Goto("fork", "link")
    /\ child' = [child EXCEPT ![Item] = "alive"]
    /\ UNCHANGED <<i, marked, signalled, kernelVars, listVars, signalVars, noteVars>>

\* MassStorageFunction.start writes the LUN's options.
WriteOptions ==
    /\ Goto("options", "link")
    /\ UNCHANGED <<i, kernelVars, listVars, childVars, signalVars, noteVars>>

LinkFunction ==
    /\ pc = "link" /\ Advance
    /\ linked' = linked \cup {Item} /\ links' = Append(links, Item)
    /\ UNCHANGED <<fs, udc, tmp, dirs, result, funcs, childVars, signalVars, noteVars>>

\* The process still holds the write end of f's pipe: f's own, and every one
\* that was forked before f, because all pipes are opened up front.
HoldsPipe(g, f) ==
    /\ child[g] = "alive"
    /\ \E j, k \in DOMAIN Layout : j <= k /\ g = Layout[j] /\ f = Layout[k]

\* function.wait(): the marker, or the end of the file, whichever comes first.
WaitForFunction ==
    /\ pc = "wait" /\ i <= Len(funcs)
    /\ funcs[i] \in Ffs =>
          funcs[i] \in marked \/ \A g \in Ffs : ~HoldsPipe(g, funcs[i])
    /\ i' = i + 1
    /\ UNCHANGED <<pc, kernelVars, listVars, childVars, signalVars, noteVars>>

AllWaited ==
    /\ i > Len(funcs) /\ Goto("wait", "udc")
    /\ UNCHANGED <<i, kernelVars, listVars, childVars, signalVars, noteVars>>

\* What the kernel asks for: every functionfs function has its descriptors.
Bindable == \A f \in Ffs : child[f] = "alive" /\ f \in marked

BindUdc ==
    /\ Bindable /\ Goto("udc", "install")
    /\ udc' = TRUE
    /\ UNCHANGED <<i, fs, linked, tmp, listVars, childVars, signalVars, noteVars>>

\* Where an Exception of __enter leads: __unenter, which does nothing as long
\* as there is no gadget directory.
Unenter == pc' = (IF dirs = <<>> THEN "gone" ELSE "kill") /\ i' = 1

\* Variant: the gadget is left as it is.
BuildFailsRaises ==
    /\ pc \in BuildPoints \cap Failures
    /\ pc' = "gone" /\ i' = 1
    /\ spoilt' = (spoilt \/ result # <<>> \/ pc \in {"mount", "fork"})
    /\ UNCHANGED <<reported, kernelVars, listVars, childVars, signalVars>>

\* A call of __enter raises.  A language directory that is only in result, a
\* mountpoint without its mount and a mount without its process stay behind.
BuildFails ==
    /\ pc \in BuildPoints \cap Failures
    /\ Unenter
    /\ spoilt' = (spoilt \/ result # <<>> \/ pc \in {"mount", "fork"})
    /\ UNCHANGED <<reported, kernelVars, listVars, childVars, signalVars>>

\* The UDC refuses, for want of endpoints or of a ready function.
BindFails ==
    /\ pc = "udc" /\ (Bindable => "udc" \in Failures)
    /\ Unenter
    /\ UNCHANGED <<kernelVars, listVars, childVars, signalVars, noteVars>>

Build ==
    \/ Prepare \/ MakeLang \/ WriteMessages \/ MakeDir \/ MakeFunction
    \/ MakeMountpoint \/ MountFunction \/ ForkChild \/ WriteOptions \/ LinkFunction
    \/ WaitForFunction \/ AllWaited \/ BindUdc

-----------------------------------------------------------------------------
(* GadgetSubprocessManager                                                 *)

\* __enter__ of the subclass: only now is SIGCHLD handled.
InstallHandlers ==
    /\ Goto("install", "serve")
    /\ armed' = TRUE
    /\ UNCHANGED <<i, chld, terms, kernelVars, listVars, childVars, noteVars>>

\* waitForever: signal.pause.  A signal between the interpreter's last look and
\* the system call is not acted upon.
Pause ==
    /\ Goto("serve", "paused")
    /\ chld' = FALSE
    /\ UNCHANGED <<i, armed, terms, kernelVars, listVars, childVars, noteVars>>

\* Variant: the exit is noticed and nothing is raised.
FunctionExitedUnheeded ==
    /\ pc \in {"serve", "paused"} /\ chld
    /\ chld' = FALSE
    /\ UNCHANGED <<pc, i, armed, terms, kernelVars, listVars, childVars, noteVars>>

\* The SIGCHLD handler: some function has exited, so it raises KeyboardInterrupt.
FunctionExited ==
    /\ pc \in {"serve", "paused"} /\ chld
    /\ pc' = "exiting" /\ armed' = FALSE /\ chld' = FALSE
    /\ UNCHANGED <<i, terms, kernelVars, listVars, childVars, noteVars>>

\* SIGTERM goes to every process of the service.  In waitForever it raises a
\* KeyboardInterrupt that leads to __exit__; anywhere else nobody catches it.
Terminate ==
    /\ pc \notin Ended /\ terms < MaxTerms
    /\ terms' = terms + 1
    /\ pc' = (IF pc \in {"serve", "paused"} THEN "exiting" ELSE "abandoned")
    /\ signalled' = signalled \cup {f \in Ffs : child[f] = "alive"}
    /\ UNCHANGED <<i, kernelVars, listVars, child, marked, armed, chld, noteVars>>

\* A child that dies before __exit__ has reset SIGCHLD interrupts __exit__.
ExitInterrupted ==
    /\ chld /\ Goto("exiting", "abandoned")
    /\ UNCHANGED <<i, kernelVars, listVars, childVars, signalVars, noteVars>>

\* __exit__ resets the handlers; __unenter opens the UDC file and writes b'' to
\* a buffered file, which reaches no system call: the gadget stays bound.
LeaveServing ==
    /\ Goto("exiting", "kill")
    /\ i' = 1 /\ armed' = FALSE /\ chld' = FALSE
    /\ UNCHANGED <<terms, kernelVars, listVars, childVars, noteVars>>

Serve ==
    InstallHandlers \/ Pause \/ FunctionExited \/ LeaveServing

-----------------------------------------------------------------------------
(* Gadget.__unenter                                                        *)

Listed == Elems(funcs)

\* Variant: nobody signals the children.
KillNobody ==
    /\ Goto("kill", "join") /\ i' = 1
    /\ UNCHANGED <<kernelVars, listVars, childVars, signalVars, noteVars>>

\* function.kill() of all; one that was never forked raises TypeError.
KillFunctions ==
    /\ Goto("kill", "join") /\ i' = 1
    /\ signalled' = signalled \cup {f \in Ffs \cap Listed : child[f] = "alive"}
    /\ reported' = reported \cup ({f \in Ffs \cap Listed : child[f] = "none"} \X {"function"})
    /\ UNCHANGED <<child, marked, kernelVars, listVars, signalVars, spoilt>>

\* Variant: join does not wait for the child.
JoinAtOnce ==
    /\ pc = "join" /\ i <= Len(funcs) /\ i' = i + 1
    /\ UNCHANGED <<pc, kernelVars, listVars, childVars, signalVars, noteVars>>

\* ConfigFunctionFFS._umount: the mount and its directory go.
Umount(f) == tmp' = [g \in Ffs |-> IF g = f THEN "none" ELSE tmp[g]]

\* function.join(): waits for the child, then unmounts; without a child, or when
\* umount fails, it raises before the mountpoint is removed.
JoinFunction ==
    /\ pc = "join" /\ i <= Len(funcs) /\ i' = i + 1
    /\ \/ /\ funcs[i] \in Ffs => child[funcs[i]] = "dead"
          /\ Umount(funcs[i])
          /\ UNCHANGED noteVars
       \/ /\ funcs[i] \in Ffs
          /\ \/ child[funcs[i]] = "none" /\ UNCHANGED spoilt
             \/ child[funcs[i]] = "dead" /\ "umount" \in Failures /\ spoilt' = TRUE
          /\ reported' = reported \cup {<<funcs[i], "function">>}
          /\ UNCHANGED tmp
    /\ UNCHANGED <<pc, fs, linked, udc, listVars, childVars, signalVars>>

AllJoined ==
    /\ i > Len(funcs) /\ Goto("join", "unlink")
    /\ UNCHANGED <<i, kernelVars, listVars, childVars, signalVars, noteVars>>

LastOf(s) == s[Len(s)]
ButLast(s) == SubSeq(s, 1, Len(s) - 1)

\* os.unlink of the newest link; the kernel unbinds a gadget that loses a
\* function.  A failure is printed and the link forgotten.
UnlinkFunction ==
    /\ pc = "unlink" /\ links # <<>>
    /\ links' = ButLast(links)
    /\ \/ /\ linked' = linked \ {LastOf(links)} /\ udc' = FALSE
          /\ UNCHANGED noteVars
       \/ /\ "unlink" \in Failures
          /\ reported' = reported \cup {<<LastOf(links), "link">>} /\ spoilt' = TRUE
          /\ UNCHANGED <<linked, udc>>
    /\ UNCHANGED <<pc, i, fs, tmp, dirs, result, funcs, childVars, signalVars>>

AllUnlinked ==
    /\ links = <<>> /\ Goto("unlink", "rmdir")
    /\ UNCHANGED <<i, kernelVars, listVars, childVars, signalVars, noteVars>>

\* configfs refuses to remove a directory that still has one made in it, or a
\* function or configuration that is still linked.
Blocked(d) ==
    \/ \E e \in fs \ {d} : Parent[e] = d
    \/ \E f \in linked : d \in {f, Config[f]}

\* Variant: directories are removed in the order they were made.
RemoveFirstDir ==
    /\ pc = "rmdir" /\ dirs # <<>>
    /\ dirs' = Tail(dirs)
    /\ IF Blocked(Head(dirs))
       THEN reported' = reported \cup {<<Head(dirs), "dir">>} /\ UNCHANGED fs
       ELSE fs' = fs \ {Head(dirs)} /\ UNCHANGED reported
    /\ UNCHANGED <<pc, i, linked, udc, tmp, links, result, funcs, childVars, signalVars, spoilt>>

\* os.rmdir of the newest directory; a failure is printed and the directory
\* forgotten.
RemoveDir ==
    /\ pc = "rmdir" /\ dirs # <<>>
    /\ dirs' = ButLast(dirs)
    /\ IF Blocked(LastOf(dirs))
       THEN reported' = reported \cup {<<LastOf(dirs), "dir">>} /\ UNCHANGED fs
       ELSE fs' = fs \ {LastOf(dirs)} /\ UNCHANGED reported
    /\ UNCHANGED <<pc, i, linked, udc, tmp, links, result, funcs, childVars, signalVars, spoilt>>

AllRemoved ==
    /\ dirs = <<>> /\ Goto("rmdir", "gone")
    /\ UNCHANGED <<i, kernelVars, listVars, childVars, signalVars, noteVars>>

TakeDown ==
    \/ KillFunctions \/ JoinFunction \/ AllJoined \/ UnlinkFunction \/ AllUnlinked
    \/ RemoveDir \/ AllRemoved

-----------------------------------------------------------------------------
(* The function processes                                                  *)

\* The child creates the function, enters it (endpoint files, descriptors) and
\* writes the ready marker.
ChildReady(f) ==
    /\ child[f] = "alive" /\ f \notin marked
    /\ marked' = marked \cup {f}
    /\ UNCHANGED <<pc, i, child, signalled, kernelVars, listVars, signalVars, noteVars>>

\* The child ends, with its endpoint files closed: the kernel takes the gadget
\* off the UDC and the parent gets SIGCHLD.
ChildExits(f) ==
    /\ child[f] = "alive"
    /\ child' = [child EXCEPT ![f] = "dead"]
    /\ udc' = FALSE
    /\ chld' = armed
    /\ UNCHANGED <<pc, i, fs, linked, tmp, marked, signalled, listVars, armed, terms, noteVars>>

\* ... because it got a signal, or because an exception ended it.
ChildStops(f) == f \in signalled /\ ChildExits(f)
ChildCrashes(f) == "child" \in Failures /\ ChildExits(f)

Children == \E f \in Ffs : ChildReady(f) \/ ChildStops(f) \/ ChildCrashes(f)

Next ==
    \/ Build \/ BuildFails \/ BindFails \/ Serve \/ ExitInterrupted
    \/ TakeDown \/ Terminate \/ Children

Spec == Init /\ [][Next]_vars

\* The parent runs on; a child gets ready unless it dies, and a signalled one
\* ends.  Nothing need fail and nobody need send a signal.
FairSpec ==
    /\ Spec
    /\ WF_vars(Build) /\ WF_vars(BindFails) /\ WF_vars(Serve) /\ WF_vars(TakeDown)
    /\ \A f \in Ffs : WF_vars(ChildReady(f)) /\ WF_vars(ChildStops(f))

-----------------------------------------------------------------------------
(* Properties                                                              *)

\* Directories and links, as GadgetLife sees them.
Parts(D, F) == (D \X {"dir"}) \cup (F \X {"link"})

Alive == {f \in Ffs : child[f] = "alive"}

\* __unenter undoes whatever __enter did before the call that failed, and in an
\* order configfs accepts: no directory, link, mount or process is left, unless
\* a call failed that it cannot undo ("rmdir on non-empty directories whose
\* content refuse to be individualy removed", ref_gadget.py:374).
NothingLeft ==
    pc = "gone" /\ ~spoilt =>
        fs = {} /\ linked = {} /\ Alive = {} /\ \A f \in Ffs : tmp[f] = "none"

\* Whatever fails, what is left in configfs has been printed ("this will give
\* the user the list of operations to do", ref_gadget.py:379), all but language
\* directories whose messages could not be written.
LeftIsReported ==
    pc = "gone" => Parts(fs, linked) \subseteq reported \cup Parts(Elems(result), {})

\* Directories made, and links made, while the gadget is being built.
Before == BuildPoints \cup {"init"}
MadeUpTo == IF pc \in {"init", "mkdir"} THEN i - 1 ELSE i
Built(n) == {Layout[k] : k \in 1 .. n}

Building ==
    pc \in Before =>
        /\ i <= Len(Layout)
        /\ fs = Built(MadeUpTo) /\ linked = Built(i-1) \cap Functions
        /\ pc = "init" => i = 1 /\ dirs = <<>>
        /\ pc = "messages" => Kind[Item] = "lang"
        /\ pc \in {"mkdtemp", "mount", "fork"} => Item \in Ffs
        /\ pc \in {"options", "link"} => Item \in Functions

Complete ==
    pc \in {"wait", "udc", "install", "serve", "paused", "exiting"} =>
        fs = Dirs /\ linked = Functions /\ Listed = Functions

\* __function_list has every function that was started, each with a directory.
FunctionsListed ==
    /\ pc \in Before => Listed = fs \cap Functions
    /\ pc \in Before \cup {"wait", "udc"} => Listed \cup Elems(links) \subseteq Elems(dirs)
    /\ \A f \in Ffs : child[f] # "none" => f \in Listed

\* Their processes are gone by the time the links go.
ChildrenJoined ==
    /\ pc = "join" => \A k \in DOMAIN funcs : k < i => funcs[k] \notin Alive
    /\ pc \in {"unlink", "rmdir", "gone"} => Alive = {}

\* The UDC stays bound as long as all function processes live.
Bound ==
    udc =>
        /\ Alive = Ffs /\ Ffs \subseteq Listed
        /\ pc \in {"install", "serve", "paused", "exiting", "kill", "join", "abandoned"}

\* Why the gadget is shown whole and taken apart unseen: although LeaveServing
\* does not unbind it, the links go only after every function process has gone,
\* and the kernel has unbound the gadget with the first of them.
LifeInv == TypeOK /\ Building /\ Complete /\ FunctionsListed /\ ChildrenJoined /\ Bound

\* Whatever is in configfs is on a list or has been reported.
Accounted ==
    /\ fs \subseteq Elems(dirs) \cup Elems(result) \cup {d \in Dirs : <<d, "dir">> \in reported}
    /\ linked \subseteq Elems(links) \cup {f \in Functions : <<f, "link">> \in reported}
    /\ pc \in {"rmdir", "gone"} => links = <<>>
    /\ pc = "gone" => dirs = <<>>

\* The directories are listed in the order of the layout, the links once each.
InOrder ==
    /\ Len(dirs) <= Len(Layout)
    /\ \A k \in DOMAIN dirs : dirs[k] = Layout[k]
    /\ \A j, k \in DOMAIN links : links[j] = links[k] => j = k
    /\ pc \in Before =>
          /\ Len(dirs) + Len(result) = MadeUpTo
          /\ \A k \in DOMAIN result : result[k] = Layout[Len(dirs) + k]
          /\ result # <<>> => Kind[Item] = "lang"
          /\ Elems(links) = linked

\* As long as nothing has failed that cannot be undone, configfs has exactly
\* what is listed ...
FsListed ==
    ~spoilt =>
        /\ pc # "abandoned" => fs = Elems(dirs) \cup Elems(result) /\ linked = Elems(links)
        /\ pc \notin Before \cup {"abandoned"} => result = <<>>

\* ... and every mountpoint is that of a function whose process is still to be
\* joined.
MountsListed ==
    ~spoilt =>
        \A f \in Ffs : tmp[f] # "none" =>
            /\ f \in Listed
            /\ child[f] = "none" => pc = "abandoned" \/ (pc \in {"mount", "fork"} /\ f = Item)
            /\ pc = "join" => \E k \in DOMAIN funcs : k >= i /\ funcs[k] = f
            /\ pc \notin {"unlink", "rmdir", "gone"}

\* Why __unenter can undo every partial build.
UndoInv == LifeInv /\ Accounted /\ InOrder /\ FsListed /\ MountsListed

\* The gadget implements GadgetLife.
Life == INSTANCE GadgetLife WITH
    Whole <- Parts(Dirs, Functions),
    parts <- Parts(fs, linked),
    seen <- udc,
    over <- \/ pc \in Teardown \cup Ended
            \/ pc \in {"install", "serve", "paused", "exiting"} /\ ~udc
ShownWhole == Life!LifeSpec

\* Start-up and teardown come to an end: nobody waits for a child that will
\* never answer or was never told to go.
AlwaysSettles == []<>(pc \in Ended \cup {"paused"})

\* "Make gadget exit if function subprocess exits" (ref_gadget.py:472): one that
\* dies once the process pauses ends it, through its teardown; the handler, not a
\* death before it was installed or before the pause, which nobody looks for.
ExitsWithFunction == pc = "paused" /\ chld ~> pc \in Ended
=============================================================================
