---------------------------- MODULE PingMonitor -----------------------------
(***************************************************************************)
(* The ping thread of the preview application, main.cpp: it copies the     *)
(* target, waits up to 800 ms for an echo, publishes the result and sleeps *)
(* for a second, while the window thread changes the target or ends the    *)
(* application.  Which target a result belongs to is all that is kept of   *)
(* it; a failed ping (-1) is a result like any other.                      *)
(***************************************************************************)
EXTENDS Retarget

VARIABLES
    thread,    \* where PingThreadProc is; "none" if it was never created
    ip,        \* its copy of g_kvmTarget
    pingRun    \* g_pingRun

pingVars == <<thread, ip, pingRun>>

ThreadState == {"none", "check", "copy", "echo", "sleep", "done"}

PingTypeOK ==
    /\ thread \in ThreadState
    /\ ip \in Targets
    /\ pingRun \in BOOLEAN

\* CreateThread may fail: the result then stays at -2.
PingInit ==
    /\ thread \in {"check", "none"}
    /\ ip = NoIp
    /\ pingRun = TRUE

-----------------------------------------------------------------------------
(* The ping thread                                                         *)

PingCheck ==
    /\ thread = "check"
    /\ thread' = IF pingRun THEN "copy" ELSE "done"
    /\ UNCHANGED <<retargetVars, ip, pingRun>>

\* Variant: the address is read when the thread starts, and never again.
PingCopyOnce ==
    /\ thread = "copy" /\ ~Locked
    /\ ip' = IF ip = NoIp THEN target ELSE ip
    /\ thread' = "echo"
    /\ UNCHANGED <<retargetVars, pingRun>>

\* The lock keeps the copy apart from Apply's store of g_kvmTarget.
PingCopy ==
    /\ thread = "copy" /\ ~Locked
    /\ ip' = target
    /\ thread' = "echo"
    /\ UNCHANGED <<retargetVars, pingRun>>

\* IcmpSendEcho returns, or inet_pton refused the address: g_pingMs.store.
PingEcho ==
    /\ thread = "echo"
    /\ pingMs' = ip
    /\ thread' = "sleep"
    /\ UNCHANGED <<ui, target, port, addr, ip, pingRun>>

\* Ten times 100 ms, unless g_pingRun goes.
PingSleep ==
    /\ thread = "sleep"
    /\ thread' = "check"
    /\ UNCHANGED <<retargetVars, ip, pingRun>>

PingThreadProc == PingCheck \/ PingCopy \/ PingEcho \/ PingSleep

-----------------------------------------------------------------------------
(* The end of main                                                         *)

\* WM_CLOSE, WM_DESTROY and WM_QUIT; the dialog's loop passes WM_QUIT on.
Quit ==
    /\ Dispatching
    /\ ui' = "leaving"
    /\ UNCHANGED <<target, port, addr, pingMs, pingVars>>

StopPing ==
    /\ ui = "leaving"
    /\ pingRun' = IF thread = "none" THEN pingRun ELSE FALSE
    /\ ui' = IF thread = "none" THEN "gone" ELSE "waiting"
    /\ UNCHANGED <<target, port, addr, pingMs, thread, ip>>

\* Variant: the thread's handle is closed without waiting.
WaitPingNot ==
    /\ ui = "waiting"
    /\ ui' = "gone"
    /\ UNCHANGED <<target, port, addr, pingMs, pingVars>>

\* WaitForSingleObject, whose 1500 ms only an echo can outlast, and
\* DeleteCriticalSection.
WaitPing ==
    /\ ui = "waiting" /\ thread \in {"done", "echo"}
    /\ ui' = "gone"
    /\ UNCHANGED <<target, port, addr, pingMs, pingVars>>

End == Quit \/ StopPing \/ WaitPing

-----------------------------------------------------------------------------
(* Properties                                                              *)

\* A result of another target than the present one is shown for one ping at
\* most: once the thread has asked the present target, what is stored next is
\* right, and a result stored before the target changed has been cleared
\* (ApplyKvmTarget's store of -2 against PingThreadProc's).
StaleOnce ==
    Dispatching /\ thread = "echo" /\ pingMs \notin {Measuring, target} => ip = target

\* The thread never enters g_kvmLock after main has deleted it, also when the
\* wait of main's cleanup times out.
LockAlive == thread = "copy" => ui # "gone"

\* A target that the user leaves alone is the one whose ping is shown in the
\* end, whatever pings of others were under way.
PingCatchesUp ==
    \A t \in Targets :
        <>[](Dispatching /\ target = t) => <>[](pingMs = t \/ thread = "none")

=============================================================================
