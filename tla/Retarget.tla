------------------------------ MODULE Retarget ------------------------------
(***************************************************************************)
(* The KVM target of the preview application and the options dialog that   *)
(* changes it, main.cpp.  The dialog runs a message loop of its own on the *)
(* window thread, with the main window disabled.  What two other threads   *)
(* can see of Apply is a step of its own: the ping thread reads g_kvmTarget *)
(* under g_kvmLock, a GrabWorker reads g_kvmAddr without it.               *)
(***************************************************************************)
EXTENDS Naturals

CONSTANTS
    Ips,    \* addresses that inet_pton accepts
    NoIp,   \* an argv[1] that it does not, and the 0.0.0.0 g_kvmAddr has then
    Ports   \* UDP ports; argv[2] is cut to 16 bits unchecked

ASSUME RetargetAssumption == NoIp \notin Ips /\ Ips # {} /\ Ports # {}

VARIABLES
    ui,       \* where the window thread is
    target,   \* g_kvmTarget
    port,     \* g_kvmPort
    addr,     \* g_kvmAddr
    pingMs    \* the target g_pingMs was measured for; Measuring is -2

retargetVars == <<ui, target, port, addr, pingMs>>

Targets   == Ips \cup {NoIp}
Endpoint  == [ip : Targets, port : Ports]
Measuring == "measuring"

\* The message loops; in Apply, with g_kvmTarget and g_kvmPort stored, with
\* sin_port written, with sin_addr written; main's cleanup; the end.
UiState == {"window", "dialog", "entered", "port", "addr", "leaving", "waiting", "gone"}

RetargetTypeOK ==
    /\ ui \in UiState
    /\ target \in Targets /\ port \in Ports
    /\ addr \in Endpoint
    /\ pingMs \in Targets \cup {Measuring}

\* main has taken the target from argv, unchecked, and KvmInit has applied it:
\* inet_pton leaves sin_addr alone when it fails.
RetargetInit ==
    /\ ui = "window"
    /\ target \in Targets /\ port \in Ports
    /\ addr = [ip |-> target, port |-> port]
    /\ pingMs = Measuring

\* The loops that dispatch messages, the dialog's and main's.
Dispatching == ui \in {"window", "dialog"}

\* g_kvmLock is held across a step.
Locked == ui = "port"

\* ShowKvmOptions, up to its message loop.
ShowKvmOptions ==
    /\ ui = "window"
    /\ ui' = "dialog"
    /\ UNCHANGED <<target, port, addr, pingMs>>

\* IDCANCEL and WM_CLOSE of the dialog.
CloseOptions ==
    /\ ui = "dialog"
    /\ ui' = "window"
    /\ UNCHANGED <<target, port, addr, pingMs>>

\* IDOK or "ping now" with fields that pass the checks; others change nothing.
Apply ==
    /\ ui = "dialog"
    /\ target' \in Ips /\ port' \in Ports
    /\ ui' = "entered"
    /\ UNCHANGED <<addr, pingMs>>

\* ApplyKvmTarget takes the lock and writes the port.
ApplyPort ==
    /\ ui = "entered"
    /\ addr' = [addr EXCEPT !.port = port]
    /\ ui' = "port"
    /\ UNCHANGED <<target, port, pingMs>>

\* It writes the address and leaves the lock.
ApplyAddr ==
    /\ ui = "port"
    /\ addr' = [addr EXCEPT !.ip = target]
    /\ ui' = "addr"
    /\ UNCHANGED <<target, port, pingMs>>

\* Variant: the old result is left in place.
ApplyPingKept ==
    /\ ui = "addr"
    /\ ui' \in {"window", "dialog"}
    /\ UNCHANGED <<target, port, addr, pingMs>>

\* It asks for a fresh measurement; IDOK closes the dialog, "ping now" does not.
ApplyPing ==
    /\ ui = "addr"
    /\ pingMs' = Measuring
    /\ ui' \in {"window", "dialog"}
    /\ UNCHANGED <<target, port, addr>>

RetargetStep == CloseOptions \/ Apply \/ ApplyPort \/ ApplyAddr \/ ApplyPing
=============================================================================
