----------------------------- MODULE HidDaemon ------------------------------
(***************************************************************************)
(* The board side of the input path, board/kvm_hid.py: the serve loop that *)
(* turns each datagram into a HID report, the IN endpoint of the           *)
(* functionfs library (board/ref_init.py) on which reports wait as AIO     *)
(* blocks until the target polls them, and the target's HID state, which   *)
(* is external to the code.                                                *)
(***************************************************************************)
EXTENDS Wire

CONSTANT AioMax   \* AIO blocks the IN endpoint may have submitted

ASSUME HidDaemonAssumption == AioMax \in Nat \ {0}

VARIABLES
    up,        \* the daemon runs and its UDP socket is bound
    enabled,   \* _enabled: the host has configured the function
    aio,       \* reports submitted to the IN endpoint, oldest first
    \* the target (external)
    tmods, tkeys, tbtns,   \* what its HID stack holds down
    drag       \* a file drag of the left button: none, live or cancelled

daemonVars == <<up, enabled, aio>>
targetVars == <<tmods, tkeys, tbtns, drag>>

DaemonTypeOK ==
    /\ up \in BOOLEAN /\ enabled \in BOOLEAN
    /\ aio \in Seq(Packet)
    /\ tmods \in SUBSET Mods /\ tkeys \in SUBSET Keys /\ tbtns \in SUBSET Buttons
    /\ drag \in {"none", "live", "cancelled"}

DaemonInit ==
    /\ up = TRUE /\ enabled = TRUE /\ aio = <<>>
    /\ tmods = {} /\ tkeys = {} /\ tbtns = {} /\ drag = "none"

\* io_submit would return EAGAIN; a target that polls in time prevents it.
EndpointFull  == Len(aio) >= AioMax
EndpointReady == "full" \in Faults \/ ~EndpointFull

\* Variant: EAGAIN is not expected.
SubmitUnbounded(report) ==
    IF enabled THEN aio' = Append(aio, report) ELSE UNCHANGED aio

\* EndpointINFile.submit.
SubmitAIO(report) == aio' = Append(aio, report)

\* _send: a report is dropped unless the function is enabled, and on EAGAIN.
Submit(report) ==
    IF enabled /\ ~EndpointFull THEN SubmitAIO(report) ELSE UNCHANGED aio

\* One datagram, _handle_udp; with the daemon down nobody receives it.
Receive ==
    /\ net # <<>> /\ (up => EndpointReady)
    /\ net' = Tail(net)
    /\ IF up THEN Submit(Head(net)) ELSE UNCHANGED aio
    /\ UNCHANGED <<up, enabled, targetVars>>

\* What a mouse report does to the drag of the left button.
DragAfter(b) ==
    CASE Left \notin b -> "none"
      [] Left \in b \ tbtns -> "live"
      [] OTHER -> drag

\* The target polls the oldest report and takes over the state it carries.
Poll ==
    /\ aio # <<>> /\ aio' = Tail(aio)
    /\ LET r == Head(aio) IN
         \/ /\ r.kind = "kb"
            /\ tmods' = r.mods /\ tkeys' = r.keys
            /\ drag' = IF Esc \in r.keys /\ drag = "live" THEN "cancelled" ELSE drag
            /\ UNCHANGED tbtns
         \/ /\ r.kind = "mouse"
            /\ tbtns' = r.btns /\ drag' = DragAfter(r.btns)
            /\ UNCHANGED <<tmods, tkeys>>
    /\ UNCHANGED <<up, enabled, net>>

\* onDisable: the host unconfigures the gadget, its AIO blocks are cancelled.
\* The target keeps what the last report said until a new one arrives.
Disable ==
    /\ "restart" \in Faults /\ enabled
    /\ enabled' = FALSE /\ aio' = <<>>
    /\ UNCHANGED <<up, targetVars, net>>

\* onEnable: the host configures the function of a running daemon.
Enable ==
    /\ up /\ ~enabled
    /\ enabled' = TRUE
    /\ UNCHANGED <<up, aio, targetVars, net>>

\* The service stops (a board script takes the image, or it crashes) ...
Stop ==
    /\ "restart" \in Faults /\ up
    /\ up' = FALSE /\ enabled' = FALSE /\ aio' = <<>>
    /\ UNCHANGED <<targetVars, net>>

\* ... and starts again, with a function that is not configured yet.
Start ==
    /\ ~up
    /\ up' = TRUE
    /\ UNCHANGED <<enabled, aio, targetVars, net>>

DaemonNext == Receive \/ Poll \/ Disable \/ Enable \/ Stop \/ Start
=============================================================================
