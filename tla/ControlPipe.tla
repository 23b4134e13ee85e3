---------------------------- MODULE ControlPipe ----------------------------
(***************************************************************************)
(* What a host may expect of the control endpoint of a function: a request *)
(* is answered at most once, never unasked, and with what it is entitled   *)
(* to: those in Served are carried out, the others are refused by a stall. *)
(* A host may give a request up, or replace it by another one.             *)
(***************************************************************************)
CONSTANTS Request, Served, NoRequest

VARIABLES
    asked,   \* the request that waits for its answer, or NoRequest
    reply    \* the latest answer

PipeInit == asked = NoRequest /\ reply = "none"

Ask(r) == asked' = r /\ UNCHANGED reply
GiveUp == asked' = NoRequest /\ UNCHANGED reply

Answer ==
    /\ asked # NoRequest /\ asked' = NoRequest
    /\ reply' = IF asked \in Served THEN "done" ELSE "stalled"

\* A function that ends stalls the request it could not handle.
Fail == asked # NoRequest /\ asked' = NoRequest /\ reply' = "failed"

PipeNext == (\E r \in Request : Ask(r)) \/ GiveUp \/ Answer \/ Fail

PipeSpec == PipeInit /\ [][PipeNext]_<<asked, reply>>
=============================================================================
