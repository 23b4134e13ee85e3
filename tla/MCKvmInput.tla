----------------------------- MODULE MCKvmInput -----------------------------
(***************************************************************************)
(* Small instances of KvmInput for TLC: the sets of FaultKinds each run    *)
(* allows.                                                                 *)
(***************************************************************************)
EXTENDS KvmInput

\* A network, board and window system that work.
NoFaults == {}

\* The same with a user who takes control back during a grab, and a system
\* that takes the mouse capture away.
ImpatientUser == {"reentry", "steal"}

\* A network that loses datagrams.
LossyNetwork == {"loss"}

\* Everything at once.
AllFaults == FaultKinds
=============================================================================
