---------------------------- MODULE MCKvmTarget -----------------------------
(***************************************************************************)
(* The small instance of KvmTarget for TLC.                                *)
(***************************************************************************)
EXTENDS KvmTarget

\* The user may take control back during a grab, and the system may take the
\* mouse capture away.
ImpatientUser == {"reentry", "steal"}
=============================================================================
