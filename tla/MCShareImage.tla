---------------------------- MODULE MCShareImage ----------------------------
(***************************************************************************)
(* Small instances of ShareImage for TLC.                                  *)
(***************************************************************************)
EXTENDS ShareImage

\* Every command may fail that the scripts do not ignore.
ReportedFailures == FailureKinds \ {"umount"}
=============================================================================
