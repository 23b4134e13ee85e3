---------------------------- MODULE MCTransfers ----------------------------
(***************************************************************************)
(* Transfers with small casts, so that every pair that shares something    *)
(* meets: two drops, a drop and the daemon, two drag-outs, a drop and a    *)
(* drag-out (which share the agent); the daemon and drag-outs also with    *)
(* two files.  A cast has no mishaps where each of them would excuse       *)
(* everything its members can get wrong.                                   *)
(***************************************************************************)
EXTENDS Transfers

CONSTANTS d1, d2, g1, g2

Cast(drops_, grabs_, sync_, names, max) ==
    [drops |-> drops_, grabs |-> grabs_, sync |-> sync_, names |-> names, mishaps |-> max]

MCCasts ==
    {Cast({d1, d2}, {}, FALSE, {"a"}, 1), Cast({d1}, {g1}, FALSE, {"a"}, 1),
     Cast({}, {g1, g2}, FALSE, {"a"}, 1), Cast({}, {g1, g2}, FALSE, Names, 0),
     Cast({}, {}, TRUE, {"a"}, 1), Cast({}, {}, TRUE, Names, 0),
     Cast({d1}, {}, TRUE, {"a"}, 0)}
=============================================================================
