----------------------------- MODULE GadgetLife -----------------------------
(***************************************************************************)
(* What board/ref_gadget.py promises of one USB gadget: it is built out of *)
(* the target's sight, shown to the target once and only whole, and taken  *)
(* apart only when the target sees it no more.                             *)
(***************************************************************************)
CONSTANT Whole    \* every directory and link of the gadget

VARIABLES
    parts,    \* those that exist
    seen,     \* the gadget is bound to the UDC
    over      \* it will not be shown (again)

lifeVars == <<parts, seen, over>>

LifeInit == parts = {} /\ seen = FALSE /\ over = FALSE

Grow ==
    /\ ~seen /\ ~over
    /\ parts' \in SUBSET Whole /\ parts \subseteq parts'
    /\ UNCHANGED <<seen, over>>

Show == parts = Whole /\ ~over /\ seen' = TRUE /\ UNCHANGED <<parts, over>>

GiveUp == over' = TRUE /\ UNCHANGED <<parts, seen>>

Hide == seen' = FALSE /\ over' = TRUE /\ UNCHANGED parts

Shrink ==
    /\ over /\ ~seen
    /\ parts' \subseteq parts
    /\ UNCHANGED <<seen, over>>

LifeNext == Grow \/ Show \/ GiveUp \/ Hide \/ Shrink

LifeSpec == LifeInit /\ [][LifeNext]_lifeVars
=============================================================================
