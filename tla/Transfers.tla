----------------------------- MODULE Transfers -----------------------------
(***************************************************************************)
(* Transfers in both directions.  They share the agent, one thread whose   *)
(* Do-Reverse holds up Do-Forward, and its restarts.                       *)
(***************************************************************************)
EXTENDS DragOut

\* Bounds of the model: who takes part (drops, drag-outs, the daemon), with which
\* files, and how many kinds of mishaps happen.
CONSTANT Casts

ASSUME TransfersAssumption ==
    Casts \subseteq [drops : SUBSET Drops, names : SUBSET Names, sync : BOOLEAN,
                     grabs : SUBSET Grabs, mishaps : Nat]

VARIABLE cast

vars == <<deliveryVars, dragOutVars, cast>>

TypeOK == DeliveryTypes /\ DragOutTypes /\ CountsFit /\ cast \in Casts

Init == DeliveryInit /\ DragOutInit /\ cast \in Casts

UserStep ==
    \/ (\E d \in cast.drops, files \in SUBSET cast.names : UserDrops(d, files)) /\ UNCHANGED dragOutVars
    \/ cast.sync /\ (\E n \in cast.names : UserWrites(n)) /\ UNCHANGED dragOutVars
    \/ (\E g \in cast.grabs, n \in cast.names : DragsOut(g, n))
       /\ UNCHANGED <<dropVars, agentVars, syncVars, inbox>>

PC1Step ==
    \/ (\E d \in Drops : DropStep(d)) /\ UNCHANGED dragOutVars
    \/ cast.sync /\ SyncStep /\ UNCHANGED dragOutVars
    \/ (\E g \in Grabs : GrabStep(g)) /\ UNCHANGED <<dropVars, agentVars, syncVars, inbox>>

AgentStep ==
    \/ staging = None /\ ForwardStep /\ UNCHANGED dragOutVars
    \/ forwarding = None /\ AgentStages /\ UNCHANGED <<dropVars, agentVars, syncVars, inbox>>

\* With the agent a copy under way is gone, and so are hotkeys it has not seen.
AgentRestarts ==
    /\ seen # {} \/ forwarding # None \/ staging # None \/ hotkeys # {}
    /\ AgentForgets
    /\ staging' = None /\ hotkeys' = {}
    /\ UNCHANGED <<scriptVars, temp, staged, pull>>

Next ==
    /\ UserStep \/ PC1Step \/ AgentStep \/ AgentRestarts
    /\ Cardinality(mishaps') <= cast.mishaps /\ UNCHANGED cast

Spec == Init /\ [][Next]_vars

Alone == UNCHANGED <<dragOutVars, cast>>

\* The agent's timer ticks and a copy ends; the daemon scans, and a call it tries
\* again and again succeeds at last.
FairSpec ==
    /\ Spec
    /\ WF_vars((Staged \/ StageFails) /\ UNCHANGED <<dropVars, agentVars, syncVars, inbox, cast>>)
    /\ WF_vars(Scan /\ Alone)
    /\ SF_vars(SyncClears /\ Alone) /\ SF_vars(SyncRuns /\ Alone)
    /\ \A n \in Names : /\ SF_vars(staging = None /\ ForwardStarts(n) /\ Alone)
                         /\ SF_vars(staging = None /\ Forwarded(n) /\ Alone)
    /\ \A k \in 1 .. Cardinality(Names) :
          SF_vars(Cardinality(sync.left) = k /\ (\E n \in Names : SyncCopies(n)) /\ Alone)
=============================================================================
