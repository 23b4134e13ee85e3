------------------------------ MODULE DragOut ------------------------------
(***************************************************************************)
(* A file dragged off the target's screen: the GrabWorker's hotkey,        *)
(* Do-Reverse of the target's agent, kvm-grab.ps1 and kvm-share.sh         *)
(* reverse.  Preview models the signalling before the hotkey.  As in       *)
(* Delivery a script on the board is one step; the agent may lose the      *)
(* drive at any point of a copy.                                           *)
(***************************************************************************)
EXTENDS Delivery

CONSTANT Grabs \* drag-outs; the file of drag-out g has the content g

ASSUME DragOutAssumption ==
    Grabs \cap (Nat \cup Drops \cup {None, Torn}) = {} /\ IsFiniteSet(Names)

VARIABLES
    grabs,    \* kvm-grab.ps1: where each is, the files listed and how many fetched
    hotkeys,  \* files dragged out whose hotkey the agent has not handled
    staging,  \* the file Do-Reverse is copying, or None
    temp,     \* files of _pull under their temporary names
    pull,     \* D:\_pull
    revout,   \* /opt/kvm/revout
    pc1,      \* PC1's Desktop
    \* history
    staged,   \* files the agent has moved into _pull
    fetched   \* files copied to PC1's Desktop

scriptVars == <<grabs, revout, pc1, fetched>>
stageVars == <<hotkeys, staging, temp, staged>>
dragOutVars == <<scriptVars, stageVars, pull>>

Found == Grabs \cup {None, Torn}

DragOutTypes ==
    /\ grabs \in [Grabs -> [at : {"idle", "reverse", "list", "fetch", "delete", "ok", "none", "failed"},
                            left : SUBSET Names, n : Nat]]
    /\ hotkeys \subseteq Names \X Grabs /\ staging \in (Names \X Grabs) \cup {None}
    /\ {temp, pull, revout, pc1} \subseteq [Names -> Found]
    /\ staged \subseteq Names \X Grabs /\ fetched \subseteq Names \X Found

\* kvm-grab.ps1 counts no more files than it has listed.
CountsFit ==
    \A g \in Grabs : grabs[g].n + Cardinality(grabs[g].left) <= Cardinality(Names)

DragOutInit ==
    /\ grabs = [g \in Grabs |-> [at |-> "idle", left |-> {}, n |-> 0]]
    /\ hotkeys = {} /\ staging = None /\ temp = Empty
    /\ pull = Empty /\ revout = Empty /\ pc1 = Empty /\ staged = {} /\ fetched = {}

Grabbing(g) == grabs[g].at \in {"reverse", "list", "fetch", "delete"}

-----------------------------------------------------------------------------
(* GrabWorker and Do-Reverse                                               *)

\* The worker presses the hotkey, which may get lost, and 700 ms later starts
\* kvm-grab.ps1, whatever other drag-outs run.
DragsOut(g, n) ==
    /\ grabs[g].at = "idle" /\ grabs' = [grabs EXCEPT ![g].at = "reverse"]
    /\ hotkeys' \in {hotkeys, hotkeys \cup {<<n, g>>}}
    /\ mishaps' = IF \E h \in Grabs : Grabbing(h) THEN mishaps \cup {"revout"} ELSE mishaps
    /\ UNCHANGED <<staging, temp, staged, pull, revout, pc1, fetched>>

\* Variant: the file is copied to its own name.
StageInPlace(f) ==
    /\ staging = None /\ f \in hotkeys /\ hotkeys' = hotkeys \ {f} /\ staging' = f
    /\ pull' = [pull EXCEPT ![f[1]] = Torn] /\ temp' = [temp EXCEPT ![f[1]] = Torn]
    /\ UNCHANGED <<scriptVars, staged, mishaps>>

\* The copy to .tmp_ begins; the hotkeys of others wait, and so does Do-Forward.
Stage(f) ==
    /\ staging = None /\ f \in hotkeys /\ hotkeys' = hotkeys \ {f} /\ staging' = f
    /\ temp' = [temp EXCEPT ![f[1]] = Torn]
    /\ UNCHANGED <<scriptVars, staged, pull, mishaps>>

\* The copy is complete and the file gets its name: not if one has it already.
Staged ==
    /\ staging # None /\ staging' = None
    /\ LET n == staging[1]
       IN IF pull[n] = None
          THEN /\ temp' = [temp EXCEPT ![n] = None]
               /\ pull' = [pull EXCEPT ![n] = staging[2]]
               /\ staged' = staged \cup {staging}
          ELSE temp' = [temp EXCEPT ![n] = staging[2]] /\ UNCHANGED <<pull, staged>>
    /\ UNCHANGED <<scriptVars, hotkeys, mishaps>>

\* The drive goes away, or the move fails: the exception is swallowed.
StageFails ==
    /\ staging # None /\ staging' = None
    /\ temp' \in {temp, [temp EXCEPT ![staging[1]] = None], [temp EXCEPT ![staging[1]] = staging[2]]}
    /\ UNCHANGED <<scriptVars, hotkeys, staged, pull, mishaps>>

\* There is no drive: nothing is staged.
HotkeyIgnored(f) ==
    /\ staging = None /\ f \in hotkeys /\ hotkeys' = hotkeys \ {f}
    /\ UNCHANGED <<scriptVars, staging, temp, staged, pull, mishaps>>

-----------------------------------------------------------------------------
(* kvm-grab.ps1                                                            *)

GrabGoes(g, at) == grabs' = [grabs EXCEPT ![g].at = at]

\* kvm-share.sh reverse: what is in _pull, but for temporary files, is copied
\* to revout, over what is there, and _pull emptied; whatever the script prints
\* on stderr ends kvm-grab.ps1.
Reverse(g) ==
    /\ grabs[g].at = "reverse" /\ (GrabGoes(g, "list") \/ GrabGoes(g, "failed"))
    /\ revout' = Over(revout, pull) /\ pull' = Empty
    /\ UNCHANGED <<pc1, fetched, stageVars, mishaps>>

\* An error of the copy is discarded.
ReverseBadly(g) ==
    /\ grabs[g].at = "reverse" /\ GrabGoes(g, "list") /\ mishaps' = mishaps \cup {"cp"}
    /\ \E n \in Listed(pull) : revout' \in Broken(Over(revout, [pull EXCEPT ![n] = None]), n)
    /\ pull' = Empty
    /\ UNCHANGED <<pc1, fetched, stageVars>>

\* find, in revout.
List(g) ==
    /\ grabs[g].at = "list"
    /\ \/ UNCHANGED mishaps
          /\ grabs' = [grabs EXCEPT ![g] =
                [at |-> IF revout = Empty THEN "delete" ELSE "fetch", left |-> Listed(revout), n |-> 0]]
       \/ mishaps' = mishaps \cup {"unnoticed"} /\ GrabGoes(g, "delete")
    /\ UNCHANGED <<revout, pc1, fetched, stageVars, pull>>

\* scp of one file; a failure is not counted.
Fetch(g, n) ==
    /\ grabs[g].at = "fetch" /\ n \in grabs[g].left
    /\ \/ /\ revout[n] # None /\ pc1' = [pc1 EXCEPT ![n] = revout[n]]
          /\ fetched' = fetched \cup {<<n, revout[n]>>} /\ UNCHANGED mishaps
          /\ grabs' = [grabs EXCEPT ![g] = Past([grabs[g] EXCEPT !.n = @ + 1], n, "delete")]
       \/ /\ pc1' \in Broken(pc1, n) /\ mishaps' = mishaps \cup {"unnoticed"} /\ UNCHANGED fetched
          /\ grabs' = [grabs EXCEPT ![g] = Past(@, n, "delete")]
    /\ UNCHANGED <<revout, stageVars, pull>>

\* rm -f revout/*, and the exit status.  Its own failure may go unnoticed: it is
\* the last call, and leaves the files to the next drag-out.
Delete(g) ==
    /\ grabs[g].at = "delete" /\ GrabGoes(g, IF grabs[g].n = 0 THEN "none" ELSE "ok")
    /\ revout' \in {Empty, revout}
    /\ UNCHANGED <<pc1, fetched, stageVars, pull, mishaps>>

\* Variant: a finally clause cleans up.
GrabFailsClean(g) ==
    /\ Grabbing(g) /\ GrabGoes(g, "failed") /\ revout' = Empty
    /\ UNCHANGED <<pc1, fetched, stageVars, pull, mishaps>>

\* A call fails and says so, which ends the script.
GrabFails(g) ==
    /\ Grabbing(g) /\ GrabGoes(g, "failed")
    /\ \/ UNCHANGED pc1
       \/ grabs[g].at = "fetch" /\ \E n \in grabs[g].left : pc1' \in Broken(pc1, n)
    /\ UNCHANGED <<revout, fetched, stageVars, pull, mishaps>>

GrabStep(g) ==
    \/ Reverse(g) \/ ReverseBadly(g) \/ List(g) \/ (\E n \in Names : Fetch(g, n))
    \/ Delete(g) \/ GrabFails(g)

AgentStages ==
    Staged \/ StageFails \/ \E f \in hotkeys : Stage(f) \/ HotkeyIgnored(f)

-----------------------------------------------------------------------------
(* Properties                                                              *)

\* "board never pulls a partial file" (agent.ps1:118), although the drive may be
\* taken away in the middle of a copy.
NeverPullsPartial ==
    \A n \in Names : pull[n] # Torn /\ (revout[n] = Torn => ~Without({"cp"}))

\* A file the agent has staged is in _pull, in revout or has got to PC1, unless
\* another of its name was staged: no failure that is noticed loses it.
StagedKept ==
    Without({"unnoticed", "revout", "cp"}) =>
        \A f \in staged \ fetched :
            \/ f[2] \in {pull[f[1]], revout[f[1]]}
            \/ \E g \in Grabs \ {f[2]} : <<f[1], g>> \in staged
=============================================================================
