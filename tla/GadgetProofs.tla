---------------------------- MODULE GadgetProofs ----------------------------
(***************************************************************************)
(* What TLAPS proves of Gadget, for every layout of configurations,        *)
(* languages and functions with at least one functionfs function, and for  *)
(* every set of failing calls.                                             *)
(***************************************************************************)
EXTENDS Gadget, TLAPS

\* Facts about the layout that the steps of __enter rest on.
LEMMA LayoutFacts ==
  /\ Layout \in Seq(Dirs) /\ Len(Layout) \in Nat \ {0}
  /\ \A k \in 1 .. Len(Layout) : Layout[k] \in Dirs
  /\ Dirs = {Layout[k] : k \in 1 .. Len(Layout)}
  /\ Functions \subseteq Dirs /\ Ffs \subseteq Functions
  /\ \A f \in Functions : Kind[f] \in {"ffs", "kernel"}
  BY GadgetAssumption DEF Dirs, Elems, Functions, Ffs, OfKind

\* What a sequence gains by Append, and loses with its last element.
LEMMA ElemsAppend ==
  ASSUME NEW S, NEW s \in Seq(S), NEW e \in S
  PROVE  Append(s, e) \in Seq(S) /\ Elems(Append(s, e)) = Elems(s) \cup {e}
<1>1. DOMAIN s = 1 .. Len(s) /\ DOMAIN Append(s, e) = 1 .. Len(s) + 1
  OBVIOUS
<1>2. Elems(s) \subseteq Elems(Append(s, e)) /\ e \in Elems(Append(s, e))
  <2>1. Append(s, e)[Len(s) + 1] = e /\ \A k \in 1 .. Len(s) : Append(s, e)[k] = s[k]
    OBVIOUS
  <2>2. Len(s) + 1 \in 1 .. Len(s) + 1 /\ \A k \in 1 .. Len(s) : k \in 1 .. Len(s) + 1
    OBVIOUS
  <2>3. QED  BY <1>1, <2>1, <2>2 DEF Elems
<1>3. Elems(Append(s, e)) \subseteq Elems(s) \cup {e}
  BY <1>1 DEF Elems
<1>4. QED  BY <1>2, <1>3

\* What a list holds once its last entry has been popped.
LEMMA ElemsButLast ==
  ASSUME NEW S, NEW s \in Seq(S), s # <<>>
  PROVE  /\ ButLast(s) \in Seq(S) /\ LastOf(s) \in S
         /\ Elems(s) = Elems(ButLast(s)) \cup {LastOf(s)}
         /\ Len(ButLast(s)) = Len(s) - 1
         /\ \A k \in 1 .. Len(s) - 1 : ButLast(s)[k] = s[k]
<1>1. Len(s) \in Nat \ {0} /\ DOMAIN s = 1 .. Len(s)
  OBVIOUS
<1>2. /\ ButLast(s) \in Seq(S) /\ Len(ButLast(s)) = Len(s) - 1
      /\ \A k \in 1 .. Len(s) - 1 : ButLast(s)[k] = s[k]
  BY <1>1 DEF ButLast
<1>3. DOMAIN ButLast(s) = 1 .. Len(s) - 1
  BY <1>2
<1>4. \A n \in Nat \ {0} : \A k \in 1 .. n : k \in 1 .. n - 1 \/ k = n
  OBVIOUS
<1>5. Elems(s) \subseteq Elems(ButLast(s)) \cup {LastOf(s)}
  BY <1>1, <1>2, <1>3, <1>4 DEF Elems, LastOf
<1>6. Elems(ButLast(s)) \cup {LastOf(s)} \subseteq Elems(s)
  BY <1>1, <1>2, <1>3 DEF Elems, LastOf
<1>7. QED  BY <1>1, <1>2, <1>5, <1>6 DEF LastOf

\* Types: the empty gadget.
LEMMA TypeInit == Init => TypeOK
<1> SUFFICES ASSUME Init PROVE TypeOK
  OBVIOUS
<1>1. terms \in 0 .. MaxTerms
  BY GadgetAssumption DEF Init
<1>2. tmp \in [Ffs -> {"none", "dir", "mounted"}] /\ child \in [Ffs -> {"none", "alive", "dead"}]
  BY DEF Init
<1>3. dirs \in Seq(Dirs) /\ links \in Seq(Functions) /\ result \in Seq(Dirs) /\ funcs \in Seq(Functions)
  BY DEF Init
<1>4. pc \in PCs /\ i \in Nat \ {0}
  BY DEF Init, PCs
<1>5. fs \in SUBSET Dirs /\ linked \in SUBSET Functions /\ udc \in BOOLEAN
  BY DEF Init
<1>6. marked \in SUBSET Ffs /\ signalled \in SUBSET Ffs /\ armed \in BOOLEAN /\ chld \in BOOLEAN
  BY DEF Init
<1>7. spoilt \in BOOLEAN
  BY DEF Init
<1>8. reported \in SUBSET (Dirs \X {"dir", "link", "function"})
  BY DEF Init
<1>9. QED
  BY <1>1, <1>2, <1>3, <1>4, <1>5, <1>6, <1>7, <1>8
  DEF TypeOK, KernelTypes, ListTypes, ChildTypes, SignalTypes, NoteTypes

\* While the gadget is built, the item at hand is a directory of the layout.
LEMMA ItemInDirs ==
  ASSUME TypeOK, Building, pc \in Before
  PROVE  i \in 1 .. Len(Layout) /\ Item \in Dirs
  BY LayoutFacts DEF TypeOK, Building, Item, Before

\* Variables that stay the same keep their types.
LEMMA TypesKept ==
  /\ KernelTypes /\ UNCHANGED kernelVars => KernelTypes'
  /\ ListTypes /\ UNCHANGED listVars => ListTypes'
  /\ ChildTypes /\ UNCHANGED childVars => ChildTypes'
  /\ SignalTypes /\ UNCHANGED signalVars => SignalTypes'
  /\ NoteTypes /\ UNCHANGED noteVars => NoteTypes'
<1>1. KernelTypes /\ UNCHANGED kernelVars => KernelTypes'
  BY DEF KernelTypes, kernelVars
<1>2. ListTypes /\ UNCHANGED listVars => ListTypes'
  BY DEF ListTypes, listVars
<1>3. ChildTypes /\ UNCHANGED childVars => ChildTypes'
  BY DEF ChildTypes, childVars
<1>4. SignalTypes /\ UNCHANGED signalVars => SignalTypes'
  BY DEF SignalTypes, signalVars
<1>5. NoteTypes /\ UNCHANGED noteVars => NoteTypes'
  BY DEF NoteTypes, noteVars
<1>6. QED  BY <1>1, <1>2, <1>3, <1>4, <1>5

\* The program point and the loop index keep their types in every action.
LEMMA PcTypes ==
  ASSUME TypeOK, Building, Next PROVE pc' \in PCs /\ i' \in Nat \ {0}
<1> USE DEF PCs, BuildPoints, Teardown, Ended, Goto, Advance, Unenter, TypeOK
<1>1. CASE Build
  <2>1. CASE Advance
    <3>1. (pc' = "mkdir" /\ i' = i + 1) \/ (pc' = "wait" /\ i' = 1)
      BY <2>1
    <3>2. QED  BY <3>1
  <2>2. CASE Prepare \/ MakeLang
    BY <2>2 DEF Prepare, MakeLang
  <2>3. CASE MakeFunction \/ MakeMountpoint \/ MountFunction \/ ForkChild \/ WriteOptions
    BY <2>3 DEF MakeFunction, MakeMountpoint, MountFunction, ForkChild, WriteOptions
  <2>4. CASE WaitForFunction \/ AllWaited \/ BindUdc
    BY <2>4 DEF WaitForFunction, AllWaited, BindUdc
  <2>5. QED
    BY <1>1, <2>1, <2>2, <2>3, <2>4 DEF Build, WriteMessages, MakeDir, LinkFunction
<1>2. CASE BuildFails \/ BindFails \/ Serve \/ ExitInterrupted \/ Terminate
  BY <1>2 DEF BuildFails, BindFails, Serve, InstallHandlers, Pause, FunctionExited,
     LeaveServing, ExitInterrupted, Terminate
<1>3. CASE TakeDown
  BY <1>3 DEF TakeDown, KillFunctions, JoinFunction, Umount, AllJoined, UnlinkFunction, AllUnlinked,
     RemoveDir, AllRemoved
<1>4. CASE Children
  BY <1>4 DEF Children, ChildReady, ChildStops, ChildCrashes, ChildExits
<1>5. QED  BY <1>1, <1>2, <1>3, <1>4 DEF Next

\* Types: the steps of __enter.
LEMMA TypeBuild ==
  ASSUME TypeOK, Building, Build
  PROVE  KernelTypes' /\ ListTypes' /\ ChildTypes' /\ SignalTypes' /\ NoteTypes'
<1> USE TypesKept DEF TypeOK
<1>1. CASE Prepare \/ WriteOptions \/ WaitForFunction \/ AllWaited
  BY <1>1 DEF Prepare, WriteOptions, WaitForFunction, AllWaited
<1>2. CASE MakeLang
  <2>1. Item \in Dirs  BY <1>2, ItemInDirs DEF MakeLang, Goto, Before, BuildPoints
  <2>2. KernelTypes'  BY <1>2, <2>1 DEF MakeLang, KernelTypes
  <2>3. ListTypes'  BY <1>2, <2>1, ElemsAppend DEF MakeLang, ListTypes
  <2>4. QED  BY <1>2, <2>2, <2>3 DEF MakeLang
<1>3. CASE WriteMessages
  <2>1. ListTypes'
    <3>1. dirs \o result \in Seq(Dirs) /\ <<>> \in Seq(Dirs)  BY DEF ListTypes
    <3>2. QED  BY <1>3, <3>1 DEF WriteMessages, ListTypes
  <2>2. QED  BY <1>3, <2>1 DEF WriteMessages
<1>4. CASE MakeDir
  <2>1. Item \in Dirs  BY <1>4, ItemInDirs DEF MakeDir, Before, BuildPoints
  <2>2. KernelTypes'  BY <1>4, <2>1 DEF MakeDir, KernelTypes
  <2>3. ListTypes'  BY <1>4, <2>1, ElemsAppend DEF MakeDir, ListTypes
  <2>4. QED  BY <1>4, <2>2, <2>3 DEF MakeDir
<1>5. CASE MakeFunction
  <2>1. Item \in Dirs  BY <1>5, ItemInDirs DEF MakeFunction, Goto, Before, BuildPoints
  <2>2. KernelTypes'  BY <1>5, <2>1 DEF MakeFunction, KernelTypes
  <2>3. Append(dirs, Item) \in Seq(Dirs)  BY <2>1 DEF ListTypes
  <2>4. Append(funcs, Item) \in Seq(Functions)  BY <1>5 DEF ListTypes, MakeFunction
  <2>5. ListTypes'  BY <1>5, <2>3, <2>4 DEF MakeFunction, ListTypes
  <2>6. QED  BY <1>5, <2>2, <2>5 DEF MakeFunction
<1>6. CASE MakeMountpoint \/ MountFunction
  <2>1. KernelTypes'  BY <1>6 DEF MakeMountpoint, MountFunction, KernelTypes
  <2>2. QED  BY <1>6, <2>1 DEF MakeMountpoint, MountFunction
<1>7. CASE ForkChild
  <2>1. ChildTypes'  BY <1>7 DEF ForkChild, ChildTypes
  <2>2. QED  BY <1>7, <2>1 DEF ForkChild
<1>8. CASE LinkFunction
  <2>1. Item \in Functions  BY <1>8 DEF LinkFunction, Building, Before, BuildPoints
  <2>2. KernelTypes'  BY <1>8, <2>1 DEF LinkFunction, KernelTypes
  <2>3. Append(links, Item) \in Seq(Functions)  BY <2>1 DEF ListTypes
  <2>4. ListTypes'  BY <1>8, <2>3 DEF LinkFunction, ListTypes
  <2>5. QED  BY <1>8, <2>2, <2>4 DEF LinkFunction
<1>9. CASE BindUdc
  <2>1. KernelTypes'  BY <1>9 DEF BindUdc, KernelTypes
  <2>2. QED  BY <1>9, <2>1 DEF BindUdc
<1>10. QED
  BY <1>1, <1>2, <1>3, <1>4, <1>5, <1>6, <1>7, <1>8, <1>9 DEF Build

\* Types: the steps between binding and teardown.
LEMMA TypeServe ==
  ASSUME TypeOK, BuildFails \/ BindFails \/ Serve \/ ExitInterrupted \/ Terminate \/ Children
  PROVE  KernelTypes' /\ ListTypes' /\ ChildTypes' /\ SignalTypes' /\ NoteTypes'
<1> USE TypesKept DEF TypeOK
<1>1. CASE BuildFails
  <2>1. NoteTypes'  BY <1>1 DEF BuildFails, NoteTypes
  <2>2. QED  BY <1>1, <2>1 DEF BuildFails
<1>2. CASE BindFails \/ ExitInterrupted
  BY <1>2 DEF BindFails, ExitInterrupted
<1>3. CASE Serve
  <2>1. SignalTypes'
    BY <1>3 DEF Serve, InstallHandlers, Pause, FunctionExited, LeaveServing, SignalTypes
  <2>2. QED
    BY <1>3, <2>1 DEF Serve, InstallHandlers, Pause, FunctionExited, LeaveServing
<1>4. CASE Terminate
  <2>1. SignalTypes'  BY <1>4, GadgetAssumption DEF Terminate, SignalTypes
  <2>2. ChildTypes'  BY <1>4 DEF Terminate, ChildTypes
  <2>3. QED  BY <1>4, <2>1, <2>2 DEF Terminate
<1>5. CASE Children
  <2>1. PICK f \in Ffs : ChildReady(f) \/ ChildExits(f)
    BY <1>5 DEF Children, ChildStops, ChildCrashes
  <2>2. CASE ChildReady(f)
    <3>1. ChildTypes'  BY <2>2 DEF ChildReady, ChildTypes
    <3>2. QED  BY <2>2, <3>1 DEF ChildReady
  <2>3. CASE ChildExits(f)
    <3>1. ChildTypes'  BY <2>3 DEF ChildExits, ChildTypes
    <3>2. KernelTypes'  BY <2>3 DEF ChildExits, KernelTypes
    <3>3. SignalTypes'  BY <2>3 DEF ChildExits, SignalTypes
    <3>4. QED  BY <2>3, <3>1, <3>2, <3>3 DEF ChildExits
  <2>4. QED  BY <2>1, <2>2, <2>3
<1>6. QED  BY <1>1, <1>2, <1>3, <1>4, <1>5

\* Types: the steps of __unenter.
LEMMA TypeTakeDown ==
  ASSUME TypeOK, TakeDown
  PROVE  KernelTypes' /\ ListTypes' /\ ChildTypes' /\ SignalTypes' /\ NoteTypes'
<1> USE TypesKept DEF TypeOK
<1>1. CASE KillFunctions
  <2>1. ChildTypes'  BY <1>1 DEF KillFunctions, ChildTypes
  <2>2. NoteTypes'
    <3>1. {f \in Ffs \cap Listed : child[f] = "none"} \X {"function"}
             \subseteq Dirs \X {"dir", "link", "function"}
      BY LayoutFacts
    <3>2. QED  BY <1>1, <3>1 DEF KillFunctions, NoteTypes
  <2>3. QED  BY <1>1, <2>1, <2>2 DEF KillFunctions
<1>2. CASE JoinFunction
  <2>1. funcs[i] \in Functions
    BY <1>2 DEF JoinFunction, Umount, ListTypes
  <2>2. KernelTypes'
    <3>1. [f \in Ffs |-> IF f = funcs[i] THEN "none" ELSE tmp[f]]
             \in [Ffs -> {"none", "dir", "mounted"}]
      BY DEF KernelTypes
    <3>2. tmp' \in [Ffs -> {"none", "dir", "mounted"}]
      BY <1>2, <3>1 DEF JoinFunction, Umount, KernelTypes
    <3>3. QED  BY <1>2, <3>2 DEF JoinFunction, Umount, KernelTypes
  <2>3. NoteTypes'
    <3>1. <<funcs[i], "function">> \in Dirs \X {"dir", "link", "function"}
      BY <2>1, LayoutFacts
    <3>2. QED  BY <1>2, <3>1 DEF JoinFunction, Umount, NoteTypes, noteVars
  <2>4. QED  BY <1>2, <2>2, <2>3 DEF JoinFunction, Umount
<1>3. CASE AllJoined \/ AllUnlinked \/ AllRemoved
  BY <1>3 DEF AllJoined, AllUnlinked, AllRemoved
<1>4. CASE UnlinkFunction
  <2>1. ButLast(links) \in Seq(Functions) /\ LastOf(links) \in Functions
    BY <1>4, ElemsButLast DEF UnlinkFunction, ListTypes
  <2>2. ListTypes'  BY <1>4, <2>1 DEF UnlinkFunction, ListTypes
  <2>3. KernelTypes'  BY <1>4 DEF UnlinkFunction, KernelTypes
  <2>4. NoteTypes'
    <3>1. <<LastOf(links), "link">> \in Dirs \X {"dir", "link", "function"}
      BY <2>1, LayoutFacts
    <3>2. QED  BY <1>4, <3>1 DEF UnlinkFunction, NoteTypes, noteVars
  <2>5. QED  BY <1>4, <2>2, <2>3, <2>4 DEF UnlinkFunction
<1>5. CASE RemoveDir
  <2>1. ButLast(dirs) \in Seq(Dirs) /\ LastOf(dirs) \in Dirs
    BY <1>5, ElemsButLast DEF RemoveDir, ListTypes
  <2>2. ListTypes'  BY <1>5, <2>1 DEF RemoveDir, ListTypes
  <2>3. KernelTypes'  BY <1>5 DEF RemoveDir, KernelTypes
  <2>4. NoteTypes'
    <3>1. <<LastOf(dirs), "dir">> \in Dirs \X {"dir", "link", "function"}
      BY <2>1
    <3>2. QED  BY <1>5, <3>1 DEF RemoveDir, NoteTypes
  <2>5. QED  BY <1>5, <2>2, <2>3, <2>4 DEF RemoveDir
<1>6. QED  BY <1>1, <1>2, <1>3, <1>4, <1>5 DEF TakeDown

\* Types: every step.
LEMMA TypeStep == ASSUME TypeOK, Building, Next PROVE TypeOK'
<1>1. KernelTypes' /\ ListTypes' /\ ChildTypes' /\ SignalTypes' /\ NoteTypes'
  BY TypeBuild, TypeServe, TypeTakeDown DEF Next
<1>2. QED  BY <1>1, PcTypes DEF TypeOK

-----------------------------------------------------------------------------
(* The lifetime of the gadget                                              *)

\* One more directory of the layout.
LEMMA BuiltOneMore ==
  /\ \A n \in Nat \ {0} : Built(n) = Built(n-1) \cup {Layout[n]}
  /\ Built(0) = {} /\ Built(Len(Layout)) = Dirs
<1>1. \A n \in Nat \ {0} : 1 .. n = (1 .. n-1) \cup {n}
  OBVIOUS
<1>2. \A n \in Nat \ {0} : Built(n) = Built(n-1) \cup {Layout[n]}
  BY <1>1 DEF Built
<1>3. QED  BY <1>2, LayoutFacts DEF Built

\* Where the building actions lead: the next directory, or wait.
LEMMA AdvanceBuilds ==
  ASSUME TypeOK, pc \in BuildPoints, i \in 1 .. Len(Layout), Advance,
         fs' = Built(i), linked' = Built(i) \cap Functions,
         Elems(funcs)' = fs' \cap Functions
  PROVE  Building' /\ Complete'
<1>1. CASE i < Len(Layout)
  <2>1. pc' = "mkdir" /\ i' = i + 1
    BY <1>1 DEF Advance
  <2>2. i' - 1 = i /\ i' <= Len(Layout)
    BY <1>1, <2>1, LayoutFacts
  <2>3. QED  BY <2>1, <2>2 DEF Building, Complete, MadeUpTo, Built
<1>2. CASE i = Len(Layout)
  <2>1. pc' = "wait"
    BY <1>2, LayoutFacts DEF Advance
  <2>2. fs' = Dirs /\ linked' = Functions
    BY <1>2, BuiltOneMore, LayoutFacts
  <2>3. QED
    BY <2>1, <2>2, LayoutFacts DEF Building, Complete, Listed, Before, BuildPoints
<1>3. QED  BY <1>1, <1>2, LayoutFacts

\* What is built is a prefix of the layout: the steps of __enter.
LEMMA BuildingBuild ==
  ASSUME TypeOK, Building, Complete, FunctionsListed, Build
  PROVE  Building' /\ Complete'
<1> USE DEF Before, BuildPoints, Goto
<1>1. CASE Prepare
  BY <1>1, BuiltOneMore DEF Prepare, Building, Complete, MadeUpTo, Built, kernelVars
<1>2. ASSUME pc \in BuildPoints
      PROVE  /\ i \in 1 .. Len(Layout) /\ Item \in Dirs /\ Layout[i] = Item
             /\ Built(i) = Built(i-1) \cup {Item}
  BY <1>2, ItemInDirs, BuiltOneMore DEF Item
<1>3. ASSUME pc \in BuildPoints, Kind[Item] \in {"gadget", "lang", "config"}
      PROVE  Built(i) \cap Functions = Built(i-1) \cap Functions
  BY <1>2, <1>3, LayoutFacts
<1>4. CASE MakeLang
  BY <1>4, <1>2 DEF MakeLang, Building, Complete, MadeUpTo, Built, Item
<1>5. CASE WriteMessages
  <2>1. fs' = Built(i) /\ linked' = Built(i) \cap Functions
    BY <1>5, <1>2, <1>3 DEF WriteMessages, Building, MadeUpTo, kernelVars
  <2>2. Elems(funcs)' = fs' \cap Functions
    BY <1>5 DEF WriteMessages, FunctionsListed, Listed, kernelVars
  <2>3. QED  BY <1>5, <1>2, <2>1, <2>2, AdvanceBuilds DEF WriteMessages
<1>6. CASE MakeDir
  <2>1. fs' = Built(i) /\ linked' = Built(i) \cap Functions
    BY <1>6, <1>2, <1>3 DEF MakeDir, Building, MadeUpTo
  <2>2. Elems(funcs)' = fs' \cap Functions
    BY <1>6, <1>2, <1>3, LayoutFacts DEF MakeDir, FunctionsListed, Listed, Building, MadeUpTo
  <2>3. QED  BY <1>6, <1>2, <2>1, <2>2, AdvanceBuilds DEF MakeDir
<1>7. CASE MakeFunction
  BY <1>7, <1>2 DEF MakeFunction, Building, Complete, MadeUpTo, Built, Item
<1>8. CASE MakeMountpoint \/ MountFunction \/ ForkChild \/ WriteOptions
  BY <1>8, LayoutFacts DEF MakeMountpoint, MountFunction, ForkChild, WriteOptions,
     Building, Complete, MadeUpTo, Built, Item, kernelVars
<1>9. CASE LinkFunction
  <2>1. fs' = Built(i) /\ linked' = Built(i) \cap Functions
    BY <1>9, <1>2 DEF LinkFunction, Building, MadeUpTo
  <2>2. Elems(funcs)' = fs' \cap Functions
    BY <1>9 DEF LinkFunction, FunctionsListed, Listed
  <2>3. QED  BY <1>9, <1>2, <2>1, <2>2, AdvanceBuilds DEF LinkFunction
<1>10. CASE WaitForFunction \/ AllWaited \/ BindUdc
  BY <1>10 DEF WaitForFunction, AllWaited, BindUdc, Building, Complete, Listed, Elems,
     kernelVars, listVars
<1>11. QED
  BY <1>1, <1>4, <1>5, <1>6, <1>7, <1>8, <1>9, <1>10 DEF Build

\* What is built is a prefix of the layout: every step.
LEMMA BuildingStep ==
  ASSUME TypeOK, Building, Complete, FunctionsListed, Next
  PROVE  Building' /\ Complete'
<1> USE DEF Before, BuildPoints, Goto, Building, Complete, Unenter
<1>1. CASE Build
  BY <1>1, BuildingBuild
<1>2. CASE BuildFails \/ BindFails
  BY <1>2 DEF BuildFails, BindFails
<1>3. CASE Serve \/ ExitInterrupted \/ Terminate
  BY <1>3 DEF Serve, InstallHandlers, Pause, FunctionExited, LeaveServing, ExitInterrupted,
     Terminate, Ended, Listed, Elems, kernelVars, listVars
<1>4. CASE TakeDown
  BY <1>4 DEF TakeDown, KillFunctions, JoinFunction, Umount, AllJoined, UnlinkFunction, AllUnlinked,
     RemoveDir, AllRemoved
<1>5. CASE Children
  <2>1. UNCHANGED <<pc, i, fs, linked, dirs, funcs>>
    BY <1>5 DEF Children, ChildReady, ChildStops, ChildCrashes, ChildExits, kernelVars, listVars
  <2>2. QED  BY <2>1 DEF MadeUpTo, Built, Item, Listed, Elems
<1>6. QED  BY <1>1, <1>2, <1>3, <1>4, <1>5 DEF Next

\* What a list holds once another has been appended.
LEMMA ElemsConcat ==
  ASSUME NEW S, NEW s \in Seq(S), NEW t \in Seq(S)
  PROVE  Elems(s \o t) = Elems(s) \cup Elems(t)
<1>1. /\ DOMAIN s = 1 .. Len(s) /\ DOMAIN t = 1 .. Len(t)
      /\ Len(s) \in Nat /\ Len(t) \in Nat /\ DOMAIN (s \o t) = 1 .. Len(s) + Len(t)
  OBVIOUS
<1>2. Elems(s \o t) \subseteq Elems(s) \cup Elems(t)
  <2> SUFFICES ASSUME NEW k \in 1 .. Len(s) + Len(t)
               PROVE  (s \o t)[k] \in Elems(s) \cup Elems(t)
    BY <1>1 DEF Elems
  <2>1. CASE k <= Len(s)
    BY <2>1, <1>1 DEF Elems
  <2>2. CASE k > Len(s)
    <3>1. k - Len(s) \in 1 .. Len(t) /\ (s \o t)[k] = t[k - Len(s)]
      BY <2>2, <1>1
    <3>2. QED  BY <3>1, <1>1 DEF Elems
  <2>3. QED  BY <2>1, <2>2, <1>1
<1>3. Elems(s) \subseteq Elems(s \o t)
  <2> SUFFICES ASSUME NEW k \in 1 .. Len(s) PROVE s[k] \in Elems(s \o t)
    BY <1>1 DEF Elems
  <2>1. k \in 1 .. Len(s) + Len(t) /\ (s \o t)[k] = s[k]
    BY <1>1
  <2>2. QED  BY <2>1, <1>1 DEF Elems
<1>4. Elems(t) \subseteq Elems(s \o t)
  <2> SUFFICES ASSUME NEW k \in 1 .. Len(t) PROVE t[k] \in Elems(s \o t)
    BY <1>1 DEF Elems
  <2>1. Len(s) + k \in 1 .. Len(s) + Len(t) /\ (s \o t)[Len(s) + k] = t[k]
    BY <1>1
  <2>2. QED  BY <2>1, <1>1 DEF Elems
<1>5. QED  BY <1>2, <1>3, <1>4

\* The lists only grow while the gadget is built.
LEMMA ListedBuild ==
  ASSUME TypeOK, Building, Complete, FunctionsListed, Build
  PROVE  FunctionsListed'
<1> USE DEF Before, BuildPoints, Goto
<1>1. ASSUME pc \in BuildPoints PROVE Item \in Dirs /\ Built(i) = Built(i-1) \cup {Item}
  BY <1>1, ItemInDirs, BuiltOneMore DEF Item
<1>2. CASE Prepare \/ WriteOptions \/ MakeMountpoint \/ MountFunction
  <2>1. UNCHANGED <<fs, dirs, funcs, links, child>>
        /\ (pc' \in Before => pc \in Before) /\ pc' \notin {"wait", "udc"}
    BY <1>2 DEF Prepare, WriteOptions, MakeMountpoint, MountFunction,
       kernelVars, listVars, childVars
  <2>2. Elems(dirs)' = Elems(dirs) /\ Elems(links)' = Elems(links) /\ Listed' = Listed
    BY <2>1 DEF Elems, Listed
  <2>3. QED  BY <2>1, <2>2 DEF FunctionsListed
<1>3. CASE MakeLang
  <2>1. Item \notin Functions
    BY <1>3, LayoutFacts DEF MakeLang
  <2>2. /\ UNCHANGED <<dirs, funcs, links, child>> /\ pc' = "messages" /\ pc = "mkdir"
        /\ fs' = fs \cup {Item}
    BY <1>3 DEF MakeLang, childVars
  <2>3. Elems(dirs)' = Elems(dirs) /\ Elems(links)' = Elems(links) /\ Listed' = Listed
    BY <2>2 DEF Elems, Listed
  <2>4. QED  BY <2>1, <2>2, <2>3 DEF FunctionsListed
<1>4. CASE WriteMessages
  <2>1. Elems(dirs) \subseteq Elems(dirs')
    <3>1. CASE MoreLangs
      BY <1>4, <3>1 DEF WriteMessages
    <3>2. CASE ~MoreLangs
      <4>1. dirs' = dirs \o result
        BY <1>4, <3>2 DEF WriteMessages
      <4>2. QED  BY <4>1, ElemsConcat DEF TypeOK, ListTypes
    <3>3. QED  BY <3>1, <3>2
  <2>2. UNCHANGED <<fs, funcs, links, child>> /\ pc' \in {"mkdir", "wait"} /\ pc = "messages"
    BY <1>4 DEF WriteMessages, Advance, kernelVars, childVars
  <2>3. /\ Elems(dirs)' = Elems(dirs') /\ Elems(links)' = Elems(links) /\ Listed' = Listed
    BY <2>2 DEF Elems, Listed
  <2>4. QED  BY <2>1, <2>2, <2>3 DEF FunctionsListed
<1>5. CASE MakeDir
  <2>1. Item \notin Functions
    BY <1>5, LayoutFacts DEF MakeDir
  <2>2. Elems(dirs') = Elems(dirs) \cup {Item}
    <3>1. Item \in Dirs /\ dirs' = Append(dirs, Item)
      BY <1>1, <1>5 DEF MakeDir
    <3>2. QED  BY <3>1, ElemsAppend DEF TypeOK, ListTypes
  <2>3. /\ UNCHANGED <<funcs, links, child>> /\ pc' \in {"mkdir", "wait"} /\ pc = "mkdir"
        /\ fs' = fs \cup {Item}
    BY <1>5 DEF MakeDir, Advance, childVars
  <2>4. /\ Elems(dirs)' = Elems(dirs') /\ Elems(links)' = Elems(links) /\ Listed' = Listed
    BY <2>3 DEF Elems, Listed
  <2>5. QED  BY <2>1, <2>2, <2>3, <2>4 DEF FunctionsListed
<1>6. CASE MakeFunction
  <2>1. Elems(dirs') = Elems(dirs) \cup {Item} /\ Elems(funcs') = Elems(funcs) \cup {Item}
    BY <1>1, <1>6, ElemsAppend DEF MakeFunction, TypeOK, ListTypes
  <2>2. /\ UNCHANGED <<links, child>> /\ pc' \in {"mkdtemp", "options"} /\ pc = "mkdir"
        /\ fs' = fs \cup {Item} /\ Item \in Functions
    BY <1>6 DEF MakeFunction, childVars
  <2>3. QED  BY <2>1, <2>2 DEF FunctionsListed, Listed, Elems
<1>7. CASE ForkChild
  <2>1. Item \in Listed
    BY <1>1, <1>7, LayoutFacts DEF ForkChild, Building, MadeUpTo, FunctionsListed
  <2>2. UNCHANGED <<fs, funcs, dirs, links>> /\ pc = "fork" /\ pc' = "link"
    BY <1>7 DEF ForkChild, kernelVars, listVars
  <2>3. \A f \in Ffs : child'[f] # child[f] => f = Item
    BY <1>7 DEF ForkChild, TypeOK, ChildTypes
  <2>4. QED  BY <2>1, <2>2, <2>3 DEF FunctionsListed, Listed, Elems
<1>8. CASE LinkFunction
  <2>1. Item \in Listed
    BY <1>1, <1>8 DEF LinkFunction, Building, MadeUpTo, FunctionsListed
  <2>2. Elems(links') = Elems(links) \cup {Item}
    BY <1>8, ElemsAppend DEF LinkFunction, TypeOK, ListTypes, Building
  <2>3. UNCHANGED <<fs, funcs, dirs, child>> /\ pc' \in {"mkdir", "wait"} /\ pc = "link"
    BY <1>8 DEF LinkFunction, Advance, childVars
  <2>4. QED  BY <2>1, <2>2, <2>3 DEF FunctionsListed, Listed, Elems
<1>9. CASE WaitForFunction \/ AllWaited \/ BindUdc
  BY <1>9 DEF WaitForFunction, AllWaited, BindUdc, FunctionsListed, Listed, Elems,
     listVars, childVars
<1>10. QED
  BY <1>2, <1>3, <1>4, <1>5, <1>6, <1>7, <1>8, <1>9 DEF Build

\* The lists hold what exists: every step.
LEMMA ListedStep ==
  ASSUME TypeOK, Building, Complete, FunctionsListed, Next
  PROVE  FunctionsListed'
<1> USE DEF Before, BuildPoints, Goto, FunctionsListed, Unenter
<1>1. CASE Build
  BY <1>1, ListedBuild
<1>2. CASE BuildFails \/ BindFails
  BY <1>2 DEF BuildFails, BindFails, Listed, Elems, listVars, childVars
<1>3. CASE Serve \/ ExitInterrupted \/ Terminate
  BY <1>3 DEF Serve, InstallHandlers, Pause, FunctionExited, LeaveServing, ExitInterrupted,
     Terminate, Ended, Listed, Elems, listVars, childVars
<1>4. CASE TakeDown
  BY <1>4 DEF TakeDown, KillFunctions, JoinFunction, Umount, AllJoined, UnlinkFunction, AllUnlinked,
     RemoveDir, AllRemoved, Listed, Elems, listVars, childVars
<1>5. CASE Children
  <2>1. UNCHANGED <<pc, fs, funcs, links, dirs>>
    BY <1>5 DEF Children, ChildReady, ChildStops, ChildCrashes, ChildExits, kernelVars, listVars
  <2>2. \A f \in Ffs : child'[f] # child[f] => child[f] # "none"
    BY <1>5 DEF Children, ChildReady, ChildStops, ChildCrashes, ChildExits, TypeOK, ChildTypes
  <2>3. QED  BY <2>1, <2>2 DEF Listed, Elems
<1>6. QED  BY <1>1, <1>2, <1>3, <1>4, <1>5 DEF Next

\* Which child processes a step may start: one, at the fork.
LEMMA AliveStep ==
  ASSUME TypeOK, Building, Next
  PROVE  pc # "fork" => Alive' \subseteq Alive
<1>1. CASE Children
  <2>1. \A f \in Ffs : child'[f] = "alive" => child[f] = "alive"
    BY <1>1 DEF Children, ChildReady, ChildStops, ChildCrashes, ChildExits, TypeOK, ChildTypes
  <2>2. QED  BY <2>1 DEF Alive
<1>2. CASE ~Children
  <2>1. pc # "fork" => UNCHANGED child
    BY <1>2 DEF Next, Build, Prepare, MakeLang, WriteMessages, MakeDir, MakeFunction,
       MakeMountpoint, MountFunction, ForkChild, WriteOptions, LinkFunction, WaitForFunction,
       AllWaited, BindUdc, BuildFails, BindFails, Serve, InstallHandlers, Pause,
       FunctionExited, LeaveServing, ExitInterrupted, Terminate, TakeDown, KillFunctions,
       JoinFunction, Umount, AllJoined, UnlinkFunction, AllUnlinked, RemoveDir, AllRemoved,
       Goto, childVars
  <2>2. QED  BY <2>1 DEF Alive
<1>3. QED  BY <1>1, <1>2

\* Who has nobody listed has no process.
LEMMA NobodyAlive == ASSUME FunctionsListed, dirs = <<>>, pc \in Before \cup {"wait", "udc"}
                     PROVE  Alive = {} /\ Listed = {} /\ Elems(links) = {}
  BY DEF FunctionsListed, Alive, Elems

\* Children are joined before their links go: every step.
LEMMA JoinedStep ==
  ASSUME TypeOK, Building, FunctionsListed, ChildrenJoined, Next
  PROVE  ChildrenJoined'
<1> USE DEF Before, BuildPoints, Goto, Unenter
<1>1. CASE Build
  <2>1. \/ pc' \notin {"join", "unlink", "rmdir", "gone"}
        \/ pc = "init" /\ UNCHANGED <<child, dirs>>
    BY <1>1 DEF Build, Prepare, MakeLang, WriteMessages, MakeDir, MakeFunction, Advance,
       MakeMountpoint, MountFunction, ForkChild, WriteOptions, LinkFunction, WaitForFunction,
       AllWaited, BindUdc, childVars, listVars
  <2>2. pc = "init" => Alive = {}
    <3>1. pc = "init" => Built(0) = {} /\ fs = Built(0)
      BY BuiltOneMore DEF Building, MadeUpTo
    <3>2. QED  BY <3>1 DEF FunctionsListed, Alive
  <2>3. UNCHANGED child => Alive' = Alive
    BY DEF Alive
  <2>4. pc = "init" => pc' # "join"
    BY <1>1 DEF Build, Prepare, MakeLang, WriteMessages, MakeDir, MakeFunction,
       MakeMountpoint, MountFunction, ForkChild, WriteOptions, LinkFunction, WaitForFunction,
       AllWaited, BindUdc
  <2>5. QED  BY <2>1, <2>2, <2>3, <2>4 DEF ChildrenJoined
<1>2. CASE BuildFails \/ BindFails
  <2>1. /\ pc \in Before \cup {"udc"} /\ UNCHANGED child
        /\ pc' \in {"gone", "kill"} /\ (pc' = "gone" => dirs = <<>>)
    BY <1>2 DEF BuildFails, BindFails, childVars
  <2>2. QED  BY <2>1, NobodyAlive DEF ChildrenJoined, Alive
<1>3. CASE Serve \/ ExitInterrupted \/ Terminate
  BY <1>3 DEF Serve, InstallHandlers, Pause, FunctionExited, LeaveServing, ExitInterrupted,
     Terminate, Ended, ChildrenJoined, Alive
<1>4. CASE KillFunctions
  BY <1>4, ElemsAppend DEF KillFunctions, ChildrenJoined, listVars, TypeOK, ListTypes
<1>5. CASE JoinFunction
  <2>1. /\ pc = "join" /\ pc' = "join" /\ i' = i + 1 /\ UNCHANGED <<child, funcs>>
        /\ (funcs[i] \in Ffs => child[funcs[i]] \in {"dead", "none"})
    BY <1>5 DEF JoinFunction, Umount, listVars, childVars
  <2>2. funcs[i] \notin Alive
    BY <2>1 DEF Alive
  <2>3. \A k \in DOMAIN funcs : k < i + 1 => k < i \/ k = i
    BY DEF TypeOK, ListTypes
  <2>4. QED  BY <2>1, <2>2, <2>3 DEF ChildrenJoined, Alive
<1>6. CASE AllJoined
  <2>1. \A k \in DOMAIN funcs : k < i
    BY <1>6 DEF AllJoined, TypeOK, ListTypes
  <2>2. Alive = {}
    BY <1>6, <2>1 DEF AllJoined, ChildrenJoined, FunctionsListed, Listed, Elems, Alive
  <2>3. QED  BY <1>6, <2>2 DEF AllJoined, ChildrenJoined, Alive, childVars
<1>7. CASE UnlinkFunction \/ AllUnlinked \/ RemoveDir \/ AllRemoved
  BY <1>7 DEF UnlinkFunction, AllUnlinked, RemoveDir, AllRemoved, ChildrenJoined, Alive, childVars
<1>8. CASE Children
  <2>1. UNCHANGED <<pc, i, funcs>>
    BY <1>8 DEF Children, ChildReady, ChildStops, ChildCrashes, ChildExits, listVars
  <2>2. pc # "fork" => Alive' \subseteq Alive
    BY AliveStep
  <2>3. QED  BY <2>1, <2>2 DEF ChildrenJoined
<1>9. QED
  BY <1>1, <1>2, <1>3, <1>4, <1>5, <1>6, <1>7, <1>8 DEF Next, TakeDown

\* A bound gadget is whole: every step.
LEMMA BoundStep ==
  ASSUME TypeOK, Complete, ChildrenJoined, FunctionsListed, Bound, Next
  PROVE  Bound'
<1> USE DEF Before, BuildPoints, Goto, Unenter, Bound
<1>1. CASE BindUdc
  <2>1. Alive' = Ffs /\ Listed' = Functions /\ pc' = "install"
    BY <1>1 DEF BindUdc, Bindable, Alive, Complete, Listed, Elems, childVars, listVars
  <2>2. QED  BY <2>1, LayoutFacts
<1>2. CASE Build /\ ~BindUdc
  <2>1. ~udc /\ udc' = udc
    BY <1>2 DEF Build, Prepare, MakeLang, WriteMessages, MakeDir, MakeFunction,
       MakeMountpoint, MountFunction, ForkChild, WriteOptions, LinkFunction, WaitForFunction,
       AllWaited, kernelVars
  <2>2. QED  BY <2>1 DEF TypeOK, KernelTypes
<1>3. CASE BuildFails \/ BindFails
  BY <1>3 DEF BuildFails, BindFails, kernelVars
<1>4. CASE Serve \/ ExitInterrupted \/ Terminate \/ KillFunctions \/ JoinFunction
  <2>1. /\ UNCHANGED <<udc, child, funcs>>
        /\ pc' \in {"install", "serve", "paused", "exiting", "kill", "join", "abandoned"}
    BY <1>4 DEF Serve, InstallHandlers, Pause, FunctionExited, LeaveServing, ExitInterrupted,
       Terminate, Ended, KillFunctions, JoinFunction, Umount, kernelVars, childVars, listVars
  <2>2. QED  BY <2>1 DEF Alive, Listed, Elems
<1>5. CASE AllJoined
  <2>1. \A k \in DOMAIN funcs : k < i
    BY <1>5 DEF AllJoined, TypeOK, ListTypes
  <2>2. Alive = {}
    BY <1>5, <2>1 DEF AllJoined, ChildrenJoined, FunctionsListed, Listed, Elems, Alive
  <2>3. ~udc /\ udc' = udc
    BY <1>5, <2>2, HasFfs DEF AllJoined, kernelVars, TypeOK, KernelTypes
  <2>4. QED  BY <2>3
<1>6. CASE UnlinkFunction \/ AllUnlinked \/ RemoveDir \/ AllRemoved
  BY <1>6 DEF UnlinkFunction, AllUnlinked, RemoveDir, AllRemoved, kernelVars
<1>7. CASE Children
  <2>1. PICK f \in Ffs : ChildReady(f) \/ ChildExits(f)
    BY <1>7 DEF Children, ChildStops, ChildCrashes
  <2>2. CASE ChildReady(f)
    BY <2>2 DEF ChildReady, Alive, Listed, Elems, kernelVars, listVars
  <2>3. CASE ChildExits(f)
    BY <2>3 DEF ChildExits
  <2>4. QED  BY <2>1, <2>2, <2>3
<1>8. QED
  BY <1>1, <1>2, <1>3, <1>4, <1>5, <1>6, <1>7 DEF Next, TakeDown

\* LifeInv holds of the empty gadget.
LEMMA LifeInit == Init => LifeInv
<1> SUFFICES ASSUME Init PROVE LifeInv
  OBVIOUS
<1>1. TypeOK
  BY TypeInit
<1>2. Building /\ Complete
  BY BuiltOneMore, LayoutFacts DEF Init, Building, Complete, MadeUpTo
<1>3. FunctionsListed /\ ChildrenJoined /\ Bound
  BY DEF Init, FunctionsListed, Listed, Elems, ChildrenJoined, Bound, Before, BuildPoints
<1>4. QED  BY <1>1, <1>2, <1>3 DEF LifeInv

\* LifeInv is inductive.
LEMMA LifeStep == LifeInv /\ [Next]_vars => LifeInv'
<1> SUFFICES ASSUME LifeInv, [Next]_vars PROVE LifeInv'
  OBVIOUS
<1>1. CASE Next
  BY <1>1, TypeStep, BuildingStep, ListedStep, JoinedStep, BoundStep DEF LifeInv
<1>2. CASE UNCHANGED vars
  <2>1. TypeOK'
    BY <1>2, TypesKept DEF vars, LifeInv, TypeOK
  <2>2. UNCHANGED <<pc, i, fs, linked, udc, dirs, links, funcs, child>>
    BY <1>2 DEF vars, kernelVars, listVars, childVars
  <2>3. Building' /\ Complete'
    BY <2>2 DEF LifeInv, Building, Complete, MadeUpTo, Built, Item, Listed, Elems
  <2>4. FunctionsListed'
    BY <2>2 DEF LifeInv, FunctionsListed, Listed, Elems
  <2>5. ChildrenJoined' /\ Bound'
    BY <2>2 DEF LifeInv, ChildrenJoined, Bound, Alive, Listed, Elems
  <2>6. QED  BY <2>1, <2>3, <2>4, <2>5 DEF LifeInv
<1>3. QED  BY <1>1, <1>2

\* For every layout, set of failing calls and number of SIGTERMs, the gadget is
\* bound only while every function's process lives (Bound), and its links go
\* only when all of them have gone (ChildrenJoined): ref_gadget.py's build and
\* teardown loops over __function_list, __link_list and __dir_list.
THEOREM Lifetime == Spec => []LifeInv
<1>1. QED  BY LifeInit, LifeStep, PTL DEF Spec

-----------------------------------------------------------------------------
(* The gadget implements GadgetLife                                        *)

\* More directories and functions are more parts.
LEMMA PartsGrow ==
  ASSUME NEW D, NEW E, NEW F, NEW G, D \subseteq E, F \subseteq G
  PROVE  Parts(D, F) \subseteq Parts(E, G)
  BY DEF Parts

Over == \/ pc \in Teardown \cup Ended
        \/ pc \in {"install", "serve", "paused", "exiting"} /\ ~udc

\* Building happens before the gadget is shown ...
LEMMA BuildGrows ==
  ASSUME LifeInv, LifeInv', Build, ~BindUdc
  PROVE  /\ fs \subseteq fs' /\ linked \subseteq linked' /\ ~udc /\ ~udc' /\ ~Over
         /\ Over' => UNCHANGED <<fs, linked>>
<1>1. fs \subseteq fs' /\ linked \subseteq linked'
  BY DEF Build, Prepare, MakeLang, WriteMessages, MakeDir, MakeFunction, MakeMountpoint,
     MountFunction, ForkChild, WriteOptions, LinkFunction, WaitForFunction, AllWaited, kernelVars
<1>2. /\ pc \in Before \cup {"wait"}
      /\ pc' \in Before \cup {"wait", "udc"} \/ (pc' = "gone" /\ UNCHANGED <<fs, linked>>)
  BY DEF Build, Prepare, MakeLang, WriteMessages, MakeDir, MakeFunction, MakeMountpoint,
     MountFunction, ForkChild, WriteOptions, LinkFunction, WaitForFunction, AllWaited,
     Goto, Advance, Before, BuildPoints, kernelVars
<1>3. ~udc /\ ~udc'
  BY <1>2 DEF LifeInv, Bound, Before, BuildPoints
<1>4. ~Over /\ (Over' => UNCHANGED <<fs, linked>>)
  BY <1>2 DEF Over, Before, BuildPoints, Teardown, Ended
<1>5. QED  BY <1>1, <1>2, <1>3, <1>4

\* ... and taking apart after it has been hidden.
LEMMA TeardownShrinks ==
  ASSUME LifeInv, UnlinkFunction \/ RemoveDir
  PROVE  /\ fs' \subseteq fs /\ linked' \subseteq linked /\ udc = FALSE /\ udc' = FALSE
         /\ Over /\ Over'
<1>1. fs' \subseteq fs /\ linked' \subseteq linked
  BY DEF UnlinkFunction, RemoveDir
<1>2. udc = FALSE
  BY DEF UnlinkFunction, RemoveDir, LifeInv, Bound, TypeOK, KernelTypes
<1>3. udc' = FALSE
  BY <1>2 DEF UnlinkFunction, RemoveDir
<1>4. Over /\ Over'
  BY DEF UnlinkFunction, RemoveDir, Over, Teardown
<1>5. QED  BY <1>1, <1>2, <1>3, <1>4

\* Everything else leaves configfs alone, and hides but never shows.
LEMMA RestHides ==
  ASSUME LifeInv, Next, ~Build, ~UnlinkFunction, ~RemoveDir
  PROVE  /\ UNCHANGED <<fs, linked>>
         /\ \/ udc' = udc /\ (Over' \/ Over' = Over)
            \/ udc' = FALSE /\ (Over' \/ (~udc /\ ~Over /\ ~Over'))
<1> USE DEF Over, Teardown, Ended, Goto
<1>1. CASE BuildFails \/ BindFails
  BY <1>1 DEF BuildFails, BindFails, BuildPoints, Unenter, kernelVars
<1>2. CASE Serve \/ ExitInterrupted \/ Terminate
  BY <1>2 DEF Serve, InstallHandlers, Pause, FunctionExited, LeaveServing, ExitInterrupted,
     Terminate, kernelVars
<1>3. CASE KillFunctions \/ JoinFunction \/ AllJoined \/ AllUnlinked \/ AllRemoved
  BY <1>3 DEF KillFunctions, JoinFunction, Umount, AllJoined, AllUnlinked, AllRemoved, kernelVars
<1>4. CASE Children
  <2>1. PICK f \in Ffs : ChildReady(f) \/ ChildExits(f)
    BY <1>4 DEF Children, ChildStops, ChildCrashes
  <2>2. CASE ChildReady(f)
    BY <2>2 DEF ChildReady, kernelVars
  <2>3. CASE ChildExits(f)
    <3>1. UNCHANGED <<fs, linked, pc>> /\ udc' = FALSE
      BY <2>3 DEF ChildExits
    <3>2. udc => pc \in {"install", "serve", "paused", "exiting", "kill", "join", "abandoned"}
      BY DEF LifeInv, Bound
    <3>3. QED  BY <3>1, <3>2
  <2>4. QED  BY <2>1, <2>2, <2>3
<1>5. QED  BY <1>1, <1>2, <1>3, <1>4 DEF Next, TakeDown

\* The step of GadgetLife each step of Gadget makes.
LEMMA LifeNextStep ==
  ASSUME LifeInv, LifeInv', [Next]_vars
  PROVE  [Life!LifeNext]_(Life!lifeVars)
<1> USE DEF Life!LifeNext, Life!lifeVars
<1>0. Over \in BOOLEAN /\ udc \in BOOLEAN
      /\ udc' \in BOOLEAN /\ Over' \in BOOLEAN
  BY DEF Over, LifeInv, TypeOK, KernelTypes
<1>1. CASE Build /\ ~BindUdc
  <2>1. Parts(fs, linked) \subseteq Parts(fs', linked')
        /\ Parts(fs', linked') \subseteq Parts(Dirs, Functions)
    BY <1>1, BuildGrows, PartsGrow DEF LifeInv, TypeOK, KernelTypes
  <2>2. CASE Over'
    <3>1. UNCHANGED <<fs, linked, udc>>
      BY <1>0, <1>1, <2>2, BuildGrows
    <3>2. Life!GiveUp
      BY <2>2, <3>1, <1>0 DEF Life!GiveUp, Parts, Over
    <3>3. QED  BY <3>2
  <2>3. CASE ~Over'
    <3>1. ~udc /\ udc' = udc /\ ~Over /\ Over' = Over
      BY <1>0, <1>1, <2>3, BuildGrows
    <3>2. Life!Grow
      BY <2>1, <3>1 DEF Life!Grow, Parts, Over
    <3>3. QED  BY <3>2
  <2>4. QED  BY <2>2, <2>3
<1>2. CASE BindUdc
  <2>1. fs = Dirs /\ linked = Functions /\ UNCHANGED <<fs, linked>> /\ udc' = TRUE
        /\ ~Over /\ ~Over'
    BY <1>2 DEF BindUdc, LifeInv, Complete, Goto, Over, Teardown, Ended
  <2>2. Life!Show
    BY <2>1, <1>0 DEF Life!Show, Parts, Over
  <2>3. QED  BY <2>2
<1>3. CASE UnlinkFunction \/ RemoveDir
  <2>1. Parts(fs', linked') \subseteq Parts(fs, linked) /\ Over' = Over /\ Over
        /\ ~udc /\ udc' = udc
    BY <1>0, <1>3, TeardownShrinks, PartsGrow
  <2>2. Life!Shrink
    BY <2>1 DEF Life!Shrink, Parts, Over
  <2>3. QED  BY <2>2
<1>4. CASE Next /\ ~Build /\ ~UnlinkFunction /\ ~RemoveDir
  <2>1. UNCHANGED <<fs, linked>>
    BY <1>4, RestHides
  <2>2. CASE udc' = udc /\ Over' = Over
    BY <2>1, <2>2 DEF Parts, Over
  <2>3. CASE udc' = udc /\ Over'
    BY <2>1, <2>3 DEF Life!GiveUp, Parts, Over
  <2>4. CASE udc' = FALSE /\ Over'
    BY <2>1, <2>4 DEF Life!Hide, Parts, Over
  <2>5. CASE udc' = FALSE /\ ~Over' /\ ~udc /\ ~Over
    <3>1. udc' = udc /\ Over' = Over
      BY <1>0, <2>5
    <3>2. QED  BY <2>2, <3>1
  <2>6. QED  BY <1>0, <1>4, <2>2, <2>3, <2>4, <2>5, RestHides
<1>5. CASE UNCHANGED vars
  BY <1>5 DEF vars, kernelVars, Parts
<1>6. QED  BY <1>1, <1>2, <1>3, <1>4, <1>5 DEF Build

\* Gadget implements GadgetLife: whatever fails and whenever a signal arrives,
\* the target sees nothing of the gadget until all of its functions are linked
\* and ready, and nothing of its teardown.
THEOREM Implements == Spec => ShownWhole
<1>1. Init => Life!LifeInit
  BY DEF Init, Life!LifeInit, Parts, Teardown, Ended
<1>2. QED
  BY <1>1, LifeNextStep, Lifetime, PTL DEF Spec, ShownWhole, Life!LifeSpec

-----------------------------------------------------------------------------
(* What is left is reported, and nothing is left                           *)

\* Lists that stay hold what they held.
LEMMA ElemsSame == UNCHANGED <<dirs, links, result, funcs>> =>
  /\ Elems(dirs)' = Elems(dirs) /\ Elems(links)' = Elems(links)
  /\ Elems(result)' = Elems(result) /\ Listed' = Listed
  BY DEF Elems, Listed

\* A list that holds nothing is empty.
LEMMA EmptyElems == ASSUME NEW S, NEW s \in Seq(S), Elems(s) = {} PROVE s = <<>>
<1>1. DOMAIN s = {}
  BY DEF Elems
<1>2. DOMAIN s = 1 .. Len(s) /\ Len(s) \in Nat
  OBVIOUS
<1>3. Len(s) = 0
  <2>1. Len(s) > 0 => 1 \in 1 .. Len(s)
    BY <1>2
  <2>2. QED  BY <1>1, <1>2, <2>1
<1>4. QED  BY <1>3

\* What is left has been reported: every step.
LEMMA AccountedStep ==
  ASSUME LifeInv, Accounted, Next
  PROVE  Accounted'
<1> USE DEF Goto
<1>1. TypeOK /\ KernelTypes /\ ListTypes /\ NoteTypes
  BY DEF LifeInv, TypeOK
<1>2. CASE MakeLang
  <2>1. Item \in Dirs
    BY <1>2, ItemInDirs DEF LifeInv, MakeLang, Before, BuildPoints
  <2>2. Elems(result') = Elems(result) \cup {Item}
    BY <1>1, <1>2, <2>1, ElemsAppend DEF MakeLang, ListTypes
  <2>3. /\ UNCHANGED <<dirs, links, linked, reported>> /\ fs' = fs \cup {Item} /\ pc' = "messages"
    BY <1>2 DEF MakeLang, noteVars
  <2>4. Elems(dirs)' = Elems(dirs) /\ Elems(links)' = Elems(links)
    BY <2>3 DEF Elems
  <2>5. QED  BY <2>2, <2>3, <2>4 DEF Accounted
<1>3. CASE WriteMessages
  <2>1. UNCHANGED <<links, fs, linked, reported>> /\ pc' \in {"mkdir", "wait"}
    BY <1>3 DEF WriteMessages, Advance, noteVars, kernelVars
  <2>2. Elems(links)' = Elems(links)
    BY <2>1 DEF Elems
  <2>3. Elems(dirs) \cup Elems(result) \subseteq Elems(dirs') \cup Elems(result')
    <3>1. CASE MoreLangs
      BY <1>3, <3>1 DEF WriteMessages
    <3>2. CASE ~MoreLangs
      <4>1. dirs' = dirs \o result
        BY <1>3, <3>2 DEF WriteMessages
      <4>2. QED  BY <1>1, <4>1, ElemsConcat DEF ListTypes
    <3>3. QED  BY <3>1, <3>2
  <2>4. QED  BY <2>1, <2>2, <2>3 DEF Accounted
<1>4. CASE MakeDir \/ MakeFunction
  <2>1. Item \in Dirs
    BY <1>4, ItemInDirs DEF LifeInv, MakeDir, MakeFunction, Before, BuildPoints
  <2>2. Elems(dirs') = Elems(dirs) \cup {Item}
    <3>1. dirs' = Append(dirs, Item)
      BY <1>4 DEF MakeDir, MakeFunction
    <3>2. QED  BY <1>1, <2>1, <3>1, ElemsAppend DEF ListTypes
  <2>3. /\ UNCHANGED <<result, links, linked, reported>> /\ fs' = fs \cup {Item}
        /\ pc' \notin {"rmdir", "gone"}
    BY <1>4 DEF MakeDir, MakeFunction, Advance, noteVars
  <2>4. Elems(result)' = Elems(result) /\ Elems(links)' = Elems(links)
    BY <2>3 DEF Elems
  <2>5. QED  BY <2>2, <2>3, <2>4 DEF Accounted
<1>5. CASE LinkFunction
  <2>1. Item \in Functions
    BY <1>5 DEF LinkFunction, LifeInv, Building, Before, BuildPoints
  <2>2. Elems(links') = Elems(links) \cup {Item}
    BY <1>1, <1>5, <2>1, ElemsAppend DEF LinkFunction, ListTypes
  <2>3. /\ UNCHANGED <<result, dirs, fs, reported>> /\ linked' = linked \cup {Item}
        /\ pc' \notin {"rmdir", "gone"}
    BY <1>5 DEF LinkFunction, Advance, noteVars
  <2>4. Elems(result)' = Elems(result) /\ Elems(dirs)' = Elems(dirs)
    BY <2>3 DEF Elems
  <2>5. QED  BY <2>2, <2>3, <2>4 DEF Accounted
<1>6. CASE Prepare \/ BuildFails \/ BindFails
  <2>1. /\ UNCHANGED <<fs, linked, dirs, links, result, funcs, reported>>
        /\ pc \in Before \cup {"udc"} /\ pc' # "rmdir"
        /\ (pc' = "gone" => dirs = <<>>)
    BY <1>6 DEF Prepare, BuildFails, BindFails, Unenter, Before, BuildPoints, LifeInv,
       Building, kernelVars, listVars, noteVars
  <2>2. pc' = "gone" => links = <<>>
    BY <1>1, <2>1, NobodyAlive, EmptyElems DEF LifeInv, ListTypes
  <2>3. QED  BY <2>1, <2>2, ElemsSame, NobodyAlive, EmptyElems DEF Accounted, LifeInv, ListTypes
<1>7. CASE MakeMountpoint \/ MountFunction \/ ForkChild \/ WriteOptions \/ WaitForFunction
           \/ AllWaited \/ BindUdc \/ Serve \/ ExitInterrupted \/ Terminate \/ Children
  <2>1. /\ UNCHANGED <<fs, linked, dirs, links, result, funcs, reported>>
        /\ pc' = pc \/ pc' \notin {"rmdir", "gone"}
    BY <1>7 DEF MakeMountpoint, MountFunction, ForkChild, WriteOptions, WaitForFunction,
       AllWaited, BindUdc, Serve, InstallHandlers, Pause, FunctionExited, LeaveServing,
       ExitInterrupted, Terminate, Children, ChildReady, ChildStops, ChildCrashes, ChildExits,
       Ended, kernelVars, listVars, noteVars
  <2>2. QED  BY <2>1, ElemsSame DEF Accounted
<1>8. CASE KillFunctions \/ JoinFunction \/ AllJoined \/ AllUnlinked \/ AllRemoved
  <2>1. /\ UNCHANGED <<fs, linked, dirs, links, result, funcs>> /\ reported \subseteq reported'
        /\ \/ pc' \notin {"rmdir", "gone"}
           \/ pc' = "rmdir" /\ links = <<>>
           \/ pc = "rmdir" /\ pc' = "gone" /\ dirs = <<>>
    BY <1>8 DEF KillFunctions, JoinFunction, Umount, AllJoined, AllUnlinked, AllRemoved,
       kernelVars, listVars, noteVars
  <2>2. QED  BY <2>1, ElemsSame DEF Accounted
<1>9. CASE UnlinkFunction
  <2>1. /\ links \in Seq(Functions) /\ links # <<>> /\ links' = ButLast(links)
        /\ UNCHANGED <<fs, dirs, result, pc>> /\ pc = "unlink" /\ reported \subseteq reported'
    BY <1>1, <1>9 DEF UnlinkFunction, ListTypes, noteVars
  <2>2. \/ linked' = linked \ {LastOf(links)}
        \/ linked' = linked /\ <<LastOf(links), "link">> \in reported'
    BY <1>9 DEF UnlinkFunction
  <2>3. LastOf(links) \in Functions /\ Elems(links) = Elems(ButLast(links)) \cup {LastOf(links)}
    BY <2>1, ElemsButLast
  <2>4. Elems(links') = Elems(ButLast(links))
    BY <2>1
  <2>5. Elems(dirs)' = Elems(dirs) /\ Elems(result)' = Elems(result)
    BY <2>1 DEF Elems
  <2>6. QED  BY <2>1, <2>2, <2>3, <2>4, <2>5 DEF Accounted
<1>10. CASE RemoveDir
  <2>1. /\ dirs \in Seq(Dirs) /\ dirs # <<>> /\ dirs' = ButLast(dirs)
        /\ UNCHANGED <<linked, links, result, pc>> /\ pc = "rmdir" /\ reported \subseteq reported'
    BY <1>1, <1>10 DEF RemoveDir, ListTypes
  <2>2. \/ fs' = fs \ {LastOf(dirs)}
        \/ fs' = fs /\ <<LastOf(dirs), "dir">> \in reported'
    BY <1>10 DEF RemoveDir
  <2>3. LastOf(dirs) \in Dirs /\ Elems(dirs) = Elems(ButLast(dirs)) \cup {LastOf(dirs)}
    BY <2>1, ElemsButLast
  <2>4. Elems(dirs') = Elems(ButLast(dirs))
    BY <2>1
  <2>5. Elems(links)' = Elems(links) /\ Elems(result)' = Elems(result)
    BY <2>1 DEF Elems
  <2>6. QED  BY <2>1, <2>2, <2>3, <2>4, <2>5 DEF Accounted
<1>11. QED
  BY <1>2, <1>3, <1>4, <1>5, <1>6, <1>7, <1>8, <1>9, <1>10 DEF Next, Build, TakeDown

\* Whatever fails, what is left of the gadget has been printed, or is a language
\* directory whose messages could not be written (__unenter's messages).
THEOREM NothingForgotten == Spec => []LeftIsReported
<1>1. Init => Accounted
  BY DEF Init, Accounted
<1>2. LifeInv /\ LifeInv' /\ Accounted /\ [Next]_vars => Accounted'
  <2> SUFFICES ASSUME LifeInv, Accounted, UNCHANGED vars PROVE Accounted'
    BY AccountedStep
  <2>1. UNCHANGED <<pc, fs, linked, dirs, links, result, funcs, reported>>
    BY DEF vars, kernelVars, listVars, noteVars
  <2>2. QED  BY <2>1, ElemsSame DEF Accounted
<1>3. Accounted => LeftIsReported
  BY DEF Accounted, LeftIsReported, Parts, Elems
<1>4. QED  BY <1>1, <1>2, <1>3, Lifetime, PTL DEF Spec

\* The lists are in the order of the layout: the steps of __enter.
LEMMA OrderBuild ==
  ASSUME LifeInv, InOrder, Build
  PROVE  InOrder'
<1> USE DEF Goto
<1>1. /\ ListTypes /\ dirs \in Seq(Dirs) /\ result \in Seq(Dirs) /\ links \in Seq(Functions)
      /\ i \in Nat \ {0}
  BY DEF LifeInv, TypeOK, ListTypes
<1>2. ASSUME pc \in BuildPoints
      PROVE  /\ i \in 1 .. Len(Layout) /\ Item \in Dirs /\ Layout[i] = Item
             /\ Len(dirs) + Len(result) = MadeUpTo
             /\ MadeUpTo = IF pc = "mkdir" THEN i - 1 ELSE i
             /\ Elems(links) = linked
  BY <1>2, ItemInDirs DEF LifeInv, Item, InOrder, Before, BuildPoints, MadeUpTo
<1>3. ASSUME Advance, pc \in BuildPoints
      PROVE  \/ pc' = "mkdir" /\ i' = i + 1 /\ MadeUpTo' = i /\ i' \in 1 .. Len(Layout)
             \/ pc' = "wait" /\ i = Len(Layout)
  <2>1. CASE i < Len(Layout)
    <3>1. pc' = "mkdir" /\ i' = i + 1
      BY <1>3, <2>1 DEF Advance
    <3>2. MadeUpTo' = i /\ i' \in 1 .. Len(Layout)
      BY <1>1, <2>1, <3>1, LayoutFacts DEF MadeUpTo
    <3>3. QED  BY <3>1, <3>2
  <2>2. CASE ~(i < Len(Layout))
    <3>1. pc' = "wait"
      BY <1>3, <2>2 DEF Advance
    <3>2. i = Len(Layout)
      BY <1>2, <1>3, <2>2, LayoutFacts
    <3>3. QED  BY <3>1, <3>2
  <2>3. QED  BY <2>1, <2>2
<1>4. CASE MakeLang
  <2>1. /\ pc = "mkdir" /\ pc' = "messages" /\ UNCHANGED <<i, dirs, links, linked>>
        /\ result' = Append(result, Item) /\ Kind[Item] = "lang"
    BY <1>4 DEF MakeLang
  <2>2. Len(result') = Len(result) + 1 /\ MadeUpTo' = i /\ Item' = Item
        /\ Elems(links)' = Elems(links)
    BY <1>1, <1>2, <2>1 DEF MadeUpTo, Item, BuildPoints, Elems
  <2>3. Len(dirs) + Len(result) = i - 1 /\ Len(dirs) \in Nat /\ Len(result) \in Nat
    BY <1>1, <1>2, <2>1 DEF BuildPoints
  <2>4. \A k \in DOMAIN result' : result'[k] = Layout[Len(dirs) + k]
    <3>1. DOMAIN result' = 1 .. Len(result) + 1
      BY <1>1, <1>2, <2>1 DEF BuildPoints
    <3>2. \A k \in 1 .. Len(result) : result'[k] = Layout[Len(dirs) + k]
      BY <1>1, <2>1 DEF InOrder, Before, BuildPoints
    <3>3. result'[Len(result) + 1] = Item /\ Len(dirs) + (Len(result) + 1) = i
      BY <1>1, <2>1, <2>3
    <3>4. QED  BY <1>2, <2>1, <2>3, <3>1, <3>2, <3>3 DEF BuildPoints
  <2>5. Len(dirs') + Len(result') = MadeUpTo'
    BY <1>1, <2>1, <2>2, <2>3
  <2>6. QED  BY <1>2, <2>1, <2>2, <2>4, <2>5 DEF InOrder, BuildPoints
<1>5. CASE WriteMessages
  <2>1. pc = "messages" /\ Advance /\ UNCHANGED <<links, linked>> /\ pc \in BuildPoints
    BY <1>5 DEF WriteMessages, BuildPoints, kernelVars
  <2>2. Elems(links)' = Elems(links)
    BY <2>1 DEF Elems
  <2>3. Len(dirs) + Len(result) = i /\ Len(dirs) \in Nat /\ Len(result) \in Nat
    BY <1>1, <1>2, <2>1
  <2>4. \A k \in 1 .. Len(result) : result[k] = Layout[Len(dirs) + k]
    BY <1>1, <2>1 DEF InOrder, Before, BuildPoints
  <2>5. CASE MoreLangs
    <3>1. UNCHANGED <<dirs, result>> /\ i < Len(Layout) /\ Kind[Layout[i+1]] = "lang"
      BY <1>5, <2>5 DEF WriteMessages, MoreLangs
    <3>2. pc' = "mkdir" /\ i' = i + 1 /\ MadeUpTo' = i
      BY <1>3, <2>1, <3>1, LayoutFacts
    <3>3. Kind[Item]' = "lang"
      BY <3>1, <3>2 DEF Item
    <3>4. QED  BY <1>2, <2>1, <2>2, <2>3, <3>1, <3>2, <3>3 DEF InOrder, Before
  <2>6. CASE ~MoreLangs
    <3>1. dirs' = dirs \o result /\ result' = <<>>
      BY <1>5, <2>6 DEF WriteMessages
    <3>2. Len(dirs') = i /\ DOMAIN dirs' = 1 .. i
      BY <1>1, <2>3, <3>1
    <3>3. \A k \in 1 .. i : dirs'[k] = Layout[k]
      <4> SUFFICES ASSUME NEW k \in 1 .. i PROVE dirs'[k] = Layout[k]
        OBVIOUS
      <4>1. CASE k <= Len(dirs)
        <5>1. dirs'[k] = dirs[k] /\ k \in DOMAIN dirs
          BY <1>1, <3>1, <4>1
        <5>2. QED  BY <5>1 DEF InOrder
      <4>2. CASE k > Len(dirs)
        <5>1. k - Len(dirs) \in 1 .. Len(result) /\ Len(dirs) + (k - Len(dirs)) = k
          BY <1>1, <2>3, <4>2
        <5>2. dirs'[k] = result[k - Len(dirs)]
          BY <1>1, <2>3, <3>1, <4>2
        <5>3. QED  BY <2>4, <5>1, <5>2
      <4>3. QED  BY <1>1, <2>3, <4>1, <4>2
    <3>4. Len(dirs') <= Len(Layout) /\ Len(result') = 0 /\ DOMAIN result' = {}
          /\ (pc' = "mkdir" => Len(dirs') + Len(result') = MadeUpTo')
      BY <1>1, <1>2, <1>3, <2>1, <3>1, <3>2, LayoutFacts
    <3>5. pc' \in {"mkdir", "wait"}
      BY <1>3, <2>1
    <3>6. QED
      BY <1>2, <2>1, <2>2, <3>1, <3>2, <3>3, <3>4, <3>5 DEF InOrder, Before, BuildPoints
  <2>7. QED  BY <2>5, <2>6
<1>6. CASE MakeDir \/ MakeFunction
  <2>1. /\ pc = "mkdir" /\ UNCHANGED <<links, linked, result>> /\ pc \in BuildPoints
        /\ dirs' = Append(dirs, Item) /\ Kind[Item] # "lang"
    BY <1>6, LayoutFacts DEF MakeDir, MakeFunction, BuildPoints
  <2>2. result = <<>> /\ Len(dirs) = i - 1 /\ Elems(links)' = Elems(links)
    BY <1>1, <1>2, <2>1 DEF InOrder, Before, Elems
  <2>3. Len(dirs') = i /\ DOMAIN dirs' = 1 .. i /\ \A k \in 1 .. i : dirs'[k] = Layout[k]
    <3>1. /\ Len(dirs') = i /\ DOMAIN dirs' = 1 .. i /\ dirs'[i] = Layout[i]
          /\ \A k \in 1 .. i-1 : dirs'[k] = dirs[k]
      BY <1>1, <1>2, <2>1, <2>2
    <3>2. \A k \in 1 .. i-1 : dirs[k] = Layout[k]
      BY <1>1, <2>2 DEF InOrder
    <3>3. \A k \in 1 .. i : k \in 1 .. i-1 \/ k = i
      BY <1>1
    <3>4. QED  BY <3>1, <3>2, <3>3
  <2>4. \/ pc' = "wait"
        \/ pc' \in Before /\ MadeUpTo' = i
    BY <1>1, <1>3, <1>6, <2>1 DEF MakeDir, MakeFunction, MadeUpTo, Before, BuildPoints
  <2>5. Len(dirs') + Len(result') = i /\ Len(dirs') <= Len(Layout) /\ DOMAIN result' = {}
    BY <1>1, <1>2, <2>1, <2>2, <2>3, LayoutFacts
  <2>6. QED
    BY <1>2, <2>1, <2>2, <2>3, <2>4, <2>5 DEF InOrder, Before, BuildPoints
<1>7. CASE LinkFunction
  <2>1. /\ pc = "link" /\ UNCHANGED <<dirs, result>> /\ pc \in BuildPoints /\ Advance
        /\ links' = Append(links, Item) /\ linked' = linked \cup {Item}
        /\ Item \in Functions /\ Kind[Item] # "lang"
    BY <1>7, LayoutFacts DEF LinkFunction, LifeInv, Building, Before, BuildPoints
  <2>2. result = <<>> /\ Len(dirs) = i
    BY <1>1, <1>2, <2>1 DEF InOrder, Before
  <2>3. Elems(links') = linked'
    BY <1>1, <1>2, <2>1, ElemsAppend
  <2>4. Item \notin Elems(links)
    <3>1. \A k \in 1 .. i-1 : Layout[k] # Layout[i]
      BY <1>1, <1>2, <2>1, GadgetAssumption
    <3>2. Item \notin Built(i-1)
      BY <1>2, <2>1, <3>1 DEF Built
    <3>3. QED  BY <1>2, <2>1, <3>2 DEF LifeInv, Building, Before
  <2>5. \A j, k \in DOMAIN links' : links'[j] = links'[k] => j = k
    <3>1. /\ DOMAIN links' = 1 .. Len(links) + 1 /\ links'[Len(links) + 1] = Item
          /\ DOMAIN links = 1 .. Len(links) /\ \A k \in DOMAIN links : links'[k] = links[k]
      BY <1>1, <1>2, <2>1
    <3>2. \A k \in DOMAIN links : links[k] # Item
      BY <2>4 DEF Elems
    <3>3. Len(links) \in Nat /\ \A k \in 1 .. Len(links) + 1 : k \in 1 .. Len(links) \/ k = Len(links) + 1
      BY <1>1
    <3>4. QED  BY <3>1, <3>2, <3>3 DEF InOrder
  <2>6. pc' = "wait" \/ (pc' = "mkdir" /\ MadeUpTo' = i)
    BY <1>3, <2>1
  <2>7. QED
    BY <1>1, <2>1, <2>2, <2>3, <2>5, <2>6 DEF InOrder, Before, BuildPoints
<1>8. CASE Prepare \/ MakeMountpoint \/ MountFunction \/ ForkChild \/ WriteOptions
  <2>1. /\ UNCHANGED <<i, dirs, links, result, linked, funcs>> /\ pc \in Before
        /\ (pc' \in Before => MadeUpTo' = MadeUpTo)
    BY <1>8 DEF Prepare, MakeMountpoint, MountFunction, ForkChild, WriteOptions, MadeUpTo,
       Before, BuildPoints, kernelVars, listVars
  <2>2. Elems(links)' = Elems(links) /\ Item' = Item
    BY <2>1 DEF Elems, Item
  <2>3. QED  BY <2>1, <2>2 DEF InOrder
<1>9. CASE WaitForFunction \/ AllWaited \/ BindUdc
  BY <1>9 DEF WaitForFunction, AllWaited, BindUdc, InOrder, Before, BuildPoints, listVars
<1>10. QED
  BY <1>4, <1>5, <1>6, <1>7, <1>8, <1>9 DEF Build

\* The lists are in the order of the layout: every step.
LEMMA OrderStep ==
  ASSUME LifeInv, InOrder, Next
  PROVE  InOrder'
<1> USE DEF Goto
<1>1. dirs \in Seq(Dirs) /\ links \in Seq(Functions)
  BY DEF LifeInv, TypeOK, ListTypes
<1>2. CASE Build
  BY <1>2, OrderBuild
<1>3. CASE UnlinkFunction
  <2>1. links # <<>> /\ links' = ButLast(links) /\ UNCHANGED dirs /\ pc' = "unlink"
    BY <1>3 DEF UnlinkFunction
  <2>2. /\ DOMAIN links' = 1 .. Len(links) - 1 /\ \A k \in DOMAIN links' : links'[k] = links[k]
        /\ DOMAIN links' \subseteq DOMAIN links
    BY <1>1, <2>1, ElemsButLast
  <2>3. QED  BY <2>1, <2>2 DEF InOrder, Before, BuildPoints
<1>4. CASE RemoveDir
  <2>1. dirs # <<>> /\ dirs' = ButLast(dirs) /\ UNCHANGED links /\ pc' = "rmdir"
    BY <1>4 DEF RemoveDir
  <2>2. /\ \A k \in DOMAIN dirs' : dirs'[k] = dirs[k]
        /\ DOMAIN dirs' \subseteq DOMAIN dirs /\ Len(dirs') = Len(dirs) - 1
    BY <1>1, <2>1, ElemsButLast
  <2>3. Len(dirs') <= Len(Layout)
    BY <1>1, <2>2, LayoutFacts DEF InOrder
  <2>4. QED  BY <2>1, <2>2, <2>3 DEF InOrder, Before, BuildPoints
<1>5. CASE Children
  <2>1. UNCHANGED <<pc, i, dirs, links, result, funcs, linked>>
    BY <1>5 DEF Children, ChildReady, ChildStops, ChildCrashes, ChildExits, kernelVars, listVars
  <2>2. QED  BY <2>1 DEF InOrder, MadeUpTo, Item, Elems
<1>6. CASE ~Build /\ ~UnlinkFunction /\ ~RemoveDir /\ ~Children
  <2>1. UNCHANGED <<dirs, links>> /\ pc' \notin Before
    BY <1>6 DEF Next, BuildFails, BindFails, Serve, InstallHandlers, Pause, FunctionExited,
       LeaveServing, ExitInterrupted, Terminate, TakeDown, KillFunctions, JoinFunction, Umount,
       AllJoined, AllUnlinked, AllRemoved, Unenter, Before, BuildPoints, listVars
  <2>2. QED  BY <2>1 DEF InOrder
<1>7. QED  BY <1>2, <1>3, <1>4, <1>5, <1>6

\* The last of 1 .. n, and the ones before it.
LEMMA Below == \A n \in Nat \ {0} : n \in 1 .. n /\ \A k \in 1 .. n-1 : k \in 1 .. n /\ k # n
  OBVIOUS

\* No directory in configfs was made in the newest one.
LEMMA NewestIsFree ==
  ASSUME LifeInv, InOrder, dirs # <<>>, fs = Elems(dirs), linked = {}
  PROVE  ~Blocked(LastOf(dirs)) /\ fs \ {LastOf(dirs)} = Elems(ButLast(dirs))
<1>1. /\ dirs \in Seq(Dirs) /\ Len(dirs) \in Nat \ {0} /\ DOMAIN dirs = 1 .. Len(dirs)
      /\ Len(dirs) <= Len(Layout) /\ \A k \in 1 .. Len(dirs) : dirs[k] = Layout[k]
  BY DEF LifeInv, TypeOK, ListTypes, InOrder
<1>2. \A j, k \in 1 .. Len(dirs) : dirs[j] = dirs[k] => j = k
  <2>1. \A k \in 1 .. Len(dirs) : k \in DOMAIN Layout
    BY <1>1, LayoutFacts
  <2>2. QED  BY <1>1, <2>1, GadgetAssumption
<1>3. ASSUME NEW e \in fs \ {LastOf(dirs)} PROVE Parent[e] # LastOf(dirs)
  <2>1. PICK j \in 1 .. Len(dirs) : e = dirs[j]
    BY <1>1, <1>3 DEF Elems
  <2>2. j < Len(dirs) /\ j \in DOMAIN Layout /\ e = Layout[j]
    <3>1. j # Len(dirs)
      BY <1>3, <2>1 DEF LastOf
    <3>2. j \in 1 .. Len(Layout)
      BY <1>1, LayoutFacts
    <3>3. DOMAIN Layout = 1 .. Len(Layout)
      BY LayoutFacts
    <3>4. \A n \in Nat \ {0} : \A k \in 1 .. n : k # n => k < n
      OBVIOUS
    <3>5. j < Len(dirs)
      BY <1>1, <3>1, <3>4
    <3>6. e = Layout[j]
      BY <1>1, <2>1
    <3>7. QED  BY <3>2, <3>3, <3>5, <3>6
  <2>3. PICK m \in 1 .. j : Parent[e] = Layout[m]
    <3>1. CASE j = 1
      BY <2>2, <3>1, GadgetAssumption
    <3>2. CASE j > 1
      <4>1. PICK m \in 1 .. j-1 : Parent[Layout[j]] = Layout[m]
        BY <2>2, <3>2, GadgetAssumption
      <4>2. QED  BY <2>1, <2>2, <4>1
    <3>3. QED  BY <2>1, <3>1, <3>2
  <2>4. m \in 1 .. Len(dirs) /\ m < Len(dirs) /\ Parent[e] = dirs[m]
    BY <1>1, <2>2, <2>3
  <2>5. QED  BY <1>1, <1>2, <2>4 DEF LastOf
<1>4. ~Blocked(LastOf(dirs))
  BY <1>3 DEF Blocked
<1>5. LastOf(dirs) \notin Elems(ButLast(dirs))
  <2>1. /\ DOMAIN ButLast(dirs) = 1 .. Len(dirs) - 1
        /\ \A k \in 1 .. Len(dirs) - 1 : ButLast(dirs)[k] = dirs[k]
    BY <1>1, ElemsButLast
  <2>2. /\ \A k \in 1 .. Len(dirs) - 1 : k \in 1 .. Len(dirs) /\ k # Len(dirs)
        /\ Len(dirs) \in 1 .. Len(dirs)
    BY <1>1, Below
  <2>3. \A k \in 1 .. Len(dirs) - 1 : dirs[k] # dirs[Len(dirs)]
    BY <1>2, <2>2
  <2>4. QED  BY <2>1, <2>3 DEF Elems, LastOf
<1>6. QED  BY <1>1, <1>4, <1>5, ElemsButLast

\* What exists is what is listed, unless a call failed: every step.
LEMMA FsListedStep ==
  ASSUME LifeInv, LifeInv', Accounted, InOrder, InOrder', FsListed, Next
  PROVE  FsListed'
<1> USE DEF Goto
<1>1. /\ dirs \in Seq(Dirs) /\ result \in Seq(Dirs) /\ links \in Seq(Functions)
      /\ i \in Nat \ {0} /\ ListTypes /\ TypeOK
  BY DEF LifeInv, TypeOK, ListTypes
<1>2. pc \in BuildPoints => Item \in Dirs /\ i \in 1 .. Len(Layout)
  BY ItemInDirs DEF LifeInv, Before
<1>3. CASE MakeLang
  <2>1. /\ UNCHANGED <<dirs, links, linked, spoilt>> /\ fs' = fs \cup {Item}
        /\ result' = Append(result, Item) /\ pc = "mkdir" /\ pc' = "messages"
    BY <1>3 DEF MakeLang, noteVars
  <2>2. Elems(result') = Elems(result) \cup {Item}
    BY <1>1, <1>2, <2>1, ElemsAppend DEF BuildPoints
  <2>3. Elems(dirs)' = Elems(dirs) /\ Elems(links)' = Elems(links)
    BY <2>1 DEF Elems
  <2>4. QED  BY <2>1, <2>2, <2>3 DEF FsListed, Before, BuildPoints
<1>4. CASE WriteMessages
  <2>1. UNCHANGED <<fs, links, linked, spoilt>> /\ pc = "messages" /\ Advance
    BY <1>4 DEF WriteMessages, kernelVars, noteVars
  <2>2. Elems(links)' = Elems(links)
    BY <2>1 DEF Elems
  <2>3. Elems(dirs') \cup Elems(result') = Elems(dirs) \cup Elems(result)
    <3>1. CASE MoreLangs
      BY <1>4, <3>1 DEF WriteMessages
    <3>2. CASE ~MoreLangs
      <4>1. dirs' = dirs \o result /\ result' = <<>>
        BY <1>4, <3>2 DEF WriteMessages
      <4>2. Elems(result') = {}
        BY <4>1 DEF Elems
      <4>3. QED  BY <1>1, <4>1, <4>2, ElemsConcat
    <3>3. QED  BY <3>1, <3>2
  <2>4. pc' = "mkdir" \/ (pc' = "wait" /\ result' = <<>>)
    <3>1. CASE i < Len(Layout)
      BY <2>1, <3>1 DEF Advance
    <3>2. CASE ~(i < Len(Layout))
      BY <1>4, <2>1, <3>2 DEF Advance, WriteMessages, MoreLangs
    <3>3. QED  BY <3>1, <3>2
  <2>5. QED  BY <2>1, <2>2, <2>3, <2>4 DEF FsListed, Before, BuildPoints
<1>5. CASE MakeDir \/ MakeFunction
  <2>1. /\ UNCHANGED <<result, links, linked, spoilt>> /\ fs' = fs \cup {Item}
        /\ dirs' = Append(dirs, Item) /\ pc = "mkdir" /\ pc' \in Before \cup {"wait"}
        /\ Kind[Item] # "lang"
    BY <1>5, LayoutFacts DEF MakeDir, MakeFunction, Advance, Before, BuildPoints, noteVars
  <2>2. result = <<>>
    BY <2>1 DEF InOrder, Before, BuildPoints
  <2>3. Elems(dirs') = Elems(dirs) \cup {Item}
    BY <1>1, <1>2, <2>1, ElemsAppend DEF BuildPoints
  <2>4. Elems(result)' = Elems(result) /\ Elems(links)' = Elems(links)
    BY <2>1 DEF Elems
  <2>5. pc # "abandoned"
    BY <2>1
  <2>6. QED  BY <2>1, <2>2, <2>3, <2>4, <2>5 DEF FsListed
<1>6. CASE LinkFunction
  <2>1. /\ UNCHANGED <<result, dirs, fs, spoilt>> /\ linked' = linked \cup {Item}
        /\ links' = Append(links, Item) /\ pc = "link" /\ pc' \in {"mkdir", "wait"}
        /\ Item \in Functions /\ Kind[Item] # "lang"
    BY <1>6, LayoutFacts DEF LinkFunction, Advance, LifeInv, Building, Before, BuildPoints, noteVars
  <2>2. result = <<>>
    BY <2>1 DEF InOrder, Before, BuildPoints
  <2>3. Elems(links') = Elems(links) \cup {Item}
    BY <1>1, <2>1, ElemsAppend
  <2>4. Elems(result)' = Elems(result) /\ Elems(dirs)' = Elems(dirs)
    BY <2>1 DEF Elems
  <2>5. QED  BY <2>1, <2>2, <2>3, <2>4 DEF FsListed, Before, BuildPoints
<1>7. CASE Prepare \/ BuildFails \/ BindFails
  <2>1. /\ UNCHANGED <<fs, linked, dirs, links, result, funcs>>
        /\ pc' # "abandoned" /\ (spoilt => spoilt') /\ pc # "abandoned"
        /\ \/ pc = "init"
           \/ pc \in Before /\ (spoilt' \/ result = <<>>)
           \/ pc \notin Before
    <3>1. CASE Prepare
      BY <3>1 DEF Prepare, kernelVars, listVars, noteVars
    <3>2. CASE BuildFails
      BY <3>2 DEF BuildFails, Unenter, Before, BuildPoints, kernelVars, listVars
    <3>3. CASE BindFails
      BY <3>3 DEF BindFails, Unenter, Before, BuildPoints, kernelVars, listVars, noteVars
    <3>4. QED  BY <1>7, <3>1, <3>2, <3>3
  <2>2. pc = "init" => result = <<>>
    <3>1. pc = "init" => Len(dirs) + Len(result) = 0 /\ Len(dirs) \in Nat /\ Len(result) \in Nat
      BY <1>1 DEF InOrder, LifeInv, Building, MadeUpTo, Before
    <3>2. QED  BY <1>1, <3>1
  <2>3. QED  BY <2>1, <2>2, ElemsSame DEF FsListed
<1>8. CASE MakeMountpoint \/ MountFunction \/ ForkChild \/ WriteOptions \/ WaitForFunction
           \/ AllWaited \/ BindUdc \/ Serve \/ ExitInterrupted \/ Terminate \/ Children
  <2>1. /\ UNCHANGED <<fs, linked, dirs, links, result, funcs, spoilt>>
        /\ \/ pc' \in {"abandoned", pc}
           \/ pc \in Before /\ pc' \in Before /\ pc # "abandoned"
           \/ pc \notin Before \cup {"abandoned"}
    BY <1>8 DEF MakeMountpoint, MountFunction, ForkChild, WriteOptions, WaitForFunction,
       AllWaited, BindUdc, Serve, InstallHandlers, Pause, FunctionExited, LeaveServing,
       ExitInterrupted, Terminate, Children, ChildReady, ChildStops, ChildCrashes, ChildExits,
       Ended, Before, BuildPoints, kernelVars, listVars, noteVars
  <2>2. QED  BY <2>1, ElemsSame DEF FsListed
<1>9. CASE KillFunctions \/ JoinFunction \/ AllJoined \/ AllUnlinked \/ AllRemoved
  <2>1. /\ UNCHANGED <<fs, linked, dirs, links, result, funcs>> /\ (spoilt => spoilt')
        /\ pc \in Teardown
    BY <1>9 DEF KillFunctions, JoinFunction, Umount, AllJoined, AllUnlinked, AllRemoved, Teardown,
       kernelVars, listVars, noteVars
  <2>2. pc \notin Before \cup {"abandoned"}
    BY <2>1 DEF Teardown, Before, BuildPoints
  <2>3. QED  BY <2>1, <2>2, ElemsSame DEF FsListed
<1>10. CASE UnlinkFunction
  <2>1. /\ links # <<>> /\ links' = ButLast(links) /\ UNCHANGED <<fs, dirs, result>>
        /\ pc = "unlink" /\ pc' = "unlink" /\ (spoilt => spoilt')
        /\ (~spoilt' => linked' = linked \ {LastOf(links)})
    BY <1>10 DEF UnlinkFunction, noteVars
  <2>2. LastOf(links) \notin Elems(ButLast(links))
    <3>1. DOMAIN links = 1 .. Len(links) /\ Len(links) \in Nat \ {0}
      BY <1>1, <2>1
    <3>2. /\ DOMAIN ButLast(links) = 1 .. Len(links) - 1
          /\ \A k \in 1 .. Len(links) - 1 : ButLast(links)[k] = links[k]
      <4>1. /\ ButLast(links) \in Seq(Functions) /\ Len(ButLast(links)) = Len(links) - 1
            /\ \A k \in 1 .. Len(links) - 1 : ButLast(links)[k] = links[k]
        BY <1>1, <2>1, ElemsButLast
      <4>2. QED  BY <4>1
    <3>3. /\ \A k \in 1 .. Len(links) - 1 : k \in 1 .. Len(links) /\ k # Len(links)
          /\ Len(links) \in 1 .. Len(links)
      BY <3>1, Below
    <3>4. \A k \in 1 .. Len(links) - 1 : links[k] # links[Len(links)]
      BY <3>1, <3>3 DEF InOrder
    <3>5. QED  BY <3>2, <3>4 DEF Elems, LastOf
  <2>3. Elems(links) = Elems(ButLast(links)) \cup {LastOf(links)}
    BY <1>1, <2>1, ElemsButLast
  <2>4. Elems(links') = Elems(links) \ {LastOf(links)}
    BY <2>1, <2>2, <2>3
  <2>5. Elems(dirs)' = Elems(dirs) /\ Elems(result)' = Elems(result)
    BY <2>1 DEF Elems
  <2>6. QED  BY <2>1, <2>4, <2>5 DEF FsListed, Before, BuildPoints
<1>11. CASE RemoveDir
  <2>1. /\ dirs # <<>> /\ dirs' = ButLast(dirs) /\ UNCHANGED <<linked, links, result, spoilt>>
        /\ pc = "rmdir" /\ pc' = "rmdir"
        /\ (~Blocked(LastOf(dirs)) => fs' = fs \ {LastOf(dirs)})
    BY <1>11 DEF RemoveDir
  <2>2. links = <<>> /\ Elems(<<>>) = {}
    BY <2>1 DEF Accounted, Elems
  <2>3. CASE ~spoilt
    <3>1. result = <<>> /\ fs = Elems(dirs) /\ linked = {}
      BY <2>1, <2>2, <2>3 DEF FsListed, Before, BuildPoints
    <3>2. fs' = Elems(dirs')
      BY <2>1, <3>1, NewestIsFree
    <3>3. result' = <<>> /\ links' = <<>> /\ linked' = {}
      BY <2>1, <2>2, <3>1
    <3>4. QED  BY <2>1, <2>2, <3>2, <3>3 DEF FsListed
  <2>4. CASE spoilt
    BY <2>1, <2>4 DEF FsListed
  <2>5. QED  BY <2>3, <2>4
<1>12. QED
  BY <1>3, <1>4, <1>5, <1>6, <1>7, <1>8, <1>9, <1>10, <1>11 DEF Next, Build, TakeDown

\* Every mountpoint is listed with its function: every step.
LEMMA MountsStep ==
  ASSUME LifeInv, LifeInv', MountsListed, Next
  PROVE  MountsListed'
<1> USE DEF Goto
<1>1. /\ TypeOK /\ tmp \in [Ffs -> {"none", "dir", "mounted"}] /\ i \in Nat \ {0}
      /\ child \in [Ffs -> {"none", "alive", "dead"}] /\ funcs \in Seq(Functions)
      /\ DOMAIN funcs = 1 .. Len(funcs)
  BY DEF LifeInv, TypeOK, KernelTypes, ChildTypes, ListTypes
<1>2. UNCHANGED funcs => Listed' = Listed
  BY DEF Listed, Elems
<1>3. CASE Prepare \/ MakeLang \/ WriteMessages \/ MakeDir \/ MakeFunction \/ LinkFunction
          \/ WriteOptions \/ WaitForFunction \/ AllWaited \/ BindUdc
  <2>1. /\ UNCHANGED <<tmp, child, spoilt>>
        /\ pc \notin {"mount", "fork", "abandoned"}
        /\ pc' \notin {"join", "unlink", "rmdir"}
        /\ pc' # "gone" \/ (pc = "init" /\ UNCHANGED funcs)
    BY <1>3 DEF Prepare, MakeLang, WriteMessages, MakeDir, MakeFunction, LinkFunction,
       WriteOptions, WaitForFunction, AllWaited, BindUdc, Advance, kernelVars, childVars,
       listVars, noteVars
  <2>2. Listed \subseteq Listed'
    <3>1. CASE MakeFunction
      <4>1. Item \in Functions /\ funcs' = Append(funcs, Item)
        BY <3>1 DEF MakeFunction
      <4>2. Elems(funcs') = Elems(funcs) \cup {Item}
        BY <1>1, <4>1, ElemsAppend
      <4>3. QED  BY <4>2 DEF Listed
    <3>2. CASE ~MakeFunction
      <4>1. UNCHANGED funcs
        BY <1>3, <3>2 DEF Prepare, MakeLang, WriteMessages, MakeDir, LinkFunction,
           WriteOptions, WaitForFunction, AllWaited, BindUdc, listVars
      <4>2. QED  BY <1>2, <4>1
    <3>3. QED  BY <3>1, <3>2
  <2>3. pc = "init" => Listed = {}
    BY NobodyAlive DEF LifeInv, Building, Before
  <2>4. QED  BY <2>1, <2>2, <2>3 DEF MountsListed
<1>4. CASE MakeMountpoint
  <2>1. /\ UNCHANGED <<i, child, spoilt, funcs>> /\ pc = "mkdtemp" /\ pc' = "mount"
        /\ tmp' = [tmp EXCEPT ![Item] = "dir"]
    BY <1>4 DEF MakeMountpoint, childVars, listVars, noteVars
  <2>2. Item \in Listed /\ Item' = Item
    <3>1. i \in 1 .. Len(Layout) /\ Item = Layout[i] /\ Item \in Functions
      BY <2>1, ItemInDirs, LayoutFacts DEF LifeInv, Building, Before, BuildPoints, Item
    <3>2. Item \in fs
      BY <2>1, <3>1 DEF LifeInv, Building, Before, BuildPoints, MadeUpTo, Built
    <3>3. QED  BY <2>1, <3>1, <3>2 DEF LifeInv, FunctionsListed, Before, BuildPoints, Item
  <2>3. \A f \in Ffs : tmp'[f] # "none" => f = Item \/ tmp[f] # "none"
    BY <1>1, <2>1
  <2>4. QED  BY <1>2, <2>1, <2>2, <2>3 DEF MountsListed
<1>5. CASE MountFunction
  <2>1. /\ UNCHANGED <<i, child, spoilt, funcs>> /\ pc = "mount" /\ pc' = "fork"
        /\ tmp' = [tmp EXCEPT ![Item] = "mounted"]
    BY <1>5 DEF MountFunction, childVars, listVars, noteVars
  <2>2. Item \in Listed /\ Item' = Item
    <3>1. i \in 1 .. Len(Layout) /\ Item = Layout[i] /\ Item \in Functions
      BY <2>1, ItemInDirs, LayoutFacts DEF LifeInv, Building, Before, BuildPoints, Item
    <3>2. Item \in fs
      BY <2>1, <3>1 DEF LifeInv, Building, Before, BuildPoints, MadeUpTo, Built
    <3>3. QED  BY <2>1, <3>1, <3>2 DEF LifeInv, FunctionsListed, Before, BuildPoints, Item
  <2>3. \A f \in Ffs : tmp'[f] # "none" => f = Item \/ tmp[f] # "none"
    BY <1>1, <2>1
  <2>4. QED  BY <1>2, <2>1, <2>2, <2>3 DEF MountsListed
<1>6. CASE ForkChild
  <2>1. /\ UNCHANGED <<tmp, spoilt, funcs>> /\ pc = "fork" /\ pc' = "link"
        /\ child' = [child EXCEPT ![Item] = "alive"]
    BY <1>6 DEF ForkChild, kernelVars, listVars, noteVars
  <2>2. \A f \in Ffs : child'[f] = "none" => f # Item /\ child[f] = "none"
    BY <1>1, <2>1
  <2>3. QED  BY <1>2, <2>1, <2>2 DEF MountsListed
<1>7. CASE BuildFails \/ BindFails
  <2>1. /\ UNCHANGED <<tmp, child, funcs>> /\ (spoilt => spoilt')
        /\ (pc \in {"mount", "fork"} => spoilt') /\ pc # "abandoned"
        /\ pc' \in {"kill", "gone"} /\ (pc' = "gone" => dirs = <<>>)
        /\ pc \in Before \cup {"udc"}
    <3>1. CASE BuildFails
      BY <3>1 DEF BuildFails, Unenter, Before, BuildPoints, kernelVars, childVars, listVars
    <3>2. CASE BindFails
      BY <3>2 DEF BindFails, Unenter, kernelVars, childVars, listVars, noteVars
    <3>3. QED  BY <1>7, <3>1, <3>2
  <2>2. pc' = "gone" => Listed = {}
    BY <2>1, NobodyAlive DEF LifeInv
  <2>3. QED  BY <1>2, <2>1, <2>2 DEF MountsListed
<1>8. CASE Serve \/ ExitInterrupted \/ Terminate
  <2>1. /\ UNCHANGED <<tmp, child, funcs, spoilt>>
        /\ \/ pc' = "abandoned"
           \/ /\ pc \in {"install", "serve", "paused", "exiting"}
              /\ pc' \in {"serve", "paused", "exiting", "kill"}
    BY <1>8 DEF Serve, InstallHandlers, Pause, FunctionExited, LeaveServing, ExitInterrupted,
       Terminate, kernelVars, childVars, listVars, noteVars
  <2>2. QED  BY <1>2, <2>1 DEF MountsListed
<1>9. CASE KillFunctions
  <2>1. /\ UNCHANGED <<tmp, child, funcs, spoilt>> /\ pc = "kill" /\ pc' = "join" /\ i' = 1
    BY <1>9 DEF KillFunctions, kernelVars, listVars
  <2>2. \A f \in Listed : \E k \in DOMAIN funcs : k >= 1 /\ funcs[k] = f
    BY <1>1 DEF Listed, Elems
  <2>3. QED  BY <1>2, <2>1, <2>2 DEF MountsListed
<1>10. CASE JoinFunction
  <2>1. /\ UNCHANGED <<child, funcs>> /\ pc = "join" /\ pc' = "join" /\ i' = i + 1
        /\ (spoilt => spoilt')
    BY <1>10 DEF JoinFunction, Umount, childVars, listVars, noteVars
  <2>2. \A f \in Ffs : ~spoilt' /\ tmp'[f] # "none" => f # funcs[i] /\ tmp[f] # "none"
    <3>1. CASE tmp' = [f \in Ffs |-> IF f = funcs[i] THEN "none" ELSE tmp[f]]
      BY <3>1
    <3>2. CASE UNCHANGED tmp /\ child[funcs[i]] = "none"
      BY <2>1, <3>2 DEF MountsListed
    <3>3. CASE spoilt'
      BY <3>3
    <3>4. QED  BY <1>10, <3>1, <3>2, <3>3 DEF JoinFunction, Umount
  <2>3. \A k \in DOMAIN funcs : k >= i => k = i \/ k >= i + 1
    BY <1>1
  <2>4. ASSUME NEW f \in Ffs, ~spoilt', tmp'[f] # "none"
        PROVE  f \in Listed /\ child[f] # "none" /\ \E k \in DOMAIN funcs : k >= i + 1 /\ funcs[k] = f
    <3>1. ~spoilt /\ tmp[f] # "none" /\ f # funcs[i]
      BY <2>1, <2>2, <2>4
    <3>2. f \in Listed /\ child[f] # "none" /\ \E k \in DOMAIN funcs : k >= i /\ funcs[k] = f
      BY <2>1, <3>1 DEF MountsListed
    <3>3. QED  BY <2>3, <3>1, <3>2
  <2>5. QED  BY <1>2, <2>1, <2>4 DEF MountsListed
<1>11. CASE AllJoined
  <2>1. /\ UNCHANGED <<tmp, child, funcs, spoilt>> /\ pc = "join" /\ i > Len(funcs)
    BY <1>11 DEF AllJoined, kernelVars, childVars, listVars, noteVars
  <2>2. ~\E k \in DOMAIN funcs : k >= i
    BY <1>1, <2>1
  <2>3. ~spoilt => \A f \in Ffs : tmp[f] = "none"
    BY <2>1, <2>2 DEF MountsListed
  <2>4. QED  BY <2>1, <2>3 DEF MountsListed
<1>12. CASE UnlinkFunction \/ AllUnlinked \/ RemoveDir \/ AllRemoved
  <2>1. /\ UNCHANGED tmp /\ pc \in {"unlink", "rmdir"} /\ (spoilt => spoilt')
    BY <1>12 DEF UnlinkFunction, AllUnlinked, RemoveDir, AllRemoved, kernelVars, noteVars
  <2>2. QED  BY <2>1 DEF MountsListed
<1>13. CASE Children
  <2>1. UNCHANGED <<pc, i, tmp, funcs, spoilt>>
    BY <1>13 DEF Children, ChildReady, ChildStops, ChildCrashes, ChildExits, kernelVars,
       listVars, noteVars
  <2>2. \A f \in Ffs : child'[f] = "none" => child[f] = "none"
    BY <1>1, <1>13 DEF Children, ChildReady, ChildStops, ChildCrashes, ChildExits
  <2>3. Item' = Item
    BY <2>1 DEF Item
  <2>4. QED  BY <1>2, <2>1, <2>2, <2>3 DEF MountsListed
<1>14. QED
  BY <1>3, <1>4, <1>5, <1>6, <1>7, <1>8, <1>9, <1>10, <1>11, <1>12, <1>13
  DEF Next, Build, TakeDown

\* UndoInv holds of the empty gadget.
LEMMA UndoInit == Init => UndoInv
<1> SUFFICES ASSUME Init PROVE Accounted /\ InOrder /\ FsListed /\ MountsListed
  BY LifeInit DEF UndoInv
<1>1. Accounted
  BY DEF Init, Accounted
<1>2. InOrder
  BY LayoutFacts DEF Init, InOrder, MadeUpTo, Elems
<1>3. FsListed /\ MountsListed
  BY DEF Init, FsListed, MountsListed, Elems, Before
<1>4. QED  BY <1>1, <1>2, <1>3

\* UndoInv is inductive.
LEMMA UndoStep == UndoInv /\ [Next]_vars => UndoInv'
<1> SUFFICES ASSUME UndoInv, [Next]_vars PROVE UndoInv'
  OBVIOUS
<1>1. LifeInv /\ LifeInv' /\ Accounted /\ InOrder /\ FsListed /\ MountsListed
  BY LifeStep DEF UndoInv
<1>2. CASE Next
  <2>1. Accounted' /\ InOrder'
    BY <1>1, <1>2, AccountedStep, OrderStep
  <2>2. FsListed' /\ MountsListed'
    BY <1>1, <1>2, <2>1, FsListedStep, MountsStep
  <2>3. QED  BY <1>1, <2>1, <2>2 DEF UndoInv
<1>3. CASE UNCHANGED vars
  <2>1. UNCHANGED <<pc, i, fs, linked, tmp, dirs, links, result, funcs, child, reported, spoilt>>
    BY <1>3 DEF vars, kernelVars, listVars, childVars, noteVars
  <2>2. Accounted'
    BY <1>1, <2>1, ElemsSame DEF Accounted
  <2>3. InOrder'
    BY <1>1, <2>1, ElemsSame DEF InOrder, MadeUpTo, Item
  <2>4. FsListed' /\ MountsListed'
    BY <1>1, <2>1, ElemsSame DEF FsListed, MountsListed, Item
  <2>5. QED  BY <1>1, <2>2, <2>3, <2>4 DEF UndoInv
<1>4. QED  BY <1>2, <1>3

\* GadgetSubprocessManager and Gadget: at every point of the gadget's life its
\* lists, what has been printed and what exists agree, so that __unenter can undo
\* every partial build.
THEOREM Undoable == Spec => []UndoInv
  BY UndoInit, UndoStep, PTL DEF Spec

\* Wherever the build of any gadget fails, and however its life ends in order,
\* __unenter leaves nothing of it behind: its loops meet no directory that is
\* not empty, and no function without its process.
THEOREM Undone == Spec => []NothingLeft
<1>1. UndoInv => NothingLeft
  <2> SUFFICES ASSUME UndoInv, pc = "gone", ~spoilt
               PROVE  fs = {} /\ linked = {} /\ Alive = {} /\ \A f \in Ffs : tmp[f] = "none"
    BY DEF NothingLeft
  <2>1. dirs = <<>> /\ links = <<>> /\ result = <<>>
    BY DEF UndoInv, Accounted, FsListed, Before, BuildPoints
  <2>2. fs = {} /\ linked = {}
    BY <2>1 DEF UndoInv, FsListed, Elems
  <2>3. Alive = {} /\ \A f \in Ffs : tmp[f] = "none"
    BY DEF UndoInv, LifeInv, ChildrenJoined, MountsListed
  <2>4. QED  BY <2>2, <2>3
<1>2. QED  BY <1>1, Undoable, PTL
=============================================================================
