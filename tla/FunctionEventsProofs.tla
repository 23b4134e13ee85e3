------------------------ MODULE FunctionEventsProofs ------------------------
(***************************************************************************)
(* What TLAPS proves of FunctionEvents, for any endpoints, numbers of AIO  *)
(* blocks and requests, with and without the quirk.                        *)
(***************************************************************************)
EXTENDS FunctionEvents, TLAPS

\* Nothing has happened before the process has started.
Fresh ==
    pc = "new" =>
        /\ ~up /\ change = "none" /\ todo = "none" /\ ~enabled /\ queued = NoRequest
        /\ poll = "none" /\ sending = 0 /\ sent = 0 /\ fetched = {} /\ out = [b \in Blocks |-> "released"]

\* Where a change or a request may be in the handlers' hands, and that endpoint
\* 0 is busy exactly with the request they hold.
Held ==
    /\ Serving /\ pc # "change" => todo = "none"
    /\ pc \in PCs \ {"change", "setup", "answer", "raise", "closing", "dead"} =>
          current = NoRequest /\ state = "idle"
    /\ pc \in {"change", "setup", "answer"} => (current # NoRequest <=> state # "idle")
    /\ pc = "answer" => current # NoRequest /\ ~NoSuchCall(current)
    /\ Serving /\ ~quirk => poll = "none" /\ pc # "repoll"
    /\ state = "pending" => queued = NoRequest /\ current # NoRequest

\* The inductive invariant.
Inv ==
    /\ TypeOK /\ Fresh /\ Held
    /\ NeverDeaf /\ KnowsWhetherEnabled /\ StaysAlive /\ HaltIsTold

\* Arithmetic of the free places of the IN context.
LEMMA Places ==
  ASSUME NEW a \in Nat, NEW b \in Nat, NEW m \in Nat
  PROVE  /\ a + b <= m => a + b + 0 < m + 1
         /\ a + b + 1 < m + 1 => a + 1 + b <= m
         /\ a + b + 0 < m + 0 => a + 1 + b <= m
  OBVIOUS

\* What is halted or cleared is an endpoint of the function.
LEMMA HaltsEndpoint ==
  ASSUME NEW r \in Request, HaltFeature(r), ~NoSuchCall(r)
  PROVE  r.index \in Endpoints
  BY DEF HaltFeature, NoSuchCall, ToEndpoint


\* What EndpointPart does to the halts.
LEMMA EndpointPartHalts ==
  ASSUME EndpointPart, current \in Request
  PROVE  \/ UNCHANGED <<halted, flags>>
         \/ \E e \in Endpoints : Halt(e) \/ ClearHalt(e)
<1>1. CASE NoSuchCall(current) \/ ~HaltFeature(current)
  BY <1>1 DEF EndpointPart
<1>2. CASE ~NoSuchCall(current) /\ HaltFeature(current)
  <2>1. current.index \in Endpoints
    BY <1>2, HaltsEndpoint
  <2>2. Halt(current.index) \/ ClearHalt(current.index)
    BY <1>2 DEF EndpointPart
  <2>3. QED  BY <2>1, <2>2
<1>3. QED  BY <1>1, <1>2

\* What the host and functionfs hold keeps its type.
LEMMA HostTypeStep == TypeOK /\ [Next]_vars => HostTypes'
<1> SUFFICES ASSUME TypeOK, [Next]_vars PROVE HostTypes'
  OBVIOUS
<1> USE FunctionAssumption DEF TypeOK, HostTypes, AioTypes, ProcTypes, PCs, Handling, Changes, Endpoints, hostVars, aioVars, procVars, noteVars
<1>1. CASE HostEnables
  BY <1>1 DEF HostEnables, NewEvent, ShutDown
<1>2. CASE HostDisables
  BY <1>2 DEF HostDisables, NewEvent, ShutDown
<1>3. CASE PollFires
  BY <1>3 DEF PollFires
<1>4. CASE SendCompletes
  BY <1>4 DEF SendCompletes
<1>5. CASE WakeUp
  BY <1>5 DEF WakeUp
<1>6. CASE Receive
  BY <1>6 DEF Receive
<1>7. CASE EnterFails
  BY <1>7 DEF EnterFails, Dies
<1>8. CASE Interrupted
  BY <1>8 DEF Interrupted, Dies
<1>9. CASE Enter
  BY <1>9 DEF Enter
<1>10. CASE GetIn
  BY <1>10 DEF GetIn
<1>11. CASE GetOut
  BY <1>11 DEF GetOut
<1>12. CASE OutDone
  BY <1>12 DEF OutDone
<1>13. CASE Repoll
  BY <1>13 DEF Repoll, Dies, Room
<1>14. CASE Send
  BY <1>14 DEF Send, Room
<1>15. CASE ReadEvents
  BY <1>15 DEF ReadEvents
<1>16. CASE OnEnable
  BY <1>16 DEF OnEnable
<1>17. CASE OnDisable
  BY <1>17 DEF OnDisable
<1>18. CASE NoChange
  BY <1>18 DEF NoChange
<1>19. CASE EventsDone
  BY <1>19 DEF EventsDone, AfterEvents
<1>20. CASE EndpointPart
  <2>1. current \in Request
    BY <1>20 DEF EndpointPart
  <2>2. \/ UNCHANGED <<halted, flags>>
        \/ \E e \in Endpoints : Halt(e) \/ ClearHalt(e)
    BY <1>20, <2>1, EndpointPartHalts DEF Endpoints
  <2>3. QED  BY <1>20, <2>2 DEF EndpointPart, Halt, ClearHalt
<1>21. CASE Answer
  BY <1>21 DEF Answer, AfterEvents
<1>22. CASE HaltAndRaise
  BY <1>22 DEF HaltAndRaise
<1>23. CASE Exit
  BY <1>23 DEF Exit
<1>24. CASE \E r \in Request : HostAsks(r)
  BY <1>24 DEF HostAsks, NewEvent
<1>25. CASE \E b \in Blocks : OutCompletes(b)
  BY <1>25 DEF OutCompletes
<1>26. CASE \E b \in Blocks : OutHandled(b)
  BY <1>26 DEF OutHandled
<1>27. CASE UNCHANGED vars
  BY <1>27 DEF vars
<1>28. QED
  BY <1>1, <1>2, <1>3, <1>4, <1>5, <1>6, <1>7, <1>8, <1>9, <1>10, <1>11, <1>12, <1>13, <1>14, <1>15, <1>16, <1>17, <1>18, <1>19, <1>20, <1>21, <1>22, <1>23, <1>24, <1>25, <1>26, <1>27 DEF Next, Host, Kernel, Daemon

\* The blocks and transfers keep their types: Send submits only into a free place.
LEMMA AioTypeStep == TypeOK /\ Fresh /\ Held /\ NeverDeaf /\ [Next]_vars => AioTypes'
<1> SUFFICES ASSUME TypeOK /\ Fresh /\ Held /\ NeverDeaf, [Next]_vars PROVE AioTypes'
  OBVIOUS
<1> USE FunctionAssumption DEF TypeOK, HostTypes, AioTypes, ProcTypes, hostVars, aioVars, procVars, noteVars
<1>1. CASE HostEnables
  BY <1>1 DEF HostEnables, NewEvent, ShutDown
<1>2. CASE HostDisables
  BY <1>2 DEF HostDisables, NewEvent, ShutDown
<1>3. CASE PollFires
  BY <1>3 DEF PollFires
<1>4. CASE SendCompletes
  BY <1>4 DEF SendCompletes
<1>5. CASE WakeUp
  BY <1>5 DEF WakeUp
<1>6. CASE Receive
  BY <1>6 DEF Receive
<1>7. CASE EnterFails
  BY <1>7 DEF EnterFails, Dies
<1>8. CASE Interrupted
  BY <1>8 DEF Interrupted, Dies
<1>9. CASE Enter
  BY <1>9 DEF Enter
<1>10. CASE GetIn
  BY <1>10 DEF GetIn
<1>11. CASE GetOut
  BY <1>11 DEF GetOut
<1>12. CASE OutDone
  BY <1>12 DEF OutDone
<1>13. CASE Repoll
  BY <1>13 DEF Repoll, Dies, Room
<1>14. CASE Send
  <2>1. sending \in Nat /\ sent \in Nat /\ InMax \in Nat
    BY FunctionAssumption
  <2>2. Room => sending + 1 + sent <= InMax
    <3>1. CASE quirk
      <4>1. poll \in {"flying", "done"}
        BY <1>14, <3>1 DEF Send, NeverDeaf, Serving, Handling
      <4>2. Room => sending + sent + 1 < InMax + 1
        BY <3>1, <4>1 DEF Room
      <4>3. QED  BY <2>1, <4>2, Places
    <3>2. CASE ~quirk
      <4>1. poll = "none"
        BY <1>14, <3>2 DEF Send, Held, Serving
      <4>2. Room => sending + sent + 0 < InMax + 0
        BY <3>2, <4>1 DEF Room
      <4>3. QED  BY <2>1, <4>2, Places
    <3>3. QED  BY <3>1, <3>2
  <2>3. /\ sending' \in Nat /\ sent' \in Nat /\ sending' + sent' <= InMax
    <3>1. sending + sent <= InMax /\ sent' = sent
      BY <1>14 DEF Send
    <3>2. CASE Room
      BY <1>14, <2>1, <2>2, <3>1, <3>2 DEF Send
    <3>3. CASE ~Room
      BY <1>14, <2>1, <3>1, <3>3 DEF Send
    <3>4. QED  BY <3>2, <3>3
  <2>4. QED  BY <1>14, <2>3 DEF Send
<1>15. CASE ReadEvents
  BY <1>15 DEF ReadEvents
<1>16. CASE OnEnable
  BY <1>16 DEF OnEnable
<1>17. CASE OnDisable
  BY <1>17 DEF OnDisable
<1>18. CASE NoChange
  BY <1>18 DEF NoChange
<1>19. CASE EventsDone
  BY <1>19 DEF EventsDone, AfterEvents
<1>20. CASE EndpointPart
  BY <1>20 DEF EndpointPart, Halt, ClearHalt
<1>21. CASE Answer
  BY <1>21 DEF Answer, AfterEvents
<1>22. CASE HaltAndRaise
  BY <1>22 DEF HaltAndRaise
<1>23. CASE Exit
  BY <1>23 DEF Exit
<1>24. CASE \E r \in Request : HostAsks(r)
  BY <1>24 DEF HostAsks, NewEvent
<1>25. CASE \E b \in Blocks : OutCompletes(b)
  BY <1>25 DEF OutCompletes
<1>26. CASE \E b \in Blocks : OutHandled(b)
  BY <1>26 DEF OutHandled
<1>27. CASE UNCHANGED vars
  BY <1>27 DEF vars
<1>28. QED
  BY <1>1, <1>2, <1>3, <1>4, <1>5, <1>6, <1>7, <1>8, <1>9, <1>10, <1>11, <1>12, <1>13, <1>14, <1>15, <1>16, <1>17, <1>18, <1>19, <1>20, <1>21, <1>22, <1>23, <1>24, <1>25, <1>26, <1>27 DEF Next, Host, Kernel, Daemon

\* The variables of the process keep their types.
LEMMA ProcTypeStep == TypeOK /\ [Next]_vars => ProcTypes'
<1> SUFFICES ASSUME TypeOK, [Next]_vars PROVE ProcTypes'
  OBVIOUS
<1> USE FunctionAssumption DEF TypeOK, HostTypes, AioTypes, ProcTypes, PCs, Handling, Changes, Endpoints, hostVars, aioVars, procVars, noteVars
<1>1. CASE HostEnables
  BY <1>1 DEF HostEnables, NewEvent, ShutDown
<1>2. CASE HostDisables
  BY <1>2 DEF HostDisables, NewEvent, ShutDown
<1>3. CASE PollFires
  BY <1>3 DEF PollFires
<1>4. CASE SendCompletes
  BY <1>4 DEF SendCompletes
<1>5. CASE WakeUp
  BY <1>5 DEF WakeUp
<1>6. CASE Receive
  BY <1>6 DEF Receive
<1>7. CASE EnterFails
  BY <1>7 DEF EnterFails, Dies
<1>8. CASE Interrupted
  BY <1>8 DEF Interrupted, Dies
<1>9. CASE Enter
  BY <1>9 DEF Enter
<1>10. CASE GetIn
  BY <1>10 DEF GetIn
<1>11. CASE GetOut
  BY <1>11 DEF GetOut
<1>12. CASE OutDone
  BY <1>12 DEF OutDone
<1>13. CASE Repoll
  BY <1>13 DEF Repoll, Dies, Room
<1>14. CASE Send
  BY <1>14 DEF Send, Room
<1>15. CASE ReadEvents
  BY <1>15 DEF ReadEvents
<1>16. CASE OnEnable
  BY <1>16 DEF OnEnable
<1>17. CASE OnDisable
  BY <1>17 DEF OnDisable
<1>18. CASE NoChange
  BY <1>18 DEF NoChange
<1>19. CASE EventsDone
  BY <1>19 DEF EventsDone, AfterEvents
<1>20. CASE EndpointPart
  <2>1. current \in Request
    BY <1>20 DEF EndpointPart
  <2>2. \/ UNCHANGED <<halted, flags>>
        \/ \E e \in Endpoints : Halt(e) \/ ClearHalt(e)
    BY <1>20, <2>1, EndpointPartHalts DEF Endpoints
  <2>3. QED  BY <1>20, <2>2 DEF EndpointPart, Halt, ClearHalt
<1>21. CASE Answer
  BY <1>21 DEF Answer, AfterEvents
<1>22. CASE HaltAndRaise
  BY <1>22 DEF HaltAndRaise
<1>23. CASE Exit
  BY <1>23 DEF Exit
<1>24. CASE \E r \in Request : HostAsks(r)
  BY <1>24 DEF HostAsks, NewEvent
<1>25. CASE \E b \in Blocks : OutCompletes(b)
  BY <1>25 DEF OutCompletes
<1>26. CASE \E b \in Blocks : OutHandled(b)
  BY <1>26 DEF OutHandled
<1>27. CASE UNCHANGED vars
  BY <1>27 DEF vars
<1>28. QED
  BY <1>1, <1>2, <1>3, <1>4, <1>5, <1>6, <1>7, <1>8, <1>9, <1>10, <1>11, <1>12, <1>13, <1>14, <1>15, <1>16, <1>17, <1>18, <1>19, <1>20, <1>21, <1>22, <1>23, <1>24, <1>25, <1>26, <1>27 DEF Next, Host, Kernel, Daemon

\* The history keeps its type.
LEMMA NoteTypeStep == TypeOK /\ [Next]_vars => NoteTypes'
<1> SUFFICES ASSUME TypeOK, [Next]_vars PROVE NoteTypes'
  OBVIOUS
<1> USE DEF TypeOK, NoteTypes, Causes, hostVars, aioVars, procVars, noteVars
<1>1. CASE HostEnables
  BY <1>1 DEF HostEnables, NewEvent, ShutDown
<1>2. CASE HostDisables
  BY <1>2 DEF HostDisables, NewEvent, ShutDown
<1>3. CASE PollFires
  BY <1>3 DEF PollFires
<1>4. CASE SendCompletes
  BY <1>4 DEF SendCompletes
<1>5. CASE WakeUp
  BY <1>5 DEF WakeUp
<1>6. CASE Receive
  BY <1>6 DEF Receive
<1>7. CASE EnterFails
  BY <1>7 DEF EnterFails, Dies
<1>8. CASE Interrupted
  BY <1>8 DEF Interrupted, Dies
<1>9. CASE Enter
  BY <1>9 DEF Enter
<1>10. CASE GetIn
  BY <1>10 DEF GetIn
<1>11. CASE GetOut
  BY <1>11 DEF GetOut
<1>12. CASE OutDone
  BY <1>12 DEF OutDone
<1>13. CASE Repoll
  BY <1>13 DEF Repoll, Dies, Room
<1>14. CASE Send
  BY <1>14 DEF Send, Room
<1>15. CASE ReadEvents
  BY <1>15 DEF ReadEvents
<1>16. CASE OnEnable
  BY <1>16 DEF OnEnable
<1>17. CASE OnDisable
  BY <1>17 DEF OnDisable
<1>18. CASE NoChange
  BY <1>18 DEF NoChange
<1>19. CASE EventsDone
  BY <1>19 DEF EventsDone, AfterEvents
<1>20. CASE EndpointPart
  BY <1>20 DEF EndpointPart, Halt, ClearHalt
<1>21. CASE Answer
  BY <1>21 DEF Answer, AfterEvents
<1>22. CASE HaltAndRaise
  BY <1>22 DEF HaltAndRaise
<1>23. CASE Exit
  BY <1>23 DEF Exit
<1>24. CASE \E r \in Request : HostAsks(r)
  BY <1>24 DEF HostAsks, NewEvent
<1>25. CASE \E b \in Blocks : OutCompletes(b)
  BY <1>25 DEF OutCompletes
<1>26. CASE \E b \in Blocks : OutHandled(b)
  BY <1>26 DEF OutHandled
<1>27. CASE UNCHANGED vars
  BY <1>27 DEF vars
<1>28. QED
  BY <1>1, <1>2, <1>3, <1>4, <1>5, <1>6, <1>7, <1>8, <1>9, <1>10, <1>11, <1>12, <1>13, <1>14, <1>15, <1>16, <1>17, <1>18, <1>19, <1>20, <1>21, <1>22, <1>23, <1>24, <1>25, <1>26, <1>27 DEF Next, Host, Kernel, Daemon

\* A halted endpoint stays a flagged one.
LEMMA HaltStep == HaltIsTold /\ [Next]_vars => HaltIsTold'
<1> SUFFICES ASSUME HaltIsTold, [Next]_vars PROVE HaltIsTold'
  OBVIOUS
<1> USE DEF HaltIsTold, hostVars, aioVars, procVars, noteVars
<1>1. CASE HostEnables
  BY <1>1 DEF HostEnables, NewEvent, ShutDown
<1>2. CASE HostDisables
  BY <1>2 DEF HostDisables, NewEvent, ShutDown
<1>3. CASE PollFires
  BY <1>3 DEF PollFires
<1>4. CASE SendCompletes
  BY <1>4 DEF SendCompletes
<1>5. CASE WakeUp
  BY <1>5 DEF WakeUp
<1>6. CASE Receive
  BY <1>6 DEF Receive
<1>7. CASE EnterFails
  BY <1>7 DEF EnterFails, Dies
<1>8. CASE Interrupted
  BY <1>8 DEF Interrupted, Dies
<1>9. CASE Enter
  BY <1>9 DEF Enter
<1>10. CASE GetIn
  BY <1>10 DEF GetIn
<1>11. CASE GetOut
  BY <1>11 DEF GetOut
<1>12. CASE OutDone
  BY <1>12 DEF OutDone
<1>13. CASE Repoll
  BY <1>13 DEF Repoll, Dies, Room
<1>14. CASE Send
  BY <1>14 DEF Send, Room
<1>15. CASE ReadEvents
  BY <1>15 DEF ReadEvents
<1>16. CASE OnEnable
  BY <1>16 DEF OnEnable
<1>17. CASE OnDisable
  BY <1>17 DEF OnDisable
<1>18. CASE NoChange
  BY <1>18 DEF NoChange
<1>19. CASE EventsDone
  BY <1>19 DEF EventsDone, AfterEvents
<1>20. CASE EndpointPart
  BY <1>20 DEF EndpointPart, Halt, ClearHalt
<1>21. CASE Answer
  BY <1>21 DEF Answer, AfterEvents
<1>22. CASE HaltAndRaise
  BY <1>22 DEF HaltAndRaise
<1>23. CASE Exit
  BY <1>23 DEF Exit
<1>24. CASE \E r \in Request : HostAsks(r)
  BY <1>24 DEF HostAsks, NewEvent
<1>25. CASE \E b \in Blocks : OutCompletes(b)
  BY <1>25 DEF OutCompletes
<1>26. CASE \E b \in Blocks : OutHandled(b)
  BY <1>26 DEF OutHandled
<1>27. CASE UNCHANGED vars
  BY <1>27 DEF vars
<1>28. QED
  BY <1>1, <1>2, <1>3, <1>4, <1>5, <1>6, <1>7, <1>8, <1>9, <1>10, <1>11, <1>12, <1>13, <1>14, <1>15, <1>16, <1>17, <1>18, <1>19, <1>20, <1>21, <1>22, <1>23, <1>24, <1>25, <1>26, <1>27 DEF Next, Host, Kernel, Daemon

\* Nothing happens before the process has started.
LEMMA FreshStep == TypeOK /\ Fresh /\ [Next]_vars => Fresh'
<1> SUFFICES ASSUME TypeOK /\ Fresh, [Next]_vars PROVE Fresh'
  OBVIOUS
<1> USE DEF Fresh, Serving, TypeOK, ProcTypes, hostVars, aioVars, procVars, noteVars
<1>1. CASE HostEnables
  BY <1>1 DEF HostEnables, NewEvent, ShutDown
<1>2. CASE HostDisables
  BY <1>2 DEF HostDisables, NewEvent, ShutDown
<1>3. CASE PollFires
  BY <1>3 DEF PollFires
<1>4. CASE SendCompletes
  BY <1>4 DEF SendCompletes
<1>5. CASE WakeUp
  BY <1>5 DEF WakeUp
<1>6. CASE Receive
  BY <1>6 DEF Receive
<1>7. CASE EnterFails
  BY <1>7 DEF EnterFails, Dies
<1>8. CASE Interrupted
  BY <1>8 DEF Interrupted, Dies
<1>9. CASE Enter
  BY <1>9 DEF Enter
<1>10. CASE GetIn
  BY <1>10 DEF GetIn
<1>11. CASE GetOut
  BY <1>11 DEF GetOut
<1>12. CASE OutDone
  BY <1>12 DEF OutDone
<1>13. CASE Repoll
  BY <1>13 DEF Repoll, Dies, Room
<1>14. CASE Send
  BY <1>14 DEF Send, Room
<1>15. CASE ReadEvents
  BY <1>15 DEF ReadEvents
<1>16. CASE OnEnable
  BY <1>16 DEF OnEnable
<1>17. CASE OnDisable
  BY <1>17 DEF OnDisable
<1>18. CASE NoChange
  BY <1>18 DEF NoChange
<1>19. CASE EventsDone
  BY <1>19 DEF EventsDone, AfterEvents
<1>20. CASE EndpointPart
  BY <1>20 DEF EndpointPart, Halt, ClearHalt
<1>21. CASE Answer
  BY <1>21 DEF Answer, AfterEvents
<1>22. CASE HaltAndRaise
  BY <1>22 DEF HaltAndRaise
<1>23. CASE Exit
  BY <1>23 DEF Exit
<1>24. CASE \E r \in Request : HostAsks(r)
  BY <1>24 DEF HostAsks, NewEvent
<1>25. CASE \E b \in Blocks : OutCompletes(b)
  BY <1>25 DEF OutCompletes
<1>26. CASE \E b \in Blocks : OutHandled(b)
  BY <1>26 DEF OutHandled
<1>27. CASE UNCHANGED vars
  BY <1>27 DEF vars
<1>28. QED
  BY <1>1, <1>2, <1>3, <1>4, <1>5, <1>6, <1>7, <1>8, <1>9, <1>10, <1>11, <1>12, <1>13, <1>14, <1>15, <1>16, <1>17, <1>18, <1>19, <1>20, <1>21, <1>22, <1>23, <1>24, <1>25, <1>26, <1>27 DEF Next, Host, Kernel, Daemon

\* The process follows the configuration changes.
LEMMA EnabledStep == TypeOK /\ Fresh /\ Held /\ KnowsWhetherEnabled /\ [Next]_vars => KnowsWhetherEnabled'
<1> SUFFICES ASSUME TypeOK /\ Fresh /\ Held /\ KnowsWhetherEnabled, [Next]_vars PROVE KnowsWhetherEnabled'
  OBVIOUS
<1> USE DEF KnowsWhetherEnabled, Fresh, Held, Serving, TypeOK, HostTypes, ProcTypes, PCs, Handling, hostVars, aioVars, procVars, noteVars
<1>1. CASE HostEnables
  BY <1>1 DEF HostEnables, NewEvent, ShutDown
<1>2. CASE HostDisables
  BY <1>2 DEF HostDisables, NewEvent, ShutDown
<1>3. CASE PollFires
  BY <1>3 DEF PollFires
<1>4. CASE SendCompletes
  BY <1>4 DEF SendCompletes
<1>5. CASE WakeUp
  BY <1>5 DEF WakeUp
<1>6. CASE Receive
  BY <1>6 DEF Receive
<1>7. CASE EnterFails
  BY <1>7 DEF EnterFails, Dies
<1>8. CASE Interrupted
  BY <1>8 DEF Interrupted, Dies
<1>9. CASE Enter
  BY <1>9 DEF Enter
<1>10. CASE GetIn
  BY <1>10 DEF GetIn
<1>11. CASE GetOut
  BY <1>11 DEF GetOut
<1>12. CASE OutDone
  BY <1>12 DEF OutDone
<1>13. CASE Repoll
  BY <1>13 DEF Repoll, Dies, Room
<1>14. CASE Send
  BY <1>14 DEF Send, Room
<1>15. CASE ReadEvents
  BY <1>15 DEF ReadEvents
<1>16. CASE OnEnable
  BY <1>16 DEF OnEnable
<1>17. CASE OnDisable
  BY <1>17 DEF OnDisable
<1>18. CASE NoChange
  BY <1>18 DEF NoChange
<1>19. CASE EventsDone
  BY <1>19 DEF EventsDone, AfterEvents
<1>20. CASE EndpointPart
  BY <1>20 DEF EndpointPart, Halt, ClearHalt
<1>21. CASE Answer
  BY <1>21 DEF Answer, AfterEvents
<1>22. CASE HaltAndRaise
  BY <1>22 DEF HaltAndRaise
<1>23. CASE Exit
  BY <1>23 DEF Exit
<1>24. CASE \E r \in Request : HostAsks(r)
  BY <1>24 DEF HostAsks, NewEvent
<1>25. CASE \E b \in Blocks : OutCompletes(b)
  BY <1>25 DEF OutCompletes
<1>26. CASE \E b \in Blocks : OutHandled(b)
  BY <1>26 DEF OutHandled
<1>27. CASE UNCHANGED vars
  BY <1>27 DEF vars
<1>28. QED
  BY <1>1, <1>2, <1>3, <1>4, <1>5, <1>6, <1>7, <1>8, <1>9, <1>10, <1>11, <1>12, <1>13, <1>14, <1>15, <1>16, <1>17, <1>18, <1>19, <1>20, <1>21, <1>22, <1>23, <1>24, <1>25, <1>26, <1>27 DEF Next, Host, Kernel, Daemon

\* Endpoint 0 stays busy with the request that is held.
LEMMA HeldStep == TypeOK /\ Fresh /\ Held /\ [Next]_vars => Held'
<1> SUFFICES ASSUME TypeOK /\ Fresh /\ Held, [Next]_vars PROVE Held'
  OBVIOUS
<1> USE FunctionAssumption DEF Fresh, Held, Serving, TypeOK, HostTypes, ProcTypes, PCs, Handling, hostVars, aioVars, procVars, noteVars
<1>1. CASE HostEnables
  BY <1>1 DEF HostEnables, NewEvent, ShutDown
<1>2. CASE HostDisables
  BY <1>2 DEF HostDisables, NewEvent, ShutDown
<1>3. CASE PollFires
  BY <1>3 DEF PollFires
<1>4. CASE SendCompletes
  BY <1>4 DEF SendCompletes
<1>5. CASE WakeUp
  BY <1>5 DEF WakeUp
<1>6. CASE Receive
  BY <1>6 DEF Receive
<1>7. CASE EnterFails
  BY <1>7 DEF EnterFails, Dies
<1>8. CASE Interrupted
  BY <1>8 DEF Interrupted, Dies
<1>9. CASE Enter
  BY <1>9 DEF Enter
<1>10. CASE GetIn
  BY <1>10 DEF GetIn
<1>11. CASE GetOut
  BY <1>11 DEF GetOut
<1>12. CASE OutDone
  BY <1>12 DEF OutDone
<1>13. CASE Repoll
  BY <1>13 DEF Repoll, Dies, Room
<1>14. CASE Send
  BY <1>14 DEF Send, Room
<1>15. CASE ReadEvents
  BY <1>15 DEF ReadEvents
<1>16. CASE OnEnable
  BY <1>16 DEF OnEnable
<1>17. CASE OnDisable
  BY <1>17 DEF OnDisable
<1>18. CASE NoChange
  BY <1>18 DEF NoChange
<1>19. CASE EventsDone
  BY <1>19 DEF EventsDone, AfterEvents
<1>20. CASE EndpointPart
  BY <1>20 DEF EndpointPart, Halt, ClearHalt
<1>21. CASE Answer
  BY <1>21 DEF Answer, AfterEvents
<1>22. CASE HaltAndRaise
  BY <1>22 DEF HaltAndRaise
<1>23. CASE Exit
  BY <1>23 DEF Exit
<1>24. CASE \E r \in Request : HostAsks(r)
  BY <1>24 DEF HostAsks, NewEvent
<1>25. CASE \E b \in Blocks : OutCompletes(b)
  BY <1>25 DEF OutCompletes
<1>26. CASE \E b \in Blocks : OutHandled(b)
  BY <1>26 DEF OutHandled
<1>27. CASE UNCHANGED vars
  BY <1>27 DEF vars
<1>28. QED
  BY <1>1, <1>2, <1>3, <1>4, <1>5, <1>6, <1>7, <1>8, <1>9, <1>10, <1>11, <1>12, <1>13, <1>14, <1>15, <1>16, <1>17, <1>18, <1>19, <1>20, <1>21, <1>22, <1>23, <1>24, <1>25, <1>26, <1>27 DEF Next, Host, Kernel, Daemon

\* No step hides an event from the process.
LEMMA DeafStep == TypeOK /\ Fresh /\ Held /\ NeverDeaf /\ [Next]_vars => NeverDeaf'
<1> SUFFICES ASSUME TypeOK /\ Fresh /\ Held /\ NeverDeaf, [Next]_vars PROVE NeverDeaf'
  OBVIOUS
<1> USE DEF Fresh, NeverDeaf, Held, Serving, TypeOK, AioTypes, ProcTypes, PCs, Handling, hostVars, aioVars, procVars, noteVars
<1>1. CASE HostEnables
  BY <1>1 DEF HostEnables, NewEvent, ShutDown
<1>2. CASE HostDisables
  BY <1>2 DEF HostDisables, NewEvent, ShutDown
<1>3. CASE PollFires
  BY <1>3 DEF PollFires
<1>4. CASE SendCompletes
  BY <1>4 DEF SendCompletes
<1>5. CASE WakeUp
  BY <1>5 DEF WakeUp
<1>6. CASE Receive
  BY <1>6 DEF Receive
<1>7. CASE EnterFails
  BY <1>7 DEF EnterFails, Dies
<1>8. CASE Interrupted
  BY <1>8 DEF Interrupted, Dies
<1>9. CASE Enter
  BY <1>9 DEF Enter
<1>10. CASE GetIn
  BY <1>10 DEF GetIn
<1>11. CASE GetOut
  BY <1>11 DEF GetOut
<1>12. CASE OutDone
  BY <1>12 DEF OutDone
<1>13. CASE Repoll
  BY <1>13 DEF Repoll, Dies, Room
<1>14. CASE Send
  BY <1>14 DEF Send, Room
<1>15. CASE ReadEvents
  BY <1>15 DEF ReadEvents
<1>16. CASE OnEnable
  BY <1>16 DEF OnEnable
<1>17. CASE OnDisable
  BY <1>17 DEF OnDisable
<1>18. CASE NoChange
  BY <1>18 DEF NoChange
<1>19. CASE EventsDone
  BY <1>19 DEF EventsDone, AfterEvents
<1>20. CASE EndpointPart
  BY <1>20 DEF EndpointPart, Halt, ClearHalt
<1>21. CASE Answer
  BY <1>21 DEF Answer, AfterEvents
<1>22. CASE HaltAndRaise
  BY <1>22 DEF HaltAndRaise
<1>23. CASE Exit
  BY <1>23 DEF Exit
<1>24. CASE \E r \in Request : HostAsks(r)
  <2>1. PICK r \in Request : HostAsks(r)
    BY <1>24
  <2>2. QED  BY <2>1, FunctionAssumption DEF HostAsks, NewEvent
<1>25. CASE \E b \in Blocks : OutCompletes(b)
  BY <1>25 DEF OutCompletes
<1>26. CASE \E b \in Blocks : OutHandled(b)
  BY <1>26 DEF OutHandled
<1>27. CASE UNCHANGED vars
  BY <1>27 DEF vars
<1>28. QED
  BY <1>1, <1>2, <1>3, <1>4, <1>5, <1>6, <1>7, <1>8, <1>9, <1>10, <1>11, <1>12, <1>13, <1>14, <1>15, <1>16, <1>17, <1>18, <1>19, <1>20, <1>21, <1>22, <1>23, <1>24, <1>25, <1>26, <1>27 DEF Next, Host, Kernel, Daemon

\* Every handler answers in the direction of the request, and halt against it.
LEMMA AnsweredRightly ==
  ASSUME NEW r \in Request
  PROVE  /\ (OnSetup(r) # HaltCall(r)) # Halting(r)
         /\ OnSetup(r) = HaltCall(r) <=> Halting(r)
<1>1. CASE Halting(r)
  <2>1. ~ClassRequest(r) /\ ~GetDescriptor(r) /\ ~GetStatus(r)
    BY <1>1 DEF Halting
  <2>2. OnSetup(r) = HaltCall(r)
    BY <1>1, <2>1 DEF OnSetup
  <2>3. QED  BY <1>1, <2>2
<1>2. CASE ~Halting(r)
  <2>1. CASE ClassRequest(r)
    <3>1. ~GetDescriptor(r) /\ ~GetStatus(r) /\ r.dir \in {"in", "out"}
      BY <2>1 DEF ClassRequest, GetDescriptor, GetStatus, Standard
    <3>2. OnSetup(r) = ClassAnswer(r)
      BY <1>2, <2>1, <3>1 DEF OnSetup
    <3>3. QED  BY <1>2, <3>1, <3>2 DEF HaltCall, ClassAnswer
  <2>2. CASE ~ClassRequest(r) /\ (GetDescriptor(r) \/ GetStatus(r))
    <3>1. OnSetup(r) = "write" /\ r.dir = "in"
      BY <1>2, <2>2 DEF OnSetup, GetDescriptor, GetStatus, Standard
    <3>2. QED  BY <1>2, <3>1 DEF HaltCall
  <2>3. CASE ~(ClassRequest(r) \/ GetDescriptor(r) \/ GetStatus(r))
    <3>1. OnSetup(r) = "read" /\ r.dir = "out"
      BY <1>2, <2>3 DEF OnSetup, Halting, HaltFeature, Standard
    <3>2. QED  BY <1>2, <3>1 DEF HaltCall
  <2>4. QED  BY <2>1, <2>2, <2>3
<1>3. QED  BY <1>1, <1>2

\* No step makes the process raise: there is room to poll, and the answer fits.
LEMMA AliveStep == TypeOK /\ Held /\ NeverDeaf /\ StaysAlive /\ [Next]_vars => StaysAlive'
<1> SUFFICES ASSUME TypeOK /\ Held /\ NeverDeaf /\ StaysAlive, [Next]_vars PROVE StaysAlive'
  OBVIOUS
<1> USE DEF StaysAlive, Held, hostVars, aioVars, procVars, noteVars
<1>1. CASE HostEnables
  BY <1>1 DEF HostEnables, NewEvent, ShutDown
<1>2. CASE HostDisables
  BY <1>2 DEF HostDisables, NewEvent, ShutDown
<1>3. CASE PollFires
  BY <1>3 DEF PollFires
<1>4. CASE SendCompletes
  BY <1>4 DEF SendCompletes
<1>5. CASE WakeUp
  BY <1>5 DEF WakeUp
<1>6. CASE Receive
  BY <1>6 DEF Receive
<1>7. CASE EnterFails
  BY <1>7 DEF EnterFails, Dies
<1>8. CASE Interrupted
  BY <1>8 DEF Interrupted, Dies
<1>9. CASE Enter
  BY <1>9 DEF Enter
<1>10. CASE GetIn
  BY <1>10 DEF GetIn
<1>11. CASE GetOut
  BY <1>11 DEF GetOut
<1>12. CASE OutDone
  BY <1>12 DEF OutDone
<1>13. CASE Repoll
  <2>1. Room
    <3>1. pc = "repoll" /\ Serving /\ quirk
      BY <1>13 DEF Repoll, Serving, TypeOK, ProcTypes
    <3>2. poll = "fetched"
      BY <3>1 DEF NeverDeaf, Handling
    <3>3. sending \in Nat /\ sent \in Nat /\ InMax \in Nat /\ sending + sent <= InMax
      BY FunctionAssumption DEF TypeOK, AioTypes
    <3>4. sending + sent + 0 < InMax + 1
      BY <3>3, Places
    <3>5. QED  BY <3>1, <3>2, <3>4 DEF Room
  <2>2. QED  BY <1>13, <2>1 DEF Repoll
<1>14. CASE Send
  BY <1>14 DEF Send, Room
<1>15. CASE ReadEvents
  BY <1>15 DEF ReadEvents
<1>16. CASE OnEnable
  BY <1>16 DEF OnEnable
<1>17. CASE OnDisable
  BY <1>17 DEF OnDisable
<1>18. CASE NoChange
  BY <1>18 DEF NoChange
<1>19. CASE EventsDone
  BY <1>19 DEF EventsDone, AfterEvents
<1>20. CASE EndpointPart
  BY <1>20 DEF EndpointPart, Halt, ClearHalt
<1>21. CASE Answer
  <2>1. current \in Request /\ state \in {"pending", "cancelled"}
    BY <1>21 DEF Answer, TypeOK, HostTypes, ProcTypes
  <2>2. (OnSetup(current) # HaltCall(current)) # Halting(current)
    BY <2>1, AnsweredRightly
  <2>3. QED  BY <1>21, <2>1, <2>2 DEF Answer
<1>22. CASE HaltAndRaise
  BY <1>22 DEF HaltAndRaise
<1>23. CASE Exit
  BY <1>23 DEF Exit
<1>24. CASE \E r \in Request : HostAsks(r)
  BY <1>24 DEF HostAsks, NewEvent
<1>25. CASE \E b \in Blocks : OutCompletes(b)
  BY <1>25 DEF OutCompletes
<1>26. CASE \E b \in Blocks : OutHandled(b)
  BY <1>26 DEF OutHandled
<1>27. CASE UNCHANGED vars
  BY <1>27 DEF vars
<1>28. QED
  BY <1>1, <1>2, <1>3, <1>4, <1>5, <1>6, <1>7, <1>8, <1>9, <1>10, <1>11, <1>12, <1>13, <1>14, <1>15, <1>16, <1>17, <1>18, <1>19, <1>20, <1>21, <1>22, <1>23, <1>24, <1>25, <1>26, <1>27 DEF Next, Host, Kernel, Daemon

\* The process starts with nothing under way.
LEMMA InitInv == Init => Inv
<1> SUFFICES ASSUME Init PROVE Inv
  OBVIOUS
<1>1. TypeOK
  <2>1. HostTypes /\ ProcTypes /\ NoteTypes
    BY FunctionAssumption DEF Init, HostTypes, ProcTypes, NoteTypes, PCs, Handling, Changes, Causes
  <2>2. 0 \in Nat /\ 0 + 0 <= InMax /\ [b \in Blocks |-> "released"] \in [Blocks -> {"released", "flying", "dying", "done", "shut"}]
    BY FunctionAssumption
  <2>3. AioTypes
    BY <2>2 DEF Init, AioTypes
  <2>4. QED  BY <2>1, <2>3 DEF TypeOK
<1>2. Fresh /\ Held
  BY DEF Init, Fresh, Held, Serving, PCs, Handling
<1>3. NeverDeaf /\ KnowsWhetherEnabled /\ StaysAlive /\ HaltIsTold
  BY DEF Init, NeverDeaf, KnowsWhetherEnabled, StaysAlive, HaltIsTold, Serving
<1>4. QED  BY <1>1, <1>2, <1>3 DEF Inv

\* The inductive invariant is kept by every step.
LEMMA InvStep == Inv /\ [Next]_vars => Inv'
<1> SUFFICES ASSUME Inv, [Next]_vars PROVE Inv'
  OBVIOUS
<1> USE DEF Inv
<1>1. HostTypes' /\ ProcTypes' /\ NoteTypes'
  BY HostTypeStep, ProcTypeStep, NoteTypeStep
<1>2. AioTypes'
  BY AioTypeStep
<1>3. TypeOK'
  BY <1>1, <1>2 DEF TypeOK
<1>4. Fresh' /\ Held'
  BY FreshStep, HeldStep
<1>5. NeverDeaf' /\ KnowsWhetherEnabled'
  BY DeafStep, EnabledStep
<1>6. StaysAlive' /\ HaltIsTold'
  BY AliveStep, HaltStep
<1>7. QED  BY <1>3, <1>4, <1>5, <1>6

\* The inductive invariant holds of the function process, whatever its
\* endpoints, its AIO limits, the host's requests and the quirk.
THEOREM Invariant == Spec => []Inv
<1>1. Init => Inv
  BY InitInv
<1>2. Inv /\ [Next]_vars => Inv'
  BY InvStep
<1>3. QED  BY <1>1, <1>2, PTL DEF Spec

\* The variables of the model of the function process keep their types; among
\* them, the IN context never holds more reports than in_aio_blocks_max.
THEOREM Types == Spec => []TypeOK
<1>1. Inv => TypeOK
  BY DEF Inv
<1>2. QED  BY <1>1, Invariant, PTL

\* processEvents and getEvents lose no wake-up: a completed transfer and an
\* event of endpoint 0 are fetched, or the eventfd is readable.
THEOREM WakesUp == Spec => []NeverDeaf
<1>1. Inv => NeverDeaf
  BY DEF Inv
<1>2. QED  BY <1>1, Invariant, PTL

\* KVMHIDFunction._enabled follows the configuration the host has chosen, up to
\* the change in the event queue and the one being handled.
THEOREM KnowsEnabled == Spec => []KnowsWhetherEnabled
<1>1. Inv => KnowsWhetherEnabled
  BY DEF Inv
<1>2. QED  BY <1>1, Invariant, PTL

\* No exception of its own ends the process: the poll block always has its
\* place, and every request is answered once and in its direction.
THEOREM Alive == Spec => []StaysAlive
<1>1. Inv => StaysAlive
  BY DEF Inv
<1>2. QED  BY <1>1, Invariant, PTL

\* A GET_STATUS that reads EndpointFile._halted never denies a halt.
THEOREM HaltTold == Spec => []HaltIsTold
<1>1. Inv => HaltIsTold
  BY DEF Inv
<1>2. QED  BY <1>1, Invariant, PTL

-----------------------------------------------------------------------------
(* The OUT endpoints are served                                            *)

\* While the host has the function enabled, and unless it enabled it before the
\* blocks were back, none is shut down; once the process has seen the enabling,
\* none is left behind either.
OutInv ==
    Serving /\ up /\ ~hurried =>
        \A b \in Blocks :
            /\ out[b] \notin {"dying", "shut"}
            /\ change # "ENABLE" /\ todo # "ENABLE" => out[b] # "released"

\* The steps that are about the OUT blocks or a configuration change, and what
\* the others leave alone.
LEMMA OutFrame ==
  ASSUME [Next]_vars
  PROVE  \/ HostEnables \/ HostDisables \/ ReadEvents \/ OnEnable \/ OnDisable \/ Exit
         \/ \E b \in Blocks : OutCompletes(b) \/ OutHandled(b)
         \/ /\ UNCHANGED <<up, change, todo, out, hurried>>
            /\ Serving' => Serving \/ pc = "new"
<1> USE DEF hostVars, aioVars, procVars, noteVars, Serving
<1>1. CASE (\E r \in Request : HostAsks(r)) \/ PollFires \/ SendCompletes
  BY <1>1 DEF HostAsks, PollFires, SendCompletes
<1>2. CASE WakeUp \/ Receive \/ EnterFails \/ Interrupted
  BY <1>2 DEF WakeUp, Receive, EnterFails, Interrupted, Dies
<1>3. CASE Enter \/ GetIn \/ GetOut \/ OutDone \/ Repoll \/ Send
  BY <1>3 DEF Enter, GetIn, GetOut, OutDone, Repoll, Send, Dies
<1>4. CASE NoChange \/ EventsDone \/ EndpointPart \/ Answer \/ HaltAndRaise
  BY <1>4 DEF NoChange, EventsDone, EndpointPart, Answer, HaltAndRaise
<1>5. CASE UNCHANGED vars
  BY <1>5 DEF vars
<1>6. QED
  BY <1>1, <1>2, <1>3, <1>4, <1>5 DEF Next, Host, Kernel, Daemon

\* OutInv is inductive.
LEMMA OutStep == Inv /\ OutInv /\ [Next]_vars => OutInv'
<1> SUFFICES ASSUME Inv, OutInv, [Next]_vars, Serving', up', ~hurried', NEW b \in Blocks
             PROVE  /\ out'[b] \notin {"dying", "shut"}
                    /\ change' # "ENABLE" /\ todo' # "ENABLE" => out'[b] # "released"
  BY DEF OutInv
<1> USE DEF hostVars, aioVars, procVars, noteVars
<1>1. out \in [Blocks -> {"released", "flying", "dying", "done", "shut"}]
  BY DEF Inv, TypeOK, AioTypes
<1>2. CASE HostEnables
  <2>1. out[b] = "released"
    BY <1>2 DEF HostEnables
  <2>2. QED  BY <1>2, <2>1 DEF HostEnables, ShutDown
<1>3. CASE HostDisables
  BY <1>3 DEF HostDisables
<1>4. CASE ReadEvents
  BY <1>4 DEF ReadEvents, OutInv, Serving, Inv, Held
<1>5. CASE OnEnable
  BY <1>5 DEF OnEnable, OutInv, Serving
<1>6. CASE OnDisable
  BY <1>6 DEF OnDisable, OutInv, Serving
<1>7. CASE Exit
  BY <1>7 DEF Exit, Serving
<1>8. CASE \E c \in Blocks : OutCompletes(c) \/ OutHandled(c)
  <2>1. PICK c \in Blocks : OutCompletes(c) \/ OutHandled(c)
    BY <1>8
  <2>2. UNCHANGED <<pc, up, hurried, change, todo>>
    BY <2>1 DEF OutCompletes, OutHandled
  <2>3. out[c] \notin {"dying", "shut"} /\ out[b] \notin {"dying", "shut"}
    BY <2>2 DEF OutInv, Serving
  <2>4. out'[b] = out[b] \/ (b = c /\ out'[b] \in {"flying", "done"})
    BY <1>1, <2>1, <2>3 DEF OutCompletes, OutHandled
  <2>5. QED  BY <2>2, <2>3, <2>4 DEF OutInv, Serving
<1>9. CASE UNCHANGED <<up, change, todo, out, hurried>> /\ (Serving' => Serving \/ pc = "new")
  <2>1. Serving
    BY <1>9 DEF Inv, Fresh
  <2>2. QED  BY <1>9, <2>1 DEF OutInv
<1>10. QED
  BY <1>2, <1>3, <1>4, <1>5, <1>6, <1>7, <1>8, <1>9, OutFrame

\* onEnable "submits transfers to all OUT endpoints" (ref_init.py:1301): no block
\* is left behind while the host has the function enabled, unless it last
\* enabled it before the process had seen its blocks come back.
THEOREM OutsAreServed == Spec => []OutsServed
<1>1. Init => OutInv
  BY DEF Init, OutInv, Serving
<1>2. Inv /\ OutInv /\ [Next]_vars => OutInv'
  BY OutStep
<1>3. OutInv => OutsServed
  BY DEF OutInv, OutsServed
<1>4. QED  BY <1>1, <1>2, <1>3, Invariant, PTL DEF Spec

-----------------------------------------------------------------------------
(* The control requests are answered as ControlPipe says                   *)

\* The request the host waits for.
Waiting == IF queued # NoRequest THEN queued ELSE IF state = "pending" THEN current ELSE NoRequest

\* halt is called exactly for the requests the host is not entitled to.
LEMMA RefusedRightly ==
  ASSUME NEW r \in Request, ~NoSuchCall(r)
  PROVE  Halting(r) <=> r \notin Served
<1>1. r \in RequestFields
  BY FunctionAssumption
<1>2. r.recip \in Recipients /\ r.type \in {"standard", "class", "vendor"} /\ r.dir \in {"in", "out"} /\ r.fits \in BOOLEAN
  BY <1>1 DEF RequestFields
<1>3. r \in Served <=>
        /\ \/ r.recip = "interface" /\ r.type = "class" /\ r.dir = "in"
              /\ r.name \in {"GET_REPORT", "GET_IDLE", "GET_PROTOCOL"}
           \/ r.recip = "interface" /\ r.type = "class" /\ r.dir = "out"
              /\ r.name \in {"SET_REPORT", "SET_IDLE", "SET_PROTOCOL"}
           \/ r.recip = "interface" /\ r.type = "standard" /\ r.dir = "in"
              /\ r.name \in {"GET_DESCRIPTOR", "GET_STATUS"}
           \/ r.recip = "endpoint" /\ r.type = "standard"
              /\ \/ r.dir = "in" /\ r.name = "GET_STATUS"
                 \/ r.dir = "out" /\ r.name \in {"SET_FEATURE", "CLEAR_FEATURE"}
        /\ r.type = "standard" => r.fits
        /\ r.recip = "endpoint" => r.index \in Endpoints
  BY DEF Served, Entitled
<1>4. QED
  BY <1>2, <1>3 DEF Halting, GetDescriptor, ClassRequest, GetStatus, HaltFeature, Standard, ToEndpoint, NoSuchCall, Recipients

\* It starts as a pipe with no request.
LEMMA PipeInits == Init => Pipe!PipeInit
  BY DEF Init, Pipe!PipeInit

\* Steps that leave endpoint 0 alone.
LEMMA PipeStutter ==
  ASSUME queued' = queued, state' = state, current' = current, reply' = reply
  PROVE  Waiting' = Waiting /\ reply' = reply
  BY DEF Waiting

\* An answer of the process is an answer of the pipe, unless the host has given
\* the request up.
LEMMA PipeAnswers ==
  ASSUME Inv, Answer
  PROVE  [Pipe!PipeNext]_<<Waiting, reply>>
<1>1. /\ pc = "answer" /\ current \in Request /\ current # NoRequest /\ ~NoSuchCall(current)
      /\ state = "pending" => queued = NoRequest
      /\ NoRequest \notin Request /\ queued' = queued /\ state' = "idle"
  BY FunctionAssumption DEF Inv, Held, TypeOK, ProcTypes, Answer, hostVars
<1>2. CASE state # "pending"
  BY <1>1, <1>2 DEF Answer, Waiting
<1>3. CASE state = "pending"
  <2>1. Waiting = current /\ Waiting' = NoRequest
    BY <1>1, <1>3 DEF Waiting
  <2>2. OnSetup(current) # HaltCall(current) <=> current \in Served
    BY <1>1, AnsweredRightly, RefusedRightly
  <2>3. reply' = IF current \in Served THEN "done" ELSE "stalled"
    BY <1>3, <2>2 DEF Answer
  <2>4. Pipe!Answer
    BY <1>1, <2>1, <2>3 DEF Pipe!Answer, Waiting
  <2>5. QED  BY <2>4 DEF Pipe!PipeNext
<1>4. QED  BY <1>2, <1>3

\* Every step of the process, the host and the kernel is one of the pipe's or
\* goes unnoticed there.
LEMMA PipeSteps == Inv /\ [Next]_vars => [Pipe!PipeNext]_<<Waiting, reply>>
<1> SUFFICES ASSUME Inv, [Next]_vars PROVE [Pipe!PipeNext]_<<Waiting, reply>>
  OBVIOUS
<1> USE DEF hostVars, aioVars, procVars, noteVars
<1>1. CASE HostEnables \/ HostDisables
  <2>1. queued' = NoRequest /\ state' # "pending" /\ reply' = reply
    BY <1>1 DEF HostEnables, HostDisables, NewEvent
  <2>2. Pipe!GiveUp
    BY <2>1 DEF Pipe!GiveUp, Waiting
  <2>3. QED  BY <2>2 DEF Pipe!PipeNext
<1>2. CASE \E r \in Request : HostAsks(r)
  <2>1. PICK r \in Request : HostAsks(r)
    BY <1>2
  <2>2. Waiting' = r /\ reply' = reply
    BY <2>1, FunctionAssumption DEF HostAsks, Waiting
  <2>3. Pipe!Ask(r)
    BY <2>2 DEF Pipe!Ask, Waiting
  <2>4. QED  BY <2>3 DEF Pipe!PipeNext
<1>3. CASE ReadEvents
  <2>1. state # "pending"
    BY <1>3 DEF ReadEvents, Inv, Held, PCs, Handling
  <2>2. Waiting' = Waiting /\ reply' = reply
    BY <1>3, <2>1 DEF ReadEvents, Waiting
  <2>3. QED  BY <2>2
<1>4. CASE Answer
  BY <1>4, PipeAnswers
<1>5. CASE HaltAndRaise
  <2>1. CASE state # "pending"
    BY <1>5, <2>1 DEF HaltAndRaise, Waiting
  <2>2. CASE state = "pending"
    <3>1. queued = NoRequest /\ current # NoRequest
      BY <2>2 DEF Inv, Held
    <3>2. Waiting # NoRequest /\ Waiting' = NoRequest /\ reply' = "failed"
      BY <1>5, <2>2, <3>1 DEF HaltAndRaise, Waiting
    <3>3. Pipe!Fail
      BY <3>2 DEF Pipe!Fail, Waiting
    <3>4. QED  BY <3>3 DEF Pipe!PipeNext
  <2>3. QED  BY <2>1, <2>2
<1>6. CASE Exit
  <2>1. Waiting' = NoRequest /\ reply' = reply
    BY <1>6 DEF Exit, Waiting
  <2>2. Pipe!GiveUp
    BY <2>1 DEF Pipe!GiveUp, Waiting
  <2>3. QED  BY <2>2 DEF Pipe!PipeNext
<1>7. CASE Kernel
  BY <1>7, PipeStutter DEF Kernel, PollFires, SendCompletes, OutCompletes
<1>8. CASE WakeUp \/ Receive \/ EnterFails \/ Interrupted
  BY <1>8, PipeStutter DEF WakeUp, Receive, EnterFails, Interrupted
<1>9. CASE Enter \/ GetIn \/ GetOut \/ (\E b \in Blocks : OutHandled(b)) \/ OutDone \/ Repoll \/ Send
  BY <1>9, PipeStutter DEF Enter, GetIn, GetOut, OutHandled, OutDone, Repoll, Send
<1>10. CASE OnEnable \/ OnDisable \/ NoChange \/ EventsDone \/ EndpointPart
  BY <1>10, PipeStutter DEF OnEnable, OnDisable, NoChange, EventsDone, EndpointPart
<1>11. CASE UNCHANGED vars
  BY <1>11, PipeStutter DEF vars
<1>12. QED
  BY <1>1, <1>2, <1>3, <1>4, <1>5, <1>6, <1>7, <1>8, <1>9, <1>10, <1>11 DEF Next, Host, Daemon

\* The function process answers a control request at most once, never unasked,
\* and with what the host is entitled to: onSetup of KVMHIDFunction, HIDFunction
\* and Function implements ControlPipe.
THEOREM Answers == Spec => AnswersOnce
<1>1. Init => Pipe!PipeInit
  BY PipeInits
<1>2. Inv /\ [Next]_vars => [Pipe!PipeNext]_<<Waiting, reply>>
  BY PipeSteps
<1>3. QED
  BY <1>1, <1>2, Invariant, PTL DEF Spec, AnswersOnce, Pipe!PipeSpec, Waiting
=============================================================================
