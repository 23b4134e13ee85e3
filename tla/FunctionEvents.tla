--------------------------- MODULE FunctionEvents ---------------------------
(***************************************************************************)
(* The function process: KVMHIDFunction (board/kvm_hid.py) on HIDFunction  *)
(* and Function (board/ref_init.py).  One thread waits for an eventfd and  *)
(* for UDP datagrams; AIO completions, configuration changes and control   *)
(* requests all arrive through the eventfd.  The host and the kernel       *)
(* (functionfs, AIO) act at any time in between.                           *)
(*                                                                         *)
(* functionfs queues at most the latest configuration change, a request    *)
(* that came after it, and notices of power management, which no handler   *)
(* of this code reacts to: the queue is the pair <<change, queued>>.       *)
(* The daemon's own function has no OUT endpoint (Outs = {}) and runs with *)
(* the quirk; Function supports both.                                      *)
(***************************************************************************)
EXTENDS Naturals, FiniteSets

CONSTANTS
    Outs,        \* OUT endpoints, by index; the IN endpoint has index 1
    PerEndpoint, \* out_aio_blocks_per_endpoint
    InMax,       \* in_aio_blocks_max
    Quirks,      \* values of quirks_ffs_unsafe_eventfd
    Request,     \* the control requests of the host
    NoRequest

Recipients == {"device", "interface", "endpoint"}
RequestFields ==
    [recip : Recipients, type : {"standard", "class", "vendor"}, dir : {"in", "out"},
     name : STRING, index : Nat, fits : BOOLEAN]

ASSUME FunctionAssumption ==
    /\ Outs \subseteq Nat \ {0, 1} /\ IsFiniteSet(Outs)
    /\ PerEndpoint \in Nat /\ InMax \in Nat \ {0} /\ Quirks \subseteq BOOLEAN
    /\ Request \subseteq RequestFields /\ NoRequest \notin Request

Endpoints == {1} \cup Outs
Blocks == Outs \X (1 .. PerEndpoint)

VARIABLES
    \* the host and functionfs
    up,         \* the function is enabled: the host has configured it
    change,     \* the configuration change in the event queue, or "none"
    queued,     \* the request in the event queue
    state,      \* the request read last: idle (answered), pending or cancelled
    halted,     \* endpoints that are halted
    \* asynchronous I/O
    efd,        \* the eventfd is readable
    poll,       \* the block that polls endpoint 0, with the quirk
    sending,    \* IN transfers in flight
    sent,       \* IN transfers completed, not fetched by getEvents
    out,        \* block of an OUT endpoint: where it is
    \* the process
    quirk,      \* __quirks_ffs_unsafe_eventfd
    pc,         \* where it is
    todo,       \* the configuration change among the events read
    current,    \* the request among the events read
    enabled,    \* KVMHIDFunction._enabled
    flags,      \* endpoints whose _halted is set
    fetched,    \* completed OUT blocks getEvents has yet to hand over
    \* history
    reply,      \* the latest answer on endpoint 0
    why,        \* what has ended the process, or "nothing"
    hurried     \* when the host last enabled it, its OUT blocks were not back yet

hostVars == <<up, change, queued, halted>>
aioVars == <<poll, sending, sent, out>>
procVars == <<quirk, todo, current, enabled, flags, fetched>>
noteVars == <<reply, why, hurried>>
vars == <<hostVars, state, efd, aioVars, pc, procVars, noteVars>>

Handling == {"ep0", "change", "setup", "answer", "repoll"}
PCs == Handling \cup {"new", "poll", "send", "getin", "getout", "out", "raise", "closing", "dead"}
Changes == {"none", "ENABLE", "DISABLE"}
Causes == {"nothing", "start", "stopped", "cancelled", "no such call", "full", "not asked", "wrong way"}

HostTypes ==
    /\ up \in BOOLEAN /\ change \in Changes /\ queued \in Request \cup {NoRequest}
    /\ state \in {"idle", "pending", "cancelled"} /\ halted \in SUBSET Endpoints
AioTypes ==
    /\ efd \in BOOLEAN /\ poll \in {"none", "flying", "done", "fetched"}
    /\ sending \in Nat /\ sent \in Nat /\ sending + sent <= InMax
    /\ out \in [Blocks -> {"released", "flying", "dying", "done", "shut"}]
ProcTypes ==
    /\ quirk \in BOOLEAN /\ pc \in PCs /\ todo \in Changes
    /\ current \in Request \cup {NoRequest} /\ enabled \in BOOLEAN
    /\ flags \in SUBSET Endpoints /\ fetched \in SUBSET Blocks
NoteTypes ==
    reply \in {"none", "done", "stalled", "failed"} /\ why \in Causes /\ hurried \in BOOLEAN

TypeOK == HostTypes /\ AioTypes /\ ProcTypes /\ NoteTypes

Init ==
    /\ up = FALSE /\ change = "none" /\ queued = NoRequest /\ state = "idle" /\ halted = {}
    /\ efd = FALSE /\ poll = "none" /\ sending = 0 /\ sent = 0
    /\ out = [b \in Blocks |-> "released"]
    /\ quirk \in Quirks /\ pc = "new" /\ todo = "none" /\ current = NoRequest
    /\ enabled = FALSE /\ flags = {} /\ fetched = {}
    /\ reply = "none" /\ why = "nothing" /\ hurried = FALSE

Serving == pc \notin {"new", "closing", "dead"}

-----------------------------------------------------------------------------
(* The host and functionfs                                                 *)

\* A new event cancels the request that is being handled; without the quirk it
\* makes the eventfd readable.
NewEvent ==
    /\ state' = IF state = "pending" THEN "cancelled" ELSE state
    /\ efd' = (efd \/ ~quirk)

\* Transfers that the disabled endpoints still have end with ESHUTDOWN.
ShutDown == out' = [b \in Blocks |-> IF out[b] = "flying" THEN "dying" ELSE out[b]]

\* The host (re)configures the function, "several times without onDisable being
\* called" if it likes.  The event supersedes older ones.
HostEnables ==
    /\ Serving /\ up' = TRUE
    /\ change' = "ENABLE" /\ queued' = NoRequest /\ halted' = {}
    /\ NewEvent /\ ShutDown
    /\ hurried' = \E b \in Blocks : out[b] # "released"
    /\ UNCHANGED <<poll, sending, sent, pc, procVars, reply, why>>

\* The host resets or deconfigures the function.
HostDisables ==
    /\ Serving /\ up /\ up' = FALSE
    /\ change' = "DISABLE" /\ queued' = NoRequest /\ halted' = {}
    /\ NewEvent /\ ShutDown
    /\ UNCHANGED <<poll, sending, sent, pc, procVars, noteVars>>

\* A control request, which replaces one the host has not waited for.
HostAsks(r) ==
    /\ Serving /\ up /\ queued' = r /\ NewEvent
    /\ UNCHANGED <<up, change, halted, aioVars, pc, procVars, noteVars>>

\* Something to read on endpoint 0 completes the poll block.
PollFires ==
    /\ poll = "flying" /\ (change # "none" \/ queued # NoRequest)
    /\ poll' = "done" /\ efd' = TRUE
    /\ UNCHANGED <<hostVars, state, sending, sent, out, pc, procVars, noteVars>>

\* The host has taken a report, or the transfer was shut down.
SendCompletes ==
    /\ sending > 0 /\ sending' = sending - 1 /\ sent' = sent + 1 /\ efd' = TRUE
    /\ UNCHANGED <<hostVars, state, poll, out, pc, procVars, noteVars>>

OutCompletes(b) ==
    /\ \/ out[b] = "flying" /\ out' = [out EXCEPT ![b] = "done"]
       \/ out[b] = "dying" /\ out' = [out EXCEPT ![b] = "shut"]
    /\ efd' = TRUE
    /\ UNCHANGED <<hostVars, state, poll, sending, sent, pc, procVars, noteVars>>

Host == HostEnables \/ HostDisables \/ (\E r \in Request : HostAsks(r))
Kernel == PollFires \/ SendCompletes \/ (\E b \in Blocks : OutCompletes(b))

-----------------------------------------------------------------------------
(* Function.__enter__, processEvents and the ends of the process           *)

\* Where an exception leads that no handler catches.
Dies(cause) == pc' = "closing" /\ why' = IF why = "nothing" THEN cause ELSE why

\* Descriptors and strings are written, endpoint files opened, and with the
\* quirk the poll block submitted.
Enter ==
    /\ pc = "new" /\ pc' = "poll"
    /\ poll' = IF quirk THEN "flying" ELSE "none"
    /\ UNCHANGED <<hostVars, state, efd, sending, sent, out, procVars, noteVars>>

EnterFails ==
    /\ pc = "new" /\ Dies("start")
    /\ UNCHANGED <<hostVars, state, efd, aioVars, procVars, reply, hurried>>

\* serve: epoll reports the eventfd and processEvents reads it, which rearms it.
WakeUp ==
    /\ pc = "poll" /\ efd
    /\ pc' = "getin" /\ efd' = FALSE
    /\ UNCHANGED <<hostVars, state, aioVars, procVars, noteVars>>

\* getEvents of the IN context.  Reports are done with; the poll block's
\* onCompletion processes the events of endpoint 0.
GetIn ==
    /\ pc = "getin" /\ sent' = 0
    /\ IF poll = "done" THEN pc' = "ep0" /\ poll' = "fetched"
                        ELSE pc' = "getout" /\ UNCHANGED poll
    /\ UNCHANGED <<hostVars, state, efd, sending, out, procVars, noteVars>>

\* Variant: the eventfd is rearmed after getEvents.
GetOutRearms ==
    /\ pc = "getout" /\ pc' = "out"
    /\ fetched' = {b \in Blocks : out[b] \in {"done", "shut"}} /\ efd' = FALSE
    /\ UNCHANGED <<hostVars, state, aioVars, quirk, todo, current, enabled, flags, noteVars>>

\* getEvents of the OUT context.
GetOut ==
    /\ pc = "getout" /\ pc' = "out"
    /\ fetched' = {b \in Blocks : out[b] \in {"done", "shut"}}
    /\ UNCHANGED <<hostVars, state, efd, aioVars, quirk, todo, current, enabled, flags, noteVars>>

\* Variant: no block is submitted again.
OutHandledReleases(b) ==
    /\ pc = "out" /\ b \in fetched /\ fetched' = fetched \ {b}
    /\ out' = [out EXCEPT ![b] = "released"]
    /\ UNCHANGED <<hostVars, state, efd, poll, sending, sent, pc, quirk, todo, current, enabled, flags, noteVars>>

\* EndpointOUTFile._onComplete: the block is released when its endpoint was shut
\* down, and submitted again otherwise; that waits until the endpoint is enabled.
OutHandled(b) ==
    /\ pc = "out" /\ b \in fetched /\ fetched' = fetched \ {b}
    /\ \/ out[b] = "shut" /\ out' = [out EXCEPT ![b] = "released"]
       \/ out[b] = "done" /\ up /\ out' = [out EXCEPT ![b] = "flying"]
    /\ UNCHANGED <<hostVars, state, efd, poll, sending, sent, pc, quirk, todo, current, enabled, flags, noteVars>>

\* Without the quirk, the events of endpoint 0 come last.
OutDone ==
    /\ pc = "out" /\ fetched = {}
    /\ pc' = IF quirk THEN "poll" ELSE "ep0"
    /\ UNCHANGED <<hostVars, state, efd, aioVars, procVars, noteVars>>

\* The IN context has a free place; the block polling endpoint 0 has its own.
Room ==
    sending + sent + (IF poll \in {"flying", "done"} THEN 1 ELSE 0)
        < InMax + (IF quirk THEN 1 ELSE 0)

\* __onEndpoint0AIOCompletion submits the poll block again.
Repoll ==
    /\ pc = "repoll"
    /\ IF Room THEN pc' = "getout" /\ poll' = "flying" /\ UNCHANGED why
               ELSE Dies("full") /\ UNCHANGED poll
    /\ UNCHANGED <<hostVars, state, efd, sending, sent, out, procVars, reply, hurried>>

\* _handle_udp and _send: a report for an enabled function.
Receive ==
    /\ pc = "poll" /\ enabled /\ pc' = "send"
    /\ UNCHANGED <<hostVars, state, efd, aioVars, procVars, noteVars>>

\* submit waits until the endpoint is enabled; without room EAGAIN is raised
\* and the report dropped.
Send ==
    /\ pc = "send" /\ up /\ pc' = "poll"
    /\ sending' = IF Room THEN sending + 1 ELSE sending
    /\ UNCHANGED <<hostVars, state, efd, poll, sent, out, procVars, noteVars>>

-----------------------------------------------------------------------------
(* Control requests: what onSetup does of endpoint 0                       *)

\* HIDFunction.onSetup: the report descriptor.
GetDescriptor(r) ==
    /\ r.recip = "interface" /\ r.type = "standard" /\ r.dir = "in"
    /\ r.name = "GET_DESCRIPTOR" /\ r.fits

\* hid_class_request_dict.
ClassRequest(r) ==
    /\ r.recip = "interface" /\ r.type = "class"
    /\ \/ r.dir = "in" /\ r.name \in {"GET_REPORT", "GET_IDLE", "GET_PROTOCOL"}
       \/ r.dir = "out" /\ r.name \in {"SET_REPORT", "SET_IDLE", "SET_PROTOCOL"}

\* Function.onSetup; index 0 is endpoint 0 itself.
Standard(r, dir, names) == r.type = "standard" /\ r.dir = dir /\ r.name \in names /\ r.fits
ToEndpoint(r) == r.recip = "endpoint" /\ r.index \in {0} \cup Endpoints
GetStatus(r) ==
    Standard(r, "in", {"GET_STATUS"}) /\ (r.recip = "interface" \/ ToEndpoint(r))

\* Variant: any index will do.
HaltFeatureAny(r) ==
    Standard(r, "out", {"SET_FEATURE", "CLEAR_FEATURE"}) /\ r.recip = "endpoint"

HaltFeature(r) ==
    Standard(r, "out", {"SET_FEATURE", "CLEAR_FEATURE"}) /\ ToEndpoint(r)

\* Variant: all of KVMHIDFunction's handlers write.
ClassAnswerWrites(r) == "write"

\* The handlers of KVMHIDFunction.
ClassAnswer(r) == IF r.dir = "in" THEN "write" ELSE "read"

\* The call of endpoint 0 that answers: write sends data to the host, read takes
\* data or acknowledges; Endpoint0File.halt reads or writes against the
\* direction of the request.
Halting(r) == ~(GetDescriptor(r) \/ ClassRequest(r) \/ GetStatus(r) \/ HaltFeature(r))
HaltCall(r) == IF r.dir = "in" THEN "read" ELSE "write"
OnSetup(r) ==
    CASE Halting(r) -> HaltCall(r)
      [] ClassRequest(r) -> ClassAnswer(r)
      [] GetDescriptor(r) \/ GetStatus(r) -> "write"
      [] OTHER -> "read"

\* Endpoint0File has neither isHalted nor clearHalt, and its halt wants the
\* request type.
NoSuchCall(r) == (GetStatus(r) \/ HaltFeature(r)) /\ r.recip = "endpoint" /\ r.index = 0

-----------------------------------------------------------------------------
(* __real_processEndpoint0Events                                           *)

\* Variant: back to waiting, whoever has called.
AfterEventsForgets == "poll"

\* Where the caller goes on: the poll block's onCompletion, or processEvents.
AfterEvents == IF quirk THEN "repoll" ELSE "poll"

\* Variant: of a change and a request read together, the change is lost.
ReadEventsLast ==
    /\ pc = "ep0" /\ pc' = "change"
    /\ todo' = IF queued = NoRequest THEN change ELSE "none"
    /\ change' = "none" /\ current' = queued /\ queued' = NoRequest
    /\ state' = IF queued = NoRequest THEN state ELSE "pending"
    /\ UNCHANGED <<up, halted, efd, aioVars, quirk, enabled, flags, fetched, noteVars>>

\* readinto takes all events there are.
ReadEvents ==
    /\ pc = "ep0" /\ pc' = "change"
    /\ todo' = change /\ change' = "none"
    /\ current' = queued /\ queued' = NoRequest
    /\ state' = IF queued = NoRequest THEN state ELSE "pending"
    /\ UNCHANGED <<up, halted, efd, aioVars, quirk, enabled, flags, fetched, noteVars>>

\* onEnable submits what OUT blocks are released, which waits until their
\* endpoints are enabled.
OnEnable ==
    /\ pc = "change" /\ todo = "ENABLE" /\ pc' = "setup" /\ todo' = "none"
    /\ up \/ \A b \in Blocks : out[b] # "released"
    /\ out' = [b \in Blocks |-> IF out[b] = "released" THEN "flying" ELSE out[b]]
    /\ enabled' = TRUE
    /\ UNCHANGED <<hostVars, state, efd, poll, sending, sent, quirk, current, flags, fetched, noteVars>>

OnDisable ==
    /\ pc = "change" /\ todo = "DISABLE" /\ pc' = "setup" /\ todo' = "none"
    /\ enabled' = FALSE
    /\ UNCHANGED <<hostVars, state, efd, aioVars, quirk, current, flags, fetched, noteVars>>

NoChange ==
    /\ pc = "change" /\ todo = "none" /\ pc' = "setup"
    /\ UNCHANGED <<hostVars, state, efd, aioVars, procVars, noteVars>>

EventsDone ==
    /\ pc = "setup" /\ current = NoRequest /\ pc' = AfterEvents
    /\ UNCHANGED <<hostVars, state, efd, aioVars, procVars, noteVars>>

\* EndpointFile.halt and clearHalt, which wait until the endpoint is enabled.
Halt(e) == up /\ halted' = halted \cup {e} /\ flags' = flags \cup {e}
ClearHalt(e) == up /\ halted' = halted \ {e} /\ flags' = flags \ {e}

\* What a request asks of other endpoints comes before its answer.
EndpointPart ==
    /\ pc = "setup" /\ current # NoRequest
    /\ IF NoSuchCall(current)
       THEN pc' = "raise" /\ why' = "no such call" /\ UNCHANGED <<halted, flags>>
       ELSE /\ pc' = "answer" /\ UNCHANGED why
            /\ \/ ~HaltFeature(current) /\ UNCHANGED <<halted, flags>>
               \/ HaltFeature(current) /\ current.name = "SET_FEATURE" /\ Halt(current.index)
               \/ HaltFeature(current) /\ current.name = "CLEAR_FEATURE" /\ ClearHalt(current.index)
    /\ UNCHANGED <<up, change, queued, state, efd, aioVars, quirk, todo, current, enabled, fetched, reply, hurried>>

\* functionfs: I/O on endpoint 0 fails when the request has been cancelled or
\* answered before; against the direction of the request it stalls and raises,
\* which is what halt expects.
Answer ==
    /\ pc = "answer" /\ state' = "idle"
    /\ LET carried == OnSetup(current) # HaltCall(current)
           wanted == carried # Halting(current)
       IN /\ reply' = IF state # "pending" THEN reply ELSE IF carried THEN "done" ELSE "stalled"
          /\ IF state = "pending" /\ wanted
             THEN pc' = AfterEvents /\ current' = NoRequest /\ UNCHANGED why
             ELSE /\ pc' = "raise" /\ UNCHANGED current
                  /\ why' = CASE state = "cancelled" -> "cancelled"
                              [] state = "idle" -> "not asked"
                              [] OTHER -> "wrong way"
    /\ UNCHANGED <<hostVars, efd, aioVars, quirk, todo, enabled, flags, fetched, hurried>>

\* "On *ANY* exception, halt endpoint", and let it through.
HaltAndRaise ==
    /\ pc = "raise" /\ pc' = "closing" /\ state' = "idle"
    /\ reply' = IF state = "pending" THEN "failed" ELSE reply
    /\ current' = NoRequest
    /\ UNCHANGED <<hostVars, efd, aioVars, quirk, todo, enabled, flags, fetched, why, hurried>>

\* SIGINT or SIGTERM raises KeyboardInterrupt, in onSetup like any exception.
Interrupted ==
    /\ Serving
    /\ IF pc \in {"setup", "answer"} /\ current # NoRequest
       THEN pc' = "raise" /\ why' = "stopped"
       ELSE Dies("stopped")
    /\ UNCHANGED <<hostVars, state, efd, aioVars, procVars, reply, hurried>>

\* __exit__, __unenter: transfers are cancelled, endpoint files closed.
Exit ==
    /\ pc = "closing" /\ pc' = "dead"
    /\ poll' = "none" /\ sending' = 0 /\ sent' = 0 /\ queued' = NoRequest /\ state' = "idle"
    /\ out' = [b \in Blocks |-> "released"] /\ fetched' = {}
    /\ UNCHANGED <<up, change, halted, efd, quirk, todo, current, enabled, flags, noteVars>>

Daemon ==
    \/ Enter \/ GetIn \/ GetOut \/ (\E b \in Blocks : OutHandled(b)) \/ OutDone \/ Repoll
    \/ Send \/ ReadEvents \/ OnEnable \/ OnDisable \/ NoChange \/ EventsDone
    \/ EndpointPart \/ Answer \/ HaltAndRaise \/ Exit

Next == Host \/ Kernel \/ WakeUp \/ Receive \/ EnterFails \/ Interrupted \/ Daemon

Spec == Init /\ [][Next]_vars

\* The process runs on, and the kernel completes a poll that has something to
\* report and transfers it has shut down.  epoll returns every descriptor that
\* is ready and serve looks at all of them: datagrams do not starve the eventfd.
FairSpec ==
    /\ Spec
    /\ WF_vars(Daemon) /\ SF_vars(WakeUp)
    /\ WF_vars(PollFires) /\ \A b \in Blocks : WF_vars(out[b] = "dying" /\ OutCompletes(b))

-----------------------------------------------------------------------------
(* Properties                                                              *)

\* "Don't stop polling this descriptor" (ref_functionfs.py:252), and "do not
\* risk skipping events" (ref_init.py:1203): whatever has completed, and every
\* event of endpoint 0, makes the eventfd readable or is about to be fetched.
NeverDeaf ==
    Serving =>
        /\ sent > 0 \/ poll = "done" => efd \/ pc = "getin"
        /\ quirk => (poll = "fetched" <=> pc \in Handling \cup {"raise"}) /\ poll # "none"
        /\ \A b \in Blocks \ fetched :
              out[b] \in {"done", "shut"} => efd \/ pc \in {"getin", "getout"} \/ (quirk /\ pc \in Handling \cup {"raise"})
        /\ ~quirk /\ (change # "none" \/ queued # NoRequest) =>
              efd \/ pc \in {"getin", "getout", "out", "ep0"}

\* Nothing the host, the reports or the limits do makes the process raise, but
\* a request the host gives up and one for the halt of endpoint 0: there is
\* always room for the poll block, and every handler answers exactly once, in
\* the direction of the request.
StaysAlive == why \notin {"full", "not asked", "wrong way"}

\* Reports go to the host exactly while it has the function configured, as far
\* as the process can know.
KnowsWhetherEnabled ==
    Serving =>
        LET last == IF change # "none" THEN change ELSE todo
        IN up = IF last = "none" THEN enabled ELSE last = "ENABLE"

\* onEnable "submits transfers to all OUT endpoints": no block is left behind,
\* unless the host was too fast for the process to see its blocks come back.
OutsServed ==
    Serving /\ up /\ ~hurried /\ change # "ENABLE" /\ todo # "ENABLE" =>
        \A b \in Blocks : out[b] # "released"

\* No GET_STATUS says that a halted endpoint is not halted.
HaltIsTold == halted \subseteq flags

\* What the host is entitled to: the requests of the HID class, its report
\* descriptor, the status of the interface and of endpoints, and their halt.
Entitled ==
    ({<<"interface", "class">>} \X
        ({"in"} \X {"GET_REPORT", "GET_IDLE", "GET_PROTOCOL"}
         \cup {"out"} \X {"SET_REPORT", "SET_IDLE", "SET_PROTOCOL"}))
    \cup ({<<"interface", "standard">>} \X ({"in"} \X {"GET_DESCRIPTOR", "GET_STATUS"}))
    \cup ({<<"endpoint", "standard">>} \X
        {<<"in", "GET_STATUS">>, <<"out", "SET_FEATURE">>, <<"out", "CLEAR_FEATURE">>})
Served ==
    {r \in Request :
        /\ <<<<r.recip, r.type>>, <<r.dir, r.name>>>> \in Entitled
        /\ r.type = "standard" => r.fits
        /\ r.recip = "endpoint" => r.index \in Endpoints}

\* The control requests are answered as ControlPipe says.
Pipe == INSTANCE ControlPipe WITH
    asked <- IF queued # NoRequest THEN queued
             ELSE IF state = "pending" THEN current ELSE NoRequest
AnswersOnce == Pipe!PipeSpec

\* A request does not wait for ever.
Answered == []<>(queued = NoRequest /\ state # "pending")

\* A host that stays configured gets reports, as long as the process lives.
ServesAgain == <>[](up /\ Serving) => <>[]enabled
=============================================================================
