---------------------------- MODULE WorkerProxy ----------------------------
(***************************************************************************)
(* AgentSessionWorker (worker/agent-worker-proxy.ts) and the worker thread *)
(* that hosts the session (worker/agent-worker.ts): two FIFO channels,     *)
(* requests correlated by their identifiers, a pause that settles its      *)
(* request before the operation has ended, the death of the thread, and    *)
(* the shutdown with its bounded wait.                                     *)
(***************************************************************************)
EXTENDS Naturals, Sequences

CONSTANT MaxRequests  \* bound: requests, the init and the shutdown included

ProxyAssumption == MaxRequests \in Nat \ {0, 1}

RequestIds == 1..MaxRequests

VARIABLES
    what,      \* the type of each request, in the order of the calls
    promise,   \* how the promise of each request stands
    pending,   \* the requests the proxy waits for
    pause,     \* is pauseRequest set?
    shutdown,  \* where shutdown() is; disposed is shutdown # "none"
    timer,     \* its timer runs
    toWorker, toProxy,  \* the channels
    alive,     \* the thread
    agent,     \* the session of the thread
    job,       \* its operation, or 0
    paused     \* does its graph wait for the user?

proxyVars == <<what, promise, pending, pause, shutdown, timer, toWorker, toProxy, alive, agent, job, paused>>

TypeOK ==
    /\ what \in Seq({"init", "send", "resume", "shutdown"}) /\ Len(what) \in RequestIds
    /\ promise \in [1..Len(what) -> {"open", "resolved", "rejected"}]
    /\ pending \subseteq 1..Len(what)
    /\ pause \in BOOLEAN /\ timer \in BOOLEAN /\ alive \in BOOLEAN /\ paused \in BOOLEAN
    /\ shutdown \in {"none", "waiting", "terminate", "over"}
    /\ agent \in {"none", "starting", "ready", "failed", "disposing", "closed"}
    /\ job \in 0..Len(what)

Init ==
    /\ what = <<"init">> /\ promise = <<"open">> /\ pending = {1}
    /\ pause = FALSE /\ shutdown = "none" /\ timer = FALSE
    /\ toWorker = <<1>> /\ toProxy = <<>>
    /\ alive = TRUE /\ agent = "none" /\ job = 0 /\ paused = FALSE

thread == <<alive, agent, job, paused>>
closing == <<shutdown, timer>>

Settle(set, how) == [r \in DOMAIN promise |-> IF r \in set THEN how ELSE promise[r]]

\* rejectAll. The reaction of shutdown to its own rejected request stops the timer and
\* leaves its wait unsettled.
RejectAll ==
    /\ promise' = Settle(pending, "rejected") /\ pending' = {}
    /\ timer' = IF \E r \in pending : what[r] = "shutdown" THEN FALSE ELSE timer

-----------------------------------------------------------------------------
Request(type) ==
    /\ Len(what) < MaxRequests
    /\ what' = Append(what, type)
    /\ toWorker' = Append(toWorker, Len(what) + 1)

\* sendMessage and resumeWithHumanInput, unless the proxy is busy or shut down.
startRequest(type) ==
    /\ shutdown = "none" /\ pending = {}
    /\ type = "resume" => pause
    /\ pause' = IF type = "resume" THEN FALSE ELSE pause
    /\ Request(type)
    /\ promise' = Append(promise, "open") /\ pending' = {Len(what) + 1}
    /\ UNCHANGED <<closing, toProxy, thread>>

\* resumeWithHumanInput clears the pause before the request is refused.
RefuseResume ==
    /\ pause /\ (shutdown # "none" \/ pending # {})
    /\ pause' = FALSE
    /\ UNCHANGED <<what, promise, pending, closing, toWorker, toProxy, thread>>

\* Everything pending is rejected, then the worker is asked to end, within 5 seconds.
BeginShutdown ==
    /\ shutdown = "none"
    /\ Request("shutdown")
    /\ promise' = Append(Settle(pending, "rejected"), "open") /\ pending' = {Len(what) + 1}
    /\ shutdown' = "waiting" /\ timer' = TRUE
    /\ UNCHANGED <<pause, toProxy, thread>>

ShutdownTimesOut ==
    /\ shutdown = "waiting" /\ timer
    /\ pending' = {} /\ timer' = FALSE /\ shutdown' = "terminate"
    /\ UNCHANGED <<what, promise, pause, toWorker, toProxy, thread>>

\* worker.terminate(): the thread exits with a code that is not 0.
Terminate ==
    /\ shutdown = "terminate"
    /\ shutdown' = "over" /\ alive' = FALSE /\ job' = 0
    /\ RejectAll
    /\ UNCHANGED <<what, pause, toWorker, toProxy, agent, paused>>

\* dispatch, by the type of the message. A message of no pending request is dropped.
dispatch ==
    /\ toProxy # <<>> /\ toProxy' = Tail(toProxy)
    /\ LET message == Head(toProxy)
           r == message.request
       IN  IF r \notin pending
           THEN UNCHANGED <<promise, pending, pause, closing>>
           ELSE /\ promise' = Settle({r}, IF message.type = "error" THEN "rejected" ELSE "resolved")
                /\ pending' = pending \ {r}
                /\ pause' = (pause \/ message.type = "human_input_required")
                /\ IF what[r] # "shutdown" THEN UNCHANGED closing
                   ELSE timer' = FALSE /\ shutdown' = IF message.type = "error" THEN "waiting" ELSE "terminate"
    /\ UNCHANGED <<what, toWorker, thread>>

-----------------------------------------------------------------------------
Post(r, type) == toProxy' = Append(toProxy, [request |-> r, type |-> type])

\* The handler of the thread takes a message; handlers run concurrently.
Receive(r) == alive /\ agent # "closed" /\ toWorker # <<>> /\ r = Head(toWorker) /\ toWorker' = Tail(toWorker)

ReceiveInit(r) ==
    /\ Receive(r) /\ what[r] = "init"
    /\ agent' = "starting"
    /\ UNCHANGED <<what, promise, pending, pause, closing, toProxy, alive, job, paused>>

AgentStarts(outcome) ==
    /\ alive /\ agent = "starting" /\ agent' = outcome
    /\ Post(1, IF outcome = "ready" THEN "ready" ELSE "error")
    /\ UNCHANGED <<what, promise, pending, pause, closing, toWorker, alive, job, paused>>

\* The session refuses a second operation, and an answer nobody waits for.
Accepts(r) == agent = "ready" /\ job = 0 /\ (what[r] = "resume" => paused)

ReceiveOperation(r) ==
    /\ Receive(r) /\ what[r] \in {"send", "resume"}
    /\ IF Accepts(r)
       THEN job' = r /\ paused' = FALSE /\ UNCHANGED toProxy
       ELSE Post(r, "error") /\ UNCHANGED <<job, paused>>
    /\ UNCHANGED <<what, promise, pending, pause, closing, alive, agent>>

\* The graph pauses; the operation is still under way.
OperationPauses ==
    /\ alive /\ job # 0 /\ ~paused
    /\ paused' = TRUE /\ Post(job, "human_input_required")
    /\ UNCHANGED <<what, promise, pending, pause, closing, toWorker, alive, agent, job>>

OperationEnds(type) ==
    /\ alive /\ job # 0 /\ type \in {"done", "error"}
    /\ job' = 0 /\ Post(job, type)
    /\ UNCHANGED <<what, promise, pending, pause, closing, toWorker, alive, agent, paused>>

\* dispose aborts the operation and waits for it.
ReceiveShutdown(r) ==
    /\ Receive(r) /\ what[r] = "shutdown"
    /\ agent' = "disposing"
    /\ UNCHANGED <<what, promise, pending, pause, closing, toProxy, alive, job, paused>>

\* The port is closed: no more messages reach the thread, which then exits with code 0.
Disposed ==
    /\ alive /\ agent = "disposing" /\ job = 0
    /\ agent' = "closed" /\ Post(Len(what), "shutting_down")
    /\ UNCHANGED <<what, promise, pending, pause, closing, toWorker, alive, job, paused>>

\* The thread dies of an error that nothing catches.
ThreadDies ==
    /\ alive /\ alive' = FALSE /\ job' = 0
    /\ RejectAll
    /\ UNCHANGED <<what, pause, shutdown, toWorker, toProxy, agent, paused>>

Step ==
    \/ dispatch \/ ShutdownTimesOut \/ Terminate
    \/ \E r \in RequestIds : ReceiveInit(r) \/ ReceiveOperation(r) \/ ReceiveShutdown(r)
    \/ \E outcome \in {"ready", "failed"} : AgentStarts(outcome)
    \/ \E type \in {"done", "error"} : OperationEnds(type)
    \/ Disposed

Next ==
    \/ Step
    \/ \E type \in {"send", "resume"} : startRequest(type)
    \/ RefuseResume \/ BeginShutdown \/ OperationPauses \/ ThreadDies

Spec == Init /\ [][Next]_proxyVars
\* The operations of the session end (its deadline), and the threads go on.
FairSpec == Spec /\ WF_proxyVars(Step)

-----------------------------------------------------------------------------
\* No request that found the thread alive waits for ever: it is answered, refused, or rejected
\* when the thread dies or is shut down.
RequestsSettle == \A r \in RequestIds :
    alive /\ r \in DOMAIN promise /\ what[r] # "shutdown" ~> r \in DOMAIN promise /\ promise[r] # "open"

\* Not so for a request sent after the thread died: the proxy is not disposed, posts it to nobody
\* and waits for it, until it is shut down.
RequestsAlwaysSettle == \A r \in RequestIds :
    r \in DOMAIN promise /\ what[r] # "shutdown" ~> r \in DOMAIN promise /\ promise[r] # "open"

\* Not so if the thread dies before it answers: "A timeout falls through so shutdown can't hang the whole process."
ShutdownEnds == shutdown # "none" ~> shutdown = "over"
=============================================================================
