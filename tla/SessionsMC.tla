----------------------------- MODULE SessionsMC -----------------------------
(***************************************************************************)
(* A session, the approvals of the user within one, and the worker thread  *)
(* that may host one.  A behaviour is about one of them, part.             *)
(***************************************************************************)
EXTENDS Naturals

CONSTANTS Callers, NoCaller, Swarm, MaxCalls, MaxFaults
CONSTANTS Requests, NoRequest, MaxToolCalls, MaxDisorders
CONSTANT MaxRequests

VARIABLE part
VARIABLES initialized, disposal, awaited, active, aborted, pc, kind, thread, audit, accepted,
    completed, contents, mission, runCompleted, exported, policy, calls, faults
VARIABLES signature, decision, source, timeout, paused, at, call, op, shown, answering,
    toolCalls, disorders, approvals, runs
VARIABLES what, promise, pending, pause, shutdown, timer, toWorker, toProxy, alive, agent, job, waiting

sessionVars == <<initialized, disposal, awaited, active, aborted, pc, kind, thread, audit, accepted,
    completed, contents, mission, runCompleted, exported, policy, calls, faults>>
humanVars == <<signature, decision, source, timeout, paused, at, call, op, shown, answering,
    toolCalls, disorders, approvals, runs>>
proxyVars == <<what, promise, pending, pause, shutdown, timer, toWorker, toProxy, alive, agent, job, waiting>>

Session == INSTANCE AgentSession
Human == INSTANCE HumanInLoop WITH calls <- toolCalls, timer <- timeout, MaxCalls <- MaxToolCalls
Proxy == INSTANCE WorkerProxy WITH paused <- waiting

ASSUME SessionsAssumption == Session!SessionAssumption /\ Human!ConfirmAssumption /\ Proxy!ProxyAssumption

Init ==
    /\ part \in {"session", "human", "proxy"}
    /\ Session!Init /\ Human!Init /\ Proxy!Init
    /\ part # "session" => thread = "none" /\ accepted

Next ==
    \/ part = "session" /\ Session!Next /\ UNCHANGED <<part, humanVars, proxyVars>>
    \/ part = "human" /\ Human!Next /\ UNCHANGED <<part, sessionVars, proxyVars>>
    \/ part = "proxy" /\ Proxy!Next /\ UNCHANGED <<part, sessionVars, humanVars>>

Spec == Init /\ [][Next]_<<part, sessionVars, humanVars, proxyVars>>

\* The fairness of each part, in the behaviours that are about it.
Fairness ==
    /\ WF_sessionVars(part = "session" /\ Session!Settles)
    /\ WF_sessionVars(part = "session" /\ Session!Abort)
    /\ WF_sessionVars(part = "session" /\ Session!Prompt)
    /\ WF_proxyVars(part = "proxy" /\ Proxy!Step)
FairSpec == Spec /\ Fairness

TypesOK == Session!TypeOK /\ Human!TypeOK /\ Proxy!TypeOK
RunsAreApproved == Human!RunsAreApproved
OperationsAreExclusive == Session!OperationsAreExclusive
ReportsAreComplete == Session!ReportsAreComplete
\* Every call of the session returns, and so does a request that the worker thread hosts, if
\* the thread was alive when the proxy took it.
CallsReturn == (part = "session" => Session!CallsReturn) /\ (part = "proxy" => Proxy!RequestsSettle)
=============================================================================
