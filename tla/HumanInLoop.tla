---------------------------- MODULE HumanInLoop ----------------------------
(***************************************************************************)
(* How a tool gets the approval of the user: the confirmation service      *)
(* remembers one request and one decision, the graph pauses before         *)
(* HumanIntervention with the request in its checkpoint, the dialog shows  *)
(* it, and the answer resumes the graph, which calls the same tool again.  *)
(***************************************************************************)
EXTENDS Naturals

CONSTANTS
    Requests,      \* signatures: the hash of title, message and context
    NoRequest,
    MaxCalls,      \* bound: tool calls the model asks for
    MaxDisorders   \* bound: operations that fail, and restarts of the process

ConfirmAssumption ==
    NoRequest \notin Requests /\ MaxCalls \in Nat /\ MaxDisorders \in Nat

VARIABLES
    signature,   \* pendingSignature
    decision,    \* pendingDecision
    source,      \* pendingDecisionSource
    timer,       \* is timeoutTimer running?
    paused,      \* pendingHumanInput in the checkpoint of the graph
    at,          \* where the graph goes on
    call,        \* the tool call of the last message of the model
    op,          \* what the session is doing
    shown,       \* humanInputRequest of the store: the dialog on the screen
    answering,   \* the request the operation under way answers, kept by the dialog
    calls, disorders,   \* counters of the two bounds
    approvals, runs     \* how often an answer of the user approved a request, and its tool ran

service == <<signature, decision, source, timer>>
humanVars == <<service, paused, at, call, op, shown, answering, calls, disorders, approvals, runs>>

TypeOK ==
    /\ {signature, paused, call, shown, answering} \subseteq Requests \cup {NoRequest}
    /\ decision \in {"none", "approved", "denied"} /\ source \in {"none", "user", "timeout"}
    /\ timer \in BOOLEAN
    /\ at \in {"done", "agent", "tools", "intervention", "resumeTools"}
    /\ op \in {"none", "running", "answered"}
    /\ calls \in 0..MaxCalls /\ disorders \in 0..MaxDisorders
    /\ approvals \in [Requests -> Nat] /\ runs \in [Requests -> Nat]

Init ==
    /\ signature = NoRequest /\ decision = "none" /\ source = "none" /\ timer = FALSE
    /\ paused = NoRequest /\ at = "done" /\ call = NoRequest
    /\ op = "none" /\ shown = NoRequest /\ answering = NoRequest
    /\ calls = 0 /\ disorders = 0
    /\ approvals = [r \in Requests |-> 0] /\ runs = [r \in Requests |-> 0]

-----------------------------------------------------------------------------
\* A message starts the graph, or continues it where the last operation left it. The
\* dialog, when there is one, takes the whole screen.
sendMessage ==
    /\ op = "none" /\ shown = NoRequest
    /\ op' = "running"
    /\ IF at = "done"
       THEN /\ at' = "agent" /\ paused' = NoRequest
       ELSE IF at = "intervention"
       THEN /\ at' = "resumeTools" /\ paused' = NoRequest
       ELSE UNCHANGED <<at, paused>>
    /\ UNCHANGED <<service, call, shown, answering, calls, disorders, approvals, runs>>

AgentAsks(r) ==
    /\ op = "running" /\ at = "agent" /\ calls < MaxCalls
    /\ call' = r /\ calls' = calls + 1 /\ at' = "tools"
    /\ UNCHANGED <<service, paused, op, shown, answering, disorders, approvals, runs>>

AgentFinishes ==
    /\ op = "running" /\ at = "agent"
    /\ at' = "done" /\ op' = "none" /\ answering' = NoRequest
    /\ UNCHANGED <<service, paused, call, shown, calls, disorders, approvals, runs>>

\* Faulty variant: the decision survives its use.
ForgetTimer == timer' = FALSE /\ UNCHANGED <<signature, decision, source>>

Forget ==
    /\ signature' = NoRequest /\ decision' = "none" /\ source' = "none" /\ timer' = FALSE

\* requestConfirmation finds the decision of this very request and uses it up. With an
\* approval the tool goes on and runs.
UseDecision ==
    /\ op = "running" /\ at \in {"tools", "resumeTools"}
    /\ signature = call /\ decision # "none"
    /\ runs' = IF decision = "approved" THEN [runs EXCEPT ![call] = @ + 1] ELSE runs
    /\ Forget
    /\ at' = "agent"
    /\ UNCHANGED <<paused, call, op, shown, answering, calls, disorders, approvals>>

\* It finds the request of another tool call: an error, which the model gets as a result.
RefuseSecond ==
    /\ op = "running" /\ at \in {"tools", "resumeTools"}
    /\ signature \notin {NoRequest, call}
    /\ at' = "agent"
    /\ UNCHANGED <<service, paused, call, op, shown, answering, calls, disorders, approvals, runs>>

\* It remembers the request and throws the Command that pauses the graph.
Ask ==
    /\ op = "running" /\ at \in {"tools", "resumeTools"}
    /\ signature \in {NoRequest, call} /\ ~(signature = call /\ decision # "none")
    /\ signature' = call /\ decision' = "none" /\ source' = "none" /\ timer' = TRUE
    /\ paused' = call /\ at' = "intervention"
    /\ UNCHANGED <<call, op, shown, answering, calls, disorders, approvals, runs>>

\* The stream ends at the interrupt; the event with the request opens the dialog.
Pause ==
    /\ op = "running" /\ at = "intervention"
    /\ shown' = paused /\ op' = "none" /\ answering' = NoRequest
    /\ UNCHANGED <<service, paused, at, call, calls, disorders, approvals, runs>>

TimeoutDenies ==
    /\ timer
    /\ decision' = "denied" /\ source' = "timeout" /\ timer' = FALSE
    /\ UNCHANGED <<signature, paused, at, call, op, shown, answering, calls, disorders, approvals, runs>>

\* resolvePendingDecision, for the request of the checkpoint.
Resolvable(a) ==
    /\ paused # NoRequest
    /\ signature \in {NoRequest, paused}
    /\ \/ signature = NoRequest \/ decision = "none"
       \/ source = "timeout" /\ decision = a

\* The user answers the dialog, which closes; a refused answer opens it again.
Answer(a) ==
    /\ op = "none" /\ shown # NoRequest
    /\ IF Resolvable(a)
       THEN /\ approvals' = IF a = "approved" THEN [approvals EXCEPT ![shown] = @ + 1] ELSE approvals
            /\ signature' = paused /\ decision' = a /\ source' = "user"
            /\ timer' = (timer /\ signature = paused /\ source = "timeout")
            /\ op' = "answered" /\ answering' = shown /\ shown' = NoRequest
       ELSE UNCHANGED <<service, op, answering, shown, approvals>>
    /\ UNCHANGED <<paused, at, call, calls, disorders, runs>>

\* updateState as HumanIntervention, then the graph runs on to the resume tools.
ResumeGraph ==
    /\ op = "answered"
    /\ op' = "running" /\ paused' = NoRequest /\ at' = "resumeTools"
    /\ UNCHANGED <<service, call, shown, answering, calls, disorders, approvals, runs>>

\* The operation fails or is cancelled. With a request in the checkpoint it counts as
\* interrupted and shows that request, otherwise the dialog shows its own one again.
OperationFails ==
    /\ op # "none" /\ disorders < MaxDisorders
    /\ shown' = IF op = "running" /\ paused # NoRequest THEN paused ELSE answering
    /\ op' = "none" /\ answering' = NoRequest /\ disorders' = disorders + 1
    /\ UNCHANGED <<service, paused, at, call, calls, approvals, runs>>

\* The process ends; another one resumes the run and shows the request of the checkpoint.
Restart ==
    /\ disorders < MaxDisorders
    /\ Forget
    /\ op' = "none" /\ shown' = paused /\ answering' = NoRequest /\ disorders' = disorders + 1
    /\ UNCHANGED <<paused, at, call, calls, approvals, runs>>

ServiceNext ==
    \/ \E r \in Requests : AgentAsks(r)
    \/ AgentFinishes \/ UseDecision \/ RefuseSecond \/ Ask \/ Pause
    \/ TimeoutDenies \/ ResumeGraph

Next ==
    \/ ServiceNext
    \/ sendMessage \/ \E a \in {"approved", "denied"} : Answer(a)
    \/ OperationFails \/ Restart

Spec == Init /\ [][Next]_humanVars
\* The program and its timers go on; the user need not answer.
FairSpec == Spec /\ WF_humanVars(ServiceNext)

-----------------------------------------------------------------------------
\* A tool that needs approval runs at most as often as the user, with that very request on
\* the screen, said yes: no timeout, retry, failed resume, restart or second request turns
\* into an approval.
RunsAreApproved == \A r \in Requests : runs[r] <= approvals[r]

\* Not so, the timeout sets no decision that anybody waits for: the head comment of
\* human-in-loop.ts says that the timeout denies unanswered requests "so the
\* analysis doesn't stall indefinitely". Every pause of the graph ends.
PausesEnd == at = "intervention" ~> at # "intervention"
=============================================================================
