---------------------------- MODULE AgentSession ----------------------------
(***************************************************************************)
(* AgentSession (agent.ts): one operation at a time behind an              *)
(* initialization that may still run, its deadline and cancellation, the   *)
(* graph thread it continues or starts afresh, what it ingests into the    *)
(* report, the outcome it records, the export of the report, the change of *)
(* the tool policy, and the disposal.  Steps lie between two awaits.       *)
(***************************************************************************)
EXTENDS Naturals, FiniteSets

CONSTANTS
    Callers,
    NoCaller,
    Swarm,        \* config.swarm.enabled
    MaxCalls,     \* bound: calls of the session
    MaxFaults     \* bound: failures that no abort causes

SessionAssumption ==
    NoCaller \notin Callers /\ Swarm \in BOOLEAN /\ MaxCalls \in Nat /\ MaxFaults \in Nat

VARIABLES
    initialized,  \* the promise of initialize
    disposal,     \* how far dispose is; disposed is disposal # "none"
    awaited,      \* the operation dispose waits for
    active,       \* activeOperation: whose it is
    aborted,      \* the signal of activeOperationController
    pc, kind,     \* where each caller is, and in which method
    thread,       \* the checkpoint of session_main
    audit,        \* the number of audits started so far
    accepted,     \* did the thread report every finding with success?
    completed,    \* auditStatus.completed
    contents,     \* the audits whose findings are in reportBuilder
    mission,      \* the outcome of the mission
    runCompleted, \* completedAt of the run
    exported,     \* the last exported report
    policy,       \* versions of the tool policy and compiled workflow
    calls, faults \* counters of the two bounds

sessionVars == <<initialized, disposal, awaited, active, aborted, pc, kind, thread, audit, accepted,
    completed, contents, mission, runCompleted, exported, policy, calls, faults>>

Operations == {"send", "resume", "restart", "compact"}
Kinds == Operations \cup {"report", "policy"}
OperationSteps ==
    {"begin", "compaction", "compacting", "markActive", "open", "start", "stream", "ingest",
     "recordMission", "recordRun", "restarting"}
Reports == [audits : SUBSET (0..MaxCalls), of : 0..MaxCalls, complete : BOOLEAN]
NoReport == [audits |-> {0}, of |-> 0, complete |-> TRUE]

TypeOK ==
    /\ initialized \in {"pending", "done", "failed"}
    /\ disposal \in {"none", "initialization", "operation", "cleanup", "over"}
    /\ awaited \in Callers \cup {NoCaller} /\ active \in Callers \cup {NoCaller}
    /\ aborted \in BOOLEAN /\ accepted \in BOOLEAN /\ completed \in BOOLEAN /\ runCompleted \in BOOLEAN
    /\ pc \in [Callers -> {"idle", "entered", "saving"} \cup OperationSteps]
    /\ kind \in [Callers -> Kinds]
    /\ thread \in {"none", "running", "paused", "reported"}
    /\ audit \in 0..MaxCalls /\ contents \subseteq 0..MaxCalls
    /\ mission \in {"active", "failed", "completed"}
    /\ exported \in Reports
    /\ policy \in 0..MaxCalls /\ calls \in 0..MaxCalls /\ faults \in 0..MaxFaults

Init ==
    /\ initialized = "pending" /\ disposal = "none" /\ awaited = NoCaller
    /\ active = NoCaller /\ aborted = FALSE
    /\ pc = [c \in Callers |-> "idle"] /\ kind = [c \in Callers |-> "send"]
    \* a new run, or one resumed
    /\ thread \in IF Swarm THEN {"none"} ELSE {"none", "running", "paused", "reported"}
    /\ audit = 0 /\ accepted \in IF thread = "reported" THEN BOOLEAN ELSE {TRUE}
    /\ completed = FALSE /\ contents = {}
    /\ mission = "active" /\ runCompleted = FALSE
    /\ exported = NoReport /\ policy = 0 /\ calls = 0 /\ faults = 0

session == <<initialized, disposal, awaited>>
slot == <<active, aborted>>
work == <<thread, audit, accepted>>
result == <<completed, contents>>
outcome == <<mission, runCompleted>>
bounds == <<calls, faults>>

-----------------------------------------------------------------------------
InitializationSettles(s) ==
    /\ initialized = "pending" /\ s \in {"done", "failed"}
    /\ s = "failed" => disposal # "none" \/ faults < MaxFaults
    /\ initialized' = s
    /\ faults' = IF s = "failed" /\ disposal = "none" THEN faults + 1 ELSE faults
    /\ UNCHANGED <<disposal, awaited, slot, pc, kind, work, result, outcome, exported, policy, calls>>

\* A method is called; everything waits for the initialization first.
Enter(c, k) ==
    /\ pc[c] = "idle" /\ calls < MaxCalls
    /\ pc' = [pc EXCEPT ![c] = "entered"] /\ kind' = [kind EXCEPT ![c] = k]
    /\ calls' = calls + 1
    /\ UNCHANGED <<session, slot, work, result, outcome, exported, policy, faults>>

\* The method of a caller that has returned is forgotten.
Goto(c, step) ==
    /\ pc' = [pc EXCEPT ![c] = step]
    /\ kind' = IF step = "idle" THEN [kind EXCEPT ![c] = "send"] ELSE kind

\* The finally of runOperation: the slot is free again.
Leave(c) ==
    /\ Goto(c, "idle")
    /\ active' = NoCaller /\ aborted' = FALSE

\* Faulty variant: an operation under way is not looked at again.
MayStartUnlessDisposed == disposal = "none"

\* The condition of runOperation, tested after the initialization.
MayStart == disposal = "none" /\ active = NoCaller

FirstStep(k) ==
    CASE k \in {"send", "restart"} -> "begin"
      [] k = "resume"              -> "stream"
      [] k = "compact"             -> "compacting"

runOperation(c) ==
    /\ pc[c] = "entered" /\ kind[c] \in Operations
    /\ initialized = "done" /\ MayStart
    /\ active' = c /\ aborted' = FALSE
    /\ Goto(c, FirstStep(kind[c]))
    /\ UNCHANGED <<session, work, result, outcome, exported, policy, bounds>>

Refused(c) ==
    /\ pc[c] = "entered" /\ initialized # "pending"
    /\ \/ initialized = "failed"
       \/ kind[c] \in Operations /\ ~MayStart
       \/ kind[c] = "policy" /\ active # NoCaller
       \/ kind[c] = "report" /\ ~completed
    /\ Goto(c, "idle")
    /\ UNCHANGED <<session, slot, work, result, outcome, exported, policy, bounds>>

\* missionEngine.beginExecution
beginExecution(c) ==
    /\ pc[c] = "begin"
    /\ mission' = "active"
    /\ Goto(c, IF kind[c] = "send" THEN "compaction" ELSE IF Swarm THEN "restarting" ELSE "open")
    /\ UNCHANGED <<session, slot, work, result, runCompleted, exported, policy, bounds>>

\* maybeCompactContext: below the threshold, or after the summary of the model.
maybeCompactContext(c) ==
    /\ pc[c] = "compaction"
    /\ Goto(c, "markActive")
    /\ UNCHANGED <<session, slot, work, result, outcome, exported, policy, bounds>>

compactContextInternal(c) ==
    /\ pc[c] = "compacting" /\ thread # "paused" /\ ~aborted
    /\ Leave(c)
    /\ UNCHANGED <<session, work, result, outcome, exported, policy, bounds>>

\* artifacts.markActive, then the message is persisted.
markActive(c) ==
    /\ pc[c] = "markActive"
    /\ runCompleted' = FALSE
    /\ Goto(c, "open")
    /\ UNCHANGED <<session, slot, work, result, mission, exported, policy, bounds>>

hasCheckpoint == thread \in {"running", "paused"}

\* Faulty variant: the report keeps what it has.
OnlyStatusForgotten == completed' = FALSE /\ UNCHANGED contents

\* What a fresh start forgets of the last audit.
Forgotten == completed' = FALSE /\ contents' = {}

\* sendSingleAgentMessage before the stream: continue the thread, or forget the last audit.
\* With a swarm nothing is forgotten.
open(c) ==
    /\ pc[c] = "open"
    /\ IF Swarm \/ hasCheckpoint THEN UNCHANGED result ELSE Forgotten
    /\ Goto(c, IF hasCheckpoint /\ ~Swarm THEN "stream" ELSE "start")
    /\ UNCHANGED <<session, slot, work, outcome, exported, policy, bounds>>

\* The graph puts its first checkpoint, or the swarm begins its mission.
start(c) ==
    /\ pc[c] = "start"
    /\ audit' = audit + 1
    /\ thread' = IF Swarm THEN thread ELSE "running"
    /\ Goto(c, "stream")
    /\ UNCHANGED <<session, slot, accepted, result, outcome, exported, policy, bounds>>

\* The swarm reports findings in the course of the mission (onReportBatch).
onReportBatch(c) ==
    /\ Swarm /\ pc[c] = "stream" /\ kind[c] = "send"
    /\ contents' = contents \cup {audit}
    /\ UNCHANGED <<session, slot, pc, kind, work, completed, outcome, exported, policy, bounds>>

\* The stream ends: at a pause, or with the report, whose findings may not all have been
\* accepted. The end of a thread that has already reported is that report.
streamEnds(c) ==
    /\ pc[c] = "stream" /\ ~aborted
    /\ IF Swarm /\ kind[c] = "send"
       THEN UNCHANGED work
       ELSE /\ thread # "none"
            /\ thread' \in IF thread = "reported" THEN {"reported"} ELSE {"paused", "reported"}
            /\ IF thread = "reported" THEN UNCHANGED accepted ELSE accepted' \in BOOLEAN
            /\ UNCHANGED audit
    /\ Goto(c, "ingest")
    /\ UNCHANGED <<session, slot, result, outcome, exported, policy, bounds>>

\* After the checkpoints are pruned: findings, artifacts and the status of the audit.
ingestFindings(c) ==
    /\ pc[c] = "ingest"
    /\ contents' = contents \cup {audit}
    /\ completed' = ((Swarm /\ kind[c] = "send") \/ (thread = "reported" /\ accepted))
    /\ IF completed' THEN Goto(c, "recordMission") /\ UNCHANGED slot ELSE Leave(c)
    /\ UNCHANGED <<session, work, outcome, exported, policy, bounds>>

recordMissionCompletion(c) ==
    /\ pc[c] = "recordMission"
    /\ mission' = "completed" /\ Goto(c, "recordRun")
    /\ UNCHANGED <<session, slot, work, result, runCompleted, exported, policy, bounds>>

markCompleted(c) ==
    /\ pc[c] = "recordRun"
    /\ runCompleted' = TRUE /\ Leave(c)
    /\ UNCHANGED <<session, work, result, mission, exported, policy, bounds>>

\* The swarm verifies again, with no signal; its failure is a result.
restartMission(c) ==
    /\ pc[c] = "restarting"
    /\ Leave(c)
    /\ UNCHANGED <<session, work, result, outcome, exported, policy, bounds>>

\* A step fails, because of the abort or for a reason of its own. From the stream on, a
\* message and a restart record the failure.
Recording == {"open", "start", "stream", "ingest", "recordMission", "recordRun"}
\* Faulty variant: the stream does not get the signal.
AbortSummary(c) == aborted /\ pc[c] \in {"compaction", "compacting"}

AbortHere(c) == aborted /\ pc[c] \in {"compaction", "compacting", "stream"}

OperationFails(c) ==
    /\ pc[c] \in OperationSteps \ {"restarting"}
    /\ AbortHere(c) \/ faults < MaxFaults \/ (pc[c] = "stream" /\ ~Swarm /\ thread = "none")
       \/ (pc[c] \in {"compaction", "compacting"} /\ thread = "paused")
    /\ faults' = IF AbortHere(c) \/ faults = MaxFaults THEN faults ELSE faults + 1
    /\ mission' = IF kind[c] \in {"send", "restart"} /\ pc[c] \in Recording THEN "failed" ELSE mission
    /\ Leave(c)
    /\ UNCHANGED <<session, work, result, runCompleted, exported, policy, calls>>

-----------------------------------------------------------------------------
\* cancelActiveOperation, or the deadline of the operation.
Abort ==
    /\ active # NoCaller /\ ~aborted
    /\ aborted' = TRUE
    /\ UNCHANGED <<session, active, pc, kind, work, result, outcome, exported, policy, bounds>>

dispose ==
    /\ disposal = "none"
    /\ disposal' = "initialization" /\ awaited' = active
    /\ aborted' = (active # NoCaller)
    /\ UNCHANGED <<initialized, active, pc, kind, work, result, outcome, exported, policy, bounds>>

disposeGoesOn ==
    /\ \/ disposal = "initialization" /\ initialized # "pending" /\ disposal' = "operation"
       \/ disposal = "operation" /\ (awaited = NoCaller \/ active # awaited) /\ disposal' = "cleanup"
       \/ disposal = "cleanup" /\ disposal' = "over"
    /\ UNCHANGED <<initialized, awaited, slot, pc, kind, work, result, outcome, exported, policy, bounds>>

\* The status is tested and the report built in one step; the files follow.
generateReport(c) ==
    /\ pc[c] = "entered" /\ kind[c] = "report" /\ initialized = "done" /\ completed
    /\ exported' = [audits |-> contents, of |-> audit, complete |-> Swarm \/ (thread = "reported" /\ accepted)]
    /\ Goto(c, "idle")
    /\ UNCHANGED <<session, slot, work, result, outcome, policy, bounds>>

\* setToolPolicy and setReasoningEffort test the slot, save the configuration, and then
\* compile the workflow again.
setToolPolicy(c) ==
    /\ pc[c] = "entered" /\ kind[c] = "policy" /\ initialized = "done" /\ active = NoCaller
    /\ Goto(c, "saving")
    /\ UNCHANGED <<session, slot, work, result, outcome, exported, policy, bounds>>

recompileWorkflow(c) ==
    /\ pc[c] = "saving"
    /\ policy' = policy + 1 /\ Goto(c, "idle")
    /\ UNCHANGED <<session, slot, work, result, outcome, exported, bounds>>

OperationStep(c) ==
    \/ runOperation(c) \/ Refused(c) \/ beginExecution(c) \/ maybeCompactContext(c)
    \/ compactContextInternal(c) \/ markActive(c) \/ open(c) \/ start(c) \/ streamEnds(c)
    \/ ingestFindings(c) \/ recordMissionCompletion(c) \/ markCompleted(c) \/ restartMission(c)
    \/ OperationFails(c) \/ generateReport(c) \/ setToolPolicy(c) \/ recompileWorkflow(c)

Next ==
    \/ \E s \in {"done", "failed"} : InitializationSettles(s)
    \/ \E c \in Callers : \/ \E k \in Kinds : Enter(c, k)
                          \/ OperationStep(c) \/ onReportBatch(c)
    \/ Abort \/ dispose \/ disposeGoesOn

Spec == Init /\ [][Next]_sessionVars

\* The calls go on, but the model and the tools of a stream or a summary may take for ever:
\* it is the deadline that ends these. The initialization settles.
Prompt == \E c \in Callers :
    /\ pc[c] # "idle" /\ (pc[c] \in {"stream", "compaction", "compacting"} => aborted)
    /\ OperationStep(c)
Settles == \E s \in {"done", "failed"} : InitializationSettles(s)
Fairness == WF_sessionVars(Settles) /\ WF_sessionVars(Abort) /\ WF_sessionVars(Prompt)
FairSpec == Spec /\ Fairness
-----------------------------------------------------------------------------
\* Two calls are never at work together, whatever waits for the initialization, and what the
\* tools use is cleaned up only when no call is at work.
OperationsAreExclusive ==
    /\ \A c, d \in Callers : pc[c] \in OperationSteps /\ pc[d] \in OperationSteps => c = d
    /\ disposal \in {"cleanup", "over"} => \A c \in Callers : pc[c] \notin OperationSteps

\* generateReport: "The audit is incomplete. Finish the reporting stage and resolve rejected
\* findings before exporting a final report." A report is of the last audit alone, which has
\* reported every finding.
ReportsAreComplete == exported.audits = {exported.of} /\ exported.complete

\* Every call returns, even when the model never does.
CallsReturn == \A c \in Callers : pc[c] # "idle" ~> pc[c] = "idle"

\* Not so, the configuration is saved between the test and the change: "Tool configuration cannot change while an agent operation is running."
PolicyIsFixed == [][policy' # policy => active = NoCaller]_policy
=============================================================================
