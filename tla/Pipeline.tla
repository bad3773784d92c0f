------------------------------ MODULE Pipeline ------------------------------
(***************************************************************************)
(* The audit graph (graph/workflow.ts) over its state (graph/state.ts):    *)
(* four stages of a model and its tools, a message history that is trimmed *)
(* while the stages count and read what they did in it, the reporter's     *)
(* durable record of claims, suppressions matched once per audit, and the  *)
(* salvage of a report.  A step is a node of the graph, whose writes are   *)
(* checkpointed together or, when it throws, not at all.                   *)
(***************************************************************************)
EXTENDS Naturals, Sequences, FiniteSets, SequencesExt

CONSTANTS
    Claims,          \* finding ids of SAST candidates
    MaxContext,      \* MAX_CONTEXT_MESSAGES
    MaxToolSteps,    \* the tool budget of a stage
    ExtraInvocations,\* what maxStageInvocations allows beyond the budget
    MaxCalls,        \* bound: tool calls in one response
    MaxAudits,       \* bound: audits on the thread
    MaxReviews       \* bound: decisions of the user about false positives

PipelineAssumption ==
    /\ MaxContext \in Nat \ {0, 1}
    /\ {MaxToolSteps, MaxCalls, MaxAudits} \subseteq Nat \ {0}
    /\ {ExtraInvocations, MaxReviews} \subseteq Nat

AuditStages == <<"codebase_intelligence", "sast_audit", "devils_advocate", "reporting">>
Stages == Range(AuditStages)
MaxInvocations == MaxToolSteps + ExtraInvocations

VARIABLES
    running,     \* is an operation running the graph?
    node,        \* the next node: the agent of the stage, its tools, or the end
    stage,       \* activeStage
    auditRun,    \* auditRunId
    messages,
    iterations,  \* stageIterations
    candidates,  \* of sastAudit
    confirmed,   \* the CONFIRMED verdicts of devilsAdvocate
    recorded,    \* recordedClaims: the call id of each recorded claim
    published,   \* pipelineReport and pipelineFindings
    suppressed,  \* the claims an active false-positive decision matches
    matches,     \* suppressionMatchesByRun of this audit, kept in memory
    steps,       \* tool steps the stage has really taken in this operation
    reviews      \* counter of the bound

pipelineVars == <<running, node, stage, auditRun, messages, iterations, candidates, confirmed,
    recorded, published, suppressed, matches, steps, reviews>>

NoMatches == [known |-> FALSE, claims |-> {}]
Unpublished == [kind |-> "none", findings |-> [c \in Claims |-> 0]]

\* The calls of a response: look at evidence, report a claim, finish the task.
Calls == [tool : {"look", "finish_task"}] \cup [tool : {"report_finding"}, claim : Claims]
Messages ==
    [type : {"human", "text"}, run : 0..MaxAudits, stage : Stages]
      \cup [type : {"ask"}, run : 0..MaxAudits, stage : Stages, id : Nat, calls : Seq(Calls)]
      \cup [type : {"result"}, run : 0..MaxAudits, stage : Stages, id : Nat, of : Calls, ok : BOOLEAN]

TypeOK ==
    /\ running \in BOOLEAN /\ node \in {"agent", "tools", "end"} /\ stage \in Stages
    /\ auditRun \in 0..MaxAudits /\ \A i \in DOMAIN messages : messages[i] \in Messages
    /\ iterations \in [Stages -> 0..MaxInvocations]
    /\ candidates \subseteq Claims /\ confirmed \subseteq candidates
    /\ \E set \in SUBSET confirmed : recorded \in [set -> Nat]
    /\ published \in [kind : {"none", "final", "salvaged"}, findings : [Claims -> 0..2]]
    /\ suppressed \subseteq Claims /\ matches \in [known : BOOLEAN, claims : SUBSET Claims]
    /\ steps \in 0..MaxInvocations + 1 /\ reviews \in 0..MaxReviews

NoRecord == [c \in {} |-> 0]

Init ==
    /\ running = FALSE /\ node = "end" /\ stage = "reporting" /\ auditRun = 0 /\ messages = <<>>
    /\ iterations = [s \in Stages |-> 0]
    /\ candidates = {} /\ confirmed = {} /\ recorded = NoRecord
    /\ published = Unpublished
    /\ suppressed \in SUBSET Claims /\ matches = NoMatches
    /\ steps = 0 /\ reviews = 0

-----------------------------------------------------------------------------
\* The history of messages

OwnsCall(parent, message) == parent.type = "ask" /\ message.type = "result" /\ parent.id = message.id

IsCoherent(ms) == \A i \in DOMAIN ms : ms[i].type = "result" => \E p \in 1..i - 1 : OwnsCall(ms[p], ms[i])

\* trimContextMessages: the first message and the longest admissible suffix, which starts no
\* later than the limit asks for and with no result whose request lies before it.
SuffixIsClosed(ms, start) ==
    \A i \in start..Len(ms), p \in 2..start - 1 : ~OwnsCall(ms[p], ms[i])

trimContextMessages(ms) ==
    IF Len(ms) <= MaxContext THEN ms
    ELSE LET latest == Len(ms) - MaxContext + 2
             start == Max({k \in 1..latest : k = 1 \/ SuffixIsClosed(ms, k)})
             HasRequest(m) == \E i \in {1} \cup start..Len(ms) : OwnsCall(ms[i], m)
             recent == FoldLeft(LAMBDA kept, m : IF m.type = "result" /\ ~HasRequest(m) THEN kept ELSE Append(kept, m),
                                <<>>, SubSeq(ms, start, Len(ms)))
         IN  IF start = 1 THEN recent ELSE <<ms[1]>> \o recent

\* The reducer of the messages channel.
Appended(new) == messages' = trimContextMessages(messages \o new)

\* Where the messages of the stage are in the history.
IsOfStage(m) == m.run = auditRun /\ m.stage = stage
getStageHistory == {i \in DOMAIN messages : IsOfStage(messages[i])}
stageToolSteps == Cardinality({i \in getStageHistory : messages[i].type = "ask"})
stageUsedTools == \E i \in getStageHistory : messages[i].type = "result" /\ messages[i].ok

\* nextIterations: the count of this invocation.
NextCount == IF getStageHistory = {} THEN 1 ELSE iterations[stage] + 1

Counted == iterations' = [iterations EXCEPT ![stage] = NextCount]

\* ensureUniqueToolCallIds: an id that no call of the history has, as soon as possible one that
\* a call had which is trimmed by now.
NextId == Min({id \in 1..Len(messages) + 1 : \A i \in DOMAIN messages : messages[i].type = "ask" => messages[i].id # id})

Ask(id, calls) == [type |-> "ask", run |-> auditRun, stage |-> stage, id |-> id, calls |-> calls]
Text == [type |-> "text", run |-> auditRun, stage |-> stage]
Human(run) == [type |-> "human", run |-> run, stage |-> "reporting"]

-----------------------------------------------------------------------------
\* The session (agent.ts): a fresh audit, or the thread goes on where it stopped.
StartAudit ==
    /\ ~running /\ node = "end" /\ auditRun < MaxAudits
    /\ running' = TRUE /\ node' = "agent" /\ stage' = AuditStages[1]
    /\ auditRun' = auditRun + 1
    /\ messages' = trimContextMessages(Append(messages, Human(auditRun + 1)))
    /\ iterations' = [s \in Stages |-> 0]
    /\ candidates' = {} /\ confirmed' = {} /\ recorded' = NoRecord
    /\ published' = Unpublished /\ matches' = NoMatches /\ steps' = 0
    /\ UNCHANGED <<suppressed, reviews>>

work == <<auditRun, candidates, confirmed, recorded, published>>

\* Another process has an empty cache of matches; a long history is compacted first.
Continue ==
    /\ ~running /\ node # "end"
    /\ running' = TRUE
    /\ matches' \in {matches, NoMatches}
    /\ messages' \in IF Len(messages) < 3 \/ node = "tools" THEN {messages} ELSE {messages, <<Human(0)>>}
    /\ steps' = 0
    /\ UNCHANGED <<node, stage, iterations, work, suppressed, reviews>>

\* A node throws, or the operation is aborted.
NodeFails ==
    /\ running /\ node # "end"
    /\ running' = FALSE
    /\ UNCHANGED <<node, stage, messages, iterations, work, suppressed, matches, steps, reviews>>

\* The user approves or revokes a false-positive decision at any time.
Review(c) ==
    /\ reviews < MaxReviews /\ reviews' = reviews + 1
    /\ suppressed' = IF c \in suppressed THEN suppressed \ {c} ELSE suppressed \cup {c}
    /\ UNCHANGED <<running, node, stage, messages, iterations, work, matches, steps>>

-----------------------------------------------------------------------------
Agent == running /\ node = "agent"
Investigating == Agent /\ stage # "reporting"

\* The stage asks for tools. At the end of its budget, as far as the history shows, the tools
\* are not even bound, and a call that comes nevertheless is an error (NodeFails).
InvestigationAsks(calls) ==
    /\ Investigating
    /\ stageToolSteps < MaxToolSteps /\ NextCount <= MaxInvocations
    /\ Appended(<<Ask(NextId, calls)>>) /\ Counted
    /\ node' = "tools"
    /\ steps' = Min({steps + 1, MaxInvocations + 1})
    /\ matches' = IF stage = "devils_advocate" /\ ~matches.known THEN [known |-> TRUE, claims |-> suppressed]
                  ELSE matches
    /\ UNCHANGED <<running, stage, work, suppressed, reviews>>

HandoffCounts == NextCount <= MaxInvocations
NextStage == AuditStages[CHOOSE i \in 2..4 : AuditStages[i - 1] = stage]

\* A handoff that is valid, at once or after a repair, moves the pipeline on.
HandsOver ==
    /\ Investigating /\ HandoffCounts /\ Counted
    /\ \E repaired \in {<<>>, <<Text>>} : Appended(<<Text>> \o repaired)
    /\ stage' = NextStage /\ steps' = 0
    /\ UNCHANGED <<running, node, auditRun, recorded, published, suppressed, reviews>>

CodebaseHandoff ==
    /\ stage = "codebase_intelligence" /\ stageUsedTools /\ HandsOver
    /\ UNCHANGED <<candidates, confirmed, matches>>

SastHandoff(found) ==
    /\ stage = "sast_audit" /\ stageUsedTools /\ HandsOver
    /\ candidates' = found
    /\ UNCHANGED <<confirmed, matches>>

\* One verdict for each candidate; those that a decision matches are dismissed, whatever the
\* verdict. The decisions are those of the first invocation in this process.
DevilsAdvocateHandoff(convinced) ==
    /\ stage = "devils_advocate" /\ HandsOver
    /\ matches' = IF matches.known THEN matches ELSE [known |-> TRUE, claims |-> suppressed]
    /\ confirmed' = (convinced \cap candidates) \ matches'.claims
    /\ UNCHANGED candidates

\* The tools of the stage; a tool of the reporter fails or refuses what is not well-formed.
Tools(ok) ==
    /\ running /\ node = "tools"
    /\ LET ask == Last(messages)
           result(i) == [type |-> "result", run |-> auditRun, stage |-> stage,
                         id |-> ask.id, of |-> ask.calls[i], ok |-> ok[i]]
       IN  /\ DOMAIN ok = DOMAIN ask.calls
           /\ Appended([i \in DOMAIN ask.calls |-> result(i)])
    /\ node' = "agent"
    /\ UNCHANGED <<running, stage, iterations, work, suppressed, matches, steps, reviews>>

-----------------------------------------------------------------------------
\* reporterEvidence: what the history shows beyond the durable record. The findings are those
\* of the record and one for every call that adds a claim to it.
Succeeded(m, tool) == IsOfStage(m) /\ m.type = "result" /\ m.ok /\ m.of.tool = tool

\* Faulty variant: whether the claim is recorded already is not looked at.
acceptCallAgain(evidence, call) ==
    IF ~Succeeded(call, "report_finding") \/ call.of.claim \notin confirmed
    THEN evidence
    ELSE [claims |-> [c \in DOMAIN evidence.claims \cup {call.of.claim} |->
                        IF c = call.of.claim THEN call.id ELSE evidence.claims[c]],
          findings |-> [evidence.findings EXCEPT ![call.of.claim] = IF @ = 2 THEN 2 ELSE @ + 1]]

acceptReportCall(evidence, call) ==
    IF \/ ~Succeeded(call, "report_finding")
       \/ call.of.claim \notin confirmed \/ call.of.claim \in DOMAIN evidence.claims
    THEN evidence
    ELSE [claims |-> [c \in DOMAIN evidence.claims \cup {call.of.claim} |->
                        IF c = call.of.claim THEN call.id ELSE evidence.claims[c]],
          findings |-> [evidence.findings EXCEPT ![call.of.claim] = @ + 1]]

reporterEvidence == FoldLeft(acceptReportCall,
    [claims |-> recorded, findings |-> [c \in Claims |-> IF c \in DOMAIN recorded THEN 1 ELSE 0]],
    messages)

completionSucceeded ==
    /\ \E i \in DOMAIN messages : Succeeded(messages[i], "finish_task")
    /\ confirmed \subseteq DOMAIN reporterEvidence.claims

Publish(kind, findings) ==
    /\ published' = [kind |-> kind, findings |-> findings]
    /\ node' = "end" /\ running' = FALSE /\ Appended(<<Text>>)

Reporting == Agent /\ stage = "reporting"

\* The response asks for tools and the task is not finished yet.
ReporterAsks(calls) ==
    /\ Reporting
    /\ stageToolSteps < MaxToolSteps /\ NextCount <= MaxInvocations /\ ~completionSucceeded
    /\ Appended(<<Ask(NextId, calls)>>) /\ Counted
    /\ recorded' = reporterEvidence.claims
    /\ node' = "tools" /\ steps' = Min({steps + 1, MaxInvocations + 1})
    /\ UNCHANGED <<running, stage, auditRun, candidates, confirmed, published, suppressed, matches, reviews>>

\* The final report, once everything is recorded and finish_task has succeeded.
FinalReport ==
    /\ Reporting /\ NextCount <= MaxInvocations /\ completionSucceeded
    /\ Counted /\ recorded' = reporterEvidence.claims
    /\ Publish("final", reporterEvidence.findings)
    /\ UNCHANGED <<stage, auditRun, candidates, confirmed, suppressed, matches, steps, reviews>>

\* salvageReporting: the invocations are used up, the reporter returns prose too early or
\* nothing, or it calls tools after it has finished. The host builds the findings itself, and
\* leaves out what does not make a valid one.
salvageReporting(valid) ==
    /\ Reporting
    /\ iterations' = IF NextCount > MaxInvocations THEN iterations
                     ELSE [iterations EXCEPT ![stage] = NextCount]
    /\ recorded' = [c \in confirmed \cap valid |-> 0]
    /\ Publish("salvaged", [c \in Claims |-> IF c \in confirmed \cap valid THEN 1 ELSE 0])
    /\ UNCHANGED <<stage, auditRun, candidates, confirmed, suppressed, matches, steps, reviews>>

-----------------------------------------------------------------------------
CallSeqs(tools) == UNION {[1..n -> tools] : n \in 1..MaxCalls}
ReporterCalls == [tool : {"finish_task"}] \cup [tool : {"report_finding"}, claim : Claims]

Step ==
    \/ \E calls \in CallSeqs([tool : {"look"}]) : InvestigationAsks(calls)
    \/ \E calls \in CallSeqs(ReporterCalls) : ReporterAsks(calls)
    \/ CodebaseHandoff
    \/ \E set \in SUBSET Claims :
        SastHandoff(set) \/ DevilsAdvocateHandoff(set) \/ salvageReporting(set)
    \/ \E ok \in UNION {[1..n -> BOOLEAN] : n \in 1..MaxCalls} : Tools(ok)
    \/ FinalReport \/ NodeFails

Next == Step \/ StartAudit \/ Continue \/ \E c \in Claims : Review(c)

Spec == Init /\ [][Next]_pipelineVars

-----------------------------------------------------------------------------
\* What is published is right: a final report has every confirmed claim exactly once, a
\* salvaged one none but confirmed claims, and neither has a claim that the decisions this
\* audit was matched with suppress, whatever was trimmed, reported twice, refused or retried.
PublishedIsConfirmed ==
    /\ published.kind = "final" => \A c \in Claims : published.findings[c] = IF c \in confirmed THEN 1 ELSE 0
    /\ \A c \in Claims : published.findings[c] > 0 => c \in confirmed /\ c \notin matches.claims

\* Providers refuse a tool result without its request: no history ever holds one.
ResultsHaveRequests == IsCoherent(messages)

\* No operation runs for ever, whatever the model asks for: trimming hides steps from the tool
\* budget of a stage, but its invocations are counted outside the history.
StagesEnd == steps <= MaxInvocations

\* Not so after a compaction, or with an extra invocation: "Behavioral checks ... must keep
\* calling getStageHistory directly so trimming never hides real activity from them": a stage stays within its tool budget.
BudgetHolds == steps <= MaxToolSteps
=============================================================================
