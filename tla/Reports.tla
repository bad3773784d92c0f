------------------------------- MODULE Reports -------------------------------
(***************************************************************************)
(* What becomes of the findings of an audit: they pass the verification    *)
(* gates into the report builder (report-builder.ts), one by one as a      *)
(* single agent's audit ends or in batches that a swarm's reporter hands   *)
(* in (agent.ts); the report is exported to three files, by the user or by *)
(* the CI runner, which derives the exit code (ci-runner.ts, ci-exit.ts).  *)
(***************************************************************************)
EXTENDS Gates, Sequences, SequencesExt

CONSTANTS
    Candidates,             \* for the gates alone
    Findings,               \* candidates with also key (what deduplication tells apart), severity and valid
    Graphs,                 \* what the index may have made of the target
    FileId,                 \* the id of each file's entity
    Exporters,              \* "ci" and those of the user
    MaxBatch, MaxAudits     \* bounds

ReportsAssumption ==
    /\ \A f \in Findings : f.severity \in 1..5 /\ f.valid \in BOOLEAN
    /\ "ci" \in Exporters /\ MaxBatch \in Nat /\ MaxAudits \in Nat

VARIABLES
    mode, ci, failOn,       \* of the session: "single" or "swarm"; the least severity that fails CI, 0 for none
    graph,
    findings, findingIds, rejected,   \* of the report builder
    confirmed,              \* what the audits since the last reset confirmed
    completed, pc,          \* auditStatus; "idle", "running" or "settling"
    files,                  \* the report in each format
    step, report,           \* of each export
    exit,                   \* code of the process, -1 while it runs
    audits

reportsVars == <<mode, ci, failOn, graph, findings, findingIds, rejected, confirmed, completed, pc, files, step, report, exit, audits>>

Formats == {"json", "sarif", "markdown"}
None == [of |-> 0, findings |-> <<>>]
ReportedBatches == UNION {[1..n -> Findings] : n \in 1..MaxBatch}

Init ==
    /\ mode \in {"single", "swarm"} /\ ci \in BOOLEAN /\ failOn \in {0, 4} /\ graph \in Graphs
    /\ findings = <<>> /\ findingIds = {} /\ rejected = 0 /\ confirmed = {}
    /\ completed = FALSE /\ pc = "idle" /\ audits = 0 /\ exit = -1
    /\ files = [f \in Formats |-> None]
    /\ step = [e \in Exporters |-> "none"] /\ report = [e \in Exporters |-> None]

TypeOK ==
    /\ graph \in Graphs /\ findings \in Seq([finding : Findings, confidence : 0..1000])
    /\ findingIds \subseteq {f.key : f \in Findings} /\ rejected \in Nat
    /\ pc \in {"idle", "running", "settling"} /\ exit \in {-1, 0, 1, 2}
    /\ step \in [Exporters -> {"none", "json", "sarif", "markdown", "done", "failed"}]
    /\ confirmed \subseteq Findings /\ completed \in BOOLEAN

-----------------------------------------------------------------------------
\* wireVerificationGates: the policy of production.
Production == [code |-> FALSE, flow |-> FALSE, assumptions |-> FALSE, confidence |-> FALSE]

\* addFinding asks the gates about the paths of the source and the sink, and not about their ids.
builder == [findings |-> findings, ids |-> findingIds, rejected |-> rejected]
Verdict(f) == verify(graph, Production, f)
Adds(b, f) == f.valid /\ Verdict(f).canEmit /\ f.key \notin b.ids
addFinding(b, f) ==
    IF Adds(b, f)
    THEN [b EXCEPT !.findings = Append(@, [finding |-> f, confidence |-> Verdict(f).confidence]), !.ids = @ \cup {f.key}]
    ELSE [b EXCEPT !.rejected = @ + 1]

addAll(b, fs) == FoldLeft(addFinding, b, fs)

\* Faulty variant: the keys of a batch that was refused stay.
RolledBackWithoutIds(b, fs) == [b EXCEPT !.ids = addAll(b, fs).ids]

\* addFindingsAtomically: what is left of a batch that is refused.
RolledBack(b, fs) == b
addFindingsAtomically(b, fs) ==
    IF addAll(b, fs).rejected = b.rejected THEN addAll(b, fs) ELSE RolledBack(b, fs)

Becomes(b) == findings' = b.findings /\ findingIds' = b.ids /\ rejected' = b.rejected

session == <<mode, ci, failOn, graph>>
exports == <<files, step, report, exit>>

\* sendMessage: a fresh audit of a single agent resets the builder; a mission of a swarm does not.  CI runs one.
Begin ==
    /\ pc = "idle" /\ audits < (IF ci THEN 1 ELSE MaxAudits) /\ audits' = audits + 1 /\ pc' = "running"
    /\ \/ /\ mode = "single" /\ Becomes([findings |-> <<>>, ids |-> {}, rejected |-> 0])
          /\ confirmed' = {} /\ completed' = FALSE
       \/ /\ mode = "swarm" /\ UNCHANGED <<findings, findingIds, rejected, confirmed, completed>>
    /\ UNCHANGED <<session, exports>>

\* onReportBatch.
onReportBatch(fs) ==
    /\ pc = "running" /\ mode = "swarm"
    /\ Becomes(addFindingsAtomically(builder, fs))
    /\ confirmed' = IF rejected' = rejected /\ findings' # findings THEN confirmed \cup ToSet(fs) ELSE confirmed
    /\ UNCHANGED <<session, exports, completed, pc, audits>>

\* ingestFindings, of findings the workflow validated: no refusal stops it.
ingestFindings(fs) ==
    /\ pc = "running" /\ mode = "single" /\ \A i \in DOMAIN fs : fs[i].valid
    /\ Becomes(addAll(builder, fs)) /\ confirmed' = confirmed \cup ToSet(fs) /\ pc' = "settling"
    /\ UNCHANGED <<session, exports, completed, audits>>

\* The rest of the operation: the artifacts are written and the status is set, or an error is thrown.
Settle ==
    /\ pc = (IF mode = "swarm" THEN "running" ELSE "settling")
    /\ pc' = "idle" /\ completed' \in {completed, TRUE}
    /\ UNCHANGED <<session, exports, findings, findingIds, rejected, confirmed, audits>>
Fail ==
    /\ pc = "running" /\ pc' = "idle"
    /\ UNCHANGED <<session, exports, findings, findingIds, rejected, confirmed, completed, audits>>

-----------------------------------------------------------------------------
\* generateReport: the report is built at once, and its files are written one after another.
generateReport(e) ==
    /\ completed /\ step[e] = "none" /\ (e = "ci") = ci /\ (ci => pc = "idle" /\ exit = -1)
    /\ step' = [step EXCEPT ![e] = "json"]
    /\ report' = [report EXCEPT ![e] = [of |-> audits, findings |-> findings]]
    /\ UNCHANGED <<session, findings, findingIds, rejected, confirmed, completed, pc, files, exit, audits>>

After == [json |-> "sarif", sarif |-> "markdown", markdown |-> "done"]
Write(e) ==
    /\ step[e] \in Formats
    /\ \/ /\ files' = [files EXCEPT ![step[e]] = report[e]] /\ step' = [step EXCEPT ![e] = After[step[e]]]
       \/ /\ step' = [step EXCEPT ![e] = "failed"] /\ UNCHANGED files
    /\ UNCHANGED <<session, findings, findingIds, rejected, confirmed, completed, pc, report, exit, audits>>

\* computeCiExitCode.
triggeringFindings(r) == {i \in DOMAIN r.findings : r.findings[i].finding.severity >= failOn}
computeCiExitCode(r) == IF failOn = 0 \/ triggeringFindings(r) = {} THEN 0 ELSE 1

\* runCiAudit ends: with the code of its report, or with 2 when something failed or no source was inspected.
Exit ==
    /\ ci /\ exit = -1 /\ pc = "idle" /\ audits > 0
    /\ \/ /\ step["ci"] = "done" /\ exit' \in {computeCiExitCode(report["ci"]), 2}
       \/ /\ step["ci"] = "failed" \/ ~completed
          /\ exit' = 2
    /\ UNCHANGED <<session, findings, findingIds, rejected, confirmed, completed, pc, files, step, report, audits>>

Next ==
    \/ Begin \/ Settle \/ Fail \/ Exit
    \/ \E fs \in ReportedBatches : onReportBatch(fs) \/ ingestFindings(fs)
    \/ \E e \in Exporters : generateReport(e) \/ Write(e)

Spec == Init /\ [][Next]_reportsVars

-----------------------------------------------------------------------------
\* The keys the builder remembers are those of its findings, one each, also after batches that were
\* refused half-way; what was confirmed since the last reset is there, under its own key.
BuilderAgrees ==
    /\ findingIds = {findings[i].finding.key : i \in DOMAIN findings} /\ Cardinality(findingIds) = Len(findings)
    /\ \A f \in confirmed : f.key \in findingIds \/ ~Verdict(f).canEmit

\* CI passes only with all three files of one report, with nothing confirmed missing from it, and nothing
\* in it at the threshold.
PassIsDeserved == exit = 0 =>
    /\ \A f \in Formats : files[f] = report["ci"]
    /\ \A f \in confirmed : Verdict(f).canEmit => \E i \in DOMAIN files["json"].findings : files["json"].findings[i].finding.key = f.key
    /\ failOn # 0 => \A i \in DOMAIN files["json"].findings : files["json"].findings[i].finding.severity < failOn

\* More tool runs never lower the confidence, a path that the data-flow gate found is never one the
\* contradiction check calls impossible, and what a stricter policy emits every laxer one emits.
Policies == [code : BOOLEAN, flow : BOOLEAN, assumptions : BOOLEAN, confidence : BOOLEAN]
Stricter(p, q) == \A n \in DOMAIN p : q[n] => p[n]
GatesAgree == (audits = 0 /\ failOn = 0 /\ ~ci) => \A f \in Candidates : LET with(n) == [f EXCEPT !.runs = 1..n] IN
    /\ \A n \in 0..3 : verify(graph, Production, with(n + 1)).confidence >= verify(graph, Production, with(n)).confidence
    /\ (f.cwe \in Injections /\ gateDataFlowPresent(graph, f)) => ~impossibleFlow(graph, f.source, f.sink)
    /\ \A p, q \in Policies : (Stricter(p, q) /\ verify(graph, p, f).canEmit) => verify(graph, q, f).canEmit

ReportIsSound == BuilderAgrees /\ PassIsDeserved /\ GatesAgree

\* Said of the gates, and not so: a flow between files that the graph does not connect is rejected.
UnconnectedFlowsAreRejected == \A i \in DOMAIN findings : LET f == findings[i].finding IN
    f.source # "" /\ f.sink # "" /\ Known(graph, FileId[f.source]) /\ Known(graph, FileId[f.sink])
        => \/ findPaths(graph, FileId[f.source], FileId[f.sink], 10)
           \/ hasCrossFileConnection(graph, FileId[f.source], FileId[f.sink])

\* Not so: a duplicate that is more severe is dropped.
PassMeansNothingSevere == exit = 0 /\ failOn # 0 => \A f \in confirmed : f.severity < failOn
=============================================================================
