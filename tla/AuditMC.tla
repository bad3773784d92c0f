------------------------------- MODULE AuditMC -------------------------------
(***************************************************************************)
(* An audit: what it works with and its stages (AuditTools, with values    *)
(* for its constants), and what works on it: the stream of the messages,   *)
(* the session of a swarm, the patches that compete, the graph of the      *)
(* code, the report.                                                       *)
(***************************************************************************)
EXTENDS AuditTools

\* The message blocks of a stream: prose, markup that is closed, begun, and ended, and half a marker.
Texts == {<<"<", "D", "p", "<", "/", "D", "b">>, <<"a", "<", "D", "p">>, <<"p", "<", "/", "D">>, <<"a", "<">>}
Final == {<<"a", "b">>, <<"a", "<", "D", "p", "<", "/", "D">>}
Calls == {<<>>, <<"read", "read", "read">>, <<"read", "write">>, <<"finish_task">>}

\* Tools of the three tiers, and a user who has blocked one of them and allows another.
McpNames == {"nmap", "snapshot", "evaluate"}
TierOf == [t \in McpNames |-> CASE t = "nmap" -> "sensitive" [] t = "snapshot" -> "safe" [] t = "evaluate" -> "dangerous"]
Tiers(first, all, dangerous, confirmed) ==
    [toolTiers |-> [t \in McpNames |-> IF t = "nmap" THEN first ELSE "unset"], serverTier |-> all,
     allowDangerousActions |-> dangerous, requireDangerousConfirmation |-> confirmed, requireSensitiveConfirmation |-> confirmed]
Configured == {Tiers("unset", "unset", FALSE, TRUE), Tiers("blocked", "safe", TRUE, FALSE)}

\* A command of one stage, one of three, one whose text hides a path, and one that is not on the list.
Written(raw, parsed, listed) == [raw |-> raw, parsed |-> parsed, parses |-> TRUE, confined |-> TRUE, listed |-> listed]
Pipelines == {Written({}, {}, <<TRUE, TRUE, TRUE>>), Written({}, {"path"}, <<TRUE>>), Written({"denied"}, {"denied"}, <<TRUE, FALSE>>)}

\* A module whose functions call one another, the same after an edit, and one with two methods of one simple name.
Symb(name, simple, calls) == [name |-> name, simple |-> simple, calls |-> calls]
Modules ==
    {[deps |-> {}, symbols |-> {Symb("s", "s", {"t", "u"}), Symb("t", "t", {"u"}), Symb("u", "u", {"v"}), Symb("v", "v", {})}],
     [deps |-> {}, symbols |-> {Symb("s", "s", {"t", "u"}), Symb("u", "u", {"t"}), Symb("t", "t", {"v"}), Symb("v", "v", {"s"})}],
     [deps |-> {2}, symbols |-> {Symb("w", "w", {"s"}), Symb("A.x", "x", {"v"}), Symb("B.x", "x", {"x"})}]}

\* Two files, each with a function: unrelated, one importing the other, and one of the functions noted as
\* vulnerable and as safe. The findings: a duplicate that is more severe, a flow, and one that is not valid.
Owner == [i \in {"file:a", "file:b", "fn:f", "fn:g"} |-> CASE i = "fn:f" -> "file:a" [] i = "fn:g" -> "file:b" [] OTHER -> "undefined"]
Target(depends, called, noted) ==
    [entities |-> [i \in DOMAIN Owner |-> [file |-> Owner[i], code |-> TRUE, vulnerable |-> noted /\ i = "fn:f",
                                          safe |-> noted /\ i = "fn:f", confident |-> TRUE, doubtful |-> FALSE]],
     edges |-> [contains |-> {<<"file:a", "fn:f">>, <<"file:b", "fn:g">>}, depends_on |-> depends, calls |-> called]]
Indexed == {Target({}, {}, FALSE), Target({<<"file:a", "file:b">>}, {}, FALSE), Target({}, {<<"fn:f", "fn:g">>}, TRUE)}
Finding(key, severity, valid, from, to, known) ==
    [key |-> key, severity |-> severity, valid |-> valid, cwe |-> "CWE-89", source |-> from, sink |-> to,
     ids |-> known, related |-> {}, runs |-> {1}, assumptions |-> {}]
Found == {Finding("k1", 2, TRUE, "a", "b", {}), Finding("k1", 5, TRUE, "", "", {"artifact"}),
          Finding("k2", 5, TRUE, "b", "a", {"artifact"}), Finding("k3", 2, FALSE, "", "", {})}
AllCandidates ==
    [key : {1}, severity : {1}, valid : {TRUE}, cwe : {"CWE-89", "CWE-1"}, source : {"", "fn:f", "file:a"}, sink : {"fn:g", "file:b"},
     ids : {{}, {"fn:f"}, {"file:a"}}, related : {{}}, runs : {{}, {1}}, assumptions : {{}, {1}}]
FileIds == [f \in {"a", "b"} |-> "file:" \o f]

\* Two patches of a file, one of which touches another too; two findings of a file, one of which is in another too.
TouchedBy == [p \in Patches |-> IF p = "p" THEN {1} ELSE {1, 2}]
LocatedIn == [f \in WatchFindings |-> IF f = "f1" THEN {1} ELSE {1, 2}]

VARIABLES role, confident, hunks, patchStep, conflicts, synthesis, patchStatus
VARIABLES whole, toCome, inBlock, said, heard, startedOpen, again, pending, protocol, safeBlock, emitted, streamPrevious, full, finishTask, streamAccepted,
    waiting, seenCalls, seenResults, shownCalls, shownResults, streamResult, blocks, updates
VARIABLES initialized, disposal, awaited, sessionActive, sessionAborted, sessionPc, kind, thread, audit,
    sessionAccepted, sessionCompleted, contents, mission, runCompleted, exported, policy, sessionCalls, faults
VARIABLES source, entities, edges, outbound, inbound, snapshot, graphPc, graphEdits, crashes
VARIABLES mode, ci, failOn, graph, findings, findingIds, rejected, reportConfirmed, reportCompleted, reportPc, files,
    reportStep, report, exit, reportAudits

synthesisVars == <<role, confident, hunks, patchStep, conflicts, synthesis, patchStatus>>
streamVars == <<whole, toCome, inBlock, said, heard, startedOpen, again, pending, protocol, safeBlock, emitted, streamPrevious, full, finishTask,
    streamAccepted, waiting, seenCalls, seenResults, shownCalls, shownResults, streamResult, blocks, updates>>
sessionVars == <<initialized, disposal, awaited, sessionActive, sessionAborted, sessionPc, kind, thread, audit,
    sessionAccepted, sessionCompleted, contents, mission, runCompleted, exported, policy, sessionCalls, faults>>
graphVars == <<source, entities, edges, outbound, inbound, snapshot, graphPc, graphEdits, crashes>>
reportVars == <<mode, ci, failOn, graph, findings, findingIds, rejected, reportConfirmed, reportCompleted, reportPc,
    files, reportStep, report, exit, reportAudits>>
workVars == <<synthesisVars, streamVars, sessionVars, graphVars, reportVars>>
vars == <<toolsVars, workVars>>

Synthesis == INSTANCE PatchSynthesis WITH step <- patchStep, status <- patchStatus, Proposals <- {1, 2},
    Places <- {<<1, 1>>, <<1, 3>>, <<2, 1>>}, Contents <- {"x", "b"}, Exports <- {"b"}, MaxHunks <- 2
Stream == INSTANCE StreamProcessor WITH previous <- streamPrevious, accepted <- streamAccepted,
    result <- streamResult, Blocks <- Texts, Reports <- Final, CallIds <- {"k1", "k2"}, MaxBlocks <- 3,
    MaxUpdates <- 2
Session == INSTANCE AgentSession WITH active <- sessionActive, aborted <- sessionAborted, pc <- sessionPc,
    accepted <- sessionAccepted, completed <- sessionCompleted, calls <- sessionCalls,
    NoCaller <- "none", Swarm <- TRUE, MaxFaults <- 1
Graph == INSTANCE KnowledgeGraph WITH pc <- graphPc, edits <- graphEdits, Contents <- Modules, MaxCrashes <- 1
Report == INSTANCE Reports WITH confirmed <- reportConfirmed, completed <- reportCompleted, pc <- reportPc,
    step <- reportStep, audits <- reportAudits, Injections <- {"CWE-89"}, Candidates <- AllCandidates,
    Findings <- Found, Graphs <- Indexed, FileId <- FileIds, Exporters <- {"ci", "ui"}, MaxBatch <- 2, MaxAudits <- 2

ASSUME AuditAssumption ==
    /\ Elsewhere = {"synthesis", "stream", "session", "graph", "report"}
    /\ Synthesis!SynthesisAssumption /\ Stream!StreamAssumption
    /\ Session!SessionAssumption /\ Graph!KnowledgeGraphAssumption
    /\ Report!ReportsAssumption

Init ==
    /\ ToolsInit
    /\ part # "synthesis" => role = [p \in 1..2 |-> "security_boundaries"] /\ confident = [p \in 1..2 |-> TRUE]
                             /\ hunks = [p \in 1..2 |-> <<[place |-> <<1, 1>>, removes |-> "x"]>>]
    /\ part # "graph" => source = [f \in {1, 2} |-> CHOOSE m \in Modules : TRUE]
    /\ part # "report" => mode = "single" /\ ci = FALSE /\ failOn = 0 /\ graph = Target({}, {}, FALSE)
    /\ Synthesis!Init /\ Stream!Init /\ Session!Init /\ Graph!Init /\ Report!Init

\* The other parts stay as they are.
Others ==
    /\ UNCHANGED toolsVars
    /\ part # "synthesis" => UNCHANGED synthesisVars
    /\ part # "stream" => UNCHANGED streamVars
    /\ part # "session" => UNCHANGED sessionVars
    /\ part # "graph" => UNCHANGED graphVars
    /\ part # "report" => UNCHANGED reportVars

Next ==
    \/ ToolsNext /\ UNCHANGED workVars
    \/ part = "synthesis" /\ Synthesis!Next /\ Others
    \/ part = "stream" /\ Stream!Next /\ Others
    \/ part = "session" /\ Session!Next /\ Others
    \/ part = "graph" /\ Graph!Next /\ Others
    \/ part = "report" /\ Report!Next /\ Others

Spec == Init /\ [][Next]_vars

\* The behaviours about one part.
McpSpec == part = "mcp" /\ Spec
ReportSpec == part = "report" /\ Spec

-----------------------------------------------------------------------------
TypesOK ==
    /\ ToolsTypeOK
    /\ part = "synthesis" => Synthesis!TypeOK
    /\ part = "stream" => Stream!TypeOK
    /\ part = "session" => Session!TypeOK
    /\ part = "graph" => Graph!TypeOK
    /\ part = "report" => Report!TypeOK

\* What an audit tells is so: the report and the exit code follow from the findings, the text that is shown from
\* what the model said, a merged patch from its proposals, and a path from the code; and the session that tells it
\* does one thing at a time.
AuditIsTold ==
    /\ part = "report" => Report!ReportIsSound
    /\ part = "stream" => Stream!StreamIsFaithful
    /\ part = "synthesis" => Synthesis!MergesAreSound
    /\ part = "graph" => Graph!SearchesAreExact
    /\ part = "session" => Session!OperationsAreExclusive

\* Not so.
UnconnectedFlowsAreRejected == Report!UnconnectedFlowsAreRejected
=============================================================================
