------------------------------ MODULE AuditTools ------------------------------
(***************************************************************************)
(* What an audit works with: the sandbox, the MCP servers and the commands *)
(* of its tools; the loop in which a worker calls tools; the patches; the  *)
(* watch on the files; the component and the wizard that open a session;   *)
(* the stages that find and confirm.  They meet only where one calls       *)
(* another, so a behaviour is about one of them, part, or about something  *)
(* else.                                                                   *)
(***************************************************************************)
EXTENDS Integers, Sequences, FiniteSets

\* Those of the parts; one that several of them have is the same for them.
CONSTANTS
    Elsewhere,     \* what else a behaviour may be about
    Files, Callers, MaxCalls, MaxEdits, MaxRestarts
CONSTANTS MaxCallbackEntries, MaxCallbacks, MaxBoxFailures, MaxCreates, MaxSyncs
CONSTANTS Offered, Configurations, DefaultTier, Asking, MaxPolls
CONSTANTS Commands, MaxRuns
CONSTANTS Patches, Versions, Touched, Tests
CONSTANTS WatchFindings, LocationsOf, maxBatchSize, MaxChanges, MaxWatchAudits
CONSTANTS Targets, Inits, MaxMounts, MaxMaps
CONSTANTS Batches, ReadOnly, MaxActive, MaxWorkerContext, MaxParallel, MaxWorkerSteps, MaxTasks
CONSTANTS Claims, MaxContext, MaxToolSteps, ExtraInvocations, MaxAudits, MaxReviews
CONSTANTS Providers, Keyless, Embedding, Compatible, WithUrl, InEnvironment, MaxSubmits, MaxWizardFailures, MaxReplacements

VARIABLE part
VARIABLES network, mirage, boxTarget, workspaces, boxPc, boxRunning, mirageRunning, workspaceRoot, mirageLog,
    callbackLog, abandoned, left, creates, boxFailures, syncs
VARIABLES configured, mcpExpertUnsafe, mcpPc, tool, polls, mcpApproved, mcpAborted, initialization, initializer,
    sessionId, server, ready, answer, mcpCalls, mcpRestarts
VARIABLES commandExpertUnsafe, commandPc, command, stages, stderr, unread, expected, stray, timer, commandAborted,
    overflow, spawnError, pipeError, outcome, runs
VARIABLES version, fixPc, fixStatus, fingerprint, testedOn, checkedOn, fixBaseline, fixResult, validations, fixTimers,
    fixDialog, fixApproved, applied, fixEdits
VARIABLES changedPaths, debounce, watchRunning, watchBatch, stopped, watchSession, streaming, watchDialog,
    watchBaseline, watchPrevious, latest, watchDelta, failed, unseen, lost, changes, watchAudits
VARIABLES mounts, owner, generation, ref, hookActive, shutting, hookPc, hookTarget, myOwner, myGeneration, root, mine,
    life, map, cache, maps, content
VARIABLES screen, wizardStep, answers, saves, wizardTimers, cleanup, file, keychain, config, directory, shown,
    wizardTarget, checked, trusted, opened, submits, wizardFailures, wizardRestarts
VARIABLES stageRunning, node, stage, auditRun, stageMessages, iterations, candidates, stageConfirmed, recorded,
    published, suppressed, matches, steps, reviews
VARIABLES loopPc, task, retry, loopStep, history, loopMessages, loopDelta, loopBatch, next, loopRunning, results,
    reserved, interrupted, ids, tasks, loopRestarts

boxVars == <<network, mirage, boxTarget, workspaces, boxPc, boxRunning, mirageRunning, workspaceRoot, mirageLog,
    callbackLog, abandoned, left, creates, boxFailures, syncs>>
mcpVars == <<configured, mcpExpertUnsafe, mcpPc, tool, polls, mcpApproved, mcpAborted, initialization, initializer,
    sessionId, server, ready, answer, mcpCalls, mcpRestarts>>
commandVars == <<commandExpertUnsafe, commandPc, command, stages, stderr, unread, expected, stray, timer,
    commandAborted, overflow, spawnError, pipeError, outcome, runs>>
patchesVars == <<version, fixPc, fixStatus, fingerprint, testedOn, checkedOn, fixBaseline, fixResult, validations,
    fixTimers, fixDialog, fixApproved, applied, fixEdits>>
watchVars == <<changedPaths, debounce, watchRunning, watchBatch, stopped, watchSession, streaming, watchDialog,
    watchBaseline, watchPrevious, latest, watchDelta, failed, unseen, lost, changes, watchAudits>>
hookVars == <<mounts, owner, generation, ref, hookActive, shutting, hookPc, hookTarget, myOwner, myGeneration, root,
    mine, life, map, cache, maps, content>>
wizardVars == <<screen, wizardStep, answers, saves, wizardTimers, cleanup, file, keychain, config, directory, shown,
    wizardTarget, checked, trusted, opened, submits, wizardFailures, wizardRestarts>>
stagesVars == <<stageRunning, node, stage, auditRun, stageMessages, iterations, candidates, stageConfirmed, recorded,
    published, suppressed, matches, steps, reviews>>
loopVars == <<loopPc, task, retry, loopStep, history, loopMessages, loopDelta, loopBatch, next, loopRunning, results,
    reserved, interrupted, ids, tasks, loopRestarts>>
toolsVars == <<part, boxVars, mcpVars, commandVars, patchesVars, watchVars, hookVars, wizardVars, stagesVars, loopVars>>

Box == INSTANCE Sandbox WITH target <- boxTarget, pc <- boxPc, running <- boxRunning, failures <- boxFailures,
    MaxFailures <- MaxBoxFailures
Mcp == INSTANCE McpTools WITH expertUnsafe <- mcpExpertUnsafe, pc <- mcpPc, approved <- mcpApproved,
    aborted <- mcpAborted, calls <- mcpCalls, restarts <- mcpRestarts, Tools <- Offered
Command == INSTANCE CommandPipeline WITH expertUnsafe <- commandExpertUnsafe, pc <- commandPc,
    aborted <- commandAborted
Remedy == INSTANCE Remediation WITH pc <- fixPc, status <- fixStatus, baseline <- fixBaseline, result <- fixResult,
    timers <- fixTimers, dialog <- fixDialog, approved <- fixApproved, edits <- fixEdits
Watch == INSTANCE IncrementalWatch WITH running <- watchRunning, batch <- watchBatch, session <- watchSession, dialog <- watchDialog,
    baseline <- watchBaseline, previous <- watchPrevious, delta <- watchDelta, audits <- watchAudits,
    Findings <- WatchFindings, MaxAudits <- MaxWatchAudits
Hook == INSTANCE SessionHook WITH active <- hookActive, pc <- hookPc, target <- hookTarget
Wizard == INSTANCE Onboarding WITH step <- wizardStep, timers <- wizardTimers, target <- wizardTarget,
    failures <- wizardFailures, restarts <- wizardRestarts, MaxFailures <- MaxWizardFailures
Stages == INSTANCE Pipeline WITH running <- stageRunning, messages <- stageMessages, confirmed <- stageConfirmed
Loop == INSTANCE ToolLoop WITH pc <- loopPc, step <- loopStep, messages <- loopMessages, delta <- loopDelta,
    batch <- loopBatch, running <- loopRunning, restarts <- loopRestarts, MaxContext <- MaxWorkerContext,
    MaxToolSteps <- MaxWorkerSteps

ASSUME ToolsAssumption ==
    /\ Box!SandboxAssumption /\ Mcp!McpAssumption /\ Command!CommandAssumption /\ Remedy!RemediationAssumption
    /\ Watch!WatchAssumption /\ Hook!HookAssumption /\ Wizard!OnboardingAssumption /\ Stages!PipelineAssumption
    /\ Loop!ToolLoopAssumption

\* What a part that the behaviour is not about might begin with does not matter.
ToolsInit ==
    /\ part \in {"box", "mcp", "command", "patches", "watch", "hook", "wizard", "stages", "loop"} \cup Elsewhere
    /\ part # "mcp" => configured = (CHOOSE c \in Configurations : TRUE) /\ mcpExpertUnsafe = FALSE
    /\ part # "command" => commandExpertUnsafe = FALSE
    /\ part # "patches" => fixBaseline = [t \in Tests |-> "pass"]
    /\ part # "watch" => latest = {} /\ watchSession = TRUE
    /\ part # "hook" => hookTarget = [i \in Inits |-> CHOOSE t \in Targets : TRUE]
    /\ part # "wizard" => keychain = [p \in Providers |-> ""]
    /\ part # "stages" => suppressed = {}
    /\ Box!Init /\ Mcp!Init /\ Command!Init /\ Remedy!Init /\ Watch!Init /\ Hook!Init /\ Wizard!Init
    /\ Stages!Init /\ Loop!Init

\* The other parts stay as they are.
OtherTools ==
    /\ UNCHANGED part
    /\ part # "box" => UNCHANGED boxVars
    /\ part # "mcp" => UNCHANGED mcpVars
    /\ part # "command" => UNCHANGED commandVars
    /\ part # "patches" => UNCHANGED patchesVars
    /\ part # "watch" => UNCHANGED watchVars
    /\ part # "hook" => UNCHANGED hookVars
    /\ part # "wizard" => UNCHANGED wizardVars
    /\ part # "stages" => UNCHANGED stagesVars
    /\ part # "loop" => UNCHANGED loopVars

ToolsNext ==
    \/ part = "box" /\ Box!Next /\ OtherTools
    \/ part = "mcp" /\ Mcp!Next /\ OtherTools
    \/ part = "command" /\ Command!Next /\ OtherTools
    \/ part = "patches" /\ Remedy!Next /\ OtherTools
    \/ part = "watch" /\ Watch!Next /\ OtherTools
    \/ part = "hook" /\ Hook!Next /\ OtherTools
    \/ part = "wizard" /\ Wizard!Next /\ OtherTools
    \/ part = "stages" /\ Stages!Next /\ OtherTools
    \/ part = "loop" /\ Loop!Next /\ OtherTools

ToolsSpec == ToolsInit /\ [][ToolsNext]_toolsVars

-----------------------------------------------------------------------------
ToolsTypeOK ==
    /\ part = "box" => Box!TypeOK
    /\ part = "mcp" => Mcp!TypeOK
    /\ part = "command" => Command!TypeOK
    /\ part = "patches" => Remedy!TypeOK
    /\ part = "watch" => Watch!TypeOK
    /\ part = "hook" => Hook!TypeOK
    /\ part = "wizard" => Wizard!TypeOK
    /\ part = "stages" => Stages!TypeOK
    /\ part = "loop" => Loop!TypeOK

\* The tools: the sandbox, the servers and the commands.
ToolsAreSound ==
    /\ part = "box" => Box!SandboxIsSound
    /\ part = "mcp" => Mcp!McpIsSound
    /\ part = "command" => Command!CommandIsSound

\* Patches are applied as validated; and the watch keeps what has changed until it audits it, but for what it
\* loses in the two ways that it knows.
EditsAreSound ==
    /\ part = "patches" => Remedy!PatchesAreValidated
    /\ part = "watch" => Watch!WatchKeepsUp

\* The component lets no session go; the wizard ends with a key it was given, or that of the environment for one
\* that the keychain holds; and no session is opened that the user has not agreed to.
InterfaceIsSound ==
    /\ part = "hook" => Hook!SessionsDoNotLeak
    /\ part = "wizard" => Wizard!OnboardingIsSound

\* What an audit publishes was confirmed by its stages, whatever became of the history they work with.
FindingsAreEarned ==
    part = "stages" => Stages!PublishedIsConfirmed /\ Stages!ResultsHaveRequests /\ Stages!StagesEnd

\* What belongs together stays together: the requests and the results that a worker sends to its model, and the
\* callbacks of a sandbox.
TrafficIsWhole ==
    /\ part = "loop" => Loop!ToolLoopIsSound
    /\ part = "box" => Box!NoCallbackTwice

\* Not so.
ConfiguredTiersApply == Mcp!ConfiguredTiersApply
=============================================================================
