# A verification of Shadow Auditor

Shadow Auditor is an autonomous code auditor: a command line and terminal
interface in front of LangGraph pipelines and a swarm of agents that read a
repository, record claims and findings, challenge them, propose patches and
write reports. Language models decide what to do next. What has to be right
whatever they decide is the code around them: budgets, durable state, task
scheduling, votes, confirmations, cancellation and recovery. That code is what
these modules model, check and prove.

Paths in this file are relative to the repository (`src/core/...` is the
implementation, `test/...` the tests). The modules and `PROJECT.json` prefix them
with `src/`, the directory that holds the repository.

## Inventory

| Part | State it keeps | Operations | Talks to | Hard behaviours | What makes it correct |
|---|---|---|---|---|---|
| Mission engine (`core/orchestrator/mission-engine.ts`, `mission-runtime.ts`) | mission state with budget and reservations, started and completed stages, checkpoint file, event log | reserve and charge a model invocation, reserve and release tool calls, stage and outcome records, new mission, restore | workers and pipeline call it through `MissionRuntimeObserver`; it calls checkpoints and the event store | concurrent workers, failures of either file between two awaited steps, crashes anywhere | budget never oversubscribed, usage charged once, no replay of interrupted calls, one outcome per mission |
| Mission phases (`mission-state.ts`, `transitions.ts`, loop of `mission-engine.ts`) | phase, hypotheses, queued actions | transition, step, run | mission engine | budget exhaustion in the middle of a phase | only allowed transitions, the loop ends |
| Checkpoints (`checkpoints.ts`), graph checkpoint saver (`checkpoint-saver.ts`) | files, retention | save, load newest, prune | mission engine, swarm, LangGraph | half-written pairs of files, equal timestamps | the newest complete state is restored |
| Event store (`memory/event-store.ts`), atomic writes (`utils/fs-atomic.ts`) | append-only log, lock files, rename journals | append, read, repair; atomic replace with recovery | everything durable | torn tails, stale locks stolen from a live holder, a crash between two renames | nothing acknowledged is lost, one writer |
| Task graph (`hivemind/task-graph.ts`) | tasks, status index, dependents | create, claim, start, complete, fail, cancel, release, reset, import | supervisor, blackboard snapshot | releases and retries racing late completions | index agrees with the tasks, dependencies respected |
| Blackboard and consensus (`blackboard.ts`, `consensus.ts`, `evidence-tracker.ts`) | claims, contests, votes, proposals, entries, versions | add, verify, contest, propose, vote, expire, snapshot | workers through tools; supervisor | votes in any order, expiry, late verdicts after a decision | a decision needs its quorum and stands; no agent votes twice or on its own claim |
| Swarm (`swarm-supervisor.ts`, `swarm-coordinator.ts`, `agent-worker.ts`) | plan, workers, assignments, rounds | plan, spawn, dispatch, execute, evaluate, checkpoint, resume | task graph, blackboard, mission engine, models | parallel workers, a worker that dies, stale tasks, resume after a crash | every run ends, a report is made only from finished work |
| Audit pipeline (`graph/workflow.ts`, `graph/state.ts`, artifacts, working memory) | stage, iterations, messages, artifacts | agent and tool nodes per stage, repair turns, finish | mission engine, tools, models | batches that mix confirmed and other tools, retries, loop limits | stages in order with valid hand-offs, bounded turns |
| Agent session, stream processor (`agent.ts`, `stream-processor.ts`) | active operation, abort signal, thread | start, abort, resume, recover | pipeline, swarm, UI | abort racing completion, resume of an interrupt | one operation at a time, an abort is final |
| Human in the loop (`utils/human-in-loop.ts`, `ui/store/confirmSlice.ts`) | queue of confirmations, timers | ask, answer, time out, cancel | tools, UI | a timeout racing an answer | every question is answered once, silence denies |
| Patch competition, remediation (`orchestrator/patch-*.ts`, `remediation/`) | candidates, conflicts, attempts | detect, verify, synthesize; patch, test, roll back | swarm, file system | a failed test after a partial write | what is applied is free of conflicts or is rolled back |
| DAST sandbox (`dast/`) | containers, callbacks, evidence | start, execute, stop, expire | container runtime | timeouts during start or stop | no container outlives its session |
| Verification gates, planner, findings (`verify/`, `planner/`, `output/`) | none | pure algorithms | reporting | boundaries of scores and counts | agree with their definition |
| Policies, tool execution (`policy/`, `services/`, `tools/`) | audit log, allow lists | check, run, retry | tools, MCP servers | cancellation, partial batches | nothing runs that was denied, a result per call |
| Memory (`memory/`) | knowledge graph, vectors, false positives | index, update, search, learn | file system, embedding services | files changed during an update, two writers | index agrees with the files |
| Worker proxy, MCP manager, watch, licensing, run artifacts | requests in flight, processes, timers | call, reply, exit, refresh | threads, child processes, clock | exit with requests pending | every request settles |

`PROJECT.json` lists every part as a component, with the status of its model,
and under `hazards` what is hard to test in it, line by line.

## How the modules fit together

```
DurableFile <- FsAtomic, Checkpoints            (each implements it)
FsAtomic, EventStore, Checkpoints, GraphCheckpoints, SemanticIndex,
EvidenceStore, FalsePositives, Transcript, Licence            <- StorageMC
AgentSession, HumanInLoop, WorkerProxy                        <- SessionsMC
Sandbox, McpTools, CommandPipeline, Remediation, IncrementalWatch,
SessionHook, Onboarding, Pipeline, ToolLoop   <- AuditTools <- AuditMC, AuditToolsProofs
Gates <- Reports
StreamProcessor, AgentSession, KnowledgeGraph, Reports,
PatchSynthesis                                                <- AuditMC
Mission     <- MissionMC, MissionProofs
TaskStates  <- TaskGraph <- TaskGraphProofs
            <- Swarm     <- SwarmMC, SwarmProofs
Claims      <- ClaimsProofs
StorageMC   <- StorageProofs <- SharedFilesProofs
SessionsMC  <- SessionsProofs
```

`TaskStates` has one operator for what each method of class `TaskGraph` does to
the tasks. `TaskGraph` adds the indexes of the class and lets any caller call any
method; `Swarm` composes the same operators into the nodes of the supervisor.
`Mission` is what the workers of the swarm and the tool nodes of the pipeline
reserve from; they are joined only through the observer interface, so `Mission`
lets its clients call in any order, and `Swarm` and `Pipeline` let a task or a
batch end in any way. `Claims` is the part of the blackboard that workers share
besides the tasks. `Mission` in turn assumes of its files what `EventStore` and
`Checkpoints` show: an acknowledged event is read back, and a restart loads the
last checkpoint that was acknowledged or one begun after it.

`MissionMC` and `SwarmMC` only give values to constants that a `.cfg` cannot write.
`StorageMC`, `SessionsMC`, `AuditTools` and `AuditMC` gather modules
whose subjects do not share state. A behaviour of theirs is about one of them
(`part`); the others keep their initial state. So one run asks the questions of
several modules without multiplying their states. The bounds of `StorageMC` are those in
its `.cfg`, those of `AuditMC` and `SessionsMC` in the `INSTANCE` definitions of the
module too. `AuditTools` leaves open what else a behaviour may be about (`Elsewhere`);
`AuditMC` adds to its parts those that work on an audit, whose modules the prover cannot
read or whose data it cannot count over, and gives values to the constants of both. Its
`Next` is `ToolsNext` with the variables of its own parts unchanged, or a step that leaves
all of `AuditTools` unchanged, so what is proved of `ToolsSpec` is about its behaviours too. In every module, a definition introduced
by "Faulty variant" is the form that a plausible bug would give the definition
below it; `PROJECT.json` lists under `mutants` which property finds it. A
definition introduced by "Not so" states what somebody might expect, or a comment
of the code says, and does not hold; see "Findings".

## Mission

`Mission.tla` models class `MissionEngine` as `MissionRuntimeObserver` exposes it.

| Model | Code |
|---|---|
| `mem`, `startedStages`, `completedStages` | `state`, `startedStages`, `completedStages` |
| `op` | the runtime mutation that runs on the chain `runtimeMutation`, with where it is between two `await`s |
| `ckpt`, `log` | the newest checkpoint, `events.jsonl` |
| `model`, `charge`, `exec` | the model invocations and tool calls of the clients |
| `ReserveModel`, `ReserveModelSaved`, `ReserveModelFails` | `beforeModelInvocation`, with the undo when the save fails |
| `ChargeModel`, `ChargeModelUnknown`, `UsageLogged` | `afterModelInvocation` |
| `ReserveTools`..., `ToolsPause`, `ResumeTools`, `ReleaseTools`, `ToolResultFails`, `ToolCallLogged` | reservation and release of tool calls, and how the tool node of `workflow.ts` uses them around a confirmation |
| `RecordStage...`, `RecordMission...`, `BeginExecution`... | stages, outcomes, the change of mission |
| `StartFresh`, `Restore`, `RestoreUsage`, `RestoreOrphans`, `RestoreTools`, `RestoreOutcome`, `RestoreStages` | `initialize` and its reconciliations |
| `Crash`, `...Fails` | death of the process between two steps; an append or a save that fails |

Abstractions: a failed append or save leaves the file as it was, and the restored
checkpoint is the last one saved (the files themselves are the subject of
`EventStore` and `Checkpoints`). All phases but the two terminal ones act
alike. A reservation id is used once. The results of a tool call that arrive
after another mission began are not modelled (see the hazards). The phase loop of
the class (`run`, `step`, `transition`, `queueAction`) is a component of its own.
Two facts a reader may not expect, both in the model: a confirmed call that is
interrupted while it resumes is paused again and may run again, and a completed
call may run again after a restart because its key was released.

Runs:

- `mission_model`: three invocations that compete for room for two, answers
  charged more than was reserved, one failing append, one failing save and one
  crash at any step, two missions. The budget is not oversubscribed while answers
  keep to their reservations; if they do not, by no more than what they ran over,
  and usage is charged once across the crash (`UsageIsExact`).
- `mission_tools`: a batch of two calls and one that needs a confirmation, two
  crashes. An interrupted call is not replayed; executed calls are counted.
- `mission_outcome`: a stage, two missions, two crashes, one failing append and
  no failing save, under fairness. Outcomes are exclusive and final, missions are
  closed before they are replaced, nothing is recorded twice (`LogIsSound`),
  mutations end, and a restored outcome reaches the log (`MutationsAreFinished`).

Bounds: the hazards need one invocation more than fit, one mission to replace
another, a crash after a crash for what reconciliation itself leaves behind, and
one failure of each kind. Invocations are symmetric.

Fairness: only the steps of the mutation under way (`Step`), which the event loop
runs when the awaited file operation settles. Workers, providers, the user and
the restart promise nothing, so the liveness properties are about mutations only.

Proved in `MissionProofs` for all constants: `TypeCorrect`, `BudgetHolds`,
`NoReplay`. The budget needs a stronger invariant than its statement (`BudgetInv`):
the checkpoint that a restart goes back to and the state that a failed
reservation puts back must fit the budget as well. The property holds only while
no answer is charged more than its reservation, so the proof also shows that an
invocation is charged once (`Uncharged`, `ChargedOnce`): a charge that is too
large now was too large ever since. `NoReplay` is about calls that the death of the process left interrupted, and
not about confirmed ones, which are paused again; it rests on `ReplayInv`: a call
whose fate is not known is still reserved, in memory and in the checkpoint.

On top of that, in the rest of the module:

- `OutcomeIsFinal`, `MissionsAreClosed`, `RecordsAreUnique`, whatever fails. The
  invariant `LogInv` says what each step of a mutation may rely on until its append:
  that the record is not in the log yet (`UsageUnrecorded`, `StagesUnrecorded`,
  `StartUnrecorded`), that the log knows no later mission than the engine
  (`Numbered`, `Owned`), and that older missions have ended in it (`Closed`).
- `LogTellsOneStory`, that `LogIsSound` holds, where no save fails: the log has no
  outcome but the one of memory and of the mutation under way (`OutcomeInv`). With a
  failing save it is false, see "Findings"; `MissionsAreClosed` and `RecordsAreUnique`
  are the parts of it that remain true.
- `UsageCharged` (`UsageIsExact`), whatever fails. `AccountInv` names the set of
  invocations behind `tokensUsed`, in memory and in the checkpoint: those with an
  event in the log, or whose event is about to be written. The tokens of a set
  are counted as a set of pairs (`TokensAfter`), since a sum over a set is a
  recursive definition that no proof could reach.
- `CallsAreCounted` (`ExecutedCallsAreCounted`), whatever fails: every call that ran
  is reserved, or in the log and in `toolCallsUsed` (`CountInv`). It uses
  `ReplayInv`, for the calls whose fate a crash hides.

## Task graph

`TaskGraph.tla` models class `TaskGraph`: `tasks`, `tasksByStatus`,
`taskDependents`, and `exported`, what the last snapshot got. Each method is
synchronous and therefore one action. Priorities, times, results and parameters
are left out.

`task_graph` runs three tasks with any dependencies and roles, any order of
calls, and an export of at most one task that is imported at any later time. Three
tasks are what a chain, a join and a fork need; an export of one task is enough
for the indexes of an import to go stale under tasks created later.

Proved in `TaskGraphProofs`: `GraphTyped`, `GraphIndexed`, `GraphAwake`,
`GraphStaffed`, `GraphAcyclic`, `GraphProgresses`. The inductive invariant says that the tasks
and the last export are both good graphs (typed, awake, staffed, dependencies
exist, no set of tasks waits on itself), since an import brings the export back,
and that every task is listed as a dependent of what it waits for, since
`completeTask` wakes only what is listed there. `GraphAcyclic` shows that the
cycle check of `createTask` is not what keeps the graph acyclic: a dependency has
to exist before the task that names it.

## Claims

`Claims.tla` models the evidence claims of class `Blackboard` and their votes in
`ConsensusManager`. A claim has the reviewers who verified and who contested it
and a label by their counts; its proposal has votes and a decision by majority.

| Model | Code |
|---|---|
| `agents`, `claims`, `records` | the maps of both classes, a proposal under the claim that is its topic |
| `waiting`, `saving`, `saved` | claims in the write queue, snapshots that are being written, `blackboard.json` |
| `submitClaim`, `ClaimWritten` | the check at the call, and the write with `createProposal` when its turn comes |
| `verifyClaim`, `contestClaim` | the review, the label by counts, the vote and `applyConsensusDecision` |
| `Expire`, `checkTimeouts` | the clock passes `expiresAt`; the sweep |
| `saveSnapshot`, `SnapshotWritten`, `SnapshotFails`, `Restart` | snapshots and `loadSnapshot` |

Abstractions: trust scores are below the threshold (`Distrusted`) or not, and do
not change while a claim is open. In the swarm all roles are above it, but
`setAgentTrustScore` accepts any score. The evidence hash of a vote is never
empty and is left out, as are conflict markers and listeners, which decide
nothing. `createProposal` ignores its `quorum` option, so `Quorum` is 2.

`claims` runs one claim (claims do not touch each other) with four trusted agents,
so that a majority of two to one can form without the author, and a distrusted one,
a snapshot that is written late or fails, and restarts. `ConsensusIsDecided`, which is
not so, is about a claim labelled consensus by its counts after its vote timed out
undecided.

Proved in `ClaimsProofs` for every finite set of agents and every set of
distrusted ones: `ClaimsTyped`, `LabelsFollowCounts`, `VotesAreReviews`,
`DecisionsAreMajorities`, `VerdictsFinal`. The invariant (`Fit`) is about one claim
and its proposal: the decision is always what `evaluateConsensus` makes of the
votes, and every vote is one of the recorded reviews. A rejection therefore has
two contesting reviews behind it, and the label that `applyConsensusDecision` writes
is the one that the counts have given already. Copies in snapshots keep the same
invariant, which carries it through restarts. `VerdictsFinal` needs in addition
that the claims in the write queue are not on the board yet (`Fresh`).

## Swarm

`Swarm.tla` models a mission of the swarm: the supervisor graph node by node
(`pc`), the coordinator's two entry points, the workers, the snapshot.

| Model | Code |
|---|---|
| `tasks`, `verifier`, `agents` | the task graph, `_retryCount` and the error of the verify task, agent registrations |
| `workers`, `sent`, `zombies` | `SwarmCoordinator.workers`, the `Send`s of a round that have not ended, executions of aborted runs |
| `captured`, `saved`, `loaded` | the snapshot being written, `blackboard.json`, whether a blackboard exists in this process |
| `executeMission`, `restartMission` | the coordinator's entry points up to `invoke` |
| `planMission`, `spawnWorkers`, `dispatch`, `executeTask`, `evaluateConsensus`/`Evaluated`, `cleanup`/`CleanedUp` | the nodes with their outgoing edges; a node with an awaited snapshot is two steps |
| `TaskCompletes`, `TaskFails` | the end of `AgentWorker.executeTask` and what `executeTask` does with it |
| `Abort`, `ZombieEnds`, `SaveFails`, `Crash` | the signal of `executeMission`, executions that notice it later, a snapshot that is not written, the death of the process |

LangGraph is external: it runs nodes in order, joins the `Send`s of a round, and
rejects at once when aborted. `executeMission` and `restartMission` prune its
checkpoints before they invoke it, so a run always begins at `START` and what
survives is the snapshot of the blackboard.

Abstractions: agents are named by the task they are registered for. An execution
left by an abort has no effect once its tasks are replaced, and its heartbeats are
ignored. Live workers send heartbeats, so they do not time out (a machine that
sleeps for a minute is left out). The lazy creation of workers in `executeTask`
cannot happen within a run, because `spawnWorkers` has made them all. The patch
competition in `cleanup` catches its own errors and is left out here
(`PatchSynthesis` models it), and so are the reporter's checks of findings beyond
making its task fail.

Runs:

- `swarm`: the real plan with its three patch perspectives, two workers, two runs,
  and any two faults. Two workers are fewer than the plan could use at once, so
  slots run out; two faults allow an abort whose leftovers race a failing task or a
  crash in the next run.

Fairness: `Step`, the next node or the end of some worker's task. The tool loop of
a worker is bounded by `maxToolSteps`, and LangGraph has no other reason to wait.

Proved in `SwarmProofs` for every `MaxWorkers`, every sequence of patch
perspectives, and every number of runs and of faults: `SwarmTyped`, `DispatchHolds`, `ReportsAreSaved` and
`CancelledAfterFailure`. The invariant has four layers. `Good` is about the tasks,
in memory, on disk and in the snapshot being written: they are those of the plan
(`GoodTasks`), by one lemma for each operator of `TaskStates`. `Reporting` keeps what is
returned in what is saved. `Staffed` relates the
node to its executions: none outside `executeTask`, never more than `maxWorkers`.
`Undisturbed` is true until a run is aborted and carries the rest of
`DispatchIsSound`: executions and tasks in progress correspond one to one, and a
task starts after its dependencies. `CancelledAfterFailure` shows that
`evaluateConsensus`, which cancels what can no longer run, cancels no task
that merely waits for a worker: one that it depends on failed or is cancelled too.

`DispatchIsSound` joins `WorkersBounded`, `WorkerRunsOneTask` and
`StartedAfterDependencies`; the last two are stated until a run is aborted. After
an abort neither holds: an agent whose task is still in progress is reported idle
again, and a late execution may fail a task that was completed. Both are hazards
with their lines.

## Storage

Run `storage` (`StorageMC`) is about the files that outlive a process.

| Module | Code | State and steps |
|---|---|---|
| `DurableFile` | none: an abstract specification | what a reader would get, the writes begun, the last one acknowledged; a write takes effect or is rolled back |
| `FsAtomic` | `utils/fs-atomic.ts` | file, backup, journal, lock and its age; one step per file operation of each process |
| `EventStore` | `memory/event-store.ts` | lines, a torn tail, the queue of appends; append, repair at open, crash |
| `Checkpoints` | `orchestrator/checkpoints.ts` | the two files of each save; retention deletes them one by one |
| `GraphCheckpoints` | `orchestrator/checkpoint-saver.ts` | a thread's checkpoints with their writes, staged writes, the index; calls take turns |
| `SemanticIndex` | `memory/semantic-index.ts`, `vector-store.ts`, `semantic-index-initializer.ts` | the two files of an index, the lock, the sessions' copies |
| `EvidenceStore` | `dast/evidence-store.ts` | the two halves of the key pair, the artifacts of each run |
| `FalsePositives` | `memory/false-positive-store.ts` | the file, the lock and reclaim directories, each process and its incarnation |
| `Transcript` | `run-artifacts.ts` | four rotated files of lines, an open handle per append |
| `Licence` | `licensing/polar-validator.ts`, `policy/license-guard.ts` | days, the cached answer, what the service grants |

Refinement. `FsAtomic` and `Checkpoints` each implement `DurableFile`
(`File`, `Latest`: `INSTANCE DurableFile WITH`): the properties `FileIsDurable`
and `LatestIsDurable` are its specification. The mapping of `FsAtomic` takes
for the content what recovery would make of file, backup and journal (`Recovered`),
so a crash between two renames is a stutter. This is what justifies two
abstractions: `Checkpoints`, `GraphCheckpoints` and others write a file in one
step, and `Mission` keeps one checkpoint.

What the code does not withstand is kept out of the run, and named. A process that
found a lock stale removes the lock file later, whoever holds it by then. With two
processes, of which one dies, only one can be waiting, and the run has no more;
with three, or with `LockFaults`, where the lock of a live process is left behind
because writing into it failed, two processes work on the file together
(`fs_lock_finding`) and `FileIsDurable` fails. `TornFailures`: an append that failed
after writing part of a line, in a process that goes on, glues the next event to it;
with TRUE, `AcknowledgedEventsAreRead` is violated.

Bounds: two processes, three writes, two faults and a crash; five events and
three failures; five saves kept to two, three troubles; three checkpoints of a
thread kept to one, so that a prune races writes that arrive. The index has one
file with up to two chunks that move or change and two sessions; evidence has two
sessions that create the keys at the same time and two crashes; the false-positive
memory has two processes, two operations and a crash, what it takes for a stale
lock to be reclaimed while the other works; transcripts have two appenders, of which
two records overlap; the license three days, two keys and two processes. The clock
is taken to advance between two checkpoints.

Proved in `StorageProofs`, where every part of `StorageMC` is read alone because a
step leaves the other parts as they are:

- `EventsAreKept` for any number of events, failures and restarts, where
  `TornFailures` is FALSE: an acknowledged event is a whole line, lines are in the
  order of the calls, and the queue has those not yet written (`LogInv`, `LogKept`).
  `LogOrdered` needs no such hypothesis.
- `LatestCheckpointIsDurable`: `Checkpoints` implements `DurableFile`, step by step.
  Saves get rising numbers, retention deletes only what is older than the newest
  whole pair, and half of a pair is never loaded (`SaveOrder`).
- `ThreadsAreResumed`: `GraphCheckpoints` for any number of checkpoints, writes and
  failures. The index, once read, is what the calls in turn made of it; a prune takes
  its decision from the copy it read (`PutsInTurn`, `WritesAreKept`, `PutsAreKept`).
- `FileIsDurableUnderExclusion`: `FsAtomic` implements `DurableFile` for any number of
  processes, crashes and faults in every behaviour in which the lock never admits two
  processes. So journal and recovery are right, and the lock is all that is wrong in
  `fs_lock_finding`. `LockIsExclusive` shows how far the lock can be trusted
  (`FewProcesses`): its own files do not fail, and no process dies or there are at most
  two of them. `FileIsDurableForFew` puts both together without a hypothesis on the
  behaviour.

Proved in `SharedFilesProofs`, for any number of sessions or processes, where each has
an inductive invariant that says what one of them knows, at each of its steps, of what
the others may meanwhile have done:

- `IndexIsOfTheSources`: the two files of the index belong together when their
  generations agree; a session's vectors are of its chunks and its chunks of contents that
  the files had, none for a file it still has to read (`Matching`, `Current`). The lock is
  with the session that is between them (`Locking`). The lemma that two runs of chunks with the
  same hashes in their order have the same hashes rests on an assumption on `Contents`: a file
  has finitely many chunks, and one at a place, which the code gets from a map by place.
- `EvidenceIsAccepted`: a session that is open has every artifact of its run, all of
  them signed with the pair it holds (`Filed`, `Verifiable`), though the halves of the pair are
  written one after the other by whoever comes.
- `ReviewsAreKept`: of the processes between lock and release one at most has the lock, and
  one that is about to remove a lock has seen a dead owner that nobody can replace as long as
  it holds the reclaim directory (`Held`); the decisions are those in the file, or in the
  copy of the holder (`Decided`).
- `TranscriptsAreWhole`: one append at a time, an unfinished line only at the end of the
  current file and only until it is cut off (`Uncrossed`); each renaming finds its place free,
  and the numbers of the records rise from the oldest file to the current one (`Calm`).
  `TranscriptIsRead`, the same of the sequence that `readMessages` returns, is left to TLC:
  `SelectSeq` and `FlattenSeq` are defined by recursion.
- `LicencesAreRecent`: what any process holds of an answer is true of the day it was given
  (`IsTrue`), whatever is in the cache.
- `StorageIsTyped`: the types of all nine parts.

## Sessions

Run `sessions` (`SessionsMC`), under fairness.

| Module | Code | State and steps |
|---|---|---|
| `AgentSession` | `agent.ts` | the promise of `initialize`, `activeOperation` and its controller, `dispose`, where each caller is between two awaits, what the report holds |
| `HumanInLoop` | `utils/human-in-loop.ts`, `graph/workflow.ts`, `ui/ConfirmDialog.tsx` | the remembered request and decision, the timer, the request in the checkpoint, the dialog |
| `WorkerProxy` | `worker/agent-worker-proxy.ts`, `worker/agent-worker.ts` | two channels, the promise of each request, the pause, the death of the thread, shutdown |

`OperationsAreExclusive`: calls that wait for the initialization go on together
when it settles, and still never work together or beside the cleanup of `dispose`.
`ReportsAreComplete`: an exported report is that of one finished audit, although
findings of failed batches were ingested before. `RunsAreApproved`: no timeout,
retry, failed resume or restart makes an approval. `CallsReturn`: every
call of a session returns, and a request to the worker is settled if the thread was alive
when the proxy took it; one sent after the thread died is not (`RequestsAlwaysSettle`
below).

Fairness: initialization settles; the deadline of an operation is a timer
(`Abort`); the steps of a call go on (`Prompt`), except that a stream and a
summary of the model go on only once aborted, since a provider may never answer.
The threads of the proxy deliver their messages. The user promises nothing.

Proved in `SessionsProofs` for any number of callers, calls, requests and failures:

- `OneOperationAtATime`: whoever is at work has the slot, and a session that is being
  disposed gives it to nobody but the call it waits for (`Exclusive`).
- `ReportsAreOfOneAudit`, where `Swarm` is FALSE: the report never holds anything of an
  earlier audit, since the thread that could continue it and the findings are
  forgotten together (`Reported`). With a swarm the statement is false: see "Findings".
- `ApprovalsAreSpentOnce`: a decision that has not been used is about one request, and
  an approval among them is one for which no tool has run (`Approved`). It needs
  `Dialog`, proved as `DialogIsOfTheGraph`: after every failure and restart the screen
  shows the request of the checkpoint, so the answer is to what the graph waits for.
- `RequestsAreRemembered`: a request of the proxy that is open is one it waits for, the
  safety half of `CallsReturn`.
- `SessionsTyped`: the counters are bounded since each audit and each change of the
  policy has a call of its own (`Counted`).

## Audits

Run `audit` (`AuditTools`, `AuditMC`): what works during an audit.

| Module | Code | Main question |
|---|---|---|
| `Pipeline` | `graph/workflow.ts`, `graph/state.ts` | a report holds each confirmed claim once and no suppressed one, whatever was trimmed, refused or salvaged; no result without its request; stages end (`PublishedIsConfirmed`, `ResultsHaveRequests`, `StagesEnd`) |
| `StreamProcessor` | `stream-processor.ts` | nothing is shown but the prose of the model, once, wherever chunks are cut; the filter stands where the whole text leaves it, also when markup stays open; results follow calls (`StreamIsFaithful`) |
| `ToolLoop` | `langchain-tool-executor.ts`, `agent-worker.ts` | the context is closed under requests and results, mutations run alone, an interrupted call is not replayed (`ToolLoopIsSound`) |
| `AgentSession` with `Swarm` TRUE | `agent.ts` | as above, with the batches that the swarm's reporter hands in |
| `Sandbox` | `dast/` | commands run only in isolation; a disposed session leaves nothing; callbacks once (`SandboxIsSound`) |
| `McpTools` | `policy/mcp-policy.ts`, `mcp/manager.ts`, `mcp-http-invoker.ts` | a dangerous tool is approved, requests carry a session that the server gave (`McpIsSound`) |
| `CommandPipeline` | `tools/execute-command.ts`, `policy/command-policy.ts` | a result is whole, an error has a cause (`CommandIsSound`) |
| `KnowledgeGraph` | `memory/knowledge-graph.ts` | searches by index agree with reachability over the edges (`SearchesAreExact`) |
| `Gates`, `Reports` | `verify/`, `output/report-builder.ts`, `ci-runner.ts`, `ci-exit.ts` | the builder keeps what passes the gates, CI passes only with a whole report, gates are monotonic (`ReportIsSound`, in `AuditIsTold`) |
| `Remediation` | `remediation/` | a patch is applied to files with the contents that its validation saw, and after approval (`PatchesAreValidated`) |
| `PatchSynthesis` | `orchestrator/orchestrator-engine.ts`, `patch-*.ts` | every proposal is answered, merges are free of conflicts (`MergesAreSound`) |
| `IncrementalWatch` | `watch/`, `ui/hooks/useIncrementalWatch.ts` | a change waits for an audit, but for those that are lost in two known ways; the delta adds up (`WatchKeepsUp`) |
| `SessionHook` | `ui/hooks/useAgentSession.ts` | no session leaks (`SessionsDoNotLeak`) |
| `Onboarding` | `ui/screens/`, `utils/config.ts`, `utils/keychain.ts` | a configuration is usable, the key is the one given or, in its place, that of the environment; the target is the one approved (`OnboardingIsSound`) |

Abstractions common to them: models, users, providers, Docker, processes and
servers answer anything at any time; texts are sequences of a few characters where
their structure matters and values elsewhere; a graph or a history has the few
entries that its properties tell apart. `CommandPipeline` takes what the policy
says of the text of a command as input. `Gates` and `KnowledgeGraph` are pure
algorithms and are checked against reference definitions (`Within`, `GatesAgree`)
over all graphs and candidates that the module lists.

Four parts are exact about cases that a shorter statement would pass over:

- `StreamProcessor`: the blocks of the run (`Texts`) have markup that is closed, begun in one block
  and ended in another, or never ended, and a `<` that may begin a marker, each cut at every place
  and delivered with or without the text that comes with the end of a block
  (`recoverFinishedText`); the report of the checkpoint (`Final`) may have markup that stays open too.
  `finishStream` filters that report with what the stream has left of the filter. The response is
  therefore what the report adds to the prose of all that was heard, which is the prose of the report
  only if nothing was left open (`Closed`). The statement ends when `recoverFinishedText` filters a
  block twice that ends what an earlier one began (`again`); see `ProtocolIsNeverShown` below.
- `Remediation`: `Versions` are contents, compared as the code compares hashes, and the user may give a file
  any content again. A token is therefore good if the files have the contents that the validation
  began with, also if they had others meanwhile, and tests in a copy of those others.
- `IncrementalWatch` is one watch of one shell, which also opens without a session when that could not
  be initialized; `onBatch` then does nothing and the flush counts it as done. `unseen` are the files that
  changed since their last audit began, `lost` those that no flush will take up: they changed during
  their own audit, or their flush had no session.
- `Onboarding`: `InEnvironment` are the providers with a key in a variable of the environment, which stays the
  same over restarts and is read when the keychain has no key or does not answer. There is no such variable
  for Azure (`ENV_VAR_MAP`); the run has one for `openai` and none for `custom`. A keychain may also
  store a key and fail: the next reading then finds it there.

Bounds are in `Audit.cfg` and `AuditMC`, each the smallest at which the case the module is about
happens: a history longer than `MaxContext`, a log of callbacks one longer than its
limit, a batch beyond `MaxParallel`, two patches on one file, two findings of which
one spans two files, a component mounted twice with two initializations, and one
failure or crash where there may be any.

Proved in `AuditToolsProofs` for the nine parts of `AuditTools`, of any number of callers,
commands, patches, files, components, claims, audits, tasks and failures: `ToolsHold`, `EditsHold`,
`InterfaceHolds`, `FindingsHold`, `TrafficHolds` (the properties `ToolsAreSound`, `EditsAreSound`,
`InterfaceIsSound`, `FindingsAreEarned` and `TrafficIsWhole` of the run) and `ToolsAreTyped`. Each follows from one theorem for each part, and each of those from an
inductive invariant of the part, which says what a reader of the code has to keep in mind
between two of its `await`s:

- `BoxHolds`: what is in Docker and on the host at each step of `create`, and what is gone
  at each step of `destroy` unless a removal failed (`CreatedSoFar`, `RemovedSoFar`).
- `McpHolds`: a server has named the session that its client knows, whatever restarts or is
  aborted, and what is invoked was allowed and approved as its tier wants (`SessionsAreNamed`,
  `CallsAreAllowed`).
- `CommandHolds`: a process that was ended was ended by its reader's end, by a signal or by
  an error that the call reports, and the reader of a broken pipe is gone (`EndsHaveCauses`,
  `ReadersAreGone`).
- `PatchesHold`: what each call has read, been granted and done by each of its steps, so that a patch
  is applied only by a call that compared the tree with its fingerprint and was approved (`Phases`).
- `WatchHolds`: a change that is not lost stays on the list until its file's next audit begins
  (`ChangesWait`). And between the audit of a batch and the end of its flush the delta is the
  difference of the two baselines, and a finding is resolved only when all its files were
  audited (`DeltaIsApplied`, `DeltaIsPartition`). That a batch has at most `maxBatchSize` files,
  the first in their order, needs the greatest element of a finite set of numbers, which is
  derived from the well-foundedness of their order.
- `HookHolds`: where each initialization stands and who it was begun for; generations rise
  with initializations, so the newest of a component is the only one that may publish
  (`InitsStand`, `OneIsActive`).
- `WizardHolds`: what has been answered by each step of the wizard (`Answered`), so that what is
  saved at its end is complete, wherever its parts are written (`SavesAreOfTheAnswers`).
- `StagesHold`: the last message of a stage that has taken steps is its own, so the history that
  its invocations are counted by never looks empty to it, and nodes of tools answer the last
  message (`RequestIsLast`); nothing is confirmed before the verdicts, and nothing published before
  the end (`VerdictsComeLast`). What is trimmed keeps its last message and each result its
  request (`TrimKeeps`), for a limit of two messages at least; the code has 40, and its special case for less is
  left out. The folds over the history are shown to exist and to be what their equations say, front by
  front (`FoldExists`, `CountsUp`), from the well-foundedness of the numbers.
- `LoopHolds`: closed messages alone are not inductive, for compaction could take a request
  and leave its answers. What is inductive is that an answer follows its request with nothing but
  answers in between (`IsGrouped`): the groups that `compactWorkerMessages` and `trimMessages` keep
  whole are then groups of requests and their answers, and a suffix that begins with a group, and
  groups joined to groups, are grouped (`SuffixIsGrouped`, `JoinedAreGrouped`). While calls are
  made the messages end with a request that is not answered yet (`IsAsking`), and the mission
  holds the slots of what runs and of what was cut short (`SlotsAreHeld`).
- `CallbacksHold`: the log of the Mirage has each callback at the place that its number names, so
  that what `syncLog` takes from it is neither in the session's log before nor taken twice,
  whatever the ring buffer evicts meanwhile (`LogsInv`, `IsLogOf`).

## Runs

| Run | Module | Expected | About |
|---|---|---|---|
| `mission_model`, `mission_tools`, `mission_outcome` | `MissionMC` | pass | see Mission |
| `task_graph` | `TaskGraph` | pass | see Task graph |
| `claims` | `Claims` | pass | see Claims |
| `swarm` | `SwarmMC` | pass | see Swarm |
| `storage` | `StorageMC` | pass | see Storage |
| `sessions` | `SessionsMC` | pass | see Sessions |
| `audit` | `AuditMC` | pass | see Audits |
| `fs_lock_finding` | `StorageMC` | violation | two processes take over the lock of a dead one |
| `reports_finding` | `AuditMC` | violation | a flow that the graph cannot connect is published |
| `mcp_finding` | `AuditMC` | violation | a blocked MCP tool is called |

Deadlock is checked where a system cannot stop (`task_graph`). Elsewhere sessions,
runs or bounded inputs end.

## Findings

1. Of two processes that wait for the lock of a dead one, the second removes what the
   first has taken (`fs_lock_finding`).
2. `addFinding` gives the gates file paths where the graph has identifiers, so the
   gates that reject unconnected flows never see one (`reports_finding`).
3. The schema of the configuration file strips the tiers and confirmations that a
   user gives to MCP tools (`mcp_finding`).

`PROJECT.json` quotes the comments they contradict. The definitions marked
"Not so" are further disagreements with comments or with what a caller may expect. Each was
seen to be violated by TLC at the bounds of its run, or at those named here; no run checks them.

| Definition | What the code does |
|---|---|
| `Mission!OrphansConsumedNothing` | a crash between an answer and its event releases, uncharged, tokens that were consumed |
| `Mission!ExclusiveOutcome` with `MaxSaveFailures` 1 | a mission gets both outcomes in its log when the checkpoint of the first fails and the process dies |
| `Claims!ConsensusIsDecided` | a claim is labelled consensus by its counts after its vote timed out |
| `Swarm!VerifierIsRetried` | a failed verifier is not retried before the run gives up: `dispatch`, which would, does not run again |
| `Swarm!RestartReports` | a restart after a failed verifier verifies again and cannot report |
| `EventStore!AcknowledgedEventsAreRead` with `TornFailures` | the event after a torn append is lost |
| `SemanticIndex!FailureKeepsVectors`, `NoOrphanVectors`, `PlacesAreCurrent` | a session without a model writes the first directory; vectors without chunks after a crash; places of chunks that only moved |
| `EvidenceStore!StoreOpens`, `FalsePositives!KeyIsUsable`, `ReclaimIsPossible` | a crash between two files, or two sessions at once, leaves keys nobody can use; a dead holder of the reclaim directory blocks all |
| `Transcript!RecordsAreKept` | an append cuts off what another has just written after a crash; a refused rename loses a file |
| `Licence!SoloHasNoCI` | the gate looks at the mode before it looks at CI |
| `AgentSession!PolicyIsFixed` | an operation begins while the changed policy is being saved |
| `AgentSession!ReportsAreComplete` with `Swarm` | a swarm mission adds its findings to the report of the earlier ones: only `sendSingleAgentMessage` resets the builder |
| `HumanInLoop!PausesEnd` | the timeout sets no decision that anybody waits for |
| `WorkerProxy!RequestsAlwaysSettle` | a request sent after the thread died waits until the proxy is shut down |
| `WorkerProxy!ShutdownEnds` | a thread that dies before it answers leaves the shutdown waiting |
| `Pipeline!BudgetHolds` with `ExtraInvocations` 1 | after a trim a stage takes more tool steps than its budget |
| `StreamProcessor!ReportIsReturned` | markup that the stream leaves open hides the checkpointed report, of which the comment in `finishStream` says that it is the source of truth |
| `StreamProcessor!ProtocolIsNeverShown` | a block that only ends markup of an earlier one has said nothing, and `recoverFinishedText` filters it again, outside the markup |
| `ToolLoop!TaskIsKept` | compaction drops the prompt of the task first |
| `Sandbox!OldestIsEvicted` | an evicted callback is recorded again by the next synchronization |
| `McpTools!OthersAreUnaffected`, `SessionIsRenewed` | an aborted caller fails those that share its initialization; a restarted server is not initialized again |
| `CommandPipeline!NothingRunsOn`, `TimersFireForReaders` | processes of a pipeline of which one did not start go on; a reader that ends early leaves its writer waiting for the timer |
| `Reports!PassMeansNothingSevere` | a duplicate that is more severe is dropped |
| `PatchSynthesis!NonConflictingHunksAreMerged` with places further apart, `LineNumbersAreRight` | a hunk away from its proposal's conflict is not merged; the numbers of later hunks are adjusted twice |
| `Remediation!AppliedOnTheTested` | files changed for the copy and changed back pass the comparison of hashes, so a patch is applied to what it was not tested on ("Any affected-file change after validation invalidates the token", says the comment of `applyValidatedPatch`) |
| `IncrementalWatch!FailuresAreRetried` | a failed audit is told to the user and not to the service |
| `IncrementalWatch!NoChangeIsForgotten` | a file that changes while it is audited is taken off the list when that audit ends, and one whose flush has no session is too |
| `SessionHook!MapIsOfTheTarget` | an edit while the map is made |
| `Onboarding!TimersEndWithTheirScreen` with two saves, `WizardCanEnd`, `NoKeyIsNoKey` | a late save takes the app back; an incompatible model is refused at the last step; a provider without a key gets that of the keychain or the environment |
| `Onboarding!OnlyTheGiven` | the keychain takes the key and then does not answer; the key of the environment is used |

## What is proved and what is only checked

Proved for all values of the constants: the theorems named in the sections above,
about `Mission`, `TaskGraph`, `Claims`, `Swarm`, `StorageMC`, `SessionsMC` and `AuditTools`. They
rest on the `ASSUME`s of the modules (finite sets where cardinalities are counted,
natural bounds, a partition into batches, commands of at least one stage, a history of at least two messages, Azure not among
the providers that are asked for a URL), all of which TLC evaluates on the
instances. The inductive invariants were first checked by TLC on the instances of the
runs. The type invariants (`TypeOK`) of `Mission`, `TaskGraph`, `Claims`, `Swarm` and
`SessionsMC` are among what is proved, so that no run repeats them. Five theorems have a hypothesis of their own, each because
the statement is false without it, as TLC shows:

| Theorem | Hypothesis | Without it |
|---|---|---|
| `LogTellsOneStory` | `MaxSaveFailures = 0` | two outcomes of one mission in the log |
| `EventsAreKept` | `TornFailures = FALSE` | the event after a torn append is lost |
| `LockIsExclusive`, `FileIsDurableForFew` | `FewProcesses` | `fs_lock_finding` |
| `ReportsAreOfOneAudit` | `~Swarm` | a report of two missions |

Two more are conditional in their statement: `BudgetHolds`, where the property itself is
about the answers that keep to their reservations, and `FileIsDurableUnderExclusion`, about
the behaviours in which the lock excludes.

Model-checked only:

- the liveness properties, which need `ENABLED`;
- `TranscriptIsRead` of `StorageMC`, about sequences that recursive operators build;
- `AuditIsTold` of `AuditMC`, and the types of its own parts (`TypesOK`; those of `AuditTools`
  are proved). `Gates` and `KnowledgeGraph` are recursive operators, without which their subject,
  paths in a graph, cannot be evaluated; `StreamProcessor`, `Reports` and `PatchSynthesis` fold
  over texts, batches and hunks, and what these folds compute is an induction over data.

## Not modelled

- The phase loop of the mission engine (`run`, `step`, `transition`): nothing in
  the program calls it.
- Blackboard tools, evidence tracker, model router, prompts, capabilities: checks
  of arguments, tables, text.
- Planner, retrieval, communities and summaries: rankings by floating-point scores.
- Chunkers, embeddings, message adapters: parsing and wire formats. Where their
  failure matters it is a failure of the module that calls them.
- Patterns on the text of commands, paths and addresses; formats of reports;
  rendering.
- LangGraph's limit of supersteps, and late tool results of an aborted graph node
  that reach the next mission (both listed under hazards).
