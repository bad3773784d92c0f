-------------------------------- MODULE Swarm --------------------------------
(***************************************************************************)
(* The mission of the swarm (src/src/core/hivemind/swarm-supervisor.ts,    *)
(* swarm-coordinator.ts and agent-worker.ts): the nodes of the supervisor  *)
(* graph over the task graph of module TaskStates, the workers, the        *)
(* snapshot of the blackboard, and the two ways to start a run.            *)
(*                                                                         *)
(* LangGraph is external: it runs the nodes one after the other, all       *)
(* executeTask nodes of a round together, and evaluateConsensus when the   *)
(* last of them is done.  When a run is aborted it rejects at once, and    *)
(* the executions under way go on by themselves until they notice.         *)
(***************************************************************************)
EXTENDS TaskStates, Naturals, Sequences

CONSTANTS
    Patches,          \* the patch perspectives in order, none unless patches are enabled
    MaxWorkers,       \* config.swarm.maxWorkers, 6 by default, at least 1
    MaxRuns,          \* bound: calls of executeMission and restartMission
    MaxFaults         \* bound: tasks that workers fail, aborted runs, deaths of the
                      \* process and snapshots that cannot be written, together

PatchTasks == {Patches[i] : i \in 1..Len(Patches)}

\* Tasks are named by their taskType.  An agent is named by the task it is registered
\* for: there are as many agents of a role as tasks of the plan that require it.
ASSUME PlanAssumption ==
    /\ Patches \in Seq(TaskIds)
    /\ {"recon", "taint", "exploit", "verify", "report"} \cap PatchTasks = {}
    /\ TaskIds = {"recon", "taint", "exploit", "verify", "report"} \cup PatchTasks
    /\ AgentIds = TaskIds
    /\ Roles = (TaskIds \ PatchTasks) \cup {"patch"}
ASSUME MaxWorkersAssumption == MaxWorkers \in Nat \ {0}

MAX_FAILED_RETRIES == 3

VARIABLES
    tasks,      \* the tasks of the blackboard's task graph
    verifier,   \* of the verify task: _retryCount, and whether it failed accounting
    agents,     \* Blackboard.agents: status by agent
    workers,    \* SwarmCoordinator.workers
    pc,         \* the node of the supervisor graph that runs next
    sent,       \* executions that routeFromDispatch sent and that have not ended
    zombies,    \* executions of aborted runs that have not ended
    captured,   \* the snapshot that saveSnapshot is writing
    saved,      \* blackboard.json
    loaded,     \* the blackboard was created in this process
    run,        \* the run under way, or the last one
    faults      \* bounds

vars == <<tasks, verifier, agents, workers, pc, sent, zombies, captured, saved, loaded,
          run, faults>>

RoleOf(t) == IF t \in PatchTasks THEN "patch" ELSE t

Dependencies(t) ==
    CASE t = "exploit" -> {"recon", "taint"}
      [] t = "verify" -> {"exploit"}
      [] t \in PatchTasks -> {"verify"}
      [] t = "report" -> {"verify"} \cup PatchTasks
      [] OTHER -> {}

Executions == [task : TaskIds, agent : AgentIds]

Nothing == [t \in {} |-> "none"]
NewVerifier == [retries |-> 0, accounting |-> FALSE]
Snapshot == [tasks |-> tasks, verifier |-> verifier, agents |-> agents]
NoSnapshot == [tasks |-> Nothing, verifier |-> NewVerifier, agents |-> Nothing]

Terminal(ts) == \A t \in DOMAIN ts : ts[t].status \in {"completed", "failed", "cancelled"}
Ready(ts) == {t \in DOMAIN ts : Claimable(ts, t)}
Running(ts) == {t \in DOMAIN ts : ts[t].status = "in_progress"}
Dependents(t) == {u \in DOMAIN tasks : t \in tasks[u].deps}

Init ==
    /\ tasks = Nothing /\ verifier = NewVerifier /\ agents = Nothing /\ workers = {}
    /\ pc = "idle" /\ sent = {} /\ zombies = {}
    /\ captured = NoSnapshot /\ saved = NoSnapshot /\ loaded = FALSE
    /\ run = [kind |-> "none", clean |-> TRUE, outcome |-> "none"]
    /\ faults = [runs |-> 0, failures |-> 0, aborts |-> 0, crashes |-> 0, saves |-> 0]

Fault(what) ==
    /\ faults.failures + faults.aborts + faults.crashes + faults.saves < MaxFaults
    /\ faults' = [faults EXCEPT ![what] = @ + 1]
Ended(outcome) == pc' = "idle" /\ run' = [run EXCEPT !.outcome = outcome]

(***************************************************************************)
(* The calls of the session.                                               *)
(***************************************************************************)
RunBegins(kind) ==
    /\ pc = "idle" /\ faults.runs < MaxRuns
    /\ pc' = "planMission" /\ faults' = [faults EXCEPT !.runs = @ + 1]
    /\ run' = [kind |-> kind, clean |-> TRUE, outcome |-> "running"]

\* Blackboard.create loads the snapshot; status and heartbeats of the agents are as old
\* as the snapshot, which does not matter: spawnWorkers makes every agent idle.
executeMission ==
    /\ RunBegins("execute")
    /\ loaded' = TRUE
    /\ UNCHANGED <<tasks, verifier, agents, workers, sent, zombies, captured, saved>>

\* Faulty variant: verifiers that completed are reset as well.
restartMissionAlways ==
    /\ loaded /\ RunBegins("restart")
    /\ tasks' = [t \in DOMAIN tasks |->
           IF t = "verify" THEN Reset(tasks, t)[t] ELSE tasks[t]]
    /\ UNCHANGED <<verifier, agents, workers, sent, zombies, captured, saved, loaded>>

\* With resetTasksByRole("verifier"); if that finds none and the mission is over, all
\* tasks are cleared.  The executions that an abort left behind lose their tasks then.
restartMission ==
    /\ loaded /\ RunBegins("restart")
    /\ LET failed == {t \in DOMAIN tasks \cap {"verify"} : Resettable(tasks, t)}
       IN  \/ /\ failed # {} \/ ~Terminal(tasks) \/ tasks = Nothing
              /\ tasks' = [t \in DOMAIN tasks |->
                     IF t \in failed THEN Reset(tasks, t)[t] ELSE tasks[t]]
              /\ UNCHANGED <<verifier, zombies>>
           \/ /\ failed = {} /\ Terminal(tasks) /\ tasks # Nothing
              /\ tasks' = Nothing /\ verifier' = NewVerifier /\ zombies' = {}
    /\ UNCHANGED <<agents, workers, sent, captured, saved, loaded>>

(***************************************************************************)
(* The nodes.                                                              *)
(***************************************************************************)
Plan ==
    [t \in TaskIds |-> [status |-> InitialStatus(Nothing, Dependencies(t)),
                        deps |-> Dependencies(t), agent |-> NoAgent, role |-> RoleOf(t)]]

\* A mission that is over is replaced, with resetForNewMission; a worker whose agent was
\* forgotten is never found again, and an execution whose task was has no effect.
planMission ==
    /\ pc = "planMission" /\ pc' = "spawnWorkers"
    /\ \/ /\ ~Terminal(tasks)
          /\ UNCHANGED <<tasks, verifier, agents, workers, zombies>>
       \/ /\ Terminal(tasks)
          /\ tasks' = Plan /\ verifier' = NewVerifier /\ zombies' = {}
          /\ \/ tasks = Nothing /\ UNCHANGED <<agents, workers>>
             \/ tasks # Nothing /\ agents' = Nothing /\ workers' = {}
    /\ UNCHANGED <<sent, captured, saved, loaded, run, faults>>

\* Faulty variant: agents that are registered get no worker.
spawnWorkersFresh ==
    /\ pc = "spawnWorkers" /\ pc' = "dispatch"
    /\ agents' = IF agents = Nothing THEN [a \in AgentIds |-> "idle"] ELSE agents
    /\ workers' = IF agents = Nothing THEN AgentIds ELSE workers
    /\ UNCHANGED <<tasks, verifier, sent, zombies, captured, saved, loaded, run, faults>>

\* A new worker reports its agent idle.
spawnWorkers ==
    /\ pc = "spawnWorkers" /\ pc' = "dispatch"
    /\ agents' = IF agents = Nothing THEN [a \in AgentIds |-> "idle"]
                 ELSE [a \in DOMAIN agents |-> IF a \in workers THEN agents[a] ELSE "idle"]
    /\ workers' = IF agents = Nothing THEN AgentIds ELSE workers \cup DOMAIN agents
    /\ UNCHANGED <<tasks, verifier, sent, zombies, captured, saved, loaded, run, faults>>

\* releaseStaleTasks
WithoutStale(ts) ==
    [t \in DOMAIN ts |->
        IF ts[t].status = "in_progress"
           /\ (ts[t].agent \notin DOMAIN agents \/ agents[ts[t].agent] = "offline")
        THEN Released(ts, t)[t] ELSE ts[t]]

\* retryFailedVerifierTasks
Retried(ts) ==
    {t \in DOMAIN ts \cap {"verify"} :
        /\ ts[t].status = "failed"
        /\ ~verifier.accounting /\ verifier.retries < MAX_FAILED_RETRIES}

\* The order in which agents, and so workers, of the same role were registered.
Before(a, b) == \E j \in 1..Len(Patches) : \E i \in 1..(j - 1) : a = Patches[i] /\ b = Patches[j]

\* claimAvailableTasks: who claims what.  Each task gets the first idle worker of its role
\* that no other task of the round got, until the slots or the workers are used up.
Assignments(ts) ==
    LET idle  == {a \in workers : agents[a] = "idle"}
        slots == IF MaxWorkers > Cardinality(Running(ts))
                 THEN MaxWorkers - Cardinality(Running(ts)) ELSE 0
    IN  {f \in UNION {[D -> idle] : D \in SUBSET Ready(ts)} :
            /\ Cardinality(DOMAIN f) <= slots
            /\ \A t \in DOMAIN f : RoleOf(f[t]) = ts[t].role
            /\ \A t, u \in DOMAIN f : f[t] = f[u] => t = u
            /\ \A t \in DOMAIN f, a \in idle :
                  Before(a, f[t]) => \E u \in DOMAIN f : f[u] = a
            /\ \/ Cardinality(DOMAIN f) = slots
               \/ \A t \in Ready(ts) \ DOMAIN f, a \in idle :
                     RoleOf(a) = ts[t].role => \E u \in DOMAIN f : f[u] = a}

\* With routeFromDispatch, which sends every task in progress: those claimed now and
\* those that an aborted run left.
dispatch ==
    /\ pc = "dispatch"
    /\ LET fresh   == WithoutStale(tasks)
           retried == Retried(fresh)
           ts == [t \in DOMAIN fresh |-> IF t \in retried THEN Reset(fresh, t)[t] ELSE fresh[t]]
       IN  /\ verifier' = IF retried = {} THEN verifier
                          ELSE [verifier EXCEPT !.retries = @ + 1]
           /\ \E f \in Assignments(ts) :
                 tasks' = [t \in DOMAIN ts |->
                     IF t \in DOMAIN f THEN Started(Claimed(ts, t, f[t]), t)[t] ELSE ts[t]]
    /\ sent' = {[task |-> t, agent |-> tasks'[t].agent] : t \in Running(tasks')}
    /\ pc' = IF sent' = {} THEN "evaluateConsensus" ELSE "send"
    /\ UNCHANGED <<agents, workers, zombies, captured, saved, loaded, run, faults>>

\* The executeTask nodes begin: spawnWorkers has made a worker for each agent.
executeTask ==
    /\ pc = "send" /\ pc' = "executeTask"
    /\ agents' = [a \in DOMAIN agents |->
                     IF \E e \in sent : e.agent = a THEN "busy" ELSE agents[a]]
    /\ UNCHANGED <<tasks, verifier, workers, sent, zombies, captured, saved, loaded, run, faults>>

\* What a finished execution does to its task: completeTask refuses a task that is not
\* in progress, and its answer is ignored; failTask does not look at the status.
Finished(e) == IF tasks[e.task].status = "in_progress"
               THEN Completed(tasks, e.task, Dependents(e.task)) ELSE tasks

TaskEnds(e) ==
    /\ pc = "executeTask" /\ e \in sent
    /\ sent' = sent \ {e}
    /\ pc' = IF sent' = {} THEN "evaluateConsensus" ELSE pc
    /\ agents' = [agents EXCEPT ![e.agent] = "idle"]

TaskCompletes(e) ==
    /\ TaskEnds(e)
    /\ tasks' = Finished(e)
    /\ UNCHANGED <<verifier, workers, zombies, captured, saved, loaded, run, faults>>

FailedWith(e, accounting) ==
    /\ tasks' = Failed(tasks, e.task)
    /\ verifier' = IF e.task = "verify" THEN [verifier EXCEPT !.accounting = accounting]
                   ELSE verifier

TaskFails(e, accounting) ==
    /\ Fault("failures")
    /\ TaskEnds(e)
    /\ FailedWith(e, accounting)
    /\ run' = [run EXCEPT !.clean = FALSE]
    /\ UNCHANGED <<workers, zombies, captured, saved, loaded>>

\* Faulty variant: a task that waits for a slot is not active work.
HasActiveWorkNow == \E t \in DOMAIN tasks : tasks[t].status \in {"in_progress", "claimed"}

HasActiveWork ==
    \/ \E t \in DOMAIN tasks : tasks[t].status \in {"in_progress", "claimed"}
    \/ Ready(tasks) # {}

\* The snapshot is captured when the write queue gets to it, before anything else runs.
evaluateConsensus ==
    /\ pc = "evaluateConsensus" /\ pc' = "evaluating"
    /\ tasks' = [t \in DOMAIN tasks |->
           IF ~HasActiveWork /\ tasks[t].status \in {"blocked", "pending"}
           THEN Cancelled(tasks, t)[t] ELSE tasks[t]]
    /\ captured' = [Snapshot EXCEPT !.tasks = tasks']
    /\ UNCHANGED <<verifier, agents, workers, sent, zombies, saved, loaded, run, faults>>

\* The end of evaluateConsensus, with routeAfterEvaluate.
Evaluated ==
    /\ pc = "evaluating"
    /\ saved' = captured /\ captured' = NoSnapshot
    /\ pc' = IF Running(tasks) # {} \/ Ready(tasks) # {} THEN "dispatch" ELSE "cleanup"
    /\ UNCHANGED <<tasks, verifier, agents, workers, sent, zombies, loaded, run, faults>>

\* With terminateAllWorkers.
cleanup ==
    /\ pc = "cleanup" /\ pc' = "cleaning"
    /\ agents' = [a \in DOMAIN agents |-> IF a \in workers THEN "offline" ELSE agents[a]]
    /\ workers' = {}
    /\ captured' = [Snapshot EXCEPT !.agents = agents']
    /\ UNCHANGED <<tasks, verifier, sent, zombies, saved, loaded, run, faults>>

\* The end of cleanup and of the run: the report is returned, or an error says there is none.
CleanedUp ==
    /\ pc = "cleaning"
    /\ saved' = captured /\ captured' = NoSnapshot
    /\ Ended(IF tasks["report"].status = "completed" THEN "reported" ELSE "unreported")
    /\ UNCHANGED <<tasks, verifier, agents, workers, sent, zombies, loaded, faults>>

\* Faulty variant: the run goes on when a snapshot cannot be written.
SaveFailsSilently ==
    /\ pc \in {"evaluating", "cleaning"}
    /\ Fault("saves")
    /\ captured' = NoSnapshot
    /\ pc' = CASE pc = "cleaning" -> "idle"
               [] pc = "evaluating" /\ HasActiveWork -> "dispatch"
               [] OTHER -> "cleanup"
    /\ run' = IF pc = "cleaning" /\ tasks["report"].status = "completed"
              THEN [run EXCEPT !.outcome = "reported"] ELSE run
    /\ UNCHANGED <<tasks, verifier, agents, workers, sent, zombies, saved, loaded>>

\* A snapshot cannot be written: the error ends the run, and the workers stay.
SaveFails ==
    /\ pc \in {"evaluating", "cleaning"}
    /\ Fault("saves")
    /\ captured' = NoSnapshot /\ Ended("stopped")
    /\ UNCHANGED <<tasks, verifier, agents, workers, sent, zombies, saved, loaded>>

(***************************************************************************)
(* Aborts and crashes.                                                     *)
(***************************************************************************)
\* The signal of executeMission; a snapshot that is being written is written or not.
Abort ==
    /\ pc # "idle" /\ run.kind = "execute"
    /\ Fault("aborts")
    /\ zombies' = IF pc = "executeTask" THEN zombies \cup sent ELSE zombies
    /\ sent' = {} /\ workers' = {}
    /\ agents' = [a \in DOMAIN agents |-> IF a \in workers THEN "offline" ELSE agents[a]]
    /\ saved' \in {saved} \cup (IF pc \in {"evaluating", "cleaning"} THEN {captured} ELSE {})
    /\ captured' = NoSnapshot /\ Ended("stopped")
    /\ UNCHANGED <<tasks, verifier, loaded>>

\* An execution of an aborted run ends: it notices the signal, or had finished.  Its
\* worker is terminated and no longer reports its agent idle.
ZombieEnds(e) ==
    /\ e \in zombies /\ zombies' = zombies \ {e}
    /\ \/ tasks' = Finished(e) /\ UNCHANGED verifier
       \/ \E accounting \in BOOLEAN : FailedWith(e, accounting)
    /\ UNCHANGED <<agents, workers, pc, sent, captured, saved, loaded, run, faults>>

\* The next executeMission will load what was saved.
Crash ==
    /\ loaded /\ Fault("crashes")
    /\ tasks' = saved.tasks /\ verifier' = saved.verifier /\ agents' = saved.agents
    /\ workers' = {} /\ sent' = {} /\ zombies' = {} /\ captured' = NoSnapshot
    /\ loaded' = FALSE /\ Ended(IF pc = "idle" THEN run.outcome ELSE "stopped")
    /\ UNCHANGED saved

Node ==
    \/ planMission \/ spawnWorkers \/ dispatch \/ executeTask
    \/ evaluateConsensus \/ Evaluated \/ cleanup \/ CleanedUp

Worker(e) == TaskCompletes(e) \/ \E accounting \in BOOLEAN : TaskFails(e, accounting)

Step == Node \/ \E e \in sent : Worker(e)

Next ==
    \/ executeMission \/ restartMission \/ Step \/ SaveFails \/ Abort \/ Crash
    \/ \E e \in zombies : ZombieEnds(e)

\* LangGraph runs the next node, and among the workers of a round some worker ends its
\* task: its loop takes at most maxToolSteps steps.  Users, aborts, crashes, failures and
\* the executions left by an abort promise nothing.
Fairness == WF_vars(Step)

Spec == Init /\ [][Next]_vars /\ Fairness

-----------------------------------------------------------------------------
(***************************************************************************)
(* Properties.                                                             *)
(***************************************************************************)
Tables(Value) == UNION {[D -> Value] : D \in SUBSET TaskIds}
Typed(table, Value) == DOMAIN table \subseteq TaskIds /\ table \in [DOMAIN table -> Value]

WellTyped(s) ==
    /\ Typed(s.tasks, Task) /\ Typed(s.agents, {"idle", "busy", "offline"})
    /\ s.verifier \in [retries : 0..MAX_FAILED_RETRIES, accounting : BOOLEAN]

\* Every variable has its type, there are no executions outside the node that runs them,
\* and a live worker has an agent that is registered and not offline.
TypeOK ==
    /\ WellTyped(Snapshot) /\ WellTyped(saved) /\ WellTyped(captured)
    /\ workers \subseteq DOMAIN agents /\ \A a \in workers : agents[a] # "offline"
    /\ pc \in {"idle", "planMission", "spawnWorkers", "dispatch", "send", "executeTask",
               "evaluateConsensus", "evaluating", "cleanup", "cleaning"}
    /\ sent \in SUBSET Executions /\ zombies \in SUBSET Executions
    /\ sent # {} <=> pc \in {"send", "executeTask"}
    /\ \A e \in sent : e.agent \in workers
    /\ loaded \in BOOLEAN
    /\ run \in [kind : {"none", "execute", "restart"}, clean : BOOLEAN,
                outcome : {"none", "running", "reported", "unreported", "stopped"}]
    /\ run.outcome = "running" <=> pc # "idle"

\* No round sends more than maxWorkers executions, the tasks that an aborted run left in
\* progress and that are sent again included (claimAvailableTasks counts those).
WorkersBounded == Cardinality(sent) <= MaxWorkers

\* A worker, whose message history and evidence are not made for two tasks at once, runs
\* one task, which is of its role.  Until a run is aborted: the next run reports the agent
\* of a task that is still in progress idle, and may give it another one.
WorkerRunsOneTask ==
    faults.aborts = 0 =>
        \A e, f \in sent : RoleOf(e.agent) = RoleOf(e.task) /\ (e.agent = f.agent => e = f)

\* A task starts after all it depends on is completed, and stays behind it: completed
\* work is not taken back under a task that used it, by retries, restarts or a crash.
\* Until a run is aborted: an execution left behind may fail a task that was completed.
StartedAfterDependencies ==
    faults.aborts = 0 =>
        \A t \in DOMAIN tasks :
            tasks[t].status \in {"in_progress", "completed"} => Satisfied(tasks, tasks[t].deps)

\* A round sends what may run, to workers that are free and no more of them than there may be.
DispatchIsSound == WorkersBounded /\ WorkerRunsOneTask /\ StartedAfterDependencies

\* A task is given up only because one that it depends on failed, or is given up with it or was
\* before, and some task did fail: never because it has to wait for a slot, for a worker or for
\* what an aborted run left behind (evaluateConsensus).  A crash brings back what was saved.
CancelledByFailure ==
    [][\A t \in DOMAIN tasks \cap DOMAIN tasks' :
         tasks[t].status # "cancelled" /\ tasks'[t].status = "cancelled"
           => \/ /\ \E u \in tasks[t].deps : tasks'[u].status \in {"failed", "cancelled"}
                 /\ \E u \in DOMAIN tasks : tasks[u].status = "failed"
              \/ ~loaded']_vars

\* A report that was returned is on disk: a crash does not take it back.
ReportedIsSaved ==
    pc = "idle" /\ run.outcome = "reported" =>
        "report" \in DOMAIN saved.tasks /\ saved.tasks["report"].status = "completed"

\* Every run ends, also one that begins from a snapshot or from what an aborted run left:
\* the supervisor does not go round between dispatch and evaluateConsensus for ever.
RunEnds == pc # "idle" ~> pc = "idle"

\* Not so, dispatch does not run again: "auto-retry failed verifier tasks (QA recovery)", the comment
\* on it. A run does not give up while a failed verifier task may be retried.
VerifierIsRetried == pc = "cleanup" => Retried(tasks) = {}

\* Not so, the dependents of the verifier stay cancelled: "only the verifier task is reset while
\* preserving completed upstream work", the comment on restartMission. A restarted mission that
\* verifies and in which no worker fails ends with a report.
RestartReports ==
    run.kind = "restart" /\ run.clean /\ "verify" \in DOMAIN tasks
        /\ tasks["verify"].status = "completed"
      => run.outcome # "unreported"
=============================================================================
