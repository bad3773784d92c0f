------------------------------ MODULE TaskGraph ------------------------------
(***************************************************************************)
(* Class TaskGraph of src/src/core/hivemind/task-graph.ts: the tasks of a  *)
(* swarm, the index of the tasks by status and the index of the tasks that *)
(* depend on each task.  Every operation is synchronous, so it is one step;*)
(* the swarm may call any of them at any time.  Sets and maps iterate in   *)
(* insertion order in the code, which decides nothing but which of several *)
(* equal tasks is claimed first.                                           *)
(***************************************************************************)
EXTENDS TaskStates, Naturals, TLC

CONSTANT MaxExported    \* bound: tasks in a snapshot

ASSUME MaxExportedAssumption == MaxExported \in Nat

VARIABLES
    tasks,         \* TaskGraph.tasks
    tasksByStatus, \* TaskGraph.tasksByStatus
    taskDependents,\* TaskGraph.taskDependents
    exported       \* what exportTasks last gave to a snapshot

vars == <<tasks, tasksByStatus, taskDependents, exported>>

Empty == [t \in {} |-> NoAgent]
Unindexed == [s \in TaskStatus |-> {}]

Init ==
    /\ tasks = Empty /\ tasksByStatus = Unindexed
    /\ taskDependents = [t \in TaskIds |-> {}]
    /\ exported = Empty

(***************************************************************************)
(* The indexes.                                                            *)
(***************************************************************************)
getTasksByStatus(s) == tasksByStatus[s] \cap DOMAIN tasks

getClaimableTasks(role) ==
    {t \in getTasksByStatus("pending") :
        tasks[t].role \in {role, AnyRole} /\ Satisfied(tasks, tasks[t].deps)}

\* Faulty variant: the old status keeps the task.
MovedLeaving(index, T, from, to) == [index EXCEPT ![to] = @ \cup T]

\* Tasks T leave the status from for the status to.
Moved(index, T, from, to) ==
    [s \in TaskStatus |-> (IF s = from THEN index[s] \ T ELSE index[s])
                            \cup (IF s = to THEN T ELSE {})]

\* updateTaskInternal, when it gives task t the contents it has in ts.
Update(t, ts) ==
    /\ tasks' = ts
    /\ tasksByStatus' = Moved(tasksByStatus, {t}, tasks[t].status, ts[t].status)
    /\ UNCHANGED <<taskDependents, exported>>

(***************************************************************************)
(* The operations.                                                         *)
(***************************************************************************)
\* The id is fresh and every dependency exists, so wouldCreateCycle finds none.
createTask(t, deps, role) ==
    LET new == [status |-> InitialStatus(tasks, deps), deps |-> deps,
                agent |-> NoAgent, role |-> role]
    IN  /\ t \notin DOMAIN tasks /\ deps \subseteq DOMAIN tasks
        /\ tasks' = [u \in DOMAIN tasks \cup {t} |-> IF u = t THEN new ELSE tasks[u]]
        /\ tasksByStatus' = [tasksByStatus EXCEPT ![new.status] = @ \cup {t}]
        /\ taskDependents' = [d \in TaskIds |->
               IF d \in deps THEN taskDependents[d] \cup {t} ELSE taskDependents[d]]
        /\ UNCHANGED exported

claimTask(t, a) == t \in DOMAIN tasks /\ Claimable(tasks, t) /\ Update(t, Claimed(tasks, t, a))
startTask(t)    == t \in DOMAIN tasks /\ tasks[t].status = "claimed" /\ Update(t, Started(tasks, t))
failTask(t)     == t \in DOMAIN tasks /\ Update(t, Failed(tasks, t))
cancelTask(t)   == t \in DOMAIN tasks /\ Cancellable(tasks, t) /\ Update(t, Cancelled(tasks, t))

\* Faulty variant: the released task is blocked, though it waits for nothing.
releaseTaskHeld(t) ==
    /\ t \in DOMAIN tasks /\ Releasable(tasks, t)
    /\ Update(t, [tasks EXCEPT ![t].status = "blocked"])

releaseTask(t)  == t \in DOMAIN tasks /\ Releasable(tasks, t) /\ Update(t, Released(tasks, t))
resetTask(t)    == t \in DOMAIN tasks /\ Resettable(tasks, t) /\ Update(t, Reset(tasks, t))

completeTask(t) ==
    /\ t \in DOMAIN tasks /\ tasks[t].status = "in_progress"
    /\ tasks' = Completed(tasks, t, taskDependents[t])
    /\ tasksByStatus' = Moved(Moved(tasksByStatus, {t}, "in_progress", "completed"),
                              Unblocked(tasks, t, taskDependents[t]), "blocked", "pending")
    /\ UNCHANGED <<taskDependents, exported>>

\* Every failed or cancelled task of a role, each by resetTask.
resetTasksByRole(role) ==
    LET R == {t \in getTasksByStatus("failed") \cup getTasksByStatus("cancelled") :
                tasks[t].role = role}
        status(t) == InitialStatus(tasks, tasks[t].deps)
    IN  /\ R # {}
        /\ tasks' = [t \in DOMAIN tasks |-> IF t \in R THEN Reset(tasks, t)[t] ELSE tasks[t]]
        /\ tasksByStatus' = [s \in TaskStatus |->
               (tasksByStatus[s] \ R) \cup {t \in R : status(t) = s}]
        /\ UNCHANGED <<taskDependents, exported>>

exportTasks ==
    /\ Cardinality(DOMAIN tasks) <= MaxExported
    /\ exported' = tasks
    /\ UNCHANGED <<tasks, tasksByStatus, taskDependents>>

importTasks(ts) ==
    /\ tasks' = ts
    /\ tasksByStatus' = [s \in TaskStatus |-> {t \in DOMAIN ts : ts[t].status = s}]
    /\ taskDependents' = [d \in TaskIds |-> {t \in DOMAIN ts : d \in ts[t].deps}]
    /\ UNCHANGED exported

Next ==
    \/ \E t \in TaskIds :
          \/ \E deps \in SUBSET TaskIds, role \in Roles \cup {AnyRole} : createTask(t, deps, role)
          \/ \E a \in AgentIds : claimTask(t, a)
          \/ startTask(t) \/ completeTask(t) \/ failTask(t)
          \/ cancelTask(t) \/ releaseTask(t) \/ resetTask(t)
    \/ \E role \in Roles : resetTasksByRole(role)
    \/ exportTasks \/ importTasks(exported) \/ importTasks(Empty)

Spec == Init /\ [][Next]_vars

-----------------------------------------------------------------------------
(***************************************************************************)
(* Properties.                                                             *)
(***************************************************************************)
Graph(ts) == DOMAIN ts \subseteq TaskIds /\ ts \in [DOMAIN ts -> Task]

\* Every variable has its type.
TypeOK ==
    /\ Graph(tasks) /\ Graph(exported)
    /\ tasksByStatus \in [TaskStatus -> SUBSET TaskIds]
    /\ taskDependents \in [TaskIds -> SUBSET TaskIds]

\* The index by status, which getClaimableTasks, getStats and every sweep of the
\* supervisor read, lists each task under its status and nowhere else.
IndexAgrees ==
    \A s \in TaskStatus :
        tasksByStatus[s] = {t \in DOMAIN tasks : tasks[t].status = s}

\* No task stays blocked once all its dependencies are completed, whatever was
\* failed, reset, released or imported in between (updateBlockedDependents).
Awake(ts) == \A t \in DOMAIN ts : ts[t].status = "blocked" => ~Satisfied(ts, ts[t].deps)
NoLostWakeup == Awake(tasks)

\* Tasks that are worked on have an agent: routeFromDispatch sends a task to its
\* agent, and drops one that has none.
Staffed(ts) ==
    \A t \in DOMAIN ts : ts[t].status \in {"claimed", "in_progress"} => ts[t].agent \in AgentIds
ActiveHasAgent == Staffed(tasks)

\* No set of tasks waits on itself, without any cycle check on a task that exists.
WellFounded(ts) ==
    \A S \in SUBSET DOMAIN ts : S # {} => \E t \in S : ts[t].deps \cap S = {}
Acyclic == WellFounded(tasks)

\* As long as no task has failed or been cancelled, a graph that is not finished
\* has a task at work or one that some role finds claimable.
NoDeadlock ==
    /\ \A t \in DOMAIN tasks : tasks[t].status \notin {"failed", "cancelled"}
    /\ \E t \in DOMAIN tasks : tasks[t].status # "completed"
    => \/ \E t \in DOMAIN tasks : tasks[t].status \in {"claimed", "in_progress"}
       \/ \E role \in Roles : getClaimableTasks(role) # {}

\* Neither ids nor agents are ordered.
Symmetry == Permutations(TaskIds) \cup Permutations(AgentIds)
=============================================================================
