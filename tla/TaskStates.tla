------------------------------ MODULE TaskStates ------------------------------
(***************************************************************************)
(* What each operation of class TaskGraph (src/src/core/hivemind/          *)
(* task-graph.ts) does to the tasks themselves, as operators on a function *)
(* ts from task ids to tasks.  TaskGraph adds the indexes the class keeps  *)
(* beside them; Swarm composes these operators into the supervisor's nodes.*)
(* Times, results, messages and parameters of a task are left out.         *)
(***************************************************************************)
EXTENDS FiniteSets

CONSTANTS
    TaskIds,      \* ids that createTask may draw
    AgentIds,     \* agents that may claim
    Roles,        \* roles of agents, and requiredRole of a task
    AnyRole,      \* requiredRole is undefined
    NoAgent       \* assignedAgent is undefined

ASSUME NoAgentAssumption == NoAgent \notin AgentIds
ASSUME RolesAssumption == Roles # {}

TaskStatus == {"pending", "claimed", "in_progress", "completed", "failed",
               "blocked", "cancelled"}

Task == [status : TaskStatus, deps : SUBSET TaskIds,
         agent : AgentIds \cup {NoAgent}, role : Roles \cup {AnyRole}]

\* areDependenciesSatisfied: a dependency that does not exist is not satisfied.
Satisfied(ts, deps) == \A d \in deps : d \in DOMAIN ts /\ ts[d].status = "completed"

InitialStatus(ts, deps) == IF Satisfied(ts, deps) THEN "pending" ELSE "blocked"

Claimable(ts, t) == ts[t].status = "pending" /\ Satisfied(ts, ts[t].deps)

Claimed(ts, t, a) == [ts EXCEPT ![t].status = "claimed", ![t].agent = a]
Started(ts, t)    == [ts EXCEPT ![t].status = "in_progress"]
Failed(ts, t)     == [ts EXCEPT ![t].status = "failed"]
Cancelled(ts, t)  == [ts EXCEPT ![t].status = "cancelled"]
Released(ts, t)   == [ts EXCEPT ![t].status = "pending", ![t].agent = NoAgent]
Reset(ts, t)      == [ts EXCEPT ![t].status = InitialStatus(ts, ts[t].deps),
                                ![t].agent = NoAgent]

Cancellable(ts, t) == ts[t].status \notin {"completed", "failed"}
Releasable(ts, t)  == ts[t].status \in {"claimed", "in_progress"}
Resettable(ts, t)  == ts[t].status \in {"failed", "cancelled"}

\* Faulty variant: the dependents are looked at before the task is completed.
UnblockedBefore(ts, t, D) ==
    {u \in D \cap DOMAIN ts : ts[u].status = "blocked" /\ Satisfied(ts, ts[u].deps)}

\* The dependents in D that the completion of t leaves with nothing to wait for.
Unblocked(ts, t, D) ==
    {u \in D \cap DOMAIN ts :
        /\ ts[u].status = "blocked"
        /\ Satisfied([ts EXCEPT ![t].status = "completed"], ts[u].deps)}

\* completeTask, with updateBlockedDependents over the dependents D of t.
Completed(ts, t, D) ==
    [u \in DOMAIN ts |->
        IF u = t THEN [ts[t] EXCEPT !.status = "completed"]
        ELSE IF u \in Unblocked(ts, t, D) THEN [ts[u] EXCEPT !.status = "pending"]
        ELSE ts[u]]
=============================================================================
