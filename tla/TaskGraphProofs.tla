--------------------------- MODULE TaskGraphProofs ---------------------------
(***************************************************************************)
(* What is proved of TaskGraph, for every set of task ids, of agents and   *)
(* of roles, and every length of history.                                  *)
(*                                                                         *)
(* The properties hold of the tasks because they hold of what was exported *)
(* (an import brings it back), because the index of dependents is complete *)
(* (completeTask looks only there for tasks to wake) and because a         *)
(* dependency exists before the task that names it.                        *)
(***************************************************************************)
EXTENDS TaskGraph, TLAPS

DepsExist(ts) == \A t \in DOMAIN ts : ts[t].deps \subseteq DOMAIN ts

Good(ts) == Graph(ts) /\ Awake(ts) /\ Staffed(ts) /\ DepsExist(ts) /\ WellFounded(ts)

DependentsAgree ==
    \A t \in DOMAIN tasks : \A d \in tasks[t].deps : t \in taskDependents[d]

IInv == TypeOK /\ Good(tasks) /\ Good(exported) /\ IndexAgrees /\ DependentsAgree

-----------------------------------------------------------------------------
(***************************************************************************)
(* Lemmas about the operators of TaskStates.                               *)
(***************************************************************************)
\* A change of one task that completes nothing keeps a graph good.
LEMMA PatchGood ==
    ASSUME NEW ts, Good(ts), NEW t \in DOMAIN ts, NEW new \in Task,
           new.deps = ts[t].deps, new.status # "completed",
           new.status = "blocked" => ~Satisfied(ts, new.deps),
           new.status \in {"claimed", "in_progress"} => new.agent \in AgentIds
    PROVE  Good([ts EXCEPT ![t] = new])
<1> DEFINE tn == [ts EXCEPT ![t] = new]
<1>0. Graph(ts) /\ Awake(ts) /\ Staffed(ts) /\ DepsExist(ts) /\ WellFounded(ts)
  BY DEF Good
<1>1. /\ DOMAIN tn = DOMAIN ts /\ tn[t] = new
      /\ \A u \in DOMAIN ts : u # t => tn[u] = ts[u]
      /\ \A u \in DOMAIN ts : tn[u].deps = ts[u].deps
  BY <1>0 DEF Graph
<1>2. Graph(tn)
  BY <1>0, <1>1 DEF Graph
<1>3. ASSUME NEW deps, Satisfied(tn, deps)
      PROVE  Satisfied(ts, deps)
  BY <1>1, <1>3 DEF Satisfied
<1>4. Awake(tn)
  BY <1>0, <1>1, <1>3 DEF Awake
<1>5. Staffed(tn)
  BY <1>0, <1>1 DEF Staffed
<1>6. DepsExist(tn)
  BY <1>0, <1>1 DEF DepsExist
<1>7. WellFounded(tn)
  BY <1>0, <1>1 DEF WellFounded
<1> QED
  BY <1>2, <1>4, <1>5, <1>6, <1>7 DEF Good

\* What an update of the status, and of the agent, of a task gives.
LEMMA NewStatus ==
    ASSUME NEW rec \in Task, NEW s \in TaskStatus
    PROVE  /\ [rec EXCEPT !.status = s] \in Task
           /\ [rec EXCEPT !.status = s].deps = rec.deps
           /\ [rec EXCEPT !.status = s].status = s
           /\ [rec EXCEPT !.status = s].agent = rec.agent
  BY DEF Task

Given(rec, s, a) == [rec EXCEPT !.status = s, !.agent = a]

LEMMA NewAgent ==
    ASSUME NEW rec \in Task, NEW s \in TaskStatus, NEW a \in AgentIds \cup {NoAgent}
    PROVE  /\ Given(rec, s, a) \in Task
           /\ Given(rec, s, a).deps = rec.deps
           /\ Given(rec, s, a).status = s
           /\ Given(rec, s, a).agent = a
  BY DEF Task, Given

\* completeTask keeps a graph good when it looks at every dependent of the task.
LEMMA CompletedGood ==
    ASSUME NEW ts, Good(ts), NEW t \in DOMAIN ts, NEW D,
           \A u \in DOMAIN ts : t \in ts[u].deps => u \in D,
           ts[t].status = "in_progress"
    PROVE  Good(Completed(ts, t, D))
<1> DEFINE tn == Completed(ts, t, D)
           tc == [ts EXCEPT ![t].status = "completed"]
<1>0. Graph(ts) /\ Awake(ts) /\ Staffed(ts) /\ DepsExist(ts) /\ WellFounded(ts)
  BY DEF Good
<1>1. /\ DOMAIN tn = DOMAIN ts
      /\ \A u \in DOMAIN ts : tn[u] \in Task /\ tn[u].deps = ts[u].deps
                              /\ tn[u].agent = ts[u].agent
      /\ tn[t].status = "completed"
      /\ \A u \in DOMAIN ts \ {t} :
            tn[u].status = IF u \in Unblocked(ts, t, D) THEN "pending" ELSE ts[u].status
  BY <1>0 DEF Completed, Graph, Task, TaskStatus
<1>2. Graph(tn)
  BY <1>0, <1>1 DEF Graph, Completed
<1>3. /\ DOMAIN tc = DOMAIN ts
      /\ \A u \in DOMAIN ts : (tc[u].status = "completed") <=> (tn[u].status = "completed")
  BY <1>0, <1>1 DEF Graph, Task, Unblocked
<1>4. \A deps : Satisfied(tn, deps) <=> Satisfied(tc, deps)
  BY <1>1, <1>3 DEF Satisfied
<1>5. ASSUME NEW u \in DOMAIN tn, tn[u].status = "blocked"
      PROVE  ~Satisfied(tn, tn[u].deps)
  <2>1. u # t /\ ts[u].status = "blocked" /\ u \notin Unblocked(ts, t, D)
    BY <1>1, <1>5
  <2>2. CASE t \in ts[u].deps
    BY <2>1, <2>2, <1>1, <1>4 DEF Unblocked
  <2>3. CASE t \notin ts[u].deps
    <3>1. ~Satisfied(ts, ts[u].deps)
      BY <2>1, <1>0, <1>1 DEF Awake
    <3>2. \A d \in ts[u].deps : d \in DOMAIN ts => d # t /\ tc[d] = ts[d]
      BY <2>3, <1>0 DEF Graph
    <3> QED
      BY <3>1, <3>2, <1>1, <1>3, <1>4 DEF Satisfied
  <2> QED
    BY <2>2, <2>3
<1>6. Awake(tn)
  BY <1>5 DEF Awake
<1>7. Staffed(tn)
  BY <1>0, <1>1 DEF Staffed, Unblocked
<1>8. DepsExist(tn) /\ WellFounded(tn)
  BY <1>0, <1>1 DEF DepsExist, WellFounded
<1> QED
  BY <1>2, <1>6, <1>7, <1>8 DEF Good

\* Moving one task from its status to another keeps the index.
LEMMA UpdateAgrees ==
    ASSUME TypeOK, IndexAgrees, NEW t \in DOMAIN tasks, NEW new \in Task,
           Update(t, [tasks EXCEPT ![t] = new])
    PROVE  IndexAgrees'
<1>1. /\ DOMAIN tasks' = DOMAIN tasks /\ tasks'[t] = new
      /\ \A u \in DOMAIN tasks : u # t => tasks'[u] = tasks[u]
      /\ tasksByStatus' = Moved(tasksByStatus, {t}, tasks[t].status, new.status)
  BY DEF TypeOK, Graph, Update
<1>2. new.status \in TaskStatus /\ tasks[t].status \in TaskStatus
  BY DEF TypeOK, Graph, Task
<1> QED
  BY <1>1, <1>2 DEF IndexAgrees, Moved

\* An operation of one task that completes nothing keeps the invariant.
LEMMA UpdateKeeps ==
    ASSUME IInv, NEW t \in DOMAIN tasks, NEW new \in Task,
           Update(t, [tasks EXCEPT ![t] = new]),
           new.deps = tasks[t].deps, new.status # "completed",
           new.status = "blocked" => ~Satisfied(tasks, new.deps),
           new.status \in {"claimed", "in_progress"} => new.agent \in AgentIds
    PROVE  IInv'
<1>1. /\ TypeOK /\ Good(tasks) /\ Good(exported) /\ IndexAgrees /\ DependentsAgree
  BY DEF IInv
<1>2. /\ tasks' = [tasks EXCEPT ![t] = new]
      /\ UNCHANGED <<taskDependents, exported>>
      /\ tasksByStatus' = Moved(tasksByStatus, {t}, tasks[t].status, tasks'[t].status)
  BY DEF Update
<1>3. Good(tasks')
  BY <1>1, <1>2, PatchGood
<1>4. Good(exported)'
  BY <1>1, <1>2 DEF Good, Graph, Awake, Staffed, DepsExist, WellFounded
<1>5. TypeOK'
  <2>1. t \in TaskIds
    BY <1>1 DEF TypeOK, Graph
  <2>2. tasksByStatus' \in [TaskStatus -> SUBSET TaskIds]
    BY <1>1, <1>2, <2>1 DEF TypeOK, Moved
  <2> QED
    BY <1>1, <1>2, <1>3, <2>2 DEF TypeOK, Good
<1>6. IndexAgrees'
  BY <1>1, UpdateAgrees
<1>7. DependentsAgree'
  BY <1>1, <1>2 DEF DependentsAgree, TypeOK, Graph
<1> QED
  BY <1>3, <1>4, <1>5, <1>6, <1>7 DEF IInv

-----------------------------------------------------------------------------
LEMMA InitIInv == Init => IInv
<1> SUFFICES ASSUME Init PROVE IInv
  OBVIOUS
<1>1. DOMAIN Empty = {} /\ Graph(Empty)
  BY DEF Empty, Graph
<1>2. Good(Empty)
  BY <1>1 DEF Good, Awake, Staffed, DepsExist, WellFounded
<1> QED
  BY <1>1, <1>2 DEF Init, IInv, TypeOK, IndexAgrees, DependentsAgree, Unindexed

LEMMA CreateKeeps ==
    ASSUME IInv, NEW t \in TaskIds, NEW deps \in SUBSET TaskIds, NEW role \in Roles \cup {AnyRole},
           createTask(t, deps, role)
    PROVE  IInv'
<1> DEFINE new == [status |-> InitialStatus(tasks, deps), deps |-> deps,
                   agent |-> NoAgent, role |-> role]
<1>1. TypeOK /\ Good(tasks) /\ Good(exported) /\ IndexAgrees /\ DependentsAgree
  BY DEF IInv
<1>2. /\ t \notin DOMAIN tasks /\ deps \subseteq DOMAIN tasks
      /\ tasks' = [u \in DOMAIN tasks \cup {t} |-> IF u = t THEN new ELSE tasks[u]]
      /\ tasksByStatus' = [tasksByStatus EXCEPT ![new.status] = @ \cup {t}]
      /\ taskDependents' = [d \in TaskIds |->
             IF d \in deps THEN taskDependents[d] \cup {t} ELSE taskDependents[d]]
      /\ exported' = exported
  BY DEF createTask
<1>3. new \in Task /\ new.status \in {"pending", "blocked"}
  BY DEF Task, TaskStatus, InitialStatus
<1>4. /\ DOMAIN tasks' = DOMAIN tasks \cup {t} /\ tasks'[t] = new
      /\ \A u \in DOMAIN tasks : u # t /\ tasks'[u] = tasks[u]
  BY <1>2
<1>5. Graph(tasks)
  BY <1>1 DEF TypeOK
<1>6. Graph(tasks')
  BY <1>2, <1>3, <1>4, <1>5 DEF Graph
<1>7. \A D : D \subseteq DOMAIN tasks => (Satisfied(tasks', D) <=> Satisfied(tasks, D))
  BY <1>4 DEF Satisfied
<1>8. Awake(tasks')
  BY <1>1, <1>2, <1>4, <1>7 DEF Awake, Good, DepsExist, InitialStatus
<1>9. Staffed(tasks') /\ DepsExist(tasks')
  BY <1>1, <1>2, <1>3, <1>4 DEF Staffed, DepsExist, Good
<1>10. ASSUME NEW S \in SUBSET DOMAIN tasks', S # {}
       PROVE  \E u \in S : tasks'[u].deps \cap S = {}
  <2>1. CASE S = {t}
    BY <2>1, <1>2, <1>4
  <2>2. CASE S # {t}
    <3>1. S \ {t} \in SUBSET DOMAIN tasks /\ S \ {t} # {}
      BY <2>2, <1>4, <1>10
    <3>2. PICK u \in S \ {t} : tasks[u].deps \cap (S \ {t}) = {}
      BY <3>1, <1>1 DEF Good, WellFounded
    <3>3. tasks[u].deps \subseteq DOMAIN tasks /\ tasks'[u] = tasks[u]
      BY <3>1, <3>2, <1>1, <1>4 DEF Good, DepsExist
    <3> QED
      BY <3>2, <3>3, <1>2
  <2> QED
    BY <2>1, <2>2
<1>11. Good(tasks')
  BY <1>6, <1>8, <1>9, <1>10 DEF Good, WellFounded
<1>12. Good(exported)'
  BY <1>1, <1>2 DEF Good, Graph, Awake, Staffed, DepsExist, WellFounded
<1>13. TypeOK'
  BY <1>1, <1>2, <1>3, <1>6 DEF TypeOK, TaskStatus
<1>14. IndexAgrees'
  BY <1>1, <1>2, <1>3, <1>4 DEF IndexAgrees, TypeOK, TaskStatus
<1>15. DependentsAgree'
  BY <1>1, <1>2, <1>4, <1>5 DEF DependentsAgree, Graph, Task
<1> QED
  BY <1>11, <1>12, <1>13, <1>14, <1>15 DEF IInv

LEMMA CompleteKeeps ==
    ASSUME IInv, NEW t \in TaskIds, completeTask(t)
    PROVE  IInv'
<1> DEFINE D == taskDependents[t]
           U == Unblocked(tasks, t, D)
<1>1. TypeOK /\ Good(tasks) /\ Good(exported) /\ IndexAgrees /\ DependentsAgree
  BY DEF IInv
<1>2. /\ t \in DOMAIN tasks /\ tasks[t].status = "in_progress"
      /\ tasks' = Completed(tasks, t, D)
      /\ tasksByStatus' = Moved(Moved(tasksByStatus, {t}, "in_progress", "completed"),
                                U, "blocked", "pending")
      /\ UNCHANGED <<taskDependents, exported>>
  BY DEF completeTask
<1>3. \A u \in DOMAIN tasks : t \in tasks[u].deps => u \in D
  BY <1>1 DEF DependentsAgree
<1>4. Good(tasks')
  BY <1>1, <1>2, <1>3, CompletedGood
<1>5. Good(exported)'
  BY <1>1, <1>2 DEF Good, Graph, Awake, Staffed, DepsExist, WellFounded
<1>6. U \subseteq DOMAIN tasks /\ (\A u \in U : tasks[u].status = "blocked") /\ t \notin U
  BY <1>2 DEF Unblocked
<1>7. /\ DOMAIN tasks' = DOMAIN tasks
      /\ tasks'[t].status = "completed"
      /\ \A u \in DOMAIN tasks : tasks'[u].deps = tasks[u].deps
      /\ \A u \in U : tasks'[u].status = "pending"
      /\ \A u \in DOMAIN tasks : u # t /\ u \notin U => tasks'[u] = tasks[u]
  BY <1>1, <1>2, <1>6 DEF Completed, TypeOK, Graph, Task
<1>8. TypeOK'
  BY <1>1, <1>2, <1>4, <1>6 DEF TypeOK, Good, Graph, Moved, TaskStatus
<1>9. IndexAgrees'
  BY <1>1, <1>2, <1>6, <1>7 DEF IndexAgrees, Moved, TaskStatus
<1>10. DependentsAgree'
  BY <1>1, <1>2, <1>7 DEF DependentsAgree
<1> QED
  BY <1>4, <1>5, <1>8, <1>9, <1>10 DEF IInv

LEMMA ImportKeeps ==
    ASSUME IInv, NEW ts, Good(ts), importTasks(ts)
    PROVE  IInv'
<1>1. Graph(ts) /\ TypeOK /\ Good(exported)
  BY DEF IInv, Good
<1>2. Good(tasks)' /\ Good(exported)'
  BY <1>1 DEF importTasks, Good, Graph, Awake, Staffed, DepsExist, WellFounded
<1>3. TypeOK'
  BY <1>1 DEF TypeOK, importTasks, Graph
<1>4. IndexAgrees' /\ DependentsAgree'
  BY <1>1 DEF IndexAgrees, DependentsAgree, importTasks, Graph, Task
<1> QED
  BY <1>2, <1>3, <1>4 DEF IInv

LEMMA ResetByRoleKeeps ==
    ASSUME IInv, NEW role \in Roles, resetTasksByRole(role)
    PROVE  IInv'
<1> DEFINE R == {t \in getTasksByStatus("failed") \cup getTasksByStatus("cancelled") :
                   tasks[t].role = role}
           status(t) == InitialStatus(tasks, tasks[t].deps)
<1>1. TypeOK /\ Good(tasks) /\ Good(exported) /\ IndexAgrees /\ DependentsAgree
  BY DEF IInv
<1>2. /\ tasks' = [t \in DOMAIN tasks |-> IF t \in R THEN Reset(tasks, t)[t] ELSE tasks[t]]
      /\ tasksByStatus' = [s \in TaskStatus |->
             (tasksByStatus[s] \ R) \cup {t \in R : status(t) = s}]
      /\ UNCHANGED <<taskDependents, exported>>
  BY DEF resetTasksByRole
<1>3. /\ R \subseteq DOMAIN tasks
      /\ \A t \in R : tasks[t].status \in {"failed", "cancelled"}
                      /\ status(t) \in {"pending", "blocked"}
  BY <1>1 DEF getTasksByStatus, IndexAgrees, TaskStatus, InitialStatus
<1>4. \A t \in R : Reset(tasks, t)[t] = Given(tasks[t], status(t), NoAgent)
  BY <1>1, <1>3 DEF Reset, TypeOK, Graph, Given
<1>5. /\ DOMAIN tasks' = DOMAIN tasks
      /\ \A t \in DOMAIN tasks : tasks'[t] \in Task /\ tasks'[t].deps = tasks[t].deps
      /\ \A t \in R : tasks'[t].status = status(t)
      /\ \A t \in DOMAIN tasks \ R : tasks'[t] = tasks[t]
  <2>1. \A t \in DOMAIN tasks : tasks[t] \in Task
    BY <1>1 DEF TypeOK, Graph
  <2>2. \A t \in R : tasks'[t] = Given(tasks[t], status(t), NoAgent)
    BY <1>2, <1>3, <1>4
  <2>3. \A t \in R : status(t) \in TaskStatus /\ tasks[t] \in Task
    BY <1>3, <2>1 DEF TaskStatus
  <2>4. \A t \in R : /\ tasks'[t] \in Task /\ tasks'[t].deps = tasks[t].deps
                    /\ tasks'[t].status = status(t)
    BY ONLY <2>2, <2>3, NewAgent
  <2>5. DOMAIN tasks' = DOMAIN tasks /\ \A t \in DOMAIN tasks \ R : tasks'[t] = tasks[t]
    BY <1>2
  <2> QED
    BY ONLY <2>1, <2>4, <2>5
<1>6. Graph(tasks')
  BY <1>1, <1>2, <1>5 DEF TypeOK, Graph
<1>7. \A deps : Satisfied(tasks', deps) <=> Satisfied(tasks, deps)
  BY <1>3, <1>5 DEF Satisfied
<1>8. Awake(tasks')
  BY <1>1, <1>3, <1>5, <1>7 DEF Awake, Good, InitialStatus
<1>9. Staffed(tasks')
  BY <1>1, <1>3, <1>5 DEF Staffed, Good
<1>10. DepsExist(tasks') /\ WellFounded(tasks')
  BY <1>1, <1>5 DEF DepsExist, WellFounded, Good
<1>11. Good(exported)'
  BY <1>1, <1>2 DEF Good, Graph, Awake, Staffed, DepsExist, WellFounded
<1>12. TypeOK'
  BY <1>1, <1>2, <1>3, <1>6 DEF TypeOK, Graph
<1>13. IndexAgrees'
  BY <1>1, <1>2, <1>3, <1>5 DEF IndexAgrees, TaskStatus
<1>14. DependentsAgree'
  BY <1>1, <1>2, <1>5 DEF DependentsAgree
<1> QED
  BY <1>6, <1>8, <1>9, <1>10, <1>11, <1>12, <1>13, <1>14 DEF IInv, Good

LEMMA NextIInv == IInv /\ [Next]_vars => IInv'
<1> SUFFICES ASSUME IInv, [Next]_vars PROVE IInv'
  OBVIOUS
<1>0. TypeOK /\ Good(tasks) /\ Good(exported) /\ Graph(tasks)
  BY DEF IInv, TypeOK
<1>1. ASSUME NEW t \in TaskIds, NEW deps \in SUBSET TaskIds, NEW role \in Roles \cup {AnyRole},
             createTask(t, deps, role)
      PROVE  IInv'
  BY <1>1, CreateKeeps
<1>2. ASSUME NEW t \in TaskIds, NEW a \in AgentIds, claimTask(t, a)
      PROVE  IInv'
  <2> DEFINE new == Given(tasks[t], "claimed", a)
  <2>1. t \in DOMAIN tasks /\ Update(t, Claimed(tasks, t, a))
    BY <1>2 DEF claimTask
  <2>2. Claimed(tasks, t, a) = [tasks EXCEPT ![t] = new]
    BY <1>0, <2>1 DEF Claimed, Graph, Given
  <2>3. tasks[t] \in Task /\ "claimed" \in TaskStatus /\ a \in AgentIds \cup {NoAgent}
    BY <1>0, <2>1 DEF Graph, TaskStatus
  <2>4. new \in Task /\ new.deps = tasks[t].deps /\ new.status = "claimed" /\ new.agent = a
    BY <2>3, NewAgent
  <2> HIDE DEF new
  <2> QED
    BY <2>1, <2>2, <2>4, UpdateKeeps
<1>3. ASSUME NEW t \in TaskIds, startTask(t)
      PROVE  IInv'
  <2> DEFINE new == [tasks[t] EXCEPT !.status = "in_progress"]
  <2>1. t \in DOMAIN tasks /\ tasks[t].status = "claimed" /\ Update(t, Started(tasks, t))
    BY <1>3 DEF startTask
  <2>2. Started(tasks, t) = [tasks EXCEPT ![t] = new]
    BY <1>0, <2>1 DEF Started, Graph
  <2>3. tasks[t] \in Task /\ "in_progress" \in TaskStatus
    BY <1>0, <2>1 DEF Graph, TaskStatus
  <2>4. /\ new \in Task /\ new.deps = tasks[t].deps /\ new.status = "in_progress"
        /\ new.agent = tasks[t].agent
    BY <2>3, NewStatus
  <2>5. new.agent \in AgentIds
    BY <1>0, <2>1, <2>4 DEF Good, Staffed
  <2> HIDE DEF new
  <2> QED
    BY <2>1, <2>2, <2>4, <2>5, UpdateKeeps
<1>4. ASSUME NEW t \in TaskIds, completeTask(t)
      PROVE  IInv'
  BY <1>4, CompleteKeeps
<1>5. ASSUME NEW t \in TaskIds, failTask(t)
      PROVE  IInv'
  <2> DEFINE new == [tasks[t] EXCEPT !.status = "failed"]
  <2>1. t \in DOMAIN tasks /\ Update(t, Failed(tasks, t))
    BY <1>5 DEF failTask
  <2>2. Failed(tasks, t) = [tasks EXCEPT ![t] = new]
    BY <1>0, <2>1 DEF Failed, Graph
  <2>3. tasks[t] \in Task /\ "failed" \in TaskStatus
    BY <1>0, <2>1 DEF Graph, TaskStatus
  <2>4. new \in Task /\ new.deps = tasks[t].deps /\ new.status = "failed"
    BY <2>3, NewStatus
  <2> HIDE DEF new
  <2> QED
    BY <2>1, <2>2, <2>4, UpdateKeeps
<1>6. ASSUME NEW t \in TaskIds, cancelTask(t)
      PROVE  IInv'
  <2> DEFINE new == [tasks[t] EXCEPT !.status = "cancelled"]
  <2>1. t \in DOMAIN tasks /\ Update(t, Cancelled(tasks, t))
    BY <1>6 DEF cancelTask
  <2>2. Cancelled(tasks, t) = [tasks EXCEPT ![t] = new]
    BY <1>0, <2>1 DEF Cancelled, Graph
  <2>3. tasks[t] \in Task /\ "cancelled" \in TaskStatus
    BY <1>0, <2>1 DEF Graph, TaskStatus
  <2>4. new \in Task /\ new.deps = tasks[t].deps /\ new.status = "cancelled"
    BY <2>3, NewStatus
  <2> HIDE DEF new
  <2> QED
    BY <2>1, <2>2, <2>4, UpdateKeeps
<1>7. ASSUME NEW t \in TaskIds, releaseTask(t)
      PROVE  IInv'
  <2> DEFINE new == Given(tasks[t], "pending", NoAgent)
  <2>1. t \in DOMAIN tasks /\ Update(t, Released(tasks, t))
    BY <1>7 DEF releaseTask
  <2>2. Released(tasks, t) = [tasks EXCEPT ![t] = new]
    BY <1>0, <2>1 DEF Released, Graph, Given
  <2>3. tasks[t] \in Task /\ "pending" \in TaskStatus /\ NoAgent \in AgentIds \cup {NoAgent}
    BY <1>0, <2>1 DEF Graph, TaskStatus
  <2>4. new \in Task /\ new.deps = tasks[t].deps /\ new.status = "pending"
    BY <2>3, NewAgent
  <2> HIDE DEF new
  <2> QED
    BY <2>1, <2>2, <2>4, UpdateKeeps
<1>8. ASSUME NEW t \in TaskIds, resetTask(t)
      PROVE  IInv'
  <2> DEFINE s == InitialStatus(tasks, tasks[t].deps)
             new == Given(tasks[t], s, NoAgent)
  <2>1. t \in DOMAIN tasks /\ Update(t, Reset(tasks, t))
    BY <1>8 DEF resetTask
  <2>2. Reset(tasks, t) = [tasks EXCEPT ![t] = new]
    BY <1>0, <2>1 DEF Reset, Graph, Given
  <2>3. s \in TaskStatus /\ s \in {"pending", "blocked"}
        /\ (s = "blocked" => ~Satisfied(tasks, tasks[t].deps))
    BY DEF InitialStatus, TaskStatus
  <2> HIDE DEF s
  <2>4. tasks[t] \in Task /\ NoAgent \in AgentIds \cup {NoAgent}
    BY <1>0, <2>1 DEF Graph
  <2>5. new \in Task /\ new.deps = tasks[t].deps /\ new.status = s
    BY <2>3, <2>4, NewAgent
  <2> HIDE DEF new
  <2> QED
    BY <2>1, <2>2, <2>3, <2>5, UpdateKeeps
<1>9. ASSUME NEW role \in Roles, resetTasksByRole(role)
      PROVE  IInv'
  BY <1>9, ResetByRoleKeeps
<1>10. CASE exportTasks
  BY <1>10, <1>0 DEF exportTasks, IInv, TypeOK, IndexAgrees, DependentsAgree,
                     Good, Graph, Awake, Staffed, DepsExist, WellFounded
<1>11. CASE importTasks(exported)
  BY <1>11, <1>0, ImportKeeps
<1>12. CASE importTasks(Empty)
  <2>1. DOMAIN Empty = {} /\ Graph(Empty)
    BY DEF Empty, Graph
  <2>2. Good(Empty)
    BY <2>1 DEF Good, Awake, Staffed, DepsExist, WellFounded
  <2> QED
    BY <1>12, <2>2, ImportKeeps
<1>13. CASE UNCHANGED vars
  BY <1>13 DEF vars, IInv, TypeOK, IndexAgrees, DependentsAgree,
               Good, Graph, Awake, Staffed, DepsExist, WellFounded
<1> QED
  BY <1>1, <1>2, <1>3, <1>4, <1>5, <1>6, <1>7, <1>8, <1>9, <1>10, <1>11, <1>12, <1>13 DEF Next

-----------------------------------------------------------------------------
(***************************************************************************)
(* Theorems.                                                               *)
(***************************************************************************)
LEMMA SpecIInv == Spec => []IInv
  BY InitIInv, NextIInv, PTL DEF Spec

\* Every variable of TaskGraph has its type (class TaskGraph's maps and sets).
THEOREM GraphTyped == Spec => []TypeOK
<1>1. IInv => TypeOK
  BY DEF IInv
<1> QED
  BY SpecIInv, <1>1, PTL

\* The index by status agrees with the tasks after any history of calls.
THEOREM GraphIndexed == Spec => []IndexAgrees
<1>1. IInv => IndexAgrees
  BY DEF IInv
<1> QED
  BY SpecIInv, <1>1, PTL

\* No task stays blocked when all it waited for is completed.
THEOREM GraphAwake == Spec => []NoLostWakeup
<1>1. IInv => NoLostWakeup
  BY DEF IInv, Good, NoLostWakeup
<1> QED
  BY SpecIInv, <1>1, PTL

\* No tasks wait for each other in a circle, although createTask compares the
\* new task with nothing but the existing ones.
THEOREM GraphAcyclic == Spec => []Acyclic
<1>1. IInv => Acyclic
  BY DEF IInv, Good, Acyclic
<1> QED
  BY SpecIInv, <1>1, PTL

\* A task that is claimed or in progress has an agent to be sent to.
THEOREM GraphStaffed == Spec => []ActiveHasAgent
<1>1. IInv => ActiveHasAgent
  BY DEF IInv, Good, ActiveHasAgent
<1> QED
  BY SpecIInv, <1>1, PTL

\* A graph in which nothing failed or was cancelled can always go on: the first
\* task, along the dependencies, that is not completed is at work or claimable.
THEOREM GraphProgresses == Spec => []NoDeadlock
<1>1. IInv => NoDeadlock
  <2> SUFFICES ASSUME IInv,
                      \A t \in DOMAIN tasks : tasks[t].status \notin {"failed", "cancelled"},
                      \E t \in DOMAIN tasks : tasks[t].status # "completed",
                      \A t \in DOMAIN tasks : tasks[t].status \notin {"claimed", "in_progress"}
               PROVE  \E role \in Roles : getClaimableTasks(role) # {}
    BY DEF NoDeadlock
  <2> DEFINE S == {t \in DOMAIN tasks : tasks[t].status # "completed"}
  <2>0. Graph(tasks) /\ Awake(tasks) /\ DepsExist(tasks) /\ WellFounded(tasks) /\ IndexAgrees
    BY DEF IInv, Good
  <2>1. PICK t \in S : tasks[t].deps \cap S = {}
    <3>1. S \in SUBSET DOMAIN tasks /\ S # {}
      OBVIOUS
    <3> QED
      BY <3>1, <2>0 DEF WellFounded
  <2>2. Satisfied(tasks, tasks[t].deps)
    BY <2>0, <2>1 DEF Satisfied, DepsExist
  <2>3. tasks[t].status = "pending" /\ tasks[t].role \in Roles \cup {AnyRole} /\ t \in DOMAIN tasks
    BY <2>0, <2>1, <2>2 DEF Awake, Graph, Task, TaskStatus
  <2>4. t \in getTasksByStatus("pending")
    BY <2>0, <2>3 DEF getTasksByStatus, IndexAgrees, TaskStatus
  <2>5. PICK role \in Roles : tasks[t].role \in {role, AnyRole}
    BY <2>3, RolesAssumption
  <2> QED
    BY <2>2, <2>4, <2>5 DEF getClaimableTasks
<1> QED
  BY SpecIInv, <1>1, PTL
=============================================================================
