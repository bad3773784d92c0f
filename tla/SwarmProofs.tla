------------------------------ MODULE SwarmProofs ------------------------------
(***************************************************************************)
(* What is proved of Swarm, for every list of patch perspectives, every    *)
(* maxWorkers, and any number of runs, failures, aborts and crashes.       *)
(*                                                                         *)
(* The tasks of the board, of the snapshot that is being written and of    *)
(* the one on disk keep the same invariant, because a crash brings the     *)
(* last of them back.  What holds until a run is aborted rests on the      *)
(* executions being exactly the tasks in progress.                         *)
(***************************************************************************)
EXTENDS Swarm, FiniteSetTheorems, TLAPS

AgentStatus == {"idle", "busy", "offline"}

Over(ts, t) == ts[t].status \in {"completed", "failed", "cancelled"}

Planned(ts) ==
    /\ ts \in [TaskIds -> Task]
    /\ \A t \in TaskIds : ts[t].deps = Dependencies(t) /\ ts[t].role = RoleOf(t)

\* Nothing waits for what is there, and what was given up was given up all at once, because of a failure:
\* only the verifier is ever taken up again.
GivenUp(ts) ==
    /\ \A t \in TaskIds : /\ ts[t].status # "claimed"
                          /\ ts[t].status = "blocked" => ~Satisfied(ts, ts[t].deps)
    /\ ts["recon"].status # "cancelled" /\ ts["taint"].status # "cancelled"
    /\ ts["exploit"].status = "cancelled" => ts["recon"].status = "failed" \/ ts["taint"].status = "failed"
    /\ (\E t \in TaskIds : ts[t].status = "cancelled") => \A t \in TaskIds \ {"verify"} : Over(ts, t)

GoodTasks(ts) == Planned(ts) /\ GivenUp(ts) /\ Cardinality(Running(ts)) <= MaxWorkers

Orderly(ts) ==
    \A t \in TaskIds : ts[t].status \in {"in_progress", "completed"} => Satisfied(ts, ts[t].deps)

Good(s) ==
    /\ s.tasks = Nothing \/ GoodTasks(s.tasks)
    /\ s.agents = Nothing \/ s.agents \in [AgentIds -> AgentStatus]
    /\ s.verifier \in [retries : 0..MAX_FAILED_RETRIES, accounting : BOOLEAN]

Nodes == {"planMission", "spawnWorkers", "dispatch", "send", "executeTask", "evaluateConsensus", "evaluating",
          "cleanup", "cleaning"}

\* The nodes that come after planMission have tasks, those after spawnWorkers have their workers.
Staffed ==
    /\ pc \in Nodes \cup {"idle"}
    /\ workers \subseteq DOMAIN agents /\ \A a \in workers : agents[a] # "offline"
    /\ pc \in Nodes \ {"planMission"} => tasks # Nothing
    /\ pc \in Nodes \ {"planMission", "spawnWorkers", "cleaning"} => agents # Nothing /\ workers = AgentIds
    /\ sent \in SUBSET Executions /\ zombies \in SUBSET Executions
    /\ zombies # {} => tasks # Nothing
    /\ sent # {} <=> pc \in {"send", "executeTask"}
    /\ IsFiniteSet(sent) /\ Cardinality(sent) <= MaxWorkers
    /\ loaded \in BOOLEAN
    /\ run \in [kind : {"none", "execute", "restart"}, clean : BOOLEAN,
                outcome : {"none", "running", "reported", "unreported", "stopped"}]
    /\ run.outcome = "running" <=> pc # "idle"
    /\ faults \in [runs : Nat, failures : Nat, aborts : Nat, crashes : Nat, saves : Nat]

Reporting ==
    /\ pc \in {"cleanup", "cleaning"} => Running(tasks) = {}
    /\ pc \in {"evaluating", "cleaning"} => captured.tasks # Nothing
    /\ pc = "cleaning" /\ tasks["report"].status = "completed"
         => captured.tasks["report"].status = "completed"
    /\ ReportedIsSaved

\* Until a run is aborted the executions are the tasks in progress, one for each worker.
Settled(ts) == ts # Nothing => Orderly(ts) /\ Running(ts) = {}

Undisturbed ==
    /\ zombies = {}
    /\ tasks # Nothing => Orderly(tasks)
    /\ Settled(saved.tasks) /\ Settled(captured.tasks)
    /\ {e.task : e \in sent} = Running(tasks)
    /\ \A e \in sent : RoleOf(e.agent) = RoleOf(e.task)
    /\ \A e, f \in sent : e.agent = f.agent \/ e.task = f.task => e = f

IInv ==
    /\ Good(Snapshot) /\ Good(saved) /\ Good(captured)
    /\ Staffed /\ Reporting
    /\ faults.aborts = 0 => Undisturbed

-----------------------------------------------------------------------------
(***************************************************************************)
(* The plan.                                                               *)
(***************************************************************************)
\* What the tasks of the plan wait for.
LEMMA PlanIs ==
    /\ Dependencies("recon") = {} /\ Dependencies("taint") = {}
    /\ Dependencies("exploit") = {"recon", "taint"} /\ Dependencies("verify") = {"exploit"}
    /\ \A p \in PatchTasks : Dependencies(p) = {"verify"}
    /\ Dependencies("report") = {"verify"} \cup PatchTasks
    /\ \A t \in TaskIds : \/ t \in {"recon", "taint", "exploit", "verify", "report"}
                          \/ t \in PatchTasks
    /\ {"recon", "taint", "exploit", "verify", "report"} \subseteq TaskIds /\ PatchTasks \subseteq TaskIds
<1>1. /\ {"recon", "taint", "exploit", "verify", "report"} \cap PatchTasks = {}
      /\ TaskIds = {"recon", "taint", "exploit", "verify", "report"} \cup PatchTasks
  BY PlanAssumption
<1>2. /\ "recon" \notin PatchTasks /\ "taint" \notin PatchTasks /\ "exploit" \notin PatchTasks
      /\ "verify" \notin PatchTasks /\ "report" \notin PatchTasks
  BY <1>1
<1>3. \A p \in PatchTasks : p # "exploit" /\ p # "verify" /\ p # "report"
  BY <1>2
<1> QED
  BY <1>1, <1>2, <1>3 DEF Dependencies

\* Each task has a role and waits for tasks of the plan.
LEMMA PlanTypes ==
    \A t \in TaskIds : Dependencies(t) \in SUBSET TaskIds /\ RoleOf(t) \in Roles
<1>1. \A t \in TaskIds : Dependencies(t) \in SUBSET TaskIds
  BY PlanIs
<1>2. \A t \in TaskIds : RoleOf(t) \in Roles
  BY PlanAssumption DEF RoleOf
<1> QED
  BY <1>1, <1>2

\* The plan is finite.
LEMMA PlanFinite == IsFiniteSet(TaskIds)
<1>1. Len(Patches) \in Nat
  BY PlanAssumption
<1>2. IsFiniteSet(1..Len(Patches))
  BY <1>1, FS_Interval
<1> DEFINE f == [i \in 1..Len(Patches) |-> Patches[i]]
<1>3. f \in Surjection(1..Len(Patches), PatchTasks)
  BY DEF Surjection, PatchTasks
<1>4. IsFiniteSet(PatchTasks)
  BY <1>2, <1>3, FS_Surjection
<1>5. IsFiniteSet({"recon", "taint", "exploit", "verify", "report"})
  <2>1. IsFiniteSet({"recon"} \cup {"taint"})
    BY FS_Singleton, FS_AddElement
  <2>2. IsFiniteSet(({"recon"} \cup {"taint"}) \cup {"exploit"})
    BY <2>1, FS_AddElement
  <2>3. IsFiniteSet((({"recon"} \cup {"taint"}) \cup {"exploit"}) \cup {"verify"})
    BY <2>2, FS_AddElement
  <2>4. IsFiniteSet(((({"recon"} \cup {"taint"}) \cup {"exploit"}) \cup {"verify"}) \cup {"report"})
    BY <2>3, FS_AddElement
  <2>5. {"recon", "taint", "exploit", "verify", "report"}
          = ((({"recon"} \cup {"taint"}) \cup {"exploit"}) \cup {"verify"}) \cup {"report"}
    OBVIOUS
  <2> QED
    BY <2>4, <2>5
<1>6. TaskIds = {"recon", "taint", "exploit", "verify", "report"} \cup PatchTasks
  BY PlanAssumption
<1> QED
  BY <1>4, <1>5, <1>6, FS_Union

\* Sets of tasks can be counted, and a smaller one has no more of them.
LEMMA TasksCount ==
    ASSUME NEW S \in SUBSET TaskIds
    PROVE  /\ IsFiniteSet(S) /\ Cardinality(S) \in Nat
           /\ \A T \in SUBSET S : Cardinality(T) <= Cardinality(S)
<1>1. IsFiniteSet(S)
  BY PlanFinite, FS_Subset
<1> QED
  BY <1>1, FS_Subset, FS_CardinalityType

\* An empty board is not one with a plan.
LEMMA NothingIs ==
    /\ DOMAIN Nothing = {} /\ \A ts : Planned(ts) => ts # Nothing /\ DOMAIN ts = TaskIds
    /\ \A ag \in [AgentIds -> AgentStatus] : ag # Nothing
<1>1. "recon" \in TaskIds /\ AgentIds = TaskIds
  BY PlanIs, PlanAssumption
<1>2. DOMAIN Nothing = {}
  BY DEF Nothing
<1> QED
  BY <1>1, <1>2 DEF Planned

-----------------------------------------------------------------------------
(***************************************************************************)
(* The operations on the tasks.                                            *)
(***************************************************************************)
\* What an update of a task gives.
LEMMA NewStatus ==
    ASSUME NEW ts \in [TaskIds -> Task], NEW t \in TaskIds, NEW s \in TaskStatus,
           NEW us, us = [ts EXCEPT ![t].status = s]
    PROVE  /\ us \in [TaskIds -> Task] /\ us[t].status = s
           /\ us[t].deps = ts[t].deps /\ us[t].role = ts[t].role
           /\ \A u \in TaskIds \ {t} : us[u] = ts[u]
BY DEF Task

\* What an update of a task and of its agent gives.
Given(ts, t, s, a) == [ts EXCEPT ![t].status = s, ![t].agent = a]

\* It gives the task its status and agent, and leaves the other tasks.
LEMMA NewAgent ==
    ASSUME NEW ts \in [TaskIds -> Task], NEW t \in TaskIds, NEW s \in TaskStatus,
           NEW a \in AgentIds \cup {NoAgent}
    PROVE  /\ Given(ts, t, s, a) \in [TaskIds -> Task]
           /\ Given(ts, t, s, a)[t].status = s /\ Given(ts, t, s, a)[t].agent = a
           /\ Given(ts, t, s, a)[t].deps = ts[t].deps /\ Given(ts, t, s, a)[t].role = ts[t].role
           /\ \A u \in TaskIds \ {t} : Given(ts, t, s, a)[u] = ts[u]
<1> DEFINE new == [ts[t] EXCEPT !.status = s, !.agent = a]
<1>1. ts[t] \in Task
  OBVIOUS
<1>2. /\ new \in Task /\ new.status = s /\ new.agent = a
      /\ new.deps = ts[t].deps /\ new.role = ts[t].role
  BY <1>1 DEF Task
<1>3. Given(ts, t, s, a) = [ts EXCEPT ![t] = new]
  BY DEF Given
<1> HIDE DEF new
<1> QED
  BY <1>2, <1>3

\* How a task may be left when none is completed or begun: as it was, failed, pending again, or reset if it
\* is the verifier.
LeftAs(ts, us, t) ==
    \/ us[t].status = ts[t].status
    \/ us[t].status = "failed"
    \/ ts[t].status = "in_progress" /\ us[t].status = "pending"
    \/ /\ t = "verify" /\ ts[t].status \in {"failed", "cancelled"}
       /\ us[t].status = InitialStatus(ts, ts[t].deps)

\* A change that completes and begins nothing keeps the tasks good, and orderly if it fails none that was
\* completed.
LEMMA LeftGood ==
    ASSUME NEW ts, GoodTasks(ts), NEW us, Planned(us), \A t \in TaskIds : LeftAs(ts, us, t)
    PROVE  /\ GoodTasks(us) /\ Running(us) \subseteq Running(ts)
           /\ Orderly(ts) /\ (\A t \in TaskIds : ts[t].status = "completed" => us[t].status = "completed")
                => Orderly(us)
<1>0. /\ Planned(ts) /\ GivenUp(ts) /\ DOMAIN ts = TaskIds /\ DOMAIN us = TaskIds
      /\ \A t \in TaskIds : us[t].deps = ts[t].deps
  BY NothingIs DEF GoodTasks, Planned
<1>1. \A t \in TaskIds : InitialStatus(ts, ts[t].deps) \in {"pending", "blocked"}
  BY DEF InitialStatus
<1>2. \A t \in TaskIds : us[t].status = "completed" => ts[t].status = "completed"
  BY <1>1 DEF LeftAs
<1>3. \A deps : Satisfied(us, deps) => Satisfied(ts, deps)
  BY <1>0, <1>2 DEF Satisfied
<1>4. Running(us) \subseteq Running(ts)
  BY <1>0, <1>1 DEF Running, LeftAs
<1>5. Cardinality(Running(us)) <= MaxWorkers
  <2>1. Running(ts) \in SUBSET TaskIds /\ Running(us) \in SUBSET Running(ts)
    BY <1>0, <1>4 DEF Running
  <2>2. Cardinality(Running(us)) <= Cardinality(Running(ts))
        /\ Cardinality(Running(us)) \in Nat /\ Cardinality(Running(ts)) \in Nat
    BY <2>1, TasksCount
  <2> QED
    BY <2>2, MaxWorkersAssumption DEF GoodTasks
<1>6. GivenUp(us)
  <2>1. ASSUME NEW t \in TaskIds
        PROVE  /\ us[t].status # "claimed"
               /\ us[t].status = "blocked" => ~Satisfied(us, us[t].deps)
    <3>1. us[t].status # "claimed"
      BY <1>0, <1>1 DEF LeftAs, GivenUp
    <3>2. ASSUME us[t].status = "blocked"
          PROVE  ~Satisfied(ts, ts[t].deps)
      BY <1>0, <3>2 DEF LeftAs, GivenUp, InitialStatus
    <3> QED
      BY <3>1, <3>2, <1>0, <1>3
  <2>2. \A t \in TaskIds : us[t].status = "cancelled" => ts[t].status = "cancelled"
    BY <1>1 DEF LeftAs
  <2>3. us["recon"].status # "cancelled" /\ us["taint"].status # "cancelled"
    BY <1>0, <2>2, PlanIs DEF GivenUp
  <2>4. us["exploit"].status = "cancelled" => us["recon"].status = "failed" \/ us["taint"].status = "failed"
    BY <1>0, <2>2, PlanIs DEF GivenUp, LeftAs
  <2>5. ASSUME NEW c \in TaskIds, us[c].status = "cancelled", NEW t \in TaskIds \ {"verify"}
        PROVE  Over(us, t)
    <3>1. Over(ts, t)
      BY <1>0, <2>2, <2>5 DEF GivenUp
    <3> QED
      BY <3>1, <2>5 DEF Over, LeftAs
  <2> QED
    BY <2>1, <2>3, <2>4, <2>5 DEF GivenUp
<1>7. ASSUME Orderly(ts), \A t \in TaskIds : ts[t].status = "completed" => us[t].status = "completed"
      PROVE  Orderly(us)
  <2>1. \A deps : Satisfied(ts, deps) => Satisfied(us, deps)
    BY <1>0, <1>7 DEF Satisfied
  <2>2. \A t \in TaskIds : us[t].status \in {"in_progress", "completed"}
                             => ts[t].status \in {"in_progress", "completed"}
    BY <1>1 DEF LeftAs
  <2> QED
    BY <1>0, <1>7, <2>1, <2>2 DEF Orderly
<1> QED
  BY <1>4, <1>5, <1>6, <1>7 DEF GoodTasks

\* The plan is good: nothing runs and nothing was given up.
LEMMA PlanGood == GoodTasks(Plan) /\ Orderly(Plan) /\ Running(Plan) = {}
<1>1. \A d : InitialStatus(Nothing, d) = IF d = {} THEN "pending" ELSE "blocked"
  BY NothingIs DEF InitialStatus, Satisfied
<1>2. /\ DOMAIN Plan = TaskIds
      /\ \A t \in TaskIds : /\ Plan[t].status = IF Dependencies(t) = {} THEN "pending" ELSE "blocked"
                            /\ Plan[t].deps = Dependencies(t) /\ Plan[t].role = RoleOf(t)
  BY <1>1 DEF Plan
<1>3. Plan \in [TaskIds -> Task]
  BY <1>1, PlanTypes DEF Plan, Task, TaskStatus
<1>4. Planned(Plan) /\ Running(Plan) = {} /\ Orderly(Plan)
  BY <1>2, <1>3 DEF Planned, Running, Orderly
<1>5. \A t \in TaskIds : Plan[t].status = "blocked" => ~Satisfied(Plan, Plan[t].deps)
  BY <1>2, PlanTypes DEF Satisfied
<1>6. GivenUp(Plan)
  BY <1>2, <1>5, PlanIs DEF GivenUp
<1>7. Cardinality(Running(Plan)) <= MaxWorkers
  BY <1>4, FS_EmptySet, MaxWorkersAssumption
<1> QED
  BY <1>4, <1>6, <1>7 DEF GoodTasks

\* completeTask takes a task out of those in progress, and wakes what waited for nothing else.
LEMMA CompletedGood ==
    ASSUME NEW ts, GoodTasks(ts), NEW t \in TaskIds, ts[t].status = "in_progress",
           NEW us, us = Completed(ts, t, {u \in TaskIds : t \in ts[u].deps})
    PROVE  /\ GoodTasks(us) /\ Running(us) = Running(ts) \ {t}
           /\ Orderly(ts) => Orderly(us)
           /\ \A u \in TaskIds : us[u].status = "cancelled" => ts[u].status = "cancelled"
<1> DEFINE D == {u \in TaskIds : t \in ts[u].deps}
           tc == [ts EXCEPT ![t].status = "completed"]
<1>0. /\ Planned(ts) /\ GivenUp(ts) /\ DOMAIN ts = TaskIds /\ ts \in [TaskIds -> Task]
      /\ \A u \in TaskIds : ts[u] \in Task
  BY NothingIs DEF GoodTasks, Planned
<1>1. /\ tc \in [TaskIds -> Task] /\ tc[t].status = "completed"
      /\ \A u \in TaskIds \ {t} : tc[u] = ts[u]
  <2>1. "completed" \in TaskStatus
    BY DEF TaskStatus
  <2> HIDE DEF tc
  <2>2. tc = [ts EXCEPT ![t].status = "completed"]
    BY DEF tc
  <2> QED
    BY <1>0, <2>1, <2>2, NewStatus
<1>2. /\ DOMAIN us = TaskIds /\ us[t] = [ts[t] EXCEPT !.status = "completed"]
      /\ \A u \in TaskIds \ {t} :
            us[u] = IF u \in Unblocked(ts, t, D) THEN [ts[u] EXCEPT !.status = "pending"] ELSE ts[u]
  BY <1>0 DEF Completed
<1>3. /\ \A u \in TaskIds : us[u] \in Task /\ us[u].deps = ts[u].deps /\ us[u].role = ts[u].role
      /\ us[t].status = "completed"
      /\ \A u \in TaskIds \ {t} :
            us[u].status = IF u \in Unblocked(ts, t, D) THEN "pending" ELSE ts[u].status
  <2>1. us[t] \in Task /\ us[t].deps = ts[t].deps /\ us[t].role = ts[t].role /\ us[t].status = "completed"
    <3>1. ts[t] \in Task /\ us[t] = [ts[t] EXCEPT !.status = "completed"]
      BY <1>0, <1>2
    <3> QED
      BY <3>1 DEF Task, TaskStatus
  <2>2. ASSUME NEW u \in TaskIds \ {t}
        PROVE  /\ us[u] \in Task /\ us[u].deps = ts[u].deps /\ us[u].role = ts[u].role
               /\ us[u].status = IF u \in Unblocked(ts, t, D) THEN "pending" ELSE ts[u].status
    <3>1. CASE u \in Unblocked(ts, t, D)
      <4>1. ts[u] \in Task /\ us[u] = [ts[u] EXCEPT !.status = "pending"]
        BY <1>0, <1>2, <3>1
      <4>2. /\ us[u] \in Task /\ us[u].deps = ts[u].deps /\ us[u].role = ts[u].role
            /\ us[u].status = "pending"
        BY <4>1 DEF Task, TaskStatus
      <4> QED
        BY <3>1, <4>2
    <3>2. CASE u \notin Unblocked(ts, t, D)
      BY <1>0, <1>2, <3>2
    <3> QED
      BY <3>1, <3>2
  <2> QED
    BY <2>1, <2>2
<1>4. Planned(us)
  <2>1. us = [u \in TaskIds |-> us[u]]
    BY <1>0 DEF Completed
  <2>2. us \in [TaskIds -> Task]
    BY <2>1, <1>3
  <2> QED
    BY <2>2, <1>0, <1>3 DEF Planned
<1>5. \A u \in Unblocked(ts, t, D) : /\ u \in TaskIds /\ ts[u].status = "blocked"
                                     /\ Satisfied(tc, ts[u].deps)
  BY <1>0 DEF Unblocked
<1>6. \A u \in TaskIds : (us[u].status = "completed") <=> (tc[u].status = "completed")
  BY <1>1, <1>3, <1>5
<1>7. \A deps : Satisfied(us, deps) <=> Satisfied(tc, deps)
  BY <1>1, <1>2, <1>6 DEF Satisfied
<1>8. \A deps : Satisfied(ts, deps) => Satisfied(us, deps)
  BY <1>0, <1>1, <1>2, <1>6 DEF Satisfied
<1>9. Running(us) = Running(ts) \ {t}
  BY <1>0, <1>2, <1>3, <1>5 DEF Running
<1>10. Cardinality(Running(us)) <= MaxWorkers
  <2>1. Running(ts) \in SUBSET TaskIds /\ Running(us) \in SUBSET Running(ts)
    BY <1>0, <1>9 DEF Running
  <2>2. Cardinality(Running(us)) <= Cardinality(Running(ts))
        /\ Cardinality(Running(us)) \in Nat /\ Cardinality(Running(ts)) \in Nat
    BY <2>1, TasksCount
  <2> QED
    BY <2>2, MaxWorkersAssumption DEF GoodTasks
<1>11. \A u \in TaskIds : us[u].status = "cancelled" <=> ts[u].status = "cancelled"
  BY <1>3, <1>5
<1>12. GivenUp(us)
  <2>1. ASSUME NEW u \in TaskIds
        PROVE  /\ us[u].status # "claimed"
               /\ us[u].status = "blocked" => ~Satisfied(us, us[u].deps)
    <3>1. us[u].status # "claimed"
      BY <1>0, <1>3 DEF GivenUp
    <3>2. ASSUME us[u].status = "blocked"
          PROVE  ~Satisfied(us, us[u].deps)
      <4>1. u # t /\ ts[u].status = "blocked" /\ u \notin Unblocked(ts, t, D)
        BY <1>3, <3>2
      <4>2. CASE t \in ts[u].deps
        BY <4>1, <4>2, <1>0, <1>3, <1>7 DEF Unblocked
      <4>3. CASE t \notin ts[u].deps
        <5>1. ~Satisfied(ts, ts[u].deps)
          BY <4>1, <1>0 DEF GivenUp
        <5> QED
          BY <5>1, <4>3, <1>0, <1>1, <1>3, <1>7 DEF Satisfied
      <4> QED
        BY <4>2, <4>3
    <3> QED
      BY <3>1, <3>2
  <2>2. us["recon"].status # "cancelled" /\ us["taint"].status # "cancelled"
    BY <1>0, <1>11, PlanIs DEF GivenUp
  <2>3. us["exploit"].status = "cancelled" => us["recon"].status = "failed" \/ us["taint"].status = "failed"
    <3>1. \A u \in TaskIds : ts[u].status = "failed" => us[u].status = "failed"
      BY <1>3, <1>5
    <3> QED
      BY <3>1, <1>0, <1>11, PlanIs DEF GivenUp
  <2>4. ASSUME NEW c \in TaskIds, us[c].status = "cancelled", NEW u \in TaskIds \ {"verify"}
        PROVE  Over(us, u)
    <3>1. Over(ts, u)
      BY <1>0, <1>11, <2>4 DEF GivenUp
    <3> QED
      BY <3>1, <1>3, <1>5 DEF Over
  <2> QED
    BY <2>1, <2>2, <2>3, <2>4 DEF GivenUp
<1>13. ASSUME Orderly(ts)
       PROVE  Orderly(us)
  <2> SUFFICES ASSUME NEW u \in TaskIds, us[u].status \in {"in_progress", "completed"}
               PROVE  Satisfied(us, us[u].deps)
    BY DEF Orderly
  <2>1. ts[u].status \in {"in_progress", "completed"}
    BY <1>3
  <2> QED
    BY <2>1, <1>3, <1>8, <1>13 DEF Orderly
<1> QED
  BY <1>4, <1>9, <1>10, <1>11, <1>12, <1>13 DEF GoodTasks

\* failTask leaves all other tasks as they are.
LEMMA FailedGood ==
    ASSUME NEW ts, GoodTasks(ts), NEW t \in TaskIds, NEW us, us = Failed(ts, t)
    PROVE  /\ GoodTasks(us) /\ Running(us) = Running(ts) \ {t}
           /\ Orderly(ts) /\ ts[t].status # "completed" => Orderly(us)
           /\ \A u \in TaskIds : us[u].status = "cancelled" => ts[u].status = "cancelled"
<1>0. Planned(ts) /\ DOMAIN ts = TaskIds /\ ts \in [TaskIds -> Task]
  BY NothingIs DEF GoodTasks, Planned
<1>1. /\ us \in [TaskIds -> Task] /\ us[t].status = "failed"
      /\ us[t].deps = ts[t].deps /\ us[t].role = ts[t].role
      /\ \A u \in TaskIds \ {t} : us[u] = ts[u]
  <2>1. "failed" \in TaskStatus /\ us = [ts EXCEPT ![t].status = "failed"]
    BY DEF TaskStatus, Failed
  <2> QED
    BY <1>0, <2>1, NewStatus
<1>2. Planned(us) /\ \A u \in TaskIds : LeftAs(ts, us, u)
  BY <1>0, <1>1 DEF Planned, LeftAs
<1>3. Running(us) = Running(ts) \ {t}
  BY <1>0, <1>1 DEF Running
<1> QED
  BY <1>1, <1>2, <1>3, LeftGood

\* So does resetTask of a verifier that failed or was cancelled, and the completed tasks stay completed.
ResetTo(ts, us, R) == us = [t \in DOMAIN ts |-> IF t \in R THEN Reset(ts, t)[t] ELSE ts[t]]

\* A reset that puts only such a verifier back keeps the tasks good, and what is running.
LEMMA ResetGood ==
    ASSUME NEW ts, GoodTasks(ts), NEW us, NEW R, R \subseteq {"verify"},
           \A t \in R : ts[t].status \in {"failed", "cancelled"}, ResetTo(ts, us, R)
    PROVE  /\ GoodTasks(us) /\ Running(us) = Running(ts)
           /\ Orderly(ts) => Orderly(us)
           /\ \A u \in TaskIds : us[u].status = "cancelled" => ts[u].status = "cancelled"
<1>0. Planned(ts) /\ DOMAIN ts = TaskIds /\ ts \in [TaskIds -> Task]
  BY NothingIs DEF GoodTasks, Planned
<1>1. \A t \in TaskIds : InitialStatus(ts, ts[t].deps) \in {"pending", "blocked"}
  BY DEF InitialStatus
<1>2. ASSUME NEW t \in TaskIds
      PROVE  /\ Reset(ts, t)[t] \in Task /\ Reset(ts, t)[t].status = InitialStatus(ts, ts[t].deps)
             /\ Reset(ts, t)[t].deps = ts[t].deps /\ Reset(ts, t)[t].role = ts[t].role
  <2>1. InitialStatus(ts, ts[t].deps) \in TaskStatus /\ NoAgent \in AgentIds \cup {NoAgent}
    BY <1>1 DEF TaskStatus
  <2>2. Reset(ts, t) = Given(ts, t, InitialStatus(ts, ts[t].deps), NoAgent)
    BY DEF Reset, Given
  <2> QED
    BY <1>0, <2>1, <2>2, NewAgent
<1>3. /\ DOMAIN us = TaskIds
      /\ \A t \in TaskIds : /\ us[t] \in Task /\ us[t].deps = ts[t].deps /\ us[t].role = ts[t].role
                            /\ t \notin R => us[t] = ts[t]
                            /\ t \in R => us[t].status = InitialStatus(ts, ts[t].deps)
  BY <1>0, <1>2 DEF ResetTo
<1>4. us \in [TaskIds -> Task]
  BY <1>0, <1>2 DEF ResetTo
<1>5. Planned(us)
  BY <1>0, <1>3, <1>4 DEF Planned
<1>6. \A t \in TaskIds : LeftAs(ts, us, t)
  BY <1>3 DEF LeftAs
<1>7. \A t \in TaskIds : ts[t].status = "completed" => us[t].status = "completed"
  BY <1>3
<1>8. Running(us) = Running(ts)
  BY <1>0, <1>1, <1>3 DEF Running
<1>9. \A u \in TaskIds : us[u].status = "cancelled" => ts[u].status = "cancelled"
  BY <1>1, <1>3
<1> QED
  BY <1>3, <1>5, <1>6, <1>7, <1>8, <1>9, LeftGood

\* releaseStaleTasks: what stays in progress has an agent that is registered and not offline.
LEMMA WithoutStaleGood ==
    ASSUME NEW ts, GoodTasks(ts), NEW us, us = WithoutStale(ts)
    PROVE  /\ GoodTasks(us) /\ Running(us) \subseteq Running(ts)
           /\ Orderly(ts) => Orderly(us)
           /\ \A t \in Running(us) : /\ us[t].agent \in DOMAIN agents /\ agents[us[t].agent] # "offline"
           /\ \A t \in TaskIds : us[t].status = "cancelled" => ts[t].status = "cancelled"
<1>0. Planned(ts) /\ DOMAIN ts = TaskIds /\ ts \in [TaskIds -> Task]
  BY NothingIs DEF GoodTasks, Planned
<1>1. ASSUME NEW t \in TaskIds
      PROVE  /\ Released(ts, t)[t] \in Task /\ Released(ts, t)[t].status = "pending"
             /\ Released(ts, t)[t].deps = ts[t].deps /\ Released(ts, t)[t].role = ts[t].role
  <2>1. "pending" \in TaskStatus /\ NoAgent \in AgentIds \cup {NoAgent}
    BY DEF TaskStatus
  <2>2. Released(ts, t) = Given(ts, t, "pending", NoAgent)
    BY DEF Released, Given
  <2> QED
    BY <1>0, <2>1, <2>2, NewAgent
<1> DEFINE Stale(t) == /\ ts[t].status = "in_progress"
                       /\ ts[t].agent \notin DOMAIN agents \/ agents[ts[t].agent] = "offline"
<1>2. us = [t \in TaskIds |-> IF Stale(t) THEN Released(ts, t)[t] ELSE ts[t]]
  BY <1>0 DEF WithoutStale
<1>3. \A t \in TaskIds : /\ us[t] \in Task /\ us[t].deps = ts[t].deps /\ us[t].role = ts[t].role
                         /\ ~Stale(t) => us[t] = ts[t]
                         /\ Stale(t) => us[t].status = "pending" /\ ts[t].status = "in_progress"
  BY <1>0, <1>1, <1>2
<1>4. us \in [TaskIds -> Task] /\ DOMAIN us = TaskIds
  BY <1>2, <1>3
<1>5. Planned(us)
  BY <1>0, <1>3, <1>4 DEF Planned
<1> HIDE DEF Stale
<1>6. \A t \in TaskIds : LeftAs(ts, us, t)
  BY <1>3 DEF LeftAs
<1>7. \A t \in TaskIds : ts[t].status = "completed" => us[t].status = "completed"
  BY <1>3
<1>8. \A t \in Running(us) : ~Stale(t) /\ t \in TaskIds /\ us[t] = ts[t] /\ ts[t].status = "in_progress"
  BY <1>3, <1>4 DEF Running
<1>9. \A t \in Running(us) : us[t].agent \in DOMAIN agents /\ agents[us[t].agent] # "offline"
  BY <1>8 DEF Stale
<1>10. \A t \in TaskIds : us[t].status = "cancelled" => ts[t].status = "cancelled"
  BY <1>3
<1> QED
  BY <1>5, <1>6, <1>7, <1>9, <1>10, LeftGood

\* What claimAvailableTasks hands out: tasks that may run, each to an idle worker of its role, each worker one.
LEMMA AssignmentIs ==
    ASSUME NEW ts, GoodTasks(ts), NEW f \in Assignments(ts)
    PROVE  /\ DOMAIN f \subseteq Ready(ts)
           /\ \A t \in DOMAIN f : /\ f[t] \in workers /\ agents[f[t]] = "idle"
                                  /\ RoleOf(f[t]) = ts[t].role
           /\ \A t, u \in DOMAIN f : f[t] = f[u] => t = u
           /\ Cardinality(Running(ts) \cup DOMAIN f) <= MaxWorkers
<1> DEFINE idle == {a \in workers : agents[a] = "idle"}
           slots == IF MaxWorkers > Cardinality(Running(ts)) THEN MaxWorkers - Cardinality(Running(ts)) ELSE 0
<1>1. /\ f \in UNION {[D -> idle] : D \in SUBSET Ready(ts)} /\ Cardinality(DOMAIN f) <= slots
      /\ \A t \in DOMAIN f : RoleOf(f[t]) = ts[t].role
      /\ \A t, u \in DOMAIN f : f[t] = f[u] => t = u
  BY DEF Assignments
<1>2. PICK D \in SUBSET Ready(ts) : f \in [D -> idle]
  BY <1>1
<1>3. DOMAIN f \subseteq Ready(ts) /\ \A t \in DOMAIN f : f[t] \in workers /\ agents[f[t]] = "idle"
  BY <1>2
<1>4. Running(ts) \in SUBSET TaskIds /\ DOMAIN f \in SUBSET TaskIds
  BY <1>3, NothingIs DEF Running, Ready, GoodTasks
<1>5. Cardinality(Running(ts) \cup DOMAIN f) <= Cardinality(Running(ts)) + Cardinality(DOMAIN f)
  <2>1. /\ IsFiniteSet(Running(ts)) /\ IsFiniteSet(DOMAIN f) /\ Cardinality(Running(ts)) \in Nat
        /\ Cardinality(DOMAIN f) \in Nat /\ Cardinality(Running(ts) \cap DOMAIN f) \in Nat
    <3>1. Running(ts) \cap DOMAIN f \in SUBSET TaskIds
      BY <1>4
    <3> QED
      BY <1>4, <3>1, TasksCount
  <2>2. Cardinality(Running(ts) \cup DOMAIN f)
          = Cardinality(Running(ts)) + Cardinality(DOMAIN f) - Cardinality(Running(ts) \cap DOMAIN f)
    BY <2>1, FS_Union
  <2> QED
    BY <2>1, <2>2
<1>6. Cardinality(Running(ts) \cup DOMAIN f) <= MaxWorkers
  <2>1. /\ Cardinality(Running(ts)) \in Nat /\ Cardinality(DOMAIN f) \in Nat
        /\ Cardinality(Running(ts) \cup DOMAIN f) \in Nat
    <3>1. Running(ts) \cup DOMAIN f \in SUBSET TaskIds
      BY <1>4
    <3> QED
      BY <1>4, <3>1, TasksCount
  <2>2. Cardinality(Running(ts)) <= MaxWorkers /\ MaxWorkers \in Nat
    BY MaxWorkersAssumption DEF GoodTasks
  <2>3. Cardinality(DOMAIN f) <= slots
    BY <1>1
  <2> QED
    BY <2>1, <2>2, <2>3, <1>5
<1> QED
  BY <1>1, <1>3, <1>6

\* The tasks of a round are begun: they were pending and behind nothing.
LEMMA RoundGood ==
    ASSUME NEW ts, GoodTasks(ts), NEW f \in Assignments(ts), workers \subseteq AgentIds, NEW us,
           us = [t \in DOMAIN ts |-> IF t \in DOMAIN f THEN Started(Claimed(ts, t, f[t]), t)[t] ELSE ts[t]]
    PROVE  /\ GoodTasks(us) /\ Running(us) = Running(ts) \cup DOMAIN f
           /\ Orderly(ts) => Orderly(us)
           /\ \A t \in DOMAIN f : us[t].agent = f[t]
           /\ \A t \in TaskIds : t \notin DOMAIN f => us[t] = ts[t]
           /\ \A t \in TaskIds : us[t].status = "cancelled" => ts[t].status = "cancelled"
<1>0. /\ Planned(ts) /\ GivenUp(ts) /\ DOMAIN ts = TaskIds /\ ts \in [TaskIds -> Task]
  BY NothingIs DEF GoodTasks, Planned
<1>1. /\ \A t \in DOMAIN f : /\ t \in TaskIds /\ ts[t].status = "pending" /\ Satisfied(ts, ts[t].deps)
                             /\ f[t] \in AgentIds
      /\ Cardinality(Running(ts) \cup DOMAIN f) <= MaxWorkers
  BY <1>0, AssignmentIs DEF Ready, Claimable
<1>2. ASSUME NEW t \in DOMAIN f
      PROVE  /\ Started(Claimed(ts, t, f[t]), t)[t] \in Task
             /\ Started(Claimed(ts, t, f[t]), t)[t].status = "in_progress"
             /\ Started(Claimed(ts, t, f[t]), t)[t].agent = f[t]
             /\ Started(Claimed(ts, t, f[t]), t)[t].deps = ts[t].deps
             /\ Started(Claimed(ts, t, f[t]), t)[t].role = ts[t].role
  <2>1. /\ "claimed" \in TaskStatus /\ "in_progress" \in TaskStatus /\ t \in TaskIds
        /\ f[t] \in AgentIds \cup {NoAgent}
    BY <1>1 DEF TaskStatus
  <2>2. /\ Given(ts, t, "claimed", f[t]) \in [TaskIds -> Task]
        /\ Given(ts, t, "claimed", f[t])[t].agent = f[t]
        /\ Given(ts, t, "claimed", f[t])[t].deps = ts[t].deps
        /\ Given(ts, t, "claimed", f[t])[t].role = ts[t].role
    BY <1>0, <2>1, NewAgent
  <2>3. Claimed(ts, t, f[t]) = Given(ts, t, "claimed", f[t])
    BY DEF Claimed, Given
  <2>4. PICK cs \in [TaskIds -> Task] : /\ cs = Claimed(ts, t, f[t])
                                        /\ cs[t].agent = f[t] /\ cs[t].deps = ts[t].deps
                                        /\ cs[t].role = ts[t].role
    BY <2>2, <2>3
  <2>5. Started(cs, t)[t] = [cs[t] EXCEPT !.status = "in_progress"] /\ cs[t] \in Task
    BY <2>1 DEF Started
  <2>6. /\ Started(cs, t)[t] \in Task /\ Started(cs, t)[t].status = "in_progress"
        /\ Started(cs, t)[t].agent = f[t] /\ Started(cs, t)[t].deps = ts[t].deps
        /\ Started(cs, t)[t].role = ts[t].role
    BY <2>1, <2>4, <2>5 DEF Task
  <2> QED
    BY <2>4, <2>6
<1>3. /\ DOMAIN us = TaskIds
      /\ \A t \in TaskIds : t \notin DOMAIN f => us[t] = ts[t]
      /\ \A t \in DOMAIN f : /\ us[t] \in Task /\ us[t].status = "in_progress" /\ us[t].agent = f[t]
                             /\ us[t].deps = ts[t].deps /\ us[t].role = ts[t].role
  BY <1>0, <1>1, <1>2
<1>4. Planned(us)
  <2>1. us = [t \in TaskIds |-> us[t]]
    BY <1>0
  <2>2. \A t \in TaskIds : us[t] \in Task /\ us[t].deps = ts[t].deps /\ us[t].role = ts[t].role
    BY <1>0, <1>3
  <2>3. us \in [TaskIds -> Task]
    BY <2>1, <2>2
  <2> QED
    BY <1>0, <2>2, <2>3 DEF Planned
<1>5. Running(us) = Running(ts) \cup DOMAIN f
  BY <1>0, <1>1, <1>3 DEF Running
<1>6. \A t \in TaskIds : us[t].deps = ts[t].deps /\ (us[t].status = "completed" <=> ts[t].status = "completed")
  BY <1>1, <1>3
<1>7. \A deps : Satisfied(us, deps) <=> Satisfied(ts, deps)
  BY <1>0, <1>3, <1>6 DEF Satisfied
<1>8. \A t \in TaskIds : /\ us[t].status = "cancelled" <=> ts[t].status = "cancelled"
                         /\ us[t].status = "failed" <=> ts[t].status = "failed"
                         /\ us[t].status = "blocked" => ts[t].status = "blocked"
                         /\ us[t].status = "claimed" => ts[t].status = "claimed"
  BY <1>1, <1>3
<1>9. GivenUp(us)
  <2>1. \A t \in TaskIds : /\ us[t].status # "claimed"
                           /\ us[t].status = "blocked" => ~Satisfied(us, us[t].deps)
    BY <1>0, <1>6, <1>7, <1>8 DEF GivenUp
  <2>2. /\ us["recon"].status # "cancelled" /\ us["taint"].status # "cancelled"
        /\ us["exploit"].status = "cancelled" => us["recon"].status = "failed" \/ us["taint"].status = "failed"
    BY <1>0, <1>8, PlanIs DEF GivenUp
  <2>3. ASSUME NEW c \in TaskIds, us[c].status = "cancelled", NEW t \in TaskIds \ {"verify"}
        PROVE  Over(us, t)
    <3>1. Over(ts, t)
      BY <1>0, <1>8, <2>3 DEF GivenUp
    <3> QED
      BY <3>1, <1>1, <1>3 DEF Over
  <2> QED
    BY <2>1, <2>2, <2>3 DEF GivenUp
<1>10. Orderly(ts) => Orderly(us)
  <2> SUFFICES ASSUME Orderly(ts), NEW t \in TaskIds, us[t].status \in {"in_progress", "completed"}
               PROVE  Satisfied(us, us[t].deps)
    BY DEF Orderly
  <2>1. Satisfied(ts, ts[t].deps)
    BY <1>1, <1>3 DEF Orderly
  <2> QED
    BY <2>1, <1>6, <1>7
<1> QED
  BY <1>1, <1>3, <1>4, <1>5, <1>8, <1>9, <1>10 DEF GoodTasks

\* What waits when nothing runs and nothing may run waits for what failed: the plan has no other way to stop.
LEMMA StuckByFailure ==
    ASSUME NEW ts, GoodTasks(ts), Ready(ts) = {},
           \A t \in TaskIds : ts[t].status \notin {"in_progress", "claimed"},
           NEW w \in TaskIds, ts[w].status \in {"blocked", "pending"}
    PROVE  \E u \in TaskIds : ts[u].status = "failed"
<1> SUFFICES ASSUME \A u \in TaskIds : ts[u].status # "failed" PROVE FALSE
  OBVIOUS
<1>0. /\ Planned(ts) /\ GivenUp(ts) /\ DOMAIN ts = TaskIds
      /\ \A t \in TaskIds : ts[t].deps = Dependencies(t) /\ ts[t].status \in TaskStatus
  BY NothingIs DEF GoodTasks, Planned, Task
<1>1. ASSUME NEW t \in TaskIds, Satisfied(ts, Dependencies(t))
      PROVE  ts[t].status \in {"completed", "cancelled"}
  <2>1. ts[t].status # "pending"
    BY <1>0, <1>1 DEF Ready, Claimable
  <2>2. ts[t].status # "blocked"
    BY <1>0, <1>1 DEF GivenUp
  <2> QED
    BY <1>0, <2>1, <2>2 DEF TaskStatus
<1>2. ts["recon"].status = "completed" /\ ts["taint"].status = "completed"
  <2>1. Satisfied(ts, Dependencies("recon")) /\ Satisfied(ts, Dependencies("taint"))
    BY PlanIs DEF Satisfied
  <2> QED
    BY <1>0, <1>1, <2>1, PlanIs DEF GivenUp
<1>3. ts["exploit"].status = "completed"
  <2>1. Satisfied(ts, Dependencies("exploit"))
    BY <1>0, <1>2, PlanIs DEF Satisfied
  <2> QED
    BY <1>0, <1>1, <2>1, PlanIs DEF GivenUp
<1>4. Satisfied(ts, Dependencies("verify"))
  BY <1>0, <1>3, PlanIs DEF Satisfied
<1>5. w # "verify"
  BY <1>1, <1>4
<1>6. \A t \in TaskIds : ts[t].status # "cancelled"
  BY <1>0, <1>5 DEF GivenUp, Over
<1>7. ts["verify"].status = "completed"
  BY <1>1, <1>4, <1>6, PlanIs
<1>8. \A p \in PatchTasks : ts[p].status = "completed"
  <2>1. \A p \in PatchTasks : Satisfied(ts, Dependencies(p)) /\ p \in TaskIds
    BY <1>0, <1>7, PlanIs DEF Satisfied
  <2> QED
    BY <1>1, <1>6, <2>1
<1>9. ts["report"].status = "completed"
  <2>1. Satisfied(ts, Dependencies("report")) /\ "report" \in TaskIds
    BY <1>0, <1>7, <1>8, PlanIs DEF Satisfied
  <2> QED
    BY <1>1, <1>6, <2>1
<1>10. ts[w].status = "completed"
  BY <1>2, <1>3, <1>7, <1>8, <1>9, PlanIs
<1> QED
  BY <1>10

\* What evaluateConsensus gives up it gives up all at once.
LEMMA CancelledGood ==
    ASSUME NEW ts, GoodTasks(ts), Ready(ts) = {},
           \A t \in TaskIds : ts[t].status \notin {"in_progress", "claimed"}, NEW us,
           us = [t \in DOMAIN ts |->
                    IF ts[t].status \in {"blocked", "pending"} THEN Cancelled(ts, t)[t] ELSE ts[t]]
    PROVE  GoodTasks(us) /\ Running(us) = {} /\ (Orderly(ts) => Orderly(us))
<1>0. /\ Planned(ts) /\ GivenUp(ts) /\ DOMAIN ts = TaskIds /\ ts \in [TaskIds -> Task]
      /\ \A t \in TaskIds : ts[t].deps = Dependencies(t) /\ ts[t].status \in TaskStatus
  BY NothingIs DEF GoodTasks, Planned, Task
<1>1. ASSUME NEW t \in TaskIds
      PROVE  /\ Cancelled(ts, t)[t] \in Task /\ Cancelled(ts, t)[t].status = "cancelled"
             /\ Cancelled(ts, t)[t].deps = ts[t].deps /\ Cancelled(ts, t)[t].role = ts[t].role
  <2>1. "cancelled" \in TaskStatus /\ Cancelled(ts, t) = [ts EXCEPT ![t].status = "cancelled"]
    BY DEF TaskStatus, Cancelled
  <2> QED
    BY <1>0, <2>1, NewStatus
<1>2. /\ DOMAIN us = TaskIds
      /\ \A t \in TaskIds :
            /\ ts[t].status \in {"blocked", "pending"} => us[t].status = "cancelled"
            /\ ts[t].status \notin {"blocked", "pending"} => us[t] = ts[t]
            /\ us[t] \in Task /\ us[t].deps = ts[t].deps /\ us[t].role = ts[t].role
  BY <1>0, <1>1
<1>3. Planned(us)
  <2>1. us = [t \in TaskIds |-> us[t]]
    BY <1>0
  <2>2. us \in [TaskIds -> Task]
    BY <2>1, <1>2
  <2> QED
    BY <1>0, <1>2, <2>2 DEF Planned
<1>4. \A t \in TaskIds : Over(us, t)
  BY <1>0, <1>2 DEF Over, TaskStatus
<1>5. Running(us) = {}
  BY <1>2, <1>4 DEF Running, Over
<1>6. Cardinality(Running(us)) <= MaxWorkers
  <2>1. Cardinality({}) <= MaxWorkers
    BY FS_EmptySet, MaxWorkersAssumption
  <2> QED
    BY <1>5, <2>1
<1>7. \A t \in TaskIds : /\ us[t].status = "completed" <=> ts[t].status = "completed"
                         /\ us[t].status = "failed" <=> ts[t].status = "failed"
  BY <1>2
<1>8. \A deps : Satisfied(us, deps) <=> Satisfied(ts, deps)
  BY <1>0, <1>2, <1>7 DEF Satisfied
<1>9. ASSUME NEW t \in TaskIds, Satisfied(ts, ts[t].deps)
      PROVE  us[t] = ts[t]
  BY <1>0, <1>2, <1>9 DEF GivenUp, Ready, Claimable
<1>10. us["recon"].status # "cancelled" /\ us["taint"].status # "cancelled"
  <2>1. Satisfied(ts, ts["recon"].deps) /\ Satisfied(ts, ts["taint"].deps)
    BY <1>0, PlanIs DEF Satisfied
  <2> QED
    BY <1>0, <1>9, <2>1, PlanIs DEF GivenUp
<1>11. ASSUME us["exploit"].status = "cancelled"
       PROVE  us["recon"].status = "failed" \/ us["taint"].status = "failed"
  <2>1. CASE ts["exploit"].status = "cancelled"
    BY <1>0, <1>7, <2>1, PlanIs DEF GivenUp
  <2>2. CASE ts["exploit"].status # "cancelled"
    <3>1. ~Satisfied(ts, {"recon", "taint"})
      <4>1. "exploit" \in TaskIds /\ ts["exploit"].deps = {"recon", "taint"}
        BY <1>0, PlanIs
      <4>2. us["exploit"] # ts["exploit"]
        BY <1>11, <2>2
      <4> QED
        BY <1>9, <4>1, <4>2
    <3>2. ~(ts["recon"].status = "completed" /\ ts["taint"].status = "completed")
      BY <1>0, <3>1, PlanIs DEF Satisfied
    <3> QED
      BY <3>2, <1>4, <1>7, <1>10, PlanIs DEF Over
  <2> QED
    BY <2>1, <2>2
<1>12. GivenUp(us)
  BY <1>4, <1>10, <1>11 DEF GivenUp, Over
<1>13. Orderly(ts) => Orderly(us)
  <2> SUFFICES ASSUME Orderly(ts), NEW t \in TaskIds, us[t].status \in {"in_progress", "completed"}
               PROVE  Satisfied(us, us[t].deps)
    BY DEF Orderly
  <2>1. ts[t].status = "completed"
    BY <1>4, <1>7 DEF Over
  <2> QED
    BY <2>1, <1>2, <1>8 DEF Orderly
<1> QED
  BY <1>3, <1>5, <1>6, <1>12, <1>13 DEF GoodTasks

-----------------------------------------------------------------------------
(***************************************************************************)
(* The steps.                                                              *)
(***************************************************************************)
\* What there is on the board.
LEMMA BoardIs ==
    Good(Snapshot) <=> /\ tasks = Nothing \/ GoodTasks(tasks)
                       /\ agents = Nothing \/ agents \in [AgentIds -> AgentStatus]
                       /\ verifier \in [retries : 0..MAX_FAILED_RETRIES, accounting : BOOLEAN]
BY DEF Good, Snapshot

\* An empty board has no tasks that could disturb.
LEMMA NothingRuns ==
    /\ Running(Nothing) = {} /\ Terminal(Nothing)
    /\ \A f : DOMAIN f = {} /\ f = [x \in DOMAIN f |-> f[x]] => f = Nothing
<1>1. Running(Nothing) = {} /\ Terminal(Nothing)
  BY NothingIs DEF Running, Terminal
<1>2. ASSUME NEW f, DOMAIN f = {}, f = [x \in DOMAIN f |-> f[x]]
      PROVE  f = Nothing
  BY <1>2 DEF Nothing
<1> QED
  BY <1>1, <1>2

\* Each fault is counted, and only an abort counts as one.
LEMMA FaultIs ==
    ASSUME Staffed, NEW what \in {"failures", "aborts", "crashes", "saves"}, Fault(what)
    PROVE  /\ faults' \in [runs : Nat, failures : Nat, aborts : Nat, crashes : Nat, saves : Nat]
           /\ what # "aborts" => faults'.aborts = faults.aborts
           /\ what = "aborts" => faults'.aborts # 0
BY DEF Staffed, Fault

\* A run begins with what is there.
LEMMA RunStarts ==
    ASSUME Staffed, NEW kind \in {"execute", "restart"}, RunBegins(kind)
    PROVE  /\ faults' \in [runs : Nat, failures : Nat, aborts : Nat, crashes : Nat, saves : Nat]
           /\ faults'.aborts = faults.aborts
           /\ run' \in [kind : {"none", "execute", "restart"}, clean : BOOLEAN,
                        outcome : {"none", "running", "reported", "unreported", "stopped"}]
           /\ run'.outcome = "running" /\ pc = "idle" /\ pc' = "planMission"
BY DEF Staffed, RunBegins

\* Before the first run the board and the snapshots are empty.
LEMMA InitKeeps == Init => IInv
<1> SUFFICES ASSUME Init PROVE IInv
  OBVIOUS
<1>1. 0 \in 0..MAX_FAILED_RETRIES
  BY DEF MAX_FAILED_RETRIES
<1>2. verifier \in [retries : 0..MAX_FAILED_RETRIES, accounting : BOOLEAN] /\ verifier = NewVerifier
  BY <1>1 DEF Init, NewVerifier
<1>3. Good(Snapshot) /\ Good(saved) /\ Good(captured)
  BY <1>2 DEF Init, Good, Snapshot, NoSnapshot
<1>4. Staffed
  <2>1. IsFiniteSet(sent) /\ Cardinality(sent) <= MaxWorkers
    <3>1. IsFiniteSet({}) /\ Cardinality({}) <= MaxWorkers
      BY FS_EmptySet, MaxWorkersAssumption
    <3> QED
      BY <3>1 DEF Init
  <2>2. workers \subseteq DOMAIN agents /\ \A a \in workers : agents[a] # "offline"
    BY DEF Init
  <2> QED
    BY <2>1, <2>2 DEF Init, Staffed, Nodes
<1>5. Reporting
  BY DEF Init, Reporting, ReportedIsSaved
<1>6. Undisturbed
  <2>1. saved.tasks = Nothing /\ captured.tasks = Nothing
    BY DEF Init, NoSnapshot
  <2> QED
    BY <2>1, NothingRuns DEF Init, Undisturbed, Settled
<1> QED
  BY <1>3, <1>4, <1>5, <1>6 DEF IInv

\* executeMission begins a run on what the board or the snapshot has.
LEMMA ExecuteKeeps ==
    ASSUME IInv, executeMission
    PROVE  IInv'
<1>0. Staffed /\ Reporting /\ (faults.aborts = 0 => Undisturbed) /\ RunBegins("execute")
  BY DEF IInv, executeMission
<1>1. /\ faults' \in [runs : Nat, failures : Nat, aborts : Nat, crashes : Nat, saves : Nat]
      /\ faults'.aborts = faults.aborts
      /\ run' \in [kind : {"none", "execute", "restart"}, clean : BOOLEAN,
                   outcome : {"none", "running", "reported", "unreported", "stopped"}]
      /\ run'.outcome = "running" /\ pc = "idle" /\ pc' = "planMission"
  BY <1>0, RunStarts
<1>2. loaded' = TRUE /\ UNCHANGED <<tasks, verifier, agents, workers, sent, zombies, captured, saved>>
  BY DEF executeMission
<1>3. (Good(Snapshot) /\ Good(saved) /\ Good(captured))'
  BY <1>2 DEF IInv, Good, Snapshot
<1>4. Staffed'
  BY <1>0, <1>1, <1>2 DEF Staffed, Nodes
<1>5. Reporting'
  BY <1>1 DEF Reporting, ReportedIsSaved
<1>6. faults'.aborts = 0 => Undisturbed'
  BY <1>0, <1>1, <1>2 DEF Undisturbed, Settled, Orderly, Running
<1> QED
  BY <1>3, <1>4, <1>5, <1>6 DEF IInv

\* restartMission resets a verifier that failed or was cancelled, or clears the tasks of a mission that is over.
LEMMA RestartKeeps ==
    ASSUME IInv, restartMission
    PROVE  IInv'
<1>0. Staffed /\ Reporting /\ (faults.aborts = 0 => Undisturbed) /\ RunBegins("restart")
  BY DEF IInv, restartMission
<1>1. /\ faults' \in [runs : Nat, failures : Nat, aborts : Nat, crashes : Nat, saves : Nat]
      /\ faults'.aborts = faults.aborts
      /\ run' \in [kind : {"none", "execute", "restart"}, clean : BOOLEAN,
                   outcome : {"none", "running", "reported", "unreported", "stopped"}]
      /\ run'.outcome = "running" /\ pc = "idle" /\ pc' = "planMission"
  BY <1>0, RunStarts
<1>2. UNCHANGED <<agents, workers, sent, captured, saved, loaded>> /\ sent = {}
  BY <1>0, <1>1 DEF restartMission, Staffed
<1> DEFINE failed == {t \in DOMAIN tasks \cap {"verify"} : Resettable(tasks, t)}
<1>3. \/ ResetTo(tasks, tasks', failed) /\ UNCHANGED <<verifier, zombies>>
      \/ tasks' = Nothing /\ verifier' = NewVerifier /\ zombies' = {}
  BY DEF restartMission, ResetTo
<1>4. failed \subseteq {"verify"} /\ \A t \in failed : tasks[t].status \in {"failed", "cancelled"}
  BY DEF Resettable
<1>5. /\ tasks = Nothing \/ GoodTasks(tasks)
      /\ agents = Nothing \/ agents \in [AgentIds -> AgentStatus]
      /\ verifier \in [retries : 0..MAX_FAILED_RETRIES, accounting : BOOLEAN]
  BY BoardIs DEF IInv
<1> HIDE DEF failed
<1>6. \/ tasks' = Nothing /\ (zombies' = {} \/ (tasks = Nothing /\ zombies' = zombies))
      \/ /\ GoodTasks(tasks') /\ GoodTasks(tasks) /\ zombies' = zombies
         /\ Running(tasks') = Running(tasks) /\ (Orderly(tasks) => Orderly(tasks'))
  <2>1. CASE tasks' = Nothing /\ zombies' = {}
    BY <2>1
  <2>2. CASE ResetTo(tasks, tasks', failed) /\ zombies' = zombies
    <3>1. CASE tasks = Nothing
      <4>1. DOMAIN tasks' = {} /\ tasks' = [x \in DOMAIN tasks' |-> tasks'[x]]
        BY <2>2, <3>1, NothingIs DEF ResetTo
      <4> QED
        BY <2>2, <3>1, <4>1, NothingRuns
    <3>2. CASE GoodTasks(tasks)
      BY <1>4, <2>2, <3>2, ResetGood
    <3> QED
      BY <3>1, <3>2, <1>5
  <2> QED
    BY <1>3, <2>1, <2>2
<1>7. verifier' \in [retries : 0..MAX_FAILED_RETRIES, accounting : BOOLEAN]
  <2>1. NewVerifier \in [retries : 0..MAX_FAILED_RETRIES, accounting : BOOLEAN]
    BY DEF NewVerifier, MAX_FAILED_RETRIES
  <2> QED
    BY <1>3, <1>5, <2>1
<1>8. (Good(Snapshot) /\ Good(saved) /\ Good(captured))'
  BY <1>2, <1>5, <1>6, <1>7 DEF IInv, Good, Snapshot
<1>9. Staffed'
  <2>1. \A ts : GoodTasks(ts) => ts # Nothing
    BY NothingIs DEF GoodTasks
  <2>2. zombies' \in SUBSET Executions /\ (zombies' # {} => tasks' # Nothing)
    BY <1>0, <1>6, <2>1 DEF Staffed
  <2> QED
    BY <1>0, <1>1, <1>2, <2>2 DEF Staffed, Nodes
<1>10. Reporting'
  BY <1>1 DEF Reporting, ReportedIsSaved
<1>11. ASSUME faults'.aborts = 0
       PROVE  Undisturbed'
  <2>0. Undisturbed
    BY <1>0, <1>1, <1>11
  <2>1. zombies' = {} /\ (tasks' # Nothing => Orderly(tasks')) /\ Running(tasks') = {}
    <3>1. Running(tasks) = {} /\ zombies = {} /\ (tasks # Nothing => Orderly(tasks))
      BY <2>0, <1>2 DEF Undisturbed
    <3> QED
      BY <3>1, <1>6, NothingRuns, NothingIs DEF GoodTasks
  <2> QED
    BY <2>0, <2>1, <1>2 DEF Undisturbed, Settled, Orderly, Running
<1> QED
  BY <1>8, <1>9, <1>10, <1>11 DEF IInv

\* planMission plans anew when the mission is over, and forgets the agents unless the board was empty.
LEMMA PlanKeeps ==
    ASSUME IInv, planMission
    PROVE  IInv'
<1>0. /\ Staffed /\ (faults.aborts = 0 => Undisturbed) /\ pc = "planMission" /\ pc' = "spawnWorkers"
      /\ UNCHANGED <<sent, captured, saved, loaded, run, faults>> /\ sent = {}
  BY DEF IInv, planMission, Staffed
<1>1. /\ tasks = Nothing \/ GoodTasks(tasks)
      /\ agents = Nothing \/ agents \in [AgentIds -> AgentStatus]
      /\ verifier \in [retries : 0..MAX_FAILED_RETRIES, accounting : BOOLEAN]
  BY BoardIs DEF IInv
<1>2. \/ GoodTasks(tasks) /\ UNCHANGED <<tasks, verifier, agents, workers, zombies>>
      \/ /\ tasks' = Plan /\ verifier' = NewVerifier /\ zombies' = {}
         /\ UNCHANGED <<agents, workers>> \/ (agents' = Nothing /\ workers' = {})
  BY <1>1, NothingRuns DEF planMission
<1>3. GoodTasks(tasks') /\ (tasks' = tasks \/ (Orderly(tasks') /\ Running(tasks') = {}))
  BY <1>2, PlanGood
<1>4. tasks' # Nothing
  BY <1>3, NothingIs DEF GoodTasks
<1>5. /\ agents' = Nothing \/ agents' \in [AgentIds -> AgentStatus]
      /\ workers' \subseteq DOMAIN agents' /\ \A a \in workers' : agents'[a] # "offline"
  BY <1>0, <1>1, <1>2 DEF Staffed
<1>6. verifier' \in [retries : 0..MAX_FAILED_RETRIES, accounting : BOOLEAN]
  <2>1. NewVerifier \in [retries : 0..MAX_FAILED_RETRIES, accounting : BOOLEAN]
    BY DEF NewVerifier, MAX_FAILED_RETRIES
  <2> QED
    BY <1>1, <1>2, <2>1
<1>7. (Good(Snapshot) /\ Good(saved) /\ Good(captured))'
  BY <1>0, <1>3, <1>5, <1>6 DEF IInv, Good, Snapshot
<1>8. Staffed'
  <2>1. zombies' \in SUBSET Executions
    BY <1>0, <1>2 DEF Staffed
  <2> QED
    BY <1>0, <1>4, <1>5, <2>1 DEF Staffed, Nodes
<1>9. Reporting'
  BY <1>0 DEF Reporting, ReportedIsSaved
<1>10. ASSUME faults'.aborts = 0
       PROVE  Undisturbed'
  <2>0. Undisturbed
    BY <1>0, <1>10
  <2>1. zombies' = {} /\ (tasks' # Nothing => Orderly(tasks')) /\ Running(tasks') = {}
    <3>1. Running(tasks) = {} /\ zombies = {} /\ (tasks # Nothing => Orderly(tasks))
      BY <2>0, <1>0 DEF Undisturbed
    <3> QED
      BY <3>1, <1>2, <1>3
  <2> QED
    BY <2>0, <2>1, <1>0 DEF Undisturbed, Settled, Orderly, Running
<1> QED
  BY <1>7, <1>8, <1>9, <1>10 DEF IInv

\* spawnWorkers leaves a worker for every agent.
LEMMA SpawnKeeps ==
    ASSUME IInv, spawnWorkers
    PROVE  IInv'
<1>0. /\ Staffed /\ (faults.aborts = 0 => Undisturbed) /\ pc = "spawnWorkers" /\ pc' = "dispatch"
      /\ UNCHANGED <<tasks, verifier, sent, zombies, captured, saved, loaded, run, faults>>
      /\ sent = {} /\ tasks # Nothing
  BY DEF IInv, spawnWorkers, Staffed, Nodes
<1>1. /\ tasks = Nothing \/ GoodTasks(tasks)
      /\ agents = Nothing \/ agents \in [AgentIds -> AgentStatus]
      /\ verifier \in [retries : 0..MAX_FAILED_RETRIES, accounting : BOOLEAN]
  BY BoardIs DEF IInv
<1>2. agents' \in [AgentIds -> AgentStatus] /\ workers' = AgentIds /\ \A a \in workers' : agents'[a] # "offline"
  <2>1. CASE agents = Nothing
    BY <2>1 DEF spawnWorkers, AgentStatus
  <2>2. CASE agents # Nothing
    <3>1. /\ agents \in [AgentIds -> AgentStatus] /\ DOMAIN agents = AgentIds /\ workers \subseteq AgentIds
          /\ \A a \in workers : agents[a] # "offline"
      BY <1>0, <1>1, <2>2 DEF Staffed
    <3>2. /\ agents' = [a \in AgentIds |-> IF a \in workers THEN agents[a] ELSE "idle"]
          /\ workers' = AgentIds
      BY <2>2, <3>1 DEF spawnWorkers
    <3> QED
      BY <3>1, <3>2 DEF AgentStatus
  <2> QED
    BY <2>1, <2>2
<1>3. agents' # Nothing /\ DOMAIN agents' = AgentIds
  BY <1>2, NothingIs
<1>4. (Good(Snapshot) /\ Good(saved) /\ Good(captured))'
  BY <1>0, <1>1, <1>2 DEF IInv, Good, Snapshot
<1>5. Staffed'
  BY <1>0, <1>2, <1>3 DEF Staffed, Nodes
<1>6. Reporting'
  BY <1>0 DEF Reporting, ReportedIsSaved
<1>7. faults'.aborts = 0 => Undisturbed'
  BY <1>0 DEF Undisturbed, Settled, Orderly, Running
<1> QED
  BY <1>4, <1>5, <1>6, <1>7 DEF IInv

\* What the nodes between spawnWorkers and cleanup find.
LEMMA InsideIs ==
    ASSUME IInv, pc \in Nodes \ {"planMission", "spawnWorkers", "cleaning"}
    PROVE  /\ GoodTasks(tasks) /\ DOMAIN tasks = TaskIds /\ tasks # Nothing
           /\ agents \in [AgentIds -> AgentStatus] /\ workers = AgentIds /\ agents # Nothing
           /\ \A a \in AgentIds : agents[a] # "offline"
           /\ verifier \in [retries : 0..MAX_FAILED_RETRIES, accounting : BOOLEAN]
<1>1. /\ tasks = Nothing \/ GoodTasks(tasks)
      /\ agents = Nothing \/ agents \in [AgentIds -> AgentStatus]
      /\ verifier \in [retries : 0..MAX_FAILED_RETRIES, accounting : BOOLEAN]
  BY BoardIs DEF IInv
<1>2. tasks # Nothing /\ agents # Nothing /\ workers = AgentIds /\ \A a \in workers : agents[a] # "offline"
  BY DEF IInv, Staffed
<1> QED
  BY <1>1, <1>2, NothingIs DEF GoodTasks

\* dispatch releases, retries and claims, and sends exactly the tasks in progress.
LEMMA DispatchKeeps ==
    ASSUME IInv, dispatch
    PROVE  IInv'
<1>0. /\ Staffed /\ (faults.aborts = 0 => Undisturbed) /\ pc = "dispatch" /\ sent = {}
      /\ UNCHANGED <<agents, workers, zombies, captured, saved, loaded, run, faults>>
  BY DEF IInv, dispatch, Staffed
<1>1. /\ GoodTasks(tasks) /\ DOMAIN tasks = TaskIds /\ tasks # Nothing
      /\ agents \in [AgentIds -> AgentStatus] /\ workers = AgentIds /\ agents # Nothing
      /\ \A a \in AgentIds : agents[a] # "offline"
      /\ verifier \in [retries : 0..MAX_FAILED_RETRIES, accounting : BOOLEAN]
  BY <1>0, InsideIs DEF Nodes
<1> DEFINE fresh == WithoutStale(tasks)
           retried == Retried(fresh)
           given == [t \in DOMAIN fresh |-> IF t \in retried THEN Reset(fresh, t)[t] ELSE fresh[t]]
<1>5. /\ verifier' = IF retried = {} THEN verifier ELSE [verifier EXCEPT !.retries = @ + 1]
      /\ \E f \in Assignments(given) :
            tasks' = [t \in DOMAIN given |->
                IF t \in DOMAIN f THEN Started(Claimed(given, t, f[t]), t)[t] ELSE given[t]]
      /\ sent' = {[task |-> t, agent |-> tasks'[t].agent] : t \in Running(tasks')}
      /\ pc' = IF sent' = {} THEN "evaluateConsensus" ELSE "send"
  BY Zenon DEF dispatch
<1>2. fresh = WithoutStale(tasks)
  OBVIOUS
<1>3. retried = Retried(fresh)
  OBVIOUS
<1>4. given = [t \in DOMAIN fresh |-> IF t \in retried THEN Reset(fresh, t)[t] ELSE fresh[t]]
  OBVIOUS
<1> HIDE DEF fresh, retried, given
<1>6. PICK f \in Assignments(given) :
         tasks' = [t \in DOMAIN given |-> IF t \in DOMAIN f THEN Started(Claimed(given, t, f[t]), t)[t] ELSE given[t]]
  BY <1>5
<1>7. /\ GoodTasks(fresh) /\ Running(fresh) \subseteq Running(tasks)
      /\ Orderly(tasks) => Orderly(fresh)
      /\ \A t \in Running(fresh) : fresh[t].agent \in DOMAIN agents
  BY <1>1, <1>2, WithoutStaleGood
<1>8. /\ retried \subseteq {"verify"} /\ \A t \in retried : fresh[t].status = "failed"
      /\ retried # {} => verifier.retries < MAX_FAILED_RETRIES
  BY <1>3 DEF Retried
<1>9. /\ GoodTasks(given) /\ Running(given) = Running(fresh)
      /\ Orderly(fresh) => Orderly(given)
      /\ \A t \in TaskIds : t \notin retried => given[t] = fresh[t]
  <2>1. ResetTo(fresh, given, retried)
    BY <1>4 DEF ResetTo
  <2>2. \A t \in retried : fresh[t].status \in {"failed", "cancelled"}
    BY <1>8
  <2>3. GoodTasks(fresh) /\ retried \subseteq {"verify"}
    BY <1>7, <1>8
  <2>4. GoodTasks(given) /\ Running(given) = Running(fresh) /\ (Orderly(fresh) => Orderly(given))
    BY <2>1, <2>2, <2>3, ResetGood
  <2>5. \A t \in TaskIds : t \notin retried => given[t] = fresh[t]
    BY <1>4, <2>3, NothingIs DEF GoodTasks
  <2> QED
    BY <2>4, <2>5
<1>10. /\ GoodTasks(tasks') /\ Running(tasks') = Running(given) \cup DOMAIN f
       /\ Orderly(given) => Orderly(tasks')
       /\ \A t \in DOMAIN f : tasks'[t].agent = f[t]
       /\ \A t \in TaskIds : t \notin DOMAIN f => tasks'[t] = given[t]
  BY <1>1, <1>6, <1>9, RoundGood
<1>11. /\ DOMAIN f \subseteq TaskIds
       /\ \A t \in DOMAIN f : f[t] \in AgentIds /\ RoleOf(f[t]) = RoleOf(t)
       /\ \A t, u \in DOMAIN f : f[t] = f[u] => t = u
  <2>1. GoodTasks(given) /\ f \in Assignments(given)
    BY <1>6, <1>9
  <2>2. /\ DOMAIN f \subseteq Ready(given)
        /\ \A t \in DOMAIN f : f[t] \in workers /\ RoleOf(f[t]) = given[t].role
        /\ \A t, u \in DOMAIN f : f[t] = f[u] => t = u
    BY <2>1, AssignmentIs
  <2>3. DOMAIN f \subseteq TaskIds /\ \A t \in TaskIds : given[t].role = RoleOf(t)
    BY <2>1, <2>2, NothingIs DEF Ready, GoodTasks, Planned
  <2> QED
    BY <1>1, <2>2, <2>3
<1>12. \A t \in Running(tasks') : t \in TaskIds /\ tasks'[t].agent \in AgentIds
  <2> SUFFICES ASSUME NEW t \in Running(tasks')
               PROVE  t \in TaskIds /\ tasks'[t].agent \in AgentIds
    OBVIOUS
  <2>1. t \in TaskIds
    BY <1>10, NothingIs DEF Running, GoodTasks
  <2>2. CASE t \in DOMAIN f
    BY <1>10, <1>11, <2>1, <2>2
  <2>3. CASE t \notin DOMAIN f
    <3>1. t \in Running(fresh) /\ tasks'[t] = given[t]
      BY <1>9, <1>10, <2>1, <2>3
    <3>2. t \notin retried
      BY <1>8, <3>1 DEF Running
    <3>3. given[t] = fresh[t]
      BY <1>9, <2>1, <3>2
    <3> QED
      BY <1>1, <1>7, <2>1, <3>1, <3>3
  <2> QED
    BY <2>2, <2>3
<1>13. /\ sent' \in SUBSET Executions /\ {e.task : e \in sent'} = Running(tasks')
       /\ \A e \in sent' : e.agent = tasks'[e.task].agent
       /\ \A e, g \in sent' : e.task = g.task => e = g
  <2>1. sent' = {[task |-> t, agent |-> tasks'[t].agent] : t \in Running(tasks')}
    BY <1>5
  <2>2. \A t \in Running(tasks') : /\ [task |-> t, agent |-> tasks'[t].agent] \in Executions
                                   /\ [task |-> t, agent |-> tasks'[t].agent] \in sent'
                                   /\ [task |-> t, agent |-> tasks'[t].agent].task = t
    BY <1>12, <2>1 DEF Executions
  <2>3. \A e \in sent' : \E t \in Running(tasks') : e = [task |-> t, agent |-> tasks'[t].agent]
    BY <2>1
  <2>4. \A e \in sent' : /\ e.task \in Running(tasks') /\ e.agent = tasks'[e.task].agent
                          /\ e = [task |-> e.task, agent |-> tasks'[e.task].agent]
    BY <2>3
  <2>5. sent' \in SUBSET Executions
    BY <2>2, <2>3
  <2>6. {e.task : e \in sent'} = Running(tasks')
    BY <2>2, <2>4
  <2>7. \A e, g \in sent' : e.task = g.task => e = g
    BY <2>4
  <2> QED
    BY <2>4, <2>5, <2>6, <2>7
<1>14. IsFiniteSet(sent') /\ Cardinality(sent') <= MaxWorkers
  <2>1. Running(tasks') \in SUBSET TaskIds
    BY <1>12
  <2>2. /\ IsFiniteSet(Running(tasks')) /\ Cardinality(Running(tasks')) <= MaxWorkers
        /\ Cardinality(Running(tasks')) \in Nat
    BY <1>10, <2>1, TasksCount DEF GoodTasks
  <2> DEFINE execution == [t \in Running(tasks') |-> [task |-> t, agent |-> tasks'[t].agent]]
  <2>3. execution \in Surjection(Running(tasks'), sent')
    BY <1>5 DEF Surjection
  <2>4. IsFiniteSet(sent') /\ Cardinality(sent') <= Cardinality(Running(tasks'))
    BY <2>2, <2>3, FS_Surjection
  <2>5. Cardinality(sent') \in Nat
    BY <2>4, FS_CardinalityType
  <2> QED
    BY <2>2, <2>4, <2>5, MaxWorkersAssumption
<1>15. verifier' \in [retries : 0..MAX_FAILED_RETRIES, accounting : BOOLEAN]
  <2>1. CASE retried = {}
    BY <1>1, <1>5, <2>1
  <2>2. CASE retried # {}
    <3>1. verifier.retries + 1 \in 0..MAX_FAILED_RETRIES
      BY <1>1, <1>8, <2>2 DEF MAX_FAILED_RETRIES
    <3> QED
      BY <1>1, <1>5, <2>2, <3>1
  <2> QED
    BY <2>1, <2>2
<1>16. (Good(Snapshot) /\ Good(saved) /\ Good(captured))'
  BY <1>0, <1>1, <1>10, <1>15 DEF IInv, Good, Snapshot
<1>17. pc' \in {"evaluateConsensus", "send"} /\ (sent' # {} <=> pc' = "send") /\ tasks' # Nothing
  BY <1>5, <1>10, NothingIs DEF GoodTasks
<1>18. Staffed'
  BY <1>0, <1>1, <1>13, <1>14, <1>17 DEF Staffed, Nodes
<1>19. Reporting'
  <2>1. run.outcome = "running"
    BY <1>0 DEF Staffed
  <2> QED
    BY <1>0, <1>17, <2>1 DEF Reporting, ReportedIsSaved
<1>20. ASSUME faults'.aborts = 0
       PROVE  Undisturbed'
  <2>0. Undisturbed
    BY <1>0, <1>20
  <2>1. Running(tasks) = {} /\ Orderly(tasks)
    BY <1>0, <1>1, <2>0 DEF Undisturbed
  <2>2. Running(tasks') = DOMAIN f /\ Orderly(tasks')
    BY <1>7, <1>9, <1>10, <2>1
  <2>3. \A e \in sent' : e.task \in DOMAIN f /\ e.agent = f[e.task]
    BY <1>10, <1>13, <2>2
  <2>4. /\ \A e \in sent' : RoleOf(e.agent) = RoleOf(e.task)
        /\ \A e, g \in sent' : e.agent = g.agent \/ e.task = g.task => e = g
    BY <1>11, <1>13, <2>3
  <2>5. zombies' = {} /\ (Settled(saved.tasks) /\ Settled(captured.tasks))'
    BY <1>0, <2>0 DEF Undisturbed, Settled, Orderly, Running
  <2> QED
    BY <1>13, <2>2, <2>4, <2>5 DEF Undisturbed
<1> QED
  BY <1>16, <1>18, <1>19, <1>20 DEF IInv

\* executeTask makes the agents of the round busy.
LEMMA BeginKeeps ==
    ASSUME IInv, executeTask
    PROVE  IInv'
<1>0. /\ Staffed /\ (faults.aborts = 0 => Undisturbed) /\ pc = "send" /\ pc' = "executeTask"
      /\ UNCHANGED <<tasks, verifier, workers, sent, zombies, captured, saved, loaded, run, faults>>
  BY DEF IInv, executeTask
<1>1. /\ GoodTasks(tasks) /\ tasks # Nothing
      /\ agents \in [AgentIds -> AgentStatus] /\ workers = AgentIds /\ agents # Nothing
      /\ \A a \in AgentIds : agents[a] # "offline"
      /\ verifier \in [retries : 0..MAX_FAILED_RETRIES, accounting : BOOLEAN]
  BY <1>0, InsideIs DEF Nodes
<1>2. agents' \in [AgentIds -> AgentStatus] /\ \A a \in AgentIds : agents'[a] # "offline"
  <2>1. agents' = [a \in AgentIds |-> IF \E e \in sent : e.agent = a THEN "busy" ELSE agents[a]]
    BY <1>1 DEF executeTask
  <2> QED
    BY <1>1, <2>1 DEF AgentStatus
<1>3. agents' # Nothing /\ DOMAIN agents' = AgentIds
  BY <1>2, NothingIs
<1>4. (Good(Snapshot) /\ Good(saved) /\ Good(captured))'
  BY <1>0, <1>1, <1>2 DEF IInv, Good, Snapshot
<1>5. Staffed'
  BY <1>0, <1>1, <1>2, <1>3 DEF Staffed, Nodes
<1>6. Reporting'
  BY <1>0 DEF Reporting, ReportedIsSaved
<1>7. faults'.aborts = 0 => Undisturbed'
  BY <1>0 DEF Undisturbed, Settled, Orderly, Running
<1> QED
  BY <1>4, <1>5, <1>6, <1>7 DEF IInv

\* An execution of the round ends: its agent is idle again, and what it leaves of its task is what completeTask
\* or failTask make of it.
LEMMA EndKeeps ==
    ASSUME IInv, NEW e \in sent, TaskEnds(e),
           UNCHANGED <<workers, zombies, captured, saved, loaded>>,
           faults' \in [runs : Nat, failures : Nat, aborts : Nat, crashes : Nat, saves : Nat],
           faults'.aborts = faults.aborts,
           run' \in [kind : {"none", "execute", "restart"}, clean : BOOLEAN,
                     outcome : {"none", "running", "reported", "unreported", "stopped"}],
           run'.outcome = run.outcome,
           verifier' \in [retries : 0..MAX_FAILED_RETRIES, accounting : BOOLEAN],
           tasks' \in {Finished(e), Failed(tasks, e.task)}
    PROVE  IInv'
<1>0. /\ Staffed /\ (faults.aborts = 0 => Undisturbed) /\ pc = "executeTask"
      /\ sent' = sent \ {e} /\ pc' = IF sent' = {} THEN "evaluateConsensus" ELSE pc
      /\ agents' = [agents EXCEPT ![e.agent] = "idle"]
  BY DEF IInv, TaskEnds
<1>1. /\ GoodTasks(tasks) /\ DOMAIN tasks = TaskIds /\ tasks # Nothing
      /\ agents \in [AgentIds -> AgentStatus] /\ workers = AgentIds /\ agents # Nothing
      /\ \A a \in AgentIds : agents[a] # "offline"
  BY <1>0, InsideIs DEF Nodes
<1>2. e.task \in TaskIds /\ e.agent \in AgentIds
  BY <1>0 DEF Staffed, Executions
<1>3. /\ GoodTasks(tasks') /\ (tasks[e.task].status = "in_progress" => Running(tasks') = Running(tasks) \ {e.task})
      /\ Orderly(tasks) /\ tasks[e.task].status = "in_progress" => Orderly(tasks')
  <2>1. CASE tasks' = Failed(tasks, e.task)
    BY <1>1, <1>2, <2>1, FailedGood
  <2>2. CASE tasks' = Finished(e) /\ tasks[e.task].status = "in_progress"
    <3>1. tasks' = Completed(tasks, e.task, {u \in TaskIds : e.task \in tasks[u].deps})
      BY <1>1, <2>2 DEF Finished, Dependents
    <3> QED
      BY <1>1, <1>2, <2>2, <3>1, CompletedGood
  <2>3. CASE tasks' = Finished(e) /\ tasks[e.task].status # "in_progress"
    <3>1. tasks' = tasks
      BY <2>3 DEF Finished
    <3> QED
      BY <1>1, <2>3, <3>1
  <2> QED
    BY <2>1, <2>2, <2>3
<1>4. tasks' # Nothing
  BY <1>3, NothingIs DEF GoodTasks
<1>5. agents' \in [AgentIds -> AgentStatus] /\ \A a \in AgentIds : agents'[a] # "offline"
  BY <1>0, <1>1, <1>2 DEF AgentStatus
<1>6. agents' # Nothing /\ DOMAIN agents' = AgentIds
  BY <1>5, NothingIs
<1>7. IsFiniteSet(sent') /\ Cardinality(sent') <= MaxWorkers
  <2>1. IsFiniteSet(sent) /\ Cardinality(sent) <= MaxWorkers /\ sent' \in SUBSET sent
    BY <1>0 DEF Staffed
  <2>2. IsFiniteSet(sent') /\ Cardinality(sent') <= Cardinality(sent)
    BY <2>1, FS_Subset
  <2>3. Cardinality(sent') \in Nat /\ Cardinality(sent) \in Nat
    BY <2>1, <2>2, FS_CardinalityType
  <2> QED
    BY <2>1, <2>2, <2>3, MaxWorkersAssumption
<1>8. (Good(Snapshot) /\ Good(saved) /\ Good(captured))'
  BY <1>3, <1>5 DEF IInv, Good, Snapshot
<1>9. pc' \in {"executeTask", "evaluateConsensus"} /\ (sent' # {} <=> pc' = "executeTask")
  BY <1>0
<1>10. Staffed'
  BY <1>0, <1>1, <1>4, <1>5, <1>6, <1>7, <1>9 DEF Staffed, Nodes
<1>11. Reporting'
  <2>1. run'.outcome = "running"
    BY <1>0 DEF Staffed
  <2> QED
    BY <1>9, <2>1 DEF Reporting, ReportedIsSaved
<1>12. ASSUME faults'.aborts = 0
       PROVE  Undisturbed'
  <2>0. Undisturbed
    BY <1>0, <1>12
  <2>1. tasks[e.task].status = "in_progress" /\ Orderly(tasks)
    BY <1>1, <2>0 DEF Undisturbed, Running
  <2>2. Running(tasks') = Running(tasks) \ {e.task} /\ Orderly(tasks')
    BY <1>3, <2>1
  <2>3. /\ {g.task : g \in sent} = Running(tasks)
        /\ \A g \in sent : g.task = e.task => g = e
    BY <2>0 DEF Undisturbed
  <2>4. {g.task : g \in sent'} = Running(tasks')
    BY <1>0, <2>2, <2>3
  <2>5. /\ \A g \in sent' : RoleOf(g.agent) = RoleOf(g.task)
        /\ \A g, h \in sent' : g.agent = h.agent \/ g.task = h.task => g = h
    BY <1>0, <2>0 DEF Undisturbed
  <2>6. zombies' = {} /\ (Settled(saved.tasks) /\ Settled(captured.tasks))'
    BY <2>0 DEF Undisturbed, Settled, Orderly, Running
  <2> QED
    BY <2>2, <2>4, <2>5, <2>6 DEF Undisturbed
<1> QED
  BY <1>8, <1>10, <1>11, <1>12 DEF IInv

\* What executions do to the record of the verifier.
LEMMA VerifierIs ==
    ASSUME verifier \in [retries : 0..MAX_FAILED_RETRIES, accounting : BOOLEAN],
           NEW e, NEW accounting \in BOOLEAN, FailedWith(e, accounting)
    PROVE  verifier' \in [retries : 0..MAX_FAILED_RETRIES, accounting : BOOLEAN]
BY DEF FailedWith

\* A worker completes or fails its task.
LEMMA WorkerKeeps ==
    ASSUME IInv, NEW e \in sent, Worker(e)
    PROVE  IInv'
<1>0. Staffed /\ verifier \in [retries : 0..MAX_FAILED_RETRIES, accounting : BOOLEAN]
  BY BoardIs DEF IInv
<1>1. CASE TaskCompletes(e)
  BY <1>0, <1>1, EndKeeps DEF TaskCompletes, Staffed
<1>2. ASSUME NEW accounting \in BOOLEAN, TaskFails(e, accounting)
      PROVE  IInv'
  <2>1. /\ TaskEnds(e) /\ UNCHANGED <<workers, zombies, captured, saved, loaded>>
        /\ tasks' = Failed(tasks, e.task) /\ Fault("failures")
        /\ run' = [run EXCEPT !.clean = FALSE]
    BY <1>2 DEF TaskFails, FailedWith
  <2>2. verifier' \in [retries : 0..MAX_FAILED_RETRIES, accounting : BOOLEAN]
    BY <1>0, <1>2, VerifierIs DEF TaskFails
  <2>3. /\ faults' \in [runs : Nat, failures : Nat, aborts : Nat, crashes : Nat, saves : Nat]
        /\ faults'.aborts = faults.aborts
    BY <1>0, <2>1, FaultIs
  <2>4. /\ run' \in [kind : {"none", "execute", "restart"}, clean : BOOLEAN,
                     outcome : {"none", "running", "reported", "unreported", "stopped"}]
        /\ run'.outcome = run.outcome
    BY <1>0, <2>1 DEF Staffed
  <2> QED
    BY <2>1, <2>2, <2>3, <2>4, EndKeeps
<1> QED
  BY <1>1, <1>2 DEF Worker

\* evaluateConsensus gives up what waits when nothing can go on, and captures what is left.
LEMMA EvaluateIs ==
    ASSUME IInv, evaluateConsensus
    PROVE  /\ GoodTasks(tasks) /\ GoodTasks(tasks') /\ (Orderly(tasks) => Orderly(tasks'))
           /\ Running(tasks') = Running(tasks)
           /\ \A t \in TaskIds : tasks'[t].status = "cancelled" /\ tasks[t].status # "cancelled"
                => /\ \E u \in tasks[t].deps : tasks'[u].status \in {"failed", "cancelled"}
                   /\ \E u \in TaskIds : tasks[u].status = "failed"
<1>1. GoodTasks(tasks) /\ DOMAIN tasks = TaskIds
  BY InsideIs DEF evaluateConsensus, Nodes
<1>2. CASE HasActiveWork
  <2>1. tasks' = [t \in DOMAIN tasks |-> tasks[t]] /\ tasks = [t \in DOMAIN tasks |-> tasks[t]]
    BY <1>1, <1>2 DEF evaluateConsensus, GoodTasks, Planned
  <2> QED
    BY <1>1, <2>1
<1>3. CASE ~HasActiveWork
  <2>1. /\ Ready(tasks) = {} /\ \A t \in TaskIds : tasks[t].status \notin {"in_progress", "claimed"}
    BY <1>1, <1>3 DEF HasActiveWork
  <2>2. tasks' = [t \in DOMAIN tasks |->
                    IF tasks[t].status \in {"blocked", "pending"} THEN Cancelled(tasks, t)[t] ELSE tasks[t]]
    BY <1>3 DEF evaluateConsensus
  <2>3. GoodTasks(tasks') /\ Running(tasks') = {} /\ (Orderly(tasks) => Orderly(tasks'))
    BY <1>1, <2>1, <2>2, CancelledGood
  <2>4. Running(tasks) = {}
    BY <1>1, <2>1 DEF Running
  <2>5. ASSUME NEW t \in TaskIds, tasks'[t].status = "cancelled", tasks[t].status # "cancelled"
        PROVE  /\ \E u \in tasks[t].deps : tasks'[u].status \in {"failed", "cancelled"}
               /\ \E u \in TaskIds : tasks[u].status = "failed"
    <3>1. tasks[t].status \in {"blocked", "pending"}
      BY <1>1, <2>2, <2>5
    <3>2. tasks[t].deps \subseteq TaskIds /\ \A u \in TaskIds : tasks[u].status \in TaskStatus
      BY <1>1 DEF GoodTasks, Planned, Task
    <3>3. ~Satisfied(tasks, tasks[t].deps)
      BY <1>1, <2>1, <3>1 DEF GoodTasks, GivenUp, Ready, Claimable
    <3>4. PICK u \in tasks[t].deps : tasks[u].status # "completed"
      BY <1>1, <3>2, <3>3 DEF Satisfied
    <3>5. tasks[u].status \in {"failed", "cancelled", "blocked", "pending"}
      BY <2>1, <3>2, <3>4 DEF TaskStatus
    <3>6. Cancelled(tasks, u)[u].status = "cancelled"
      BY <1>1, <3>2 DEF Cancelled, GoodTasks, Planned, Task
    <3>7. tasks'[u].status \in {"failed", "cancelled"}
      BY <1>1, <2>2, <3>2, <3>5, <3>6
    <3> QED
      BY <1>1, <2>1, <3>1, <3>7, StuckByFailure
  <2> QED
    BY <1>1, <2>3, <2>4, <2>5
<1> QED
  BY <1>2, <1>3

\* So evaluateConsensus keeps the invariant.
LEMMA EvaluateKeeps ==
    ASSUME IInv, evaluateConsensus
    PROVE  IInv'
<1>0. /\ Staffed /\ (faults.aborts = 0 => Undisturbed) /\ pc = "evaluateConsensus" /\ pc' = "evaluating"
      /\ UNCHANGED <<verifier, agents, workers, sent, zombies, saved, loaded, run, faults>>
      /\ captured' = [Snapshot EXCEPT !.tasks = tasks'] /\ sent = {}
  BY DEF IInv, evaluateConsensus, Staffed
<1>1. /\ GoodTasks(tasks) /\ tasks # Nothing
      /\ agents \in [AgentIds -> AgentStatus] /\ workers = AgentIds /\ agents # Nothing
      /\ \A a \in AgentIds : agents[a] # "offline"
      /\ verifier \in [retries : 0..MAX_FAILED_RETRIES, accounting : BOOLEAN]
  BY <1>0, InsideIs DEF Nodes
<1>2. GoodTasks(tasks') /\ (Orderly(tasks) => Orderly(tasks')) /\ Running(tasks') = Running(tasks)
  BY EvaluateIs
<1>3. tasks' # Nothing
  BY <1>2, NothingIs DEF GoodTasks
<1>4. captured'.tasks = tasks' /\ captured'.agents = agents /\ captured'.verifier = verifier
  BY <1>0 DEF Snapshot
<1>5. (Good(Snapshot) /\ Good(saved) /\ Good(captured))'
  BY <1>0, <1>1, <1>2, <1>4 DEF IInv, Good, Snapshot
<1>6. Staffed'
  BY <1>0, <1>3 DEF Staffed, Nodes
<1>7. Reporting'
  BY <1>0, <1>3, <1>4 DEF Reporting, ReportedIsSaved
<1>8. ASSUME faults'.aborts = 0
      PROVE  Undisturbed'
  <2>0. Undisturbed
    BY <1>0, <1>8
  <2>1. Running(tasks) = {} /\ Orderly(tasks)
    BY <1>0, <1>1, <2>0 DEF Undisturbed
  <2>2. Running(tasks') = {} /\ Orderly(tasks')
    BY <1>2, <2>1
  <2>3. Settled(captured'.tasks) /\ Settled(saved'.tasks)
    BY <1>0, <1>4, <2>0, <2>2 DEF Undisturbed, Settled
  <2> QED
    BY <1>0, <2>0, <2>2, <2>3 DEF Undisturbed, Settled, Orderly, Running
<1> QED
  BY <1>5, <1>6, <1>7, <1>8 DEF IInv

\* An empty snapshot holds nothing that could be lost.
LEMMA NoSnapshotIs ==
    Good(NoSnapshot) /\ NoSnapshot.tasks = Nothing /\ Settled(NoSnapshot.tasks)
<1>1. NewVerifier \in [retries : 0..MAX_FAILED_RETRIES, accounting : BOOLEAN]
  BY DEF NewVerifier, MAX_FAILED_RETRIES
<1> QED
  BY <1>1 DEF Good, NoSnapshot, Settled

\* The snapshot is written; dispatch runs again, or cleanup when nothing may run.
LEMMA EvaluatedKeeps ==
    ASSUME IInv, Evaluated
    PROVE  IInv'
<1>0. /\ Staffed /\ (faults.aborts = 0 => Undisturbed) /\ pc = "evaluating" /\ sent = {}
      /\ saved' = captured /\ captured' = NoSnapshot
      /\ pc' \in {"dispatch", "cleanup"} /\ (pc' = "cleanup" => Running(tasks) = {})
      /\ UNCHANGED <<tasks, verifier, agents, workers, sent, zombies, loaded, run, faults>>
  BY DEF IInv, Evaluated, Staffed
<1>1. (Good(Snapshot) /\ Good(saved) /\ Good(captured))'
  BY <1>0, NoSnapshotIs DEF IInv, Good, Snapshot
<1>2. Staffed'
  BY <1>0 DEF Staffed, Nodes
<1>3. Reporting'
  <2>1. run'.outcome = "running" /\ Running(tasks') = Running(tasks)
    BY <1>0 DEF Staffed
  <2> QED
    BY <1>0, <2>1 DEF Reporting, ReportedIsSaved, Running
<1>4. faults'.aborts = 0 => Undisturbed'
  BY <1>0, NoSnapshotIs DEF Undisturbed, Settled, Orderly, Running
<1> QED
  BY <1>1, <1>2, <1>3, <1>4 DEF IInv

\* cleanup ends the workers and captures what they leave.
LEMMA CleanupKeeps ==
    ASSUME IInv, cleanup
    PROVE  IInv'
<1>0. /\ Staffed /\ Reporting /\ (faults.aborts = 0 => Undisturbed) /\ pc = "cleanup" /\ pc' = "cleaning" /\ sent = {}
      /\ captured' = [Snapshot EXCEPT !.agents = agents'] /\ workers' = {}
      /\ UNCHANGED <<tasks, verifier, sent, zombies, saved, loaded, run, faults>>
  BY DEF IInv, cleanup, Staffed
<1>1. /\ GoodTasks(tasks) /\ tasks # Nothing
      /\ agents \in [AgentIds -> AgentStatus] /\ workers = AgentIds /\ agents # Nothing
      /\ verifier \in [retries : 0..MAX_FAILED_RETRIES, accounting : BOOLEAN]
  BY <1>0, InsideIs DEF Nodes
<1>2. agents' \in [AgentIds -> AgentStatus]
  BY <1>1 DEF cleanup, AgentStatus
<1>3. captured'.tasks = tasks /\ captured'.agents = agents' /\ captured'.verifier = verifier
  BY <1>0 DEF Snapshot
<1>4. (Good(Snapshot) /\ Good(saved) /\ Good(captured))'
  BY <1>0, <1>1, <1>2, <1>3 DEF IInv, Good, Snapshot
<1>5. Staffed'
  BY <1>0, <1>1 DEF Staffed, Nodes
<1>6. Reporting'
  <2>1. Running(tasks') = {}
    BY <1>0 DEF Reporting, Running
  <2> QED
    BY <1>0, <1>1, <1>3, <2>1 DEF Reporting, ReportedIsSaved
<1>7. ASSUME faults'.aborts = 0
      PROVE  Undisturbed'
  <2>0. Undisturbed /\ Running(tasks) = {}
    BY <1>0, <1>7 DEF Reporting
  <2>1. Settled(captured'.tasks)
    BY <1>3, <2>0 DEF Undisturbed, Settled
  <2> QED
    BY <1>0, <2>0, <2>1 DEF Undisturbed, Settled, Orderly, Running
<1> QED
  BY <1>4, <1>5, <1>6, <1>7 DEF IInv

\* The last snapshot is written, and with it the report that is returned.
LEMMA CleanedUpKeeps ==
    ASSUME IInv, CleanedUp
    PROVE  IInv'
<1>0. /\ Staffed /\ Reporting /\ (faults.aborts = 0 => Undisturbed) /\ pc = "cleaning" /\ pc' = "idle" /\ sent = {}
      /\ saved' = captured /\ captured' = NoSnapshot
      /\ run' = [run EXCEPT !.outcome = IF tasks["report"].status = "completed" THEN "reported" ELSE "unreported"]
      /\ UNCHANGED <<tasks, verifier, agents, workers, sent, zombies, loaded, faults>>
  BY DEF IInv, CleanedUp, Ended, Staffed
<1>1. (Good(Snapshot) /\ Good(saved) /\ Good(captured))'
  BY <1>0, NoSnapshotIs DEF IInv, Good, Snapshot
<1>2. /\ run' \in [kind : {"none", "execute", "restart"}, clean : BOOLEAN,
                   outcome : {"none", "running", "reported", "unreported", "stopped"}]
      /\ run'.outcome # "running"
      /\ run'.outcome = "reported" => tasks["report"].status = "completed"
  BY <1>0 DEF Staffed
<1>3. Staffed'
  BY <1>0, <1>2 DEF Staffed, Nodes
<1>4. Reporting'
  <2>1. captured.tasks # Nothing /\ GoodTasks(captured.tasks)
    BY <1>0 DEF Reporting, IInv, Good
  <2>2. "report" \in DOMAIN captured.tasks
    BY <2>1, NothingIs, PlanIs DEF GoodTasks
  <2>3. run'.outcome = "reported" => captured.tasks["report"].status = "completed"
    BY <1>0, <1>2 DEF Reporting
  <2> QED
    BY <1>0, <2>2, <2>3 DEF Reporting, ReportedIsSaved
<1>5. faults'.aborts = 0 => Undisturbed'
  BY <1>0, NoSnapshotIs DEF Undisturbed, Settled, Orderly, Running
<1> QED
  BY <1>1, <1>3, <1>4, <1>5 DEF IInv

\* A snapshot that cannot be written ends the run, without a report.
LEMMA SaveFailsKeeps ==
    ASSUME IInv, SaveFails
    PROVE  IInv'
<1>0. /\ Staffed /\ (faults.aborts = 0 => Undisturbed) /\ pc \in {"evaluating", "cleaning"} /\ pc' = "idle" /\ sent = {}
      /\ captured' = NoSnapshot /\ Fault("saves") /\ run' = [run EXCEPT !.outcome = "stopped"]
      /\ UNCHANGED <<tasks, verifier, agents, workers, sent, zombies, saved, loaded>>
  BY DEF IInv, SaveFails, Ended, Staffed
<1>1. /\ faults' \in [runs : Nat, failures : Nat, aborts : Nat, crashes : Nat, saves : Nat]
      /\ faults'.aborts = faults.aborts
  BY <1>0, FaultIs
<1>2. (Good(Snapshot) /\ Good(saved) /\ Good(captured))'
  BY <1>0, NoSnapshotIs DEF IInv, Good, Snapshot
<1>3. /\ run' \in [kind : {"none", "execute", "restart"}, clean : BOOLEAN,
                   outcome : {"none", "running", "reported", "unreported", "stopped"}]
      /\ run'.outcome = "stopped"
  BY <1>0 DEF Staffed
<1>4. Staffed'
  BY <1>0, <1>1, <1>3 DEF Staffed, Nodes
<1>5. Reporting'
  BY <1>0, <1>3 DEF Reporting, ReportedIsSaved
<1>6. faults'.aborts = 0 => Undisturbed'
  BY <1>0, <1>1, NoSnapshotIs DEF Undisturbed, Settled, Orderly, Running
<1> QED
  BY <1>2, <1>4, <1>5, <1>6 DEF IInv

\* An abort leaves the executions of the round to themselves, and the snapshot that was being written, or not.
LEMMA AbortKeeps ==
    ASSUME IInv, Abort
    PROVE  IInv'
<1>0. /\ Staffed /\ pc # "idle" /\ pc' = "idle" /\ Fault("aborts")
      /\ zombies' = (IF pc = "executeTask" THEN zombies \cup sent ELSE zombies)
      /\ sent' = {} /\ workers' = {}
      /\ agents' = [a \in DOMAIN agents |-> IF a \in workers THEN "offline" ELSE agents[a]]
      /\ saved' \in {saved, captured} /\ captured' = NoSnapshot
      /\ run' = [run EXCEPT !.outcome = "stopped"]
      /\ UNCHANGED <<tasks, verifier, loaded>>
  BY DEF IInv, Abort, Ended
<1>1. /\ faults' \in [runs : Nat, failures : Nat, aborts : Nat, crashes : Nat, saves : Nat]
      /\ faults'.aborts # 0
  BY <1>0, FaultIs
<1>2. agents' = Nothing \/ agents' \in [AgentIds -> AgentStatus]
  <2>1. CASE agents = Nothing
    <3>1. DOMAIN agents' = {} /\ agents' = [x \in DOMAIN agents' |-> agents'[x]]
      BY <1>0, <2>1, NothingIs
    <3> QED
      BY <3>1, NothingRuns
  <2>2. CASE agents \in [AgentIds -> AgentStatus]
    BY <1>0, <2>2 DEF AgentStatus
  <2> QED
    BY <2>1, <2>2, BoardIs DEF IInv
<1>3. (Good(Snapshot) /\ Good(saved) /\ Good(captured))'
  BY <1>0, <1>2, NoSnapshotIs DEF IInv, Good, Snapshot
<1>4. /\ run' \in [kind : {"none", "execute", "restart"}, clean : BOOLEAN,
                   outcome : {"none", "running", "reported", "unreported", "stopped"}]
      /\ run'.outcome = "stopped"
  BY <1>0 DEF Staffed
<1>5. Staffed'
  <2>1. zombies' \in SUBSET Executions /\ (zombies' # {} => tasks' # Nothing)
    BY <1>0 DEF Staffed, Nodes
  <2>2. IsFiniteSet(sent') /\ Cardinality(sent') <= MaxWorkers
    <3>1. IsFiniteSet({}) /\ Cardinality({}) <= MaxWorkers
      BY FS_EmptySet, MaxWorkersAssumption
    <3> QED
      BY <1>0, <3>1
  <2> QED
    BY <1>0, <1>1, <1>4, <2>1, <2>2 DEF Staffed, Nodes
<1>6. Reporting'
  BY <1>0, <1>4 DEF Reporting, ReportedIsSaved
<1> QED
  BY <1>1, <1>3, <1>5, <1>6 DEF IInv

\* An execution of an aborted run may end at any time, and fail a task that was completed since.
LEMMA ZombieKeeps ==
    ASSUME IInv, NEW e \in zombies, ZombieEnds(e)
    PROVE  IInv'
<1>0. /\ Staffed /\ Reporting /\ (faults.aborts = 0 => Undisturbed) /\ zombies' = zombies \ {e}
      /\ UNCHANGED <<agents, workers, pc, sent, captured, saved, loaded, run, faults>>
      /\ tasks' \in {Finished(e), Failed(tasks, e.task)} /\ e.task \in TaskIds /\ tasks # Nothing
  BY DEF IInv, ZombieEnds, FailedWith, Staffed, Executions
<1>1. /\ GoodTasks(tasks) /\ DOMAIN tasks = TaskIds
      /\ agents = Nothing \/ agents \in [AgentIds -> AgentStatus]
      /\ verifier \in [retries : 0..MAX_FAILED_RETRIES, accounting : BOOLEAN]
  BY <1>0, BoardIs, NothingIs DEF IInv, GoodTasks
<1>2. /\ GoodTasks(tasks') /\ Running(tasks') \subseteq Running(tasks)
      /\ Running(tasks) = {} /\ tasks'["report"].status = "completed" => tasks["report"].status = "completed"
  <2>1. CASE tasks' = Failed(tasks, e.task)
    <3>1. GoodTasks(tasks') /\ Running(tasks') \subseteq Running(tasks)
      BY <1>0, <1>1, <2>1, FailedGood
    <3>2. tasks'["report"].status = "completed" => tasks["report"].status = "completed"
      BY <1>0, <1>1, <2>1, NewStatus, PlanIs DEF Failed, GoodTasks, Planned
    <3> QED
      BY <3>1, <3>2
  <2>2. CASE tasks' = Finished(e) /\ tasks[e.task].status = "in_progress"
    <3>1. tasks' = Completed(tasks, e.task, {u \in TaskIds : e.task \in tasks[u].deps})
      BY <1>1, <2>2 DEF Finished, Dependents
    <3>2. GoodTasks(tasks') /\ Running(tasks') = Running(tasks) \ {e.task}
      BY <1>0, <1>1, <2>2, <3>1, CompletedGood
    <3>3. Running(tasks) # {}
      BY <1>0, <1>1, <2>2 DEF Running
    <3> QED
      BY <3>2, <3>3
  <2>3. CASE tasks' = Finished(e) /\ tasks[e.task].status # "in_progress"
    <3>1. tasks' = tasks
      BY <2>3 DEF Finished
    <3> QED
      BY <1>1, <2>3, <3>1
  <2> QED
    BY <1>0, <2>1, <2>2, <2>3
<1>3. verifier' \in [retries : 0..MAX_FAILED_RETRIES, accounting : BOOLEAN]
  BY <1>1, VerifierIs DEF ZombieEnds
<1>4. tasks' # Nothing
  BY <1>2, NothingIs DEF GoodTasks
<1>5. (Good(Snapshot) /\ Good(saved) /\ Good(captured))'
  BY <1>0, <1>1, <1>2, <1>3 DEF IInv, Good, Snapshot
<1>6. Staffed'
  BY <1>0, <1>4 DEF Staffed
<1>7. Reporting'
  <2>1. pc' \in {"cleanup", "cleaning"} => Running(tasks') = {} /\ Running(tasks) = {}
    BY <1>0, <1>2 DEF Reporting
  <2>2. pc' \in {"evaluating", "cleaning"} => captured'.tasks # Nothing
    BY <1>0 DEF Reporting
  <2>3. pc' = "cleaning" /\ tasks'["report"].status = "completed" => captured'.tasks["report"].status = "completed"
    BY <1>0, <1>2, <2>1 DEF Reporting
  <2>4. ReportedIsSaved'
    BY <1>0 DEF Reporting, ReportedIsSaved
  <2> QED
    BY <2>1, <2>2, <2>3, <2>4 DEF Reporting
<1>8. faults'.aborts # 0
  BY <1>0 DEF Undisturbed
<1> QED
  BY <1>5, <1>6, <1>7, <1>8 DEF IInv

\* The process dies, and the board is what was saved.
LEMMA CrashKeeps ==
    ASSUME IInv, Crash
    PROVE  IInv'
<1>0. /\ Staffed /\ Reporting /\ (faults.aborts = 0 => Undisturbed) /\ Fault("crashes") /\ pc' = "idle"
      /\ tasks' = saved.tasks /\ verifier' = saved.verifier /\ agents' = saved.agents
      /\ workers' = {} /\ sent' = {} /\ zombies' = {} /\ captured' = NoSnapshot /\ loaded' = FALSE
      /\ run' = [run EXCEPT !.outcome = IF pc = "idle" THEN run.outcome ELSE "stopped"]
      /\ saved' = saved
  BY DEF IInv, Crash, Ended
<1>1. /\ faults' \in [runs : Nat, failures : Nat, aborts : Nat, crashes : Nat, saves : Nat]
      /\ faults'.aborts = faults.aborts
  BY <1>0, FaultIs
<1>2. /\ run' \in [kind : {"none", "execute", "restart"}, clean : BOOLEAN,
                   outcome : {"none", "running", "reported", "unreported", "stopped"}]
      /\ run'.outcome = (IF pc = "idle" THEN run.outcome ELSE "stopped")
  BY <1>0 DEF Staffed
<1>3. (Good(Snapshot) /\ Good(saved) /\ Good(captured))'
  BY <1>0, NoSnapshotIs DEF IInv, Good, Snapshot
<1>4. Staffed'
  <2>1. IsFiniteSet(sent') /\ Cardinality(sent') <= MaxWorkers
    <3>1. IsFiniteSet({}) /\ Cardinality({}) <= MaxWorkers
      BY FS_EmptySet, MaxWorkersAssumption
    <3> QED
      BY <1>0, <3>1
  <2>2. run'.outcome # "running"
    BY <1>0, <1>2 DEF Staffed
  <2> QED
    BY <1>0, <1>1, <1>2, <2>1, <2>2 DEF Staffed, Nodes
<1>5. Reporting'
  BY <1>0, <1>2 DEF Reporting, ReportedIsSaved
<1>6. ASSUME faults'.aborts = 0
      PROVE  Undisturbed'
  <2>0. Undisturbed
    BY <1>0, <1>1, <1>6
  <2>1. (tasks' # Nothing => Orderly(tasks')) /\ Running(tasks') = {}
    BY <1>0, <2>0, NothingRuns DEF Undisturbed, Settled
  <2>2. Settled(saved'.tasks) /\ Settled(captured'.tasks)
    BY <1>0, <2>0, NoSnapshotIs DEF Undisturbed
  <2> QED
    BY <1>0, <2>1, <2>2 DEF Undisturbed
<1> QED
  BY <1>3, <1>4, <1>5, <1>6 DEF IInv

\* Each step keeps the invariant.
LEMMA NextKeeps == IInv /\ [Next]_vars => IInv'
<1> SUFFICES ASSUME IInv, [Next]_vars PROVE IInv'
  OBVIOUS
<1>1. CASE Node
  BY <1>1, PlanKeeps, SpawnKeeps, DispatchKeeps, BeginKeeps, EvaluateKeeps, EvaluatedKeeps, CleanupKeeps,
     CleanedUpKeeps DEF Node
<1>2. CASE \E e \in sent : Worker(e)
  BY <1>2, WorkerKeeps
<1>3. CASE \E e \in zombies : ZombieEnds(e)
  BY <1>3, ZombieKeeps
<1>4. CASE UNCHANGED vars
  BY <1>4 DEF vars, IInv, Good, Snapshot, Staffed, Reporting, ReportedIsSaved, Undisturbed, Settled, Orderly, Running
<1> QED
  BY <1>1, <1>2, <1>3, <1>4, ExecuteKeeps, RestartKeeps, SaveFailsKeeps, AbortKeeps, CrashKeeps DEF Next, Step

-----------------------------------------------------------------------------
(***************************************************************************)
(* The theorems.                                                           *)
(***************************************************************************)
\* The invariant holds in every state of a run.
LEMMA SpecIInv == Spec => []IInv
  BY InitKeeps, NextKeeps, PTL DEF Spec

\* Every variable has its type, no execution is under way outside the node that runs them, and every worker is
\* registered: whatever is planned, restarted, aborted or loaded again, for every number of patch perspectives.
THEOREM SwarmTyped == Spec => []TypeOK
<1>1. \A ts : GoodTasks(ts) => Typed(ts, Task)
  BY NothingIs DEF GoodTasks, Planned, Typed
<1>2. \A ag \in [AgentIds -> AgentStatus] : Typed(ag, {"idle", "busy", "offline"})
  BY PlanAssumption DEF Typed, AgentStatus
<1>3. Typed(Nothing, Task) /\ Typed(Nothing, {"idle", "busy", "offline"})
  BY DEF Typed, Nothing
<1>4. IInv => WellTyped(Snapshot)
  BY <1>1, <1>2, <1>3 DEF IInv, Good, WellTyped
<1>5. IInv => WellTyped(saved) /\ WellTyped(captured)
  BY <1>1, <1>2, <1>3 DEF IInv, Good, WellTyped
<1>6. IInv => \A e \in sent : e.agent \in workers
  BY DEF IInv, Staffed, Nodes, Executions
<1>7. IInv => TypeOK
  BY <1>4, <1>5, <1>6 DEF IInv, Staffed, Nodes, TypeOK
<1> QED
  BY <1>7, SpecIInv, PTL

\* A round sends no more executions than maxWorkers, those that were left in progress included; until a run is
\* aborted it sends each to a worker of its own and of its role, and nothing starts or stays done before what
\* it depends on is done.
THEOREM DispatchHolds == Spec => []DispatchIsSound
<1>1. IInv => WorkersBounded
  BY DEF IInv, Staffed, WorkersBounded
<1>2. IInv => WorkerRunsOneTask
  BY DEF IInv, Undisturbed, WorkerRunsOneTask
<1>3. IInv => StartedAfterDependencies
  <2> SUFFICES ASSUME IInv, faults.aborts = 0, NEW t \in DOMAIN tasks,
                      tasks[t].status \in {"in_progress", "completed"}
               PROVE  Satisfied(tasks, tasks[t].deps)
    BY DEF StartedAfterDependencies
  <2>1. tasks # Nothing /\ Undisturbed
    BY NothingIs DEF IInv
  <2>2. GoodTasks(tasks) /\ DOMAIN tasks = TaskIds
    BY <2>1, BoardIs, NothingIs DEF IInv, GoodTasks
  <2> QED
    BY <2>1, <2>2 DEF Undisturbed, Orderly
<1>4. IInv => DispatchIsSound
  BY <1>1, <1>2, <1>3 DEF DispatchIsSound
<1> QED
  BY <1>4, SpecIInv, PTL

\* A report that executeMission returned is in blackboard.json, and nothing that happens before the next run takes
\* it away again.
THEOREM ReportsAreSaved == Spec => []ReportedIsSaved
<1>1. IInv => ReportedIsSaved
  BY DEF IInv, Reporting
<1> QED
  BY <1>1, SpecIInv, PTL

\* Nothing but evaluateConsensus gives a task up.
Kept(ts, us) == \A t \in DOMAIN ts \cap DOMAIN us : us[t].status = "cancelled" => ts[t].status = "cancelled"

\* dispatch releases, retries and claims, and gives up nothing.
LEMMA DispatchGivesUpNothing ==
    ASSUME IInv, dispatch
    PROVE  Kept(tasks, tasks')
<1>0. GoodTasks(tasks) /\ DOMAIN tasks = TaskIds /\ workers = AgentIds
  BY InsideIs DEF dispatch, Nodes
<1> DEFINE fresh == WithoutStale(tasks)
           retried == Retried(fresh)
           given == [t \in DOMAIN fresh |-> IF t \in retried THEN Reset(fresh, t)[t] ELSE fresh[t]]
<1>1. \E f \in Assignments(given) :
         tasks' = [t \in DOMAIN given |->
             IF t \in DOMAIN f THEN Started(Claimed(given, t, f[t]), t)[t] ELSE given[t]]
  BY Zenon DEF dispatch
<1>2. fresh = WithoutStale(tasks)
  OBVIOUS
<1>3. retried = Retried(fresh)
  OBVIOUS
<1>4. given = [t \in DOMAIN fresh |-> IF t \in retried THEN Reset(fresh, t)[t] ELSE fresh[t]]
  OBVIOUS
<1> HIDE DEF fresh, retried, given
<1>5. PICK f \in Assignments(given) :
         tasks' = [t \in DOMAIN given |->
             IF t \in DOMAIN f THEN Started(Claimed(given, t, f[t]), t)[t] ELSE given[t]]
  BY <1>1
<1>6. GoodTasks(fresh) /\ \A t \in TaskIds : fresh[t].status = "cancelled" => tasks[t].status = "cancelled"
  BY <1>0, <1>2, WithoutStaleGood
<1>7. GoodTasks(given) /\ \A t \in TaskIds : given[t].status = "cancelled" => fresh[t].status = "cancelled"
  <2>1. ResetTo(fresh, given, retried) /\ retried \subseteq {"verify"}
    BY <1>3, <1>4 DEF ResetTo, Retried
  <2>2. \A t \in retried : fresh[t].status \in {"failed", "cancelled"}
    BY <1>3 DEF Retried
  <2> QED
    BY <1>6, <2>1, <2>2, ResetGood
<1>8. \A t \in TaskIds : tasks'[t].status = "cancelled" => given[t].status = "cancelled"
  BY <1>0, <1>5, <1>7, RoundGood
<1> QED
  BY <1>0, <1>6, <1>7, <1>8 DEF Kept

\* Neither do the executions, nor those who begin a run.
LEMMA OthersGiveUpNothing ==
    ASSUME IInv
    PROVE  /\ \A e \in sent : Worker(e) => Kept(tasks, tasks')
           /\ \A e \in zombies : ZombieEnds(e) => Kept(tasks, tasks')
           /\ restartMission \/ planMission => Kept(tasks, tasks')
<1>1. ASSUME NEW e, e.task \in TaskIds, tasks # Nothing, tasks' \in {Finished(e), Failed(tasks, e.task)}
      PROVE  Kept(tasks, tasks')
  <2>0. GoodTasks(tasks) /\ DOMAIN tasks = TaskIds
    BY <1>1, BoardIs, NothingIs DEF IInv, GoodTasks
  <2>1. CASE tasks' = Failed(tasks, e.task)
    BY <1>1, <2>0, <2>1, FailedGood DEF Kept
  <2>2. CASE tasks' = Finished(e) /\ tasks[e.task].status = "in_progress"
    <3>1. tasks' = Completed(tasks, e.task, {u \in TaskIds : e.task \in tasks[u].deps})
      BY <2>0, <2>2 DEF Finished, Dependents
    <3> QED
      BY <1>1, <2>0, <2>2, <3>1, CompletedGood DEF Kept
  <2>3. CASE tasks' = Finished(e) /\ tasks[e.task].status # "in_progress"
    <3>1. tasks' = tasks
      BY <2>3 DEF Finished
    <3> QED
      BY <3>1 DEF Kept
  <2> QED
    BY <1>1, <2>1, <2>2, <2>3
<1>2. ASSUME NEW e \in sent, Worker(e)
      PROVE  Kept(tasks, tasks')
  <2>1. tasks' \in {Finished(e), Failed(tasks, e.task)} /\ pc = "executeTask"
    BY <1>2 DEF Worker, TaskCompletes, TaskFails, TaskEnds, FailedWith
  <2>2. e.task \in TaskIds /\ tasks # Nothing
    BY <2>1 DEF IInv, Staffed, Nodes, Executions
  <2> QED
    BY <1>1, <2>1, <2>2
<1>3. ASSUME NEW e \in zombies, ZombieEnds(e)
      PROVE  Kept(tasks, tasks')
  <2>1. tasks' \in {Finished(e), Failed(tasks, e.task)}
    BY <1>3 DEF ZombieEnds, FailedWith
  <2>2. e.task \in TaskIds /\ tasks # Nothing
    BY DEF IInv, Staffed, Executions
  <2> QED
    BY <1>1, <2>1, <2>2
<1>4. ASSUME planMission
      PROVE  Kept(tasks, tasks')
  <2>1. tasks' = tasks \/ tasks' = Plan
    BY <1>4 DEF planMission
  <2>2. \A t \in DOMAIN Plan : Plan[t].status # "cancelled"
    BY DEF Plan, InitialStatus
  <2> QED
    BY <2>1, <2>2 DEF Kept
<1>5. ASSUME restartMission
      PROVE  Kept(tasks, tasks')
  <2> DEFINE failed == {t \in DOMAIN tasks \cap {"verify"} : Resettable(tasks, t)}
  <2>1. tasks' = Nothing \/ ResetTo(tasks, tasks', failed)
    BY <1>5 DEF restartMission, ResetTo
  <2>2. failed \subseteq {"verify"} /\ \A t \in failed : tasks[t].status \in {"failed", "cancelled"}
    BY DEF Resettable
  <2> HIDE DEF failed
  <2>3. CASE tasks = Nothing \/ tasks' = Nothing
    BY <2>3, NothingIs DEF Kept
  <2>4. CASE GoodTasks(tasks) /\ ResetTo(tasks, tasks', failed)
    <3>1. DOMAIN tasks = TaskIds
      BY <2>4, NothingIs DEF GoodTasks
    <3> QED
      BY <2>2, <2>4, <3>1, ResetGood DEF Kept
  <2> QED
    BY <2>1, <2>3, <2>4, BoardIs DEF IInv
<1> QED
  BY <1>2, <1>3, <1>4, <1>5

\* A task is given up only because one that it depends on failed or is given up as well, and some task did fail:
\* never for want of a slot or of a worker, and not because of what an aborted run left behind, however runs follow
\* each other.
THEOREM CancelledAfterFailure == Spec => CancelledByFailure
<1> DEFINE A == \A t \in DOMAIN tasks \cap DOMAIN tasks' :
                   tasks[t].status # "cancelled" /\ tasks'[t].status = "cancelled"
                     => \/ /\ \E u \in tasks[t].deps : tasks'[u].status \in {"failed", "cancelled"}
                           /\ \E u \in DOMAIN tasks : tasks[u].status = "failed"
                        \/ ~loaded'
<1>1. ASSUME IInv, Next
      PROVE  A
  <2>1. CASE Kept(tasks, tasks')
    BY <2>1 DEF Kept
  <2>2. CASE UNCHANGED tasks
    BY <2>2
  <2>3. CASE evaluateConsensus
    <3>1. DOMAIN tasks = TaskIds
      BY <1>1, <2>3, InsideIs DEF evaluateConsensus, Nodes
    <3> QED
      BY <1>1, <2>3, <3>1, EvaluateIs
  <2>4. CASE Crash
    BY <2>4 DEF Crash
  <2>5. CASE Node
    BY <1>1, <2>1, <2>2, <2>3, <2>5, DispatchGivesUpNothing, OthersGiveUpNothing
       DEF Node, spawnWorkers, executeTask, Evaluated, cleanup, CleanedUp
  <2>6. CASE \/ executeMission \/ restartMission \/ SaveFails \/ Abort
    BY <1>1, <2>1, <2>2, <2>6, OthersGiveUpNothing DEF executeMission, SaveFails, Abort
  <2>7. CASE (\E e \in sent : Worker(e)) \/ (\E e \in zombies : ZombieEnds(e))
    BY <1>1, <2>1, <2>7, OthersGiveUpNothing
  <2> QED
    BY <1>1, <2>4, <2>5, <2>6, <2>7 DEF Next, Step
<1>2. IInv /\ [Next]_vars => [A]_vars
  BY <1>1
<1> QED
  BY <1>2, SpecIInv, PTL DEF Spec, CancelledByFailure
=============================================================================
