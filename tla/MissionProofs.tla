---------------------------- MODULE MissionProofs ----------------------------
(***************************************************************************)
(* What the control plane of a mission guarantees for every number of      *)
(* invocations, calls, crashes and failures: that memory and checkpoint    *)
(* are typed, that the budget holds and no interrupted call is replayed;   *)
(* then what the log, the budgets and the checkpoint tell.                 *)
(***************************************************************************)
EXTENDS Mission, FiniteSetTheorems, TLAPS

-----------------------------------------------------------------------------
(***************************************************************************)
(* Facts about the values the variables take.                              *)
(***************************************************************************)
\* A mission starts in a typed state.
LEMMA InitialStateType ==
    ASSUME NEW m \in 0..MaxMissions
    PROVE  InitialState(m) \in State /\ InitialState(m).mission = m
BY DEF InitialState, State, Phases

\* The state of no mission is a state.
LEMMA NoStateType == NoState \in State /\ NoState.mission = 0
BY InitialStateType, BoundAssumption DEF NoState

\* The fields of the operation under way have the types of its kind.
LEMMA OpFields ==
    ASSUME op \in OpKinds
    PROVE  /\ op.kind = "reserve_model" => op.id \in Invocations /\ op.undo \in State
           /\ op.kind = "log_usage" => op.id \in Invocations
           /\ op.kind = "reserve_tools" => op.batch \in Batches /\ op.undo \in State
           /\ op.kind = "log_calls" => op.batch \in Batches /\ op.left \in SUBSET Slots
           /\ op.kind \in {"log_stage_started", "log_stage_completed"} => op.stage \in Stages
           /\ op.kind = "save" => op.then \in {"none", "log_outcome", "log_start"}
           /\ op.kind = "log_outcome" => op.then \in {"none", "new_mission"}
           /\ op.kind = "log_outcome" => op = [kind |-> "log_outcome", then |-> op.then]
           /\ op.kind = "init_save" => op.then \in {"restore_tools", "restore_outcome"}
           /\ op.kind = "restore_usage" => op.changed \in BOOLEAN
BY DEF OpKinds

\* The operations that the actions begin or continue.
LEMMA OpMade ==
    /\ \A kind \in {"none", "init_start", "log_start", "restore_tools",
                    "restore_outcome", "restore_stages"} : [kind |-> kind] \in OpKinds
    /\ \A i \in Invocations, s \in State :
          [kind |-> "reserve_model", id |-> i, undo |-> s] \in OpKinds
    /\ \A i \in Invocations : [kind |-> "log_usage", id |-> i] \in OpKinds
    /\ \A B \in Batches, s \in State :
          [kind |-> "reserve_tools", batch |-> B, undo |-> s] \in OpKinds
    /\ \A B \in Batches, L \in SUBSET Slots :
          [kind |-> "log_calls", batch |-> B, left |-> L] \in OpKinds
    /\ \A kind \in {"log_stage_started", "log_stage_completed"}, s \in Stages :
          [kind |-> kind, stage |-> s] \in OpKinds
    /\ \A then \in {"none", "log_outcome", "log_start"} :
          [kind |-> "save", then |-> then] \in OpKinds
    /\ \A then \in {"none", "new_mission"} :
          [kind |-> "log_outcome", then |-> then] \in OpKinds
    /\ \A b \in BOOLEAN : [kind |-> "restore_usage", changed |-> b] \in OpKinds
    /\ \A then \in {"restore_tools", "restore_outcome"} :
          [kind |-> "init_save", then |-> then] \in OpKinds
    /\ NoOp \in OpKinds
BY DEF OpKinds, NoOp

\* Appending an event keeps the type of the log.
LEMMA RecordEventType ==
    ASSUME log \in [Events -> Nat], NEW e, RecordEvent(e)
    PROVE  log' \in [Events -> Nat] /\ ckpt' = ckpt /\ faults' = faults
<1>1. \A x \in Events : log[x] \in Nat
  OBVIOUS
<1>2. \A x \in Events : (IF x = e THEN log[e] + 1 ELSE log[x]) \in Nat
  BY <1>1
<1>3. log' = [x \in Events |-> IF x = e THEN log[e] + 1 ELSE log[x]]
  BY DEF RecordEvent
<1>. QED
  BY <1>2, <1>3 DEF RecordEvent

\* Moving the calls of a batch keeps the type of exec.
LEMMA SetExecType ==
    ASSUME exec \in [Missions -> [Slots -> ExecStatus]],
           NEW B, NEW status \in ExecStatus, SetExec(B, status)
    PROVE  exec' \in [Missions -> [Slots -> ExecStatus]]
BY DEF SetExec

\* Counting a failure or a crash keeps the type of the counters.
LEMMA FaultsType ==
    ASSUME faults \in [crashes : Nat, appends : Nat, saves : Nat]
    PROVE  /\ SaveFails => faults' \in [crashes : Nat, appends : Nat, saves : Nat]
           /\ AppendFails => faults' \in [crashes : Nat, appends : Nat, saves : Nat]
           /\ Crash => faults' \in [crashes : Nat, appends : Nat, saves : Nat]
BY DEF SaveFails, AppendFails, Crash

-----------------------------------------------------------------------------
(***************************************************************************)
(* The typing invariant: TypeOK, and what makes it inductive.  A restored  *)
(* checkpoint holds a mission, an undone reservation gives back a state of *)
(* the same mission, and a mission about to be replaced leaves an id.      *)
(***************************************************************************)
UndoOK == op.kind \in {"reserve_model", "reserve_tools"} => op.undo.mission = mem.mission
CkptOK == ckpt = NoState \/ ckpt.mission # 0
NextOK == op = [kind |-> "log_outcome", then |-> "new_mission"] => lastMission < MaxMissions
TypeInv == TypeOK /\ UndoOK /\ CkptOK /\ NextOK

\* Initially the engine is down and nothing is on disk.
LEMMA TypeInit == Init => TypeInv
<1> SUFFICES ASSUME Init PROVE TypeInv
  OBVIOUS
<1>1. lastMission \in 0..MaxMissions
  BY BoundAssumption DEF Init
<1>. QED
  BY <1>1, NoStateType, OpMade
     DEF Init, TypeInv, TypeOK, UndoOK, CkptOK, NextOK, NoOp, ModelStatus, ExecStatus

\* The steps of model invocations keep the types.
LEMMA TypeModel == TypeInv /\ ModelNext => TypeInv'
<1> SUFFICES ASSUME TypeInv, ModelNext PROVE TypeInv'
  OBVIOUS
<1> USE BudgetAssumption, OpFields, OpMade, FaultsType, RecordEventType
<1> USE DEF TypeInv, TypeOK, UndoOK, CkptOK, NextOK, ModelStatus
<1>1. ASSUME NEW i \in Invocations, ReserveModel(i) PROVE TypeInv'
  <2>1. mem' \in State /\ mem'.mission = mem.mission
    BY <1>1 DEF ReserveModel, State
  <2>. QED
    BY <1>1, <2>1 DEF ReserveModel, Idle, NoOp, MemoryOnly, disk
<1>2. ASSUME NEW i \in Invocations, NEW c \in Charges \cup {MaxTokensPerInvocation},
             ModelAnswers(i, c)
      PROVE TypeInv'
  BY <1>2 DEF ModelAnswers, MemoryOnly, disk, engine
<1>3. ASSUME NEW i \in Invocations, ChargeModel(i) PROVE TypeInv'
  <2>0. charge[i] \in Nat /\ mem.tokensUsed \in Nat /\ mem.tokensUsed + charge[i] \in Nat
    BY DEF State
  <2>1. mem' \in State /\ mem'.mission = mem.mission
    BY <1>3, <2>0 DEF ChargeModel, State
  <2>. QED
    BY <1>3, <2>1 DEF ChargeModel, Idle, NoOp, MemoryOnly, disk
<1>4. ASSUME NEW i \in Invocations, ChargeModelUnknown(i) PROVE TypeInv'
  BY <1>4 DEF ChargeModelUnknown, MemoryOnly, disk, engine
<1>5. CASE ReserveModelSaved
  BY <1>5 DEF ReserveModelSaved, SaveCheckpoint, NoOp
<1>6. CASE ReserveModelFails
  BY <1>6 DEF ReserveModelFails, SaveFails, disk, NoOp
<1>7. CASE UsageLogged
  BY <1>7 DEF UsageLogged, NoOp, clients
<1>. QED
  BY <1>1, <1>2, <1>3, <1>4, <1>5, <1>6, <1>7 DEF ModelNext

\* The steps of tool calls keep the types.
LEMMA TypeTools == TypeInv /\ ToolNext => TypeInv'
<1> SUFFICES ASSUME TypeInv, ToolNext PROVE TypeInv'
  OBVIOUS
<1> USE BatchAssumption, OpFields, OpMade, FaultsType, RecordEventType
<1> USE DEF TypeInv, TypeOK, UndoOK, CkptOK, NextOK
<1>1. ASSUME NEW B \in Batches, ReserveTools(B) PROVE TypeInv'
  <2>1. mem.toolCallsUsed + Cardinality(B) \in Nat
    <3>1. IsFiniteSet(B)
      BY FiniteAssumption, FS_Subset
    <3>. QED
      BY <3>1, FS_CardinalityType DEF State
  <2>2. mem' \in State /\ mem'.mission = mem.mission
    BY <1>1, <2>1 DEF ReserveTools, State
  <2>. QED
    BY <1>1, <2>2 DEF ReserveTools, Idle, NoOp, MemoryOnly, disk, clients
<1>2. ASSUME NEW B \in Batches, ToolsPause(B) PROVE TypeInv'
  <2>1. exec' \in [Missions -> [Slots -> ExecStatus]]
    BY <1>2, SetExecType DEF ToolsPause, ExecStatus
  <2>. QED
    BY <1>2, <2>1 DEF ToolsPause, MemoryOnly, disk, engine
<1>3. ASSUME NEW B \in Batches, ResumeTools(B) PROVE TypeInv'
  <2>1. exec' \in [Missions -> [Slots -> ExecStatus]]
    BY <1>3, SetExecType DEF ResumeTools, ExecStatus
  <2>. QED
    BY <1>3, <2>1 DEF ResumeTools, MemoryOnly, disk, engine
<1>4. ASSUME NEW B \in Batches, ReleaseTools(B) PROVE TypeInv'
  <2>1. exec' \in [Missions -> [Slots -> ExecStatus]]
    BY <1>4, SetExecType DEF ReleaseTools, ExecStatus
  <2>2. mem' \in State /\ mem'.mission = mem.mission
    BY <1>4 DEF ReleaseTools, State
  <2>3. op' \in OpKinds /\ op'.kind \notin {"reserve_model", "reserve_tools"}
    BY <1>4 DEF ReleaseTools, NoOp
  <2>. QED
    BY <1>4, <2>1, <2>2, <2>3 DEF ReleaseTools, Idle, MemoryOnly, disk
<1>5. ASSUME NEW B \in Batches, ToolResultFails(B) PROVE TypeInv'
  <2>1. exec' \in [Missions -> [Slots -> ExecStatus]]
    BY <1>5, SetExecType DEF ToolResultFails, ExecStatus
  <2>2. faults' \in [crashes : Nat, appends : Nat, saves : Nat] /\ UNCHANGED disk
    BY <1>5 DEF ToolResultFails, AppendFails
  <2>. QED
    BY <1>5, <2>1, <2>2 DEF ToolResultFails, disk, engine
<1>6. CASE ReserveToolsSaved
  <2>1. op.batch \in SUBSET Slots
    BY <1>6 DEF ReserveToolsSaved
  <2>. QED
    BY <1>6, <2>1 DEF ReserveToolsSaved, SaveCheckpoint, NoOp, clients
<1>7. CASE ReserveToolsFails
  BY <1>7 DEF ReserveToolsFails, SaveFails, disk, NoOp, clients
<1>8. ASSUME NEW k \in Slots, ToolCallLogged(k) PROVE TypeInv'
  <2>1. exec' \in [Missions -> [Slots -> ExecStatus]]
    BY <1>8, SetExecType DEF ToolCallLogged, ExecStatus
  <2>2. op' \in OpKinds /\ op'.kind \notin {"reserve_model", "reserve_tools"}
    <3>1. CASE op.left = {k}
      BY <1>8, <3>1 DEF ToolCallLogged, NoOp
    <3>2. CASE op.left # {k}
      <4>1. op.kind = "log_calls" /\ op' = [op EXCEPT !.left = op.left \ {k}]
        BY <1>8, <3>2 DEF ToolCallLogged
      <4>2. op \in [kind : {"log_calls"}, batch : Batches, left : SUBSET Slots]
        BY <4>1 DEF OpKinds
      <4>3. op' = [kind |-> "log_calls", batch |-> op.batch, left |-> op.left \ {k}]
        BY <4>1, <4>2
      <4>. QED
        BY <4>2, <4>3
    <3>. QED
      BY <3>1, <3>2
  <2>. QED
    BY <1>8, <2>1, <2>2 DEF ToolCallLogged, NoOp
<1>. QED
  BY <1>1, <1>2, <1>3, <1>4, <1>5, <1>6, <1>7, <1>8 DEF ToolNext

\* A new mission in the engine is typed.
LEMMA NewMissionType ==
    ASSUME BoundAssumption, lastMission \in 0..MaxMissions, lastMission < MaxMissions,
           NEW next, NewMission(next)
    PROVE  /\ mem' \in State /\ mem'.mission # 0
           /\ lastMission' \in 0..MaxMissions
           /\ startedStages' = {} /\ completedStages' = {} /\ op' = next
<1>1. lastMission + 1 \in 0..MaxMissions /\ lastMission + 1 # 0
  BY BoundAssumption
<1>. QED
  BY <1>1, InitialStateType DEF NewMission

\* The steps of stages and outcomes keep the types.
LEMMA TypeMission == TypeInv /\ MissionNext => TypeInv'
<1> SUFFICES ASSUME TypeInv, MissionNext PROVE TypeInv'
  OBVIOUS
<1> USE BoundAssumption, OpFields, OpMade, FaultsType, RecordEventType
<1> USE DEF TypeInv, TypeOK, UndoOK, CkptOK, NextOK
<1>1. ASSUME NEW s \in Stages, RecordStageStarted(s) \/ RecordStageCompleted(s)
      PROVE TypeInv'
  BY <1>1 DEF RecordStageStarted, RecordStageCompleted, Idle, NoOp, MemoryOnly, disk, clients
<1>2. CASE StageStartedLogged
  BY <1>2 DEF StageStartedLogged, NoOp, clients
<1>3. CASE StageCompletedLogged
  BY <1>3 DEF StageCompletedLogged, NoOp, clients
<1>4. ASSUME NEW p \in Outcomes, RecordOutcome(p) PROVE TypeInv'
  <2>1. mem' \in State /\ mem'.mission = mem.mission
    BY <1>4 DEF RecordOutcome, State, Phases
  <2>2. op' \in OpKinds /\ op'.kind \notin {"reserve_model", "reserve_tools"}
    BY <1>4 DEF RecordOutcome
  <2>. QED
    BY <1>4, <2>1, <2>2 DEF RecordOutcome, Idle, MemoryOnly, disk, clients
<1>5. CASE OutcomeLogged
  BY <1>5 DEF OutcomeLogged, NoOp, clients
<1>6. CASE BeginExecution
  <2>1. CASE EndedUnlogged(mem)
    BY <1>6, <2>1 DEF BeginExecution, Idle, NoOp, MemoryOnly, disk, clients
  <2>2. CASE ~EndedUnlogged(mem)
    <3>1. NewMission([kind |-> "save", then |-> "log_start"]) /\ lastMission < MaxMissions
      BY <1>6, <2>2 DEF BeginExecution
    <3>2. /\ mem' \in State /\ mem'.mission # 0 /\ lastMission' \in 0..MaxMissions
          /\ startedStages' = {} /\ completedStages' = {}
          /\ op' = [kind |-> "save", then |-> "log_start"]
      BY <3>1, NewMissionType
    <3>. QED
      BY <1>6, <3>2 DEF BeginExecution, Idle, MemoryOnly, disk, clients
  <2>. QED
    BY <2>1, <2>2
<1>7. CASE BeginExecutionLogged
  <2>0. lastMission < MaxMissions
    BY <1>7 DEF BeginExecutionLogged
  <2>1. NewMission([kind |-> "save", then |-> "log_start"])
    BY <1>7 DEF BeginExecutionLogged
  <2>2. /\ mem' \in State /\ mem'.mission # 0 /\ lastMission' \in 0..MaxMissions
        /\ startedStages' = {} /\ completedStages' = {}
        /\ op' = [kind |-> "save", then |-> "log_start"]
    BY <2>0, <2>1, NewMissionType
  <2>. QED
    BY <1>7, <2>2 DEF BeginExecutionLogged, NoOp, clients
<1>8. CASE MissionStartedLogged
  BY <1>8 DEF MissionStartedLogged, NoOp, clients
<1>9. CASE Saved
  BY <1>9 DEF Saved, SaveCheckpoint, NoOp, clients
<1>10. CASE SavedFails
  BY <1>10 DEF SavedFails, SaveFails, disk, NoOp, clients
<1>11. CASE LastAppendFails
  BY <1>11 DEF LastAppendFails, AppendFails, disk, NoOp, clients
<1>. QED
  BY <1>1, <1>2, <1>3, <1>4, <1>5, <1>6, <1>7, <1>8, <1>9, <1>10, <1>11
     DEF MissionNext, RecordMissionCompleted, RecordMissionFailed, Outcomes, TypeInv, TypeOK

\* The death of the process, or the refusal to start, keeps the types.
LEMMA TypeHalt ==
    ASSUME TypeInv, Halt, UNCHANGED disk,
           faults' \in [crashes : Nat, appends : Nat, saves : Nat]
    PROVE  TypeInv'
<1>1. model' \in [Invocations -> ModelStatus]
  BY DEF TypeInv, TypeOK, Halt, ModelStatus
<1>2. exec' \in [Missions -> [Slots -> ExecStatus]]
  BY DEF TypeInv, TypeOK, Halt, ExecStatus
<1>. QED
  BY <1>1, <1>2, NoStateType, OpMade
     DEF TypeInv, TypeOK, UndoOK, CkptOK, NextOK, Halt, disk, NoOp

\* The steps of initialize, and a crash, keep the types.
LEMMA TypeStart == TypeInv /\ StartNext => TypeInv'
<1> SUFFICES ASSUME TypeInv, StartNext PROVE TypeInv'
  OBVIOUS
<1> USE BoundAssumption, OpFields, OpMade, FaultsType, RecordEventType
<1> USE DEF TypeInv, TypeOK, UndoOK, CkptOK, NextOK
<1>1. CASE StartFresh
  <2>1. NewMission([kind |-> "init_start"]) /\ lastMission < MaxMissions
    BY <1>1 DEF StartFresh
  <2>2. /\ mem' \in State /\ mem'.mission # 0 /\ lastMission' \in 0..MaxMissions
        /\ startedStages' = {} /\ completedStages' = {}
        /\ op' = [kind |-> "init_start"]
    BY <2>1, NewMissionType
  <2>. QED
    BY <1>1, <2>2 DEF StartFresh, MemoryOnly, disk, clients
<1>2. CASE StartFreshLogged
  BY <1>2 DEF StartFreshLogged, NoOp, clients
<1>3. CASE Restore
  BY <1>3 DEF Restore, MemoryOnly, disk, clients
<1>4. ASSUME NEW i \in Invocations, RestoreUsage(i) PROVE TypeInv'
  <2>1. charge[i] \in Nat /\ mem.tokensUsed \in Nat /\ mem.tokensUsed + charge[i] \in Nat
    BY DEF State
  <2>2. mem' \in State /\ mem'.mission = mem.mission
    BY <1>4, <2>1 DEF RestoreUsage, State
  <2>3. op' = [kind |-> "restore_usage", changed |-> TRUE]
    <3>1. op \in [kind : {"restore_usage"}, changed : BOOLEAN]
      BY <1>4 DEF RestoreUsage, OpKinds
    <3>. QED
      BY <1>4, <3>1 DEF RestoreUsage
  <2>. QED
    BY <1>4, <2>2, <2>3 DEF RestoreUsage, NoOp, MemoryOnly, disk, clients
<1>5. CASE RestoreOrphans
  <2>1. mem' \in State /\ mem'.mission = mem.mission
    BY <1>5 DEF RestoreOrphans, State
  <2>2. op' \in OpKinds
        /\ op'.kind \in {"init_save", "restore_tools"}
    BY <1>5 DEF RestoreOrphans
  <2>. QED
    BY <1>5, <2>1, <2>2 DEF RestoreOrphans, NoOp, MemoryOnly, disk, clients
<1>6. CASE RestoreTools
  <2> DEFINE released == {k \in mem.reservedKeys : ~Logged(ToolCall(mem.mission, k))}
             used == mem.toolCallsUsed - Cardinality(released)
  <2>1. released \in SUBSET Slots
    BY DEF State
  <2>2. (IF used < 0 THEN 0 ELSE used) \in Nat
    <3>1. IsFiniteSet(released)
      BY <2>1, FiniteAssumption, FS_Subset
    <3>2. Cardinality(released) \in Nat
      BY <3>1, FS_CardinalityType
    <3>. QED
      BY <3>2 DEF State
  <2> DEFINE left == IF used < 0 THEN 0 ELSE used
  <2>3. mem' \in State /\ mem'.mission = mem.mission
    <3>1. \/ mem' = mem
          \/ mem' = [mem EXCEPT !.reservedKeys = @ \ released, !.toolCallsUsed = left]
      BY <1>6 DEF RestoreTools
    <3>2. left \in Nat
      BY <2>2
    <3>3. mem \in State
      OBVIOUS
    <3> HIDE DEF left, released
    <3>4. /\ [mem EXCEPT !.reservedKeys = @ \ released, !.toolCallsUsed = left] \in State
          /\ [mem EXCEPT !.reservedKeys = @ \ released, !.toolCallsUsed = left].mission
               = mem.mission
      BY ONLY <3>2, <3>3 DEF State
    <3>. QED
      BY ONLY <3>1, <3>3, <3>4
  <2>4. op' \in OpKinds
        /\ op'.kind \in {"init_save", "restore_outcome"}
    BY <1>6 DEF RestoreTools
  <2>. QED
    BY <1>6, <2>3, <2>4 DEF RestoreTools, NoOp, MemoryOnly, disk, clients
<1>7. CASE InitSaved
  BY <1>7 DEF InitSaved, SaveCheckpoint, NoOp, clients
<1>8. CASE RestoreOutcome
  <2>1. log' \in [Events -> Nat] /\ ckpt' = ckpt /\ faults' = faults
    BY <1>8 DEF RestoreOutcome, MemoryOnly, disk
  <2>. QED
    BY <1>8, <2>1 DEF RestoreOutcome, NoOp, clients
<1>9. CASE RestoreStages
  BY <1>9 DEF RestoreStages, NoOp, MemoryOnly, disk, clients
<1>10. CASE StartFails
  <2>1. faults' \in [crashes : Nat, appends : Nat, saves : Nat] /\ UNCHANGED disk
    BY <1>10 DEF StartFails, SaveFails, AppendFails
  <2>. QED
    BY <1>10, <2>1, TypeHalt DEF StartFails
<1>11. CASE Crash
  BY <1>11, TypeHalt DEF Crash
<1>. QED
  BY <1>1, <1>2, <1>3, <1>4, <1>5, <1>6, <1>7, <1>8, <1>9, <1>10, <1>11 DEF StartNext

\* Every step keeps the typing invariant.
LEMMA TypeStep == TypeInv /\ [Next]_vars => TypeInv'
<1>1. TypeInv /\ UNCHANGED vars => TypeInv'
  BY DEF vars, engine, disk, clients, TypeInv, TypeOK, UndoOK, CkptOK, NextOK
<1>. QED
  BY <1>1, TypeModel, TypeTools, TypeMission, TypeStart DEF Next

\* The state is always typed.
THEOREM TypeCorrect == Spec => []TypeOK
<1>1. Spec => []TypeInv
  BY TypeInit, TypeStep, PTL DEF Spec
<1>2. TypeInv => TypeOK
  BY DEF TypeInv
<1>. QED
  BY <1>1, <1>2, PTL

-----------------------------------------------------------------------------
(***************************************************************************)
(* The token budget.  A reservation is granted out of what is available    *)
(* and replaced by a charge that is no larger, in memory, in the           *)
(* checkpoint a restart goes back to, and in the state a failed save       *)
(* goes back to.                                                           *)
(***************************************************************************)
ChargesFit == \A i \in Invocations : charge[i] <= MaxTokensPerInvocation

BudgetInv ==
    /\ WithinBudget(mem) /\ WithinBudget(ckpt)
    /\ op.kind \in {"reserve_model", "reserve_tools"} => WithinBudget(op.undo)
    /\ ChargesFit

\* An invocation is charged once, when its answer comes.
Uncharged ==
    /\ \A i \in Invocations : model[i] \in {"idle", "reserving", "calling"} => charge[i] = 0
    /\ op.kind = "reserve_model" => model[op.id] = "reserving"

\* A mission starts within its budget.
LEMMA InitialWithinBudget ==
    ASSUME NEW m, BudgetAssumption PROVE WithinBudget(InitialState(m))
<1>1. Cardinality({}) = 0
  BY FS_EmptySet
<1>. QED
  BY <1>1 DEF WithinBudget, Reserved, InitialState, BudgetAssumption

\* A reservation that fits in what is available keeps the budget.
LEMMA ReserveWithinBudget ==
    ASSUME NEW s \in State, NEW t \in State, NEW i \in Invocations,
           t.reservations = s.reservations \cup {i}, t.tokensUsed = s.tokensUsed,
           Available(s) >= MaxTokensPerInvocation, WithinBudget(s)
    PROVE  WithinBudget(t)
<1>1. IsFiniteSet(s.reservations)
  BY FiniteAssumption, FS_Subset DEF State
<1>2. /\ Cardinality(s.reservations) \in Nat
      /\ \/ t.reservations = s.reservations
         \/ Cardinality(t.reservations) = Cardinality(s.reservations) + 1
  BY <1>1, FS_AddElement, FS_CardinalityType
<1>3. \A n \in Nat : MaxTokensPerInvocation * (n + 1)
                        = MaxTokensPerInvocation * n + MaxTokensPerInvocation
  BY BudgetAssumption
<1>4. Reserved(s) \in Nat /\ s.tokensUsed \in Nat
  BY <1>2, BudgetAssumption DEF Reserved, State
<1>5. Reserved(t) = Reserved(s) \/ Reserved(t) = Reserved(s) + MaxTokensPerInvocation
  BY <1>2, <1>3 DEF Reserved
<1>. QED
  BY <1>4, <1>5, BudgetAssumption DEF WithinBudget, Available

\* A charge that fits in its reservation keeps the budget.
LEMMA ChargeWithinBudget ==
    ASSUME NEW s \in State, NEW t \in State, NEW i \in s.reservations, NEW c \in Nat,
           t.reservations = s.reservations \ {i}, t.tokensUsed = s.tokensUsed + c,
           c <= MaxTokensPerInvocation, WithinBudget(s)
    PROVE  WithinBudget(t)
<1>1. IsFiniteSet(s.reservations)
  BY FiniteAssumption, FS_Subset DEF State
<1>2. /\ Cardinality(t.reservations) \in Nat
      /\ Cardinality(s.reservations) = Cardinality(t.reservations) + 1
  <2>1. /\ IsFiniteSet(t.reservations)
        /\ Cardinality(t.reservations) = Cardinality(s.reservations) - 1
    BY <1>1, FS_RemoveElement
  <2>. QED
    BY <1>1, <2>1, FS_CardinalityType
<1>3. \A n \in Nat : MaxTokensPerInvocation * (n + 1)
                        = MaxTokensPerInvocation * n + MaxTokensPerInvocation
  BY BudgetAssumption
<1>4. Reserved(t) \in Nat /\ s.tokensUsed \in Nat
  BY <1>2, BudgetAssumption DEF Reserved, State
<1>5. Reserved(s) = Reserved(t) + MaxTokensPerInvocation
  BY <1>2, <1>3 DEF Reserved
<1>. QED
  BY <1>4, <1>5, BudgetAssumption DEF WithinBudget

\* Releasing every reservation keeps the budget.
LEMMA ReleaseWithinBudget ==
    ASSUME NEW s \in State, NEW t \in State,
           t.reservations = {}, t.tokensUsed = s.tokensUsed, WithinBudget(s)
    PROVE  WithinBudget(t)
<1>1. Reserved(t) = 0
  BY FS_EmptySet, BudgetAssumption DEF Reserved
<1>2. Reserved(s) \in Nat
  <2>1. Cardinality(s.reservations) \in Nat
    BY FiniteAssumption, FS_Subset, FS_CardinalityType DEF State
  <2>. QED
    BY <2>1, BudgetAssumption DEF Reserved
<1>. QED
  BY <1>1, <1>2, BudgetAssumption DEF WithinBudget, State

\* The budget depends on the tokens used and the reservations only.
LEMMA SameBudget ==
    ASSUME NEW s, NEW t, t.reservations = s.reservations, t.tokensUsed = s.tokensUsed,
           WithinBudget(s)
    PROVE  WithinBudget(t)
BY DEF WithinBudget, Reserved

\* Initially nothing is spent.
LEMMA BudgetInit == Init => BudgetInv
BY InitialWithinBudget, BudgetAssumption
   DEF Init, BudgetInv, ChargesFit, NoState, NoOp

\* The steps of model invocations keep the budget.
LEMMA BudgetModel ==
    ASSUME ChargesFit', TypeInv, TypeInv', BudgetInv, ModelNext
    PROVE  BudgetInv'
<1> USE DEF BudgetInv, ChargesFit
<1>0. mem \in State /\ mem' \in State /\ charge \in [Invocations -> Nat]
  BY DEF TypeInv, TypeOK
<1>1. ASSUME NEW i \in Invocations, ReserveModel(i) PROVE BudgetInv'
  <2>1. /\ mem'.reservations = mem.reservations \cup {i}
        /\ mem'.tokensUsed = mem.tokensUsed
        /\ Available(mem) >= MaxTokensPerInvocation
    BY <1>0, <1>1 DEF ReserveModel, State
  <2>2. WithinBudget(mem')
    BY <1>0, <2>1, ReserveWithinBudget
  <2>. QED
    BY <1>1, <2>2 DEF ReserveModel, MemoryOnly, disk
<1>2. ASSUME NEW i \in Invocations, NEW c \in Charges \cup {MaxTokensPerInvocation},
             ModelAnswers(i, c)
      PROVE BudgetInv'
  BY <1>2 DEF ModelAnswers, MemoryOnly, disk, engine
<1>3. ASSUME NEW i \in Invocations, ChargeModel(i) PROVE BudgetInv'
  <2>1. /\ i \in mem.reservations
        /\ mem'.reservations = mem.reservations \ {i}
        /\ mem'.tokensUsed = mem.tokensUsed + charge[i]
    BY ONLY <1>0, <1>3 DEF ChargeModel, State
  <2>2. WithinBudget(mem')
    BY <1>0, <2>1, ChargeWithinBudget
  <2>. QED
    BY <1>3, <2>2 DEF ChargeModel, MemoryOnly, disk
<1>4. ASSUME NEW i \in Invocations, ChargeModelUnknown(i) PROVE BudgetInv'
  BY <1>4 DEF ChargeModelUnknown, MemoryOnly, disk, engine
<1>5. CASE ReserveModelSaved
  BY <1>5 DEF ReserveModelSaved, SaveCheckpoint, NoOp
<1>6. CASE ReserveModelFails
  BY <1>6 DEF ReserveModelFails, SaveFails, disk, NoOp
<1>7. CASE UsageLogged
  BY <1>7 DEF UsageLogged, RecordEvent, clients
<1>. QED
  BY <1>1, <1>2, <1>3, <1>4, <1>5, <1>6, <1>7 DEF ModelNext

\* The steps of tool calls keep the budget of tokens.
LEMMA BudgetTools ==
    ASSUME TypeInv, TypeInv', BudgetInv, ToolNext
    PROVE  BudgetInv'
<1> USE DEF BudgetInv, ChargesFit
<1>0. mem \in State
  BY DEF TypeInv, TypeOK
<1>1. ASSUME NEW B \in Batches, ReserveTools(B) PROVE BudgetInv'
  <2>1. mem'.reservations = mem.reservations /\ mem'.tokensUsed = mem.tokensUsed
    BY ONLY <1>0, <1>1 DEF ReserveTools, State
  <2>2. WithinBudget(mem')
    BY <2>1, SameBudget
  <2>. QED
    BY <1>1, <2>2 DEF ReserveTools, MemoryOnly, disk, clients
<1>2. ASSUME NEW B \in Batches, ToolsPause(B) \/ ResumeTools(B) PROVE BudgetInv'
  BY <1>2 DEF ToolsPause, ResumeTools, MemoryOnly, disk, engine
<1>3. ASSUME NEW B \in Batches, ReleaseTools(B) PROVE BudgetInv'
  <2>1. mem'.reservations = mem.reservations /\ mem'.tokensUsed = mem.tokensUsed
    BY ONLY <1>0, <1>3 DEF ReleaseTools, State
  <2>2. WithinBudget(mem')
    BY <2>1, SameBudget
  <2>. QED
    BY <1>3, <2>2 DEF ReleaseTools, MemoryOnly, disk, NoOp
<1>4. ASSUME NEW B \in Batches, ToolResultFails(B) PROVE BudgetInv'
  BY <1>4 DEF ToolResultFails, AppendFails, disk, engine
<1>5. CASE ReserveToolsSaved
  BY <1>5 DEF ReserveToolsSaved, SaveCheckpoint, clients
<1>6. CASE ReserveToolsFails
  BY <1>6 DEF ReserveToolsFails, SaveFails, disk, NoOp, clients
<1>7. ASSUME NEW k \in Slots, ToolCallLogged(k) PROVE BudgetInv'
  <2>1. op'.kind \notin {"reserve_model", "reserve_tools"}
    BY <1>7 DEF ToolCallLogged, NoOp, TypeInv, TypeOK, OpKinds
  <2>. QED
    BY <1>7, <2>1 DEF ToolCallLogged, RecordEvent
<1>. QED
  BY <1>1, <1>2, <1>3, <1>4, <1>5, <1>6, <1>7 DEF ToolNext

\* The steps of stages and outcomes keep the budget.
LEMMA BudgetMission ==
    ASSUME TypeInv, TypeInv', BudgetInv, MissionNext
    PROVE  BudgetInv'
<1> USE DEF BudgetInv, ChargesFit
<1>0. mem \in State
  BY DEF TypeInv, TypeOK
<1>1. ASSUME NEW s \in Stages, RecordStageStarted(s) \/ RecordStageCompleted(s)
      PROVE BudgetInv'
  BY <1>1 DEF RecordStageStarted, RecordStageCompleted, MemoryOnly, disk, clients
<1>2. CASE StageStartedLogged \/ StageCompletedLogged \/ OutcomeLogged \/ MissionStartedLogged
  BY <1>2 DEF StageStartedLogged, StageCompletedLogged, OutcomeLogged, MissionStartedLogged,
              RecordEvent, NoOp, clients
<1>3. ASSUME NEW p, RecordOutcome(p) PROVE BudgetInv'
  <2>1. mem'.reservations = mem.reservations /\ mem'.tokensUsed = mem.tokensUsed
    BY ONLY <1>0, <1>3 DEF RecordOutcome, State
  <2>2. WithinBudget(mem')
    BY <2>1, SameBudget
  <2>. QED
    BY <1>3, <2>2 DEF RecordOutcome, MemoryOnly, disk, clients
<1>4. CASE BeginExecution
  BY <1>4, InitialWithinBudget, BudgetAssumption
     DEF BeginExecution, NewMission, MemoryOnly, disk, clients
<1>5. CASE BeginExecutionLogged
  BY <1>5, InitialWithinBudget, BudgetAssumption
     DEF BeginExecutionLogged, NewMission, RecordEvent, clients
<1>6. CASE Saved
  <2>1. op'.kind \notin {"reserve_model", "reserve_tools"}
    BY <1>6, OpFields DEF Saved, NoOp, TypeInv, TypeOK
  <2>. QED
    BY <1>6, <2>1 DEF Saved, SaveCheckpoint, clients
<1>7. CASE SavedFails \/ LastAppendFails
  BY <1>7 DEF SavedFails, LastAppendFails, SaveFails, AppendFails, disk, NoOp, clients
<1>. QED
  BY <1>1, <1>2, <1>3, <1>4, <1>5, <1>6, <1>7
     DEF MissionNext, RecordMissionCompleted, RecordMissionFailed

\* The steps of initialize, and a crash, keep the budget.
LEMMA BudgetStart ==
    ASSUME TypeInv, TypeInv', BudgetInv, StartNext
    PROVE  BudgetInv'
<1> USE DEF BudgetInv, ChargesFit
<1>0. mem \in State /\ mem' \in State /\ charge \in [Invocations -> Nat]
  BY DEF TypeInv, TypeOK
<1>1. CASE StartFresh
  BY <1>1, InitialWithinBudget, BudgetAssumption
     DEF StartFresh, NewMission, MemoryOnly, disk, clients
<1>2. CASE StartFreshLogged
  BY <1>2 DEF StartFreshLogged, RecordEvent, NoOp, clients
<1>3. CASE Restore
  BY <1>3 DEF Restore, MemoryOnly, disk, clients
<1>4. ASSUME NEW i \in Invocations, RestoreUsage(i) PROVE BudgetInv'
  <2>1. /\ i \in mem.reservations
        /\ mem'.reservations = mem.reservations \ {i}
        /\ mem'.tokensUsed = mem.tokensUsed + charge[i]
    BY ONLY <1>0, <1>4 DEF RestoreUsage, State
  <2>2. WithinBudget(mem')
    BY <1>0, <2>1, ChargeWithinBudget
  <2>3. op'.kind = "restore_usage"
    BY <1>4 DEF RestoreUsage, TypeInv, TypeOK, OpKinds
  <2>. QED
    BY <1>4, <2>2, <2>3 DEF RestoreUsage, MemoryOnly, disk, clients
<1>5. CASE RestoreOrphans
  <2>1. mem'.reservations = {} /\ mem'.tokensUsed = mem.tokensUsed
    BY ONLY <1>0, <1>5 DEF RestoreOrphans, State
  <2>2. WithinBudget(mem')
    BY <1>0, <2>1, ReleaseWithinBudget
  <2>. QED
    BY <1>5, <2>2 DEF RestoreOrphans, MemoryOnly, disk, clients
<1>6. CASE RestoreTools
  <2>1. mem'.reservations = mem.reservations /\ mem'.tokensUsed = mem.tokensUsed
    BY ONLY <1>0, <1>6 DEF RestoreTools, State
  <2>2. WithinBudget(mem')
    BY <2>1, SameBudget
  <2>3. op'.kind \notin {"reserve_model", "reserve_tools"}
    BY <1>6 DEF RestoreTools
  <2>. QED
    BY <1>6, <2>2, <2>3 DEF RestoreTools, MemoryOnly, disk, clients
<1>7. CASE InitSaved
  BY <1>7, OpFields DEF InitSaved, SaveCheckpoint, clients, TypeInv, TypeOK
<1>8. CASE RestoreOutcome
  BY <1>8 DEF RestoreOutcome, RecordEvent, MemoryOnly, disk, clients
<1>9. CASE RestoreStages
  BY <1>9 DEF RestoreStages, NoOp, MemoryOnly, disk, clients
<1>10. CASE StartFails \/ Crash
  <2>1. Halt /\ UNCHANGED disk
    BY <1>10 DEF StartFails, Crash, SaveFails, AppendFails
  <2>. QED
    BY <2>1, InitialWithinBudget, BudgetAssumption DEF Halt, NoState, NoOp, disk
<1>. QED
  BY <1>1, <1>2, <1>3, <1>4, <1>5, <1>6, <1>7, <1>8, <1>9, <1>10 DEF StartNext

\* Of the steps that are not about model invocations, none charges, and only those that
\* end the process move an invocation.
LEMMA OthersCharge ==
    ASSUME TypeInv, ToolNext \/ MissionNext \/ StartNext
    PROVE  /\ charge' = charge
           /\ \/ model' = model /\ (op' = op \/ op'.kind # "reserve_model")
              \/ Halt
<1> DEFINE Kept == model' = model /\ charge' = charge
           Other == op'.kind # "reserve_model"
<1>1. ASSUME NEW B \in Batches,
             \/ ReserveTools(B) \/ ToolsPause(B) \/ ResumeTools(B)
             \/ ReleaseTools(B) \/ ToolResultFails(B)
      PROVE  Kept /\ (op' = op \/ Other)
  BY <1>1 DEF ReserveTools, ToolsPause, ResumeTools, ReleaseTools, ToolResultFails, NoOp,
              engine, clients
<1>2. CASE ReserveToolsSaved \/ ReserveToolsFails
  BY <1>2 DEF ReserveToolsSaved, ReserveToolsFails, NoOp, clients
<1>3. ASSUME NEW k \in Slots, ToolCallLogged(k) PROVE Kept /\ Other
  <2>1. op.kind = "log_calls" /\ op \in OpKinds
    BY <1>3 DEF ToolCallLogged, TypeInv, TypeOK
  <2>2. [op EXCEPT !.left = @ \ {k}].kind = "log_calls"
    BY <2>1 DEF OpKinds
  <2>3. op' = NoOp \/ op' = [op EXCEPT !.left = @ \ {k}]
    BY <1>3 DEF ToolCallLogged
  <2>4. Kept
    BY <1>3 DEF ToolCallLogged
  <2>5. CASE op' = NoOp
    BY <2>4, <2>5 DEF NoOp
  <2>6. CASE op' = [op EXCEPT !.left = @ \ {k}]
    BY <2>2, <2>4, <2>6
  <2>. QED
    BY <2>3, <2>5, <2>6
<1>4. CASE ToolNext
  BY <1>1, <1>2, <1>3, <1>4 DEF ToolNext
<1>5. ASSUME NEW s \in Stages, RecordStageStarted(s) \/ RecordStageCompleted(s)
      PROVE  Kept /\ Other
  BY <1>5 DEF RecordStageStarted, RecordStageCompleted, clients
<1>6. CASE StageStartedLogged \/ StageCompletedLogged \/ OutcomeLogged \/ MissionStartedLogged
  BY <1>6 DEF StageStartedLogged, StageCompletedLogged, OutcomeLogged, MissionStartedLogged,
              NoOp, clients
<1>7. ASSUME NEW p, RecordOutcome(p) PROVE Kept /\ Other
  BY <1>7 DEF RecordOutcome, clients
<1>8. CASE BeginExecution \/ BeginExecutionLogged
  BY <1>8 DEF BeginExecution, BeginExecutionLogged, NewMission, clients
<1>9. CASE Saved \/ SavedFails \/ LastAppendFails
  BY <1>9, OpFields DEF Saved, SavedFails, LastAppendFails, NoOp, clients, TypeInv, TypeOK
<1>10. CASE MissionNext
  BY <1>5, <1>6, <1>7, <1>8, <1>9, <1>10
     DEF MissionNext, RecordMissionCompleted, RecordMissionFailed
<1>11. CASE StartFresh \/ StartFreshLogged \/ Restore
  BY <1>11 DEF StartFresh, NewMission, StartFreshLogged, Restore, NoOp, clients
<1>12. ASSUME NEW i \in Invocations, RestoreUsage(i) PROVE Kept /\ Other
  <2>1. op.kind = "restore_usage" /\ op \in OpKinds
    BY <1>12 DEF RestoreUsage, TypeInv, TypeOK
  <2>2. [op EXCEPT !.changed = TRUE].kind = "restore_usage"
    BY <2>1 DEF OpKinds
  <2>. QED
    BY <1>12, <2>2 DEF RestoreUsage, clients
<1>13. CASE RestoreOrphans \/ RestoreTools \/ RestoreOutcome \/ RestoreStages
  BY <1>13 DEF RestoreOrphans, RestoreTools, RestoreOutcome, RestoreStages, NoOp, clients
<1>14. CASE InitSaved
  BY <1>14, OpFields DEF InitSaved, clients, TypeInv, TypeOK
<1>15. CASE StartFails \/ Crash
  BY <1>15 DEF StartFails, Crash, Halt
<1>16. CASE StartNext
  BY <1>11, <1>12, <1>13, <1>14, <1>15, <1>16 DEF StartNext
<1>. QED
  BY <1>4, <1>10, <1>16

\* No charge is replaced by another one.
LEMMA ChargedOnce ==
    ASSUME TypeInv, Uncharged, [Next]_vars
    PROVE  /\ Uncharged'
           /\ \A i \in Invocations : charge'[i] = charge[i] \/ charge[i] = 0
<1> USE DEF Uncharged
<1>0. /\ model \in [Invocations -> ModelStatus] /\ charge \in [Invocations -> Nat]
      /\ op.kind = "reserve_model" => op.id \in Invocations
  BY OpFields DEF TypeInv, TypeOK
<1>1. CASE UNCHANGED vars
  BY <1>1 DEF vars, engine, clients
<1>2. ASSUME NEW i \in Invocations, ReserveModel(i) PROVE Uncharged' /\ charge' = charge
  BY <1>0, <1>2 DEF ReserveModel, ModelStatus
<1>3. ASSUME NEW i \in Invocations, NEW c, ModelAnswers(i, c)
      PROVE  /\ Uncharged'
             /\ \A j \in Invocations : charge'[j] = charge[j] \/ charge[j] = 0
  BY <1>0, <1>3 DEF ModelAnswers, engine
<1>4. ASSUME NEW i \in Invocations, ChargeModel(i) \/ ChargeModelUnknown(i)
      PROVE  Uncharged' /\ charge' = charge
  BY <1>0, <1>4 DEF ChargeModel, ChargeModelUnknown, Idle, NoOp, engine
<1>5. CASE ReserveModelSaved
  BY <1>0, <1>5 DEF ReserveModelSaved, NoOp
<1>6. CASE ReserveModelFails
  BY <1>0, <1>6 DEF ReserveModelFails, NoOp
<1>7. CASE UsageLogged
  BY <1>0, <1>7 DEF UsageLogged, clients
<1>8. CASE Halt /\ charge' = charge
  BY <1>0, <1>8 DEF Halt, NoOp
<1>9. CASE ToolNext \/ MissionNext \/ StartNext
  BY <1>0, <1>8, <1>9, OthersCharge
<1>. QED
  BY <1>1, <1>2, <1>3, <1>4, <1>5, <1>6, <1>7, <1>9 DEF Next, ModelNext

\* As long as no answer is charged more than its reservation, the tokens spent and
\* those reserved stay within the budget of the mission, through every crash and failure.
THEOREM BudgetHolds == Spec => []BudgetNotOversubscribed
<1> DEFINE Inv == TypeInv /\ Uncharged /\ (ChargesFit => BudgetInv)
<1>1. Init => Inv
  BY TypeInit, BudgetInit DEF Init, Uncharged, NoOp
<1>2. Inv /\ [Next]_vars => Inv'
  <2> SUFFICES ASSUME Inv, [Next]_vars PROVE Inv'
    OBVIOUS
  <2>1. /\ TypeInv' /\ Uncharged'
        /\ \A i \in Invocations : charge'[i] = charge[i] \/ charge[i] = 0
    BY TypeStep, ChargedOnce
  <2>2. ChargesFit' => ChargesFit
    BY <2>1, BudgetAssumption DEF ChargesFit, TypeInv, TypeOK
  <2>3. ASSUME ChargesFit', UNCHANGED vars PROVE BudgetInv'
    BY <2>2, <2>3 DEF BudgetInv, ChargesFit, vars, engine, disk, clients
  <2>4. ASSUME ChargesFit', Next PROVE BudgetInv'
    BY <2>1, <2>2, <2>4, BudgetModel, BudgetTools, BudgetMission, BudgetStart DEF Next
  <2>. QED
    BY <2>1, <2>3, <2>4
<1>3. Inv => BudgetNotOversubscribed
  BY DEF BudgetInv, ChargesFit, BudgetNotOversubscribed
<1>. QED
  BY <1>1, <1>2, <1>3, PTL DEF Spec

-----------------------------------------------------------------------------
(***************************************************************************)
(* No replay.  A call that runs, or was interrupted while it ran, is       *)
(* reserved wherever the engine may continue from (memory, checkpoint, the *)
(* state a failed save goes back to), and its tool_call event keeps a      *)
(* restart from releasing it.  So no later batch can contain it.           *)
(***************************************************************************)
Uncertain == {"running", "interrupted"}

\* The state s holds the reservation of every uncertain call of its mission.
HoldsUncertain(s) ==
    s.mission \in Missions =>
        \A k \in Slots : exec[s.mission][k] \in Uncertain => k \in s.reservedKeys

ReplayInv ==
    /\ mem.mission <= lastMission /\ ckpt.mission <= lastMission
    /\ \A m \in Missions, k \in Slots : m > lastMission => exec[m][k] = "none"
    /\ HoldsUncertain(mem) /\ HoldsUncertain(ckpt)
    /\ op.kind \in {"reserve_model", "reserve_tools"} => HoldsUncertain(op.undo)
    /\ \A m \in Missions, k \in Slots :
          exec[m][k] \in Uncertain => Logged(ToolCall(m, k))
    /\ op.kind \in {"reserve_tools", "log_calls"} =>
          /\ op.batch \subseteq mem.reservedKeys
          /\ \A k \in op.batch : Exec(k) # "interrupted"
    /\ op.kind = "log_calls" =>
          /\ ckpt = mem
          /\ op.left \subseteq op.batch
          /\ \A k \in op.batch \ op.left : Logged(ToolCall(mem.mission, k))

\* A state with the reservations of another of the same mission holds what that
\* one holds.
LEMMA HoldsMore ==
    ASSUME NEW s, NEW t, t.mission = s.mission, s.reservedKeys \subseteq t.reservedKeys,
           HoldsUncertain(s)
    PROVE  HoldsUncertain(t)
BY DEF HoldsUncertain

\* Appending an event loses none.
LEMMA RecordKeepsLogged ==
    ASSUME log \in [Events -> Nat], NEW e, RecordEvent(e)
    PROVE  \A m \in Missions, k \in Slots :
               /\ Logged(ToolCall(m, k)) => Logged(ToolCall(m, k))'
               /\ e = ToolCall(m, k) => Logged(ToolCall(m, k))'
<1> SUFFICES ASSUME NEW m \in Missions, NEW k \in Slots
             PROVE  /\ Logged(ToolCall(m, k)) => Logged(ToolCall(m, k))'
                    /\ e = ToolCall(m, k) => Logged(ToolCall(m, k))'
  OBVIOUS
<1> DEFINE x == ToolCall(m, k)
<1>1. x \in Events
  BY DEF ToolCall, Events
<1>2. log' = [log EXCEPT ![e] = @ + 1] /\ log[x] \in Nat
  BY <1>1 DEF RecordEvent
<1> HIDE DEF x
<1>3. (log[x] > 0 => log'[x] > 0) /\ (e = x => log'[x] > 0)
  BY <1>1, <1>2
<1>. QED
  BY <1>3 DEF x, Logged

\* Initially nothing has run.
LEMMA ReplayInit == Init => ReplayInv
<1>1. NoState.mission = 0 /\ 0 \notin Missions
  BY BoundAssumption DEF NoState, InitialState, Missions
<1>. QED
  BY <1>1 DEF Init, ReplayInv, HoldsUncertain, Uncertain, NoOp

\* The steps of model invocations move no call.
LEMMA ReplayModel ==
    ASSUME TypeInv, ReplayInv, ModelNext
    PROVE  ReplayInv'
<1> USE DEF ReplayInv, HoldsUncertain, Exec, Logged
<1>0. mem \in State
  BY DEF TypeInv, TypeOK
<1>1. ASSUME NEW i \in Invocations, ReserveModel(i) PROVE ReplayInv'
  <2>1. mem'.mission = mem.mission /\ mem'.reservedKeys = mem.reservedKeys
    BY ONLY <1>0, <1>1 DEF ReserveModel, State
  <2>. QED
    BY <1>1, <2>1 DEF ReserveModel, MemoryOnly, disk
<1>2. ASSUME NEW i \in Invocations, NEW c, ModelAnswers(i, c) PROVE ReplayInv'
  BY <1>2 DEF ModelAnswers, MemoryOnly, disk, engine
<1>3. ASSUME NEW i \in Invocations, ChargeModel(i) PROVE ReplayInv'
  <2>1. mem'.mission = mem.mission /\ mem'.reservedKeys = mem.reservedKeys
    BY ONLY <1>0, <1>3 DEF ChargeModel, State
  <2>. QED
    BY <1>3, <2>1 DEF ChargeModel, MemoryOnly, disk
<1>4. ASSUME NEW i \in Invocations, ChargeModelUnknown(i) PROVE ReplayInv'
  BY <1>4 DEF ChargeModelUnknown, MemoryOnly, disk, engine
<1>5. CASE ReserveModelSaved
  BY <1>5 DEF ReserveModelSaved, SaveCheckpoint, NoOp
<1>6. CASE ReserveModelFails
  <2>1. op.undo.mission = mem.mission
    BY <1>6 DEF ReserveModelFails, TypeInv, UndoOK
  <2>. QED
    BY <1>6, <2>1 DEF ReserveModelFails, SaveFails, disk, NoOp
<1>7. CASE UsageLogged
  BY <1>7, RecordKeepsLogged, RecordEventType DEF UsageLogged, clients, TypeInv, TypeOK
<1>. QED
  BY <1>1, <1>2, <1>3, <1>4, <1>5, <1>6, <1>7 DEF ModelNext

\* The steps of tool calls run no call that was interrupted.
LEMMA ReplayTools ==
    ASSUME TypeInv, ReplayInv, ToolNext
    PROVE  ReplayInv'
<1> USE DEF ReplayInv, HoldsUncertain, Exec, Logged
<1>0. /\ mem \in State /\ exec \in [Missions -> [Slots -> ExecStatus]]
      /\ log \in [Events -> Nat] /\ lastMission \in 0..MaxMissions
      /\ alive <=> mem.mission # 0
      /\ ~alive => op = NoOp
  BY DEF TypeInv, TypeOK
<1>a. alive => mem.mission \in Missions
  BY <1>0 DEF State, Missions
\* A batch that is idle in memory can be moved to a status that is certain.
<1>b. ASSUME NEW B \in SUBSET Slots, NEW status \in ExecStatus \ Uncertain,
             SetExec(B, status), alive, op = NoOp, op' = NoOp, UNCHANGED <<mem, disk, lastMission>>
      PROVE  ReplayInv'
  <2>1. \A m \in Missions, k \in Slots :
           exec'[m][k] \in Uncertain => exec'[m][k] = exec[m][k]
    BY <1>0, <1>a, <1>b DEF SetExec
  <2>2. \A m \in Missions, k \in Slots : m > lastMission => exec'[m][k] = exec[m][k]
    BY <1>0, <1>a, <1>b DEF SetExec, Missions, State
  <2>. QED
    BY <1>b, <2>1, <2>2 DEF disk, NoOp
<1>1. ASSUME NEW B \in Batches, ReserveTools(B) PROVE ReplayInv'
  <2>1. mem'.mission = mem.mission /\ mem'.reservedKeys = mem.reservedKeys \cup B
    BY ONLY <1>0, <1>1 DEF ReserveTools, State
  <2>2. \A k \in B : Exec(k) # "interrupted"
    <3>1. \A k \in B : k \in Slots /\ k \notin mem.reservedKeys
      BY <1>1, BatchAssumption DEF ReserveTools
    <3>. QED
      BY <1>1, <1>a, <3>1 DEF ReserveTools, Idle, Uncertain
  <2>3. op' = [kind |-> "reserve_tools", batch |-> B, undo |-> mem]
    BY <1>1 DEF ReserveTools
  <2>. QED
    BY <1>1, <2>1, <2>2, <2>3 DEF ReserveTools, MemoryOnly, disk, clients
<1>2. ASSUME NEW B \in Batches,
             ToolsPause(B) \/ ResumeTools(B) \/ ToolResultFails(B)
      PROVE  ReplayInv'
  <2>1. PICK status \in {"paused", "resumed", "done"} : SetExec(B, status)
    BY <1>2 DEF ToolsPause, ResumeTools, ToolResultFails
  <2>2. status \in ExecStatus \ Uncertain /\ B \in SUBSET Slots
    BY BatchAssumption DEF ExecStatus, Uncertain
  <2>3. alive /\ op = NoOp /\ op' = NoOp /\ UNCHANGED <<mem, disk, lastMission>>
    BY <1>2 DEF ToolsPause, ResumeTools, ToolResultFails, Idle, MemoryOnly, AppendFails,
                disk, engine
  <2>. QED
    BY ONLY <1>b, <2>1, <2>2, <2>3
<1>3. ASSUME NEW B \in Batches, ReleaseTools(B) PROVE ReplayInv'
  <2>1. mem'.mission = mem.mission /\ mem'.reservedKeys = mem.reservedKeys \ B
    BY ONLY <1>0, <1>3 DEF ReleaseTools, State
  <2>2. \A m \in Missions, k \in Slots :
           exec'[m][k] \in Uncertain =>
              exec'[m][k] = exec[m][k] /\ (m = mem.mission => k \notin B)
    BY <1>0, <1>a, <1>3 DEF ReleaseTools, SetExec, Idle, Uncertain
  <2>3. \A m \in Missions, k \in Slots : m > lastMission => exec'[m][k] = exec[m][k]
    BY <1>0, <1>a, <1>3 DEF ReleaseTools, SetExec, Missions, State
  <2>. QED
    BY <1>3, <2>1, <2>2, <2>3 DEF ReleaseTools, MemoryOnly, disk, NoOp
<1>4. CASE ReserveToolsSaved
  BY <1>4 DEF ReserveToolsSaved, SaveCheckpoint, clients
<1>5. CASE ReserveToolsFails
  <2>1. op.undo.mission = mem.mission
    BY <1>5 DEF ReserveToolsFails, TypeInv, UndoOK
  <2>. QED
    BY <1>5, <2>1 DEF ReserveToolsFails, SaveFails, disk, NoOp, clients
<1>6. ASSUME NEW k \in Slots, ToolCallLogged(k) PROVE ReplayInv'
  <2>1. /\ op.kind = "log_calls" /\ k \in op.left /\ op.left \subseteq op.batch
        /\ op.batch \subseteq mem.reservedKeys /\ ckpt = mem /\ alive
    BY <1>0, <1>6 DEF ToolCallLogged, NoOp
  <2>0. UNCHANGED <<alive, mem, ckpt, lastMission>>
    BY <1>6 DEF ToolCallLogged, RecordEvent
  <2>2. \A m \in Missions, j \in Slots :
          /\ Logged(ToolCall(m, j)) => Logged(ToolCall(m, j))'
          /\ ToolCall(mem.mission, k) = ToolCall(m, j) => Logged(ToolCall(m, j))'
    BY <1>0, <1>6, RecordKeepsLogged DEF ToolCallLogged
  <2>3. \A j \in op.batch \ (op.left \ {k}) : Logged(ToolCall(mem.mission, j))'
    <3>1. op.batch \subseteq Slots
      BY <2>1, OpFields, BatchAssumption DEF TypeInv, TypeOK
    <3>. QED
      BY <1>a, <2>1, <2>2, <2>0, <3>1
  <2>5. CASE op.left = {k}
    <3>1. op' = NoOp /\ SetExec(op.batch, "running")
      BY <1>6, <2>5 DEF ToolCallLogged
    <3>2. \A m \in Missions, j \in Slots :
             exec'[m][j] = IF m = mem.mission /\ j \in op.batch THEN "running" ELSE exec[m][j]
      BY <1>0, <1>a, <2>1, <3>1 DEF SetExec
    <3>3. \A m \in Missions, j \in Slots :
             exec'[m][j] \in Uncertain => Logged(ToolCall(m, j))'
      BY <2>2, <2>3, <2>0, <2>5, <3>2
    <3>4. \A m \in Missions, j \in Slots : m > lastMission => exec'[m][j] = "none"
      BY <1>0, <3>2 DEF Missions, State
    <3>5. HoldsUncertain(mem)'
      BY <2>1, <2>0, <3>2
    <3>. QED
      BY <2>1, <2>0, <3>1, <3>3, <3>4, <3>5 DEF NoOp
  <2>6. CASE op.left # {k}
    <3>1. op' = [op EXCEPT !.left = op.left \ {k}] /\ UNCHANGED exec
      BY <1>6, <2>6 DEF ToolCallLogged
    <3>2. op'.kind = "log_calls" /\ op'.batch = op.batch /\ op'.left = op.left \ {k}
      <4>1. op \in [kind : {"log_calls"}, batch : Batches, left : SUBSET Slots]
        BY <2>1 DEF OpKinds, TypeInv, TypeOK
      <4>. QED
        BY <3>1, <4>1
    <3>. QED
      BY <2>1, <2>2, <2>3, <2>0, <3>1, <3>2
  <2>. QED
    BY <2>5, <2>6
<1>. QED
  BY <1>1, <1>2, <1>3, <1>4, <1>5, <1>6 DEF ToolNext

\* A new mission has run nothing.
LEMMA ReplayNewMission ==
    ASSUME TypeInv, ReplayInv, NEW next, NewMission(next), UNCHANGED exec
    PROVE  /\ mem'.mission = lastMission + 1 /\ lastMission' = lastMission + 1 /\ op' = next
           /\ HoldsUncertain(mem)'
           /\ \A m \in Missions, k \in Slots : m > lastMission' => exec'[m][k] = "none"
<1>1. /\ mem' = InitialState(lastMission + 1) /\ lastMission' = lastMission + 1 /\ op' = next
      /\ lastMission \in 0..MaxMissions
  BY DEF NewMission, TypeInv, TypeOK
<1>2. mem'.mission = lastMission + 1
  BY <1>1 DEF InitialState
<1>3. \A m \in Missions, k \in Slots : m > lastMission => exec'[m][k] = "none"
  BY DEF ReplayInv
<1>4. HoldsUncertain(mem)'
  BY <1>1, <1>2, <1>3, BoundAssumption DEF HoldsUncertain, Uncertain, Missions
<1>5. \A m \in Missions : m > lastMission' => m > lastMission
  BY <1>1, BoundAssumption DEF Missions
<1>. QED
  BY <1>1, <1>2, <1>3, <1>4, <1>5

\* The steps of stages and outcomes move no call.
LEMMA ReplayMission ==
    ASSUME TypeInv, ReplayInv, MissionNext
    PROVE  ReplayInv'
<1> USE DEF ReplayInv, HoldsUncertain, Exec
<1>0. /\ mem \in State /\ ckpt \in State /\ op \in OpKinds
      /\ log \in [Events -> Nat] /\ lastMission \in 0..MaxMissions
  BY DEF TypeInv, TypeOK
<1>1. ASSUME NEW s \in Stages, RecordStageStarted(s) \/ RecordStageCompleted(s)
      PROVE ReplayInv'
  BY <1>1 DEF RecordStageStarted, RecordStageCompleted, MemoryOnly, disk, clients, Logged
<1>2. ASSUME NEW e, RecordEvent(e), UNCHANGED <<mem, exec, lastMission>>,
             op'.kind \notin {"reserve_model", "reserve_tools", "log_calls"}
      PROVE  ReplayInv'
  <2>1. UNCHANGED ckpt
    BY <1>2 DEF RecordEvent
  <2>2. \A m \in Missions, k \in Slots : Logged(ToolCall(m, k)) => Logged(ToolCall(m, k))'
    BY <1>0, <1>2, RecordKeepsLogged
  <2>. QED
    BY <1>2, <2>1, <2>2
<1>3. CASE StageStartedLogged \/ StageCompletedLogged \/ OutcomeLogged \/ MissionStartedLogged
  <2>1. PICK e : RecordEvent(e)
    BY <1>3 DEF StageStartedLogged, StageCompletedLogged, OutcomeLogged, MissionStartedLogged
  <2>2. UNCHANGED <<mem, exec, lastMission>>
        /\ op'.kind \notin {"reserve_model", "reserve_tools", "log_calls"}
    BY <1>3 DEF StageStartedLogged, StageCompletedLogged, OutcomeLogged,
                MissionStartedLogged, NoOp, clients
  <2>. QED
    BY <1>2, <2>1, <2>2
<1>4. ASSUME NEW p, RecordOutcome(p) PROVE ReplayInv'
  <2>1. mem'.mission = mem.mission /\ mem'.reservedKeys = mem.reservedKeys
    BY ONLY <1>0, <1>4 DEF RecordOutcome, State
  <2>2. op'.kind \in {"save", "log_outcome"}
    BY <1>4 DEF RecordOutcome
  <2>. QED
    BY <1>4, <2>1, <2>2 DEF RecordOutcome, MemoryOnly, disk, clients, Logged
<1>5. ASSUME NEW next, NewMission(next), UNCHANGED <<exec, ckpt>>,
             \A m \in Missions, k \in Slots : Logged(ToolCall(m, k)) => Logged(ToolCall(m, k))',
             next.kind \notin {"reserve_model", "reserve_tools", "log_calls"}
      PROVE  ReplayInv'
  <2>1. /\ mem'.mission = lastMission + 1 /\ lastMission' = lastMission + 1 /\ op' = next
        /\ HoldsUncertain(mem)'
        /\ \A m \in Missions, k \in Slots : m > lastMission' => exec'[m][k] = "none"
    BY <1>5, ReplayNewMission
  <2>2. ckpt.mission <= lastMission + 1
    BY <1>0 DEF State
  <2>. QED
    BY <1>0, <1>5, <2>1, <2>2
<1>6. CASE BeginExecution
  <2>1. CASE EndedUnlogged(mem)
    BY <1>6, <2>1 DEF BeginExecution, MemoryOnly, disk, clients, Logged
  <2>2. CASE ~EndedUnlogged(mem)
    BY <1>5, <1>6, <2>2 DEF BeginExecution, MemoryOnly, disk, clients, Logged
  <2>. QED
    BY <2>1, <2>2
<1>7. CASE BeginExecutionLogged
  <2>1. \A m \in Missions, k \in Slots : Logged(ToolCall(m, k)) => Logged(ToolCall(m, k))'
    BY <1>0, <1>7, RecordKeepsLogged DEF BeginExecutionLogged
  <2>. QED
    BY <1>5, <1>7, <2>1 DEF BeginExecutionLogged, RecordEvent, clients
<1>8. CASE Saved
  <2>1. op'.kind \notin {"reserve_model", "reserve_tools", "log_calls"}
    BY <1>0, <1>8, OpFields DEF Saved, NoOp
  <2>. QED
    BY <1>8, <2>1 DEF Saved, SaveCheckpoint, clients, Logged
<1>9. CASE SavedFails \/ LastAppendFails
  BY <1>9 DEF SavedFails, LastAppendFails, SaveFails, AppendFails, disk, NoOp, clients, Logged
<1>. QED
  BY <1>1, <1>3, <1>4, <1>6, <1>7, <1>8, <1>9
     DEF MissionNext, RecordMissionCompleted, RecordMissionFailed

\* The steps of initialize release no call that may have run.
LEMMA ReplayStart ==
    ASSUME TypeInv, ReplayInv, StartNext
    PROVE  ReplayInv'
<1> USE DEF ReplayInv, HoldsUncertain, Exec
<1>0. /\ mem \in State /\ ckpt \in State /\ op \in OpKinds
      /\ log \in [Events -> Nat] /\ lastMission \in 0..MaxMissions
      /\ exec \in [Missions -> [Slots -> ExecStatus]]
  BY DEF TypeInv, TypeOK
<1>1. CASE StartFresh
  <2>1. NewMission([kind |-> "init_start"]) /\ UNCHANGED <<exec, disk>>
    BY <1>1 DEF StartFresh, MemoryOnly, clients
  <2>2. /\ mem'.mission = lastMission + 1 /\ lastMission' = lastMission + 1
        /\ op' = [kind |-> "init_start"]
        /\ HoldsUncertain(mem)'
        /\ \A m \in Missions, k \in Slots : m > lastMission' => exec'[m][k] = "none"
    BY <2>1, ReplayNewMission
  <2>3. ckpt.mission <= lastMission + 1
    BY <1>0 DEF State
  <2>. QED
    BY <1>0, <2>1, <2>2, <2>3 DEF disk, Logged
<1>2. CASE StartFreshLogged
  <2>1. \A m \in Missions, k \in Slots : Logged(ToolCall(m, k)) => Logged(ToolCall(m, k))'
    BY <1>0, <1>2, RecordKeepsLogged DEF StartFreshLogged
  <2>. QED
    BY <1>2, <2>1 DEF StartFreshLogged, RecordEvent, NoOp, clients
<1>3. CASE Restore
  BY <1>3 DEF Restore, MemoryOnly, disk, clients, Logged
<1>4. ASSUME NEW i \in Invocations, RestoreUsage(i) PROVE ReplayInv'
  <2>1. mem'.mission = mem.mission /\ mem'.reservedKeys = mem.reservedKeys
    BY ONLY <1>0, <1>4 DEF RestoreUsage, State
  <2>2. op'.kind = "restore_usage"
    BY <1>0, <1>4 DEF RestoreUsage, OpKinds
  <2>. QED
    BY <1>4, <2>1, <2>2 DEF RestoreUsage, MemoryOnly, disk, clients, Logged
<1>5. CASE RestoreOrphans
  <2>1. mem'.mission = mem.mission /\ mem'.reservedKeys = mem.reservedKeys
    BY ONLY <1>0, <1>5 DEF RestoreOrphans, State
  <2>2. op'.kind \in {"init_save", "restore_tools"}
    BY <1>5 DEF RestoreOrphans
  <2>. QED
    BY <1>5, <2>1, <2>2 DEF RestoreOrphans, MemoryOnly, disk, clients, Logged
<1>6. CASE RestoreTools
  <2>1. mem'.mission = mem.mission
    BY ONLY <1>0, <1>6 DEF RestoreTools, State
  <2>2. \A k \in mem.reservedKeys : Logged(ToolCall(mem.mission, k)) => k \in mem'.reservedKeys
    BY ONLY <1>0, <1>6 DEF RestoreTools, State
  <2>3. op'.kind \in {"init_save", "restore_outcome"}
    BY <1>6 DEF RestoreTools
  <2>4. HoldsUncertain(mem)'
    BY <1>6, <2>1, <2>2 DEF RestoreTools, clients
  <2>. QED
    BY <1>6, <2>1, <2>3, <2>4 DEF RestoreTools, MemoryOnly, disk, clients, Logged
<1>7. CASE InitSaved
  <2>1. op'.kind \in {"restore_tools", "restore_outcome"}
    BY <1>0, <1>7, OpFields DEF InitSaved
  <2>. QED
    BY <1>7, <2>1 DEF InitSaved, SaveCheckpoint, clients, Logged
<1>8. CASE RestoreOutcome
  <2>1. \A m \in Missions, k \in Slots : Logged(ToolCall(m, k)) => Logged(ToolCall(m, k))'
    BY <1>0, <1>8, RecordKeepsLogged DEF RestoreOutcome, MemoryOnly, disk, Logged
  <2>2. UNCHANGED ckpt
    BY <1>8 DEF RestoreOutcome, RecordEvent, MemoryOnly, disk
  <2>. QED
    BY <1>8, <2>1, <2>2 DEF RestoreOutcome, clients
<1>9. CASE RestoreStages
  BY <1>9 DEF RestoreStages, NoOp, MemoryOnly, disk, clients, Logged
<1>10. CASE StartFails \/ Crash
  <2>1. Halt /\ UNCHANGED disk
    BY <1>10 DEF StartFails, Crash, SaveFails, AppendFails
  <2>2. \A m \in Missions, k \in Slots :
           /\ exec'[m][k] \in Uncertain => exec[m][k] \in Uncertain
           /\ exec[m][k] = "none" => exec'[m][k] = "none"
    BY <1>0, <2>1 DEF Halt, Uncertain
  <2>3. mem'.mission = 0 /\ 0 \notin Missions /\ 0 <= lastMission
    BY <1>0, <2>1, BoundAssumption DEF Halt, NoState, InitialState, Missions
  <2>. QED
    BY <2>1, <2>2, <2>3 DEF Halt, NoOp, disk, Logged
<1>. QED
  BY <1>1, <1>2, <1>3, <1>4, <1>5, <1>6, <1>7, <1>8, <1>9, <1>10 DEF StartNext

\* Every step keeps the invariant of replay.
LEMMA ReplayStep == TypeInv /\ ReplayInv /\ [Next]_vars => ReplayInv'
<1>1. ReplayInv /\ UNCHANGED vars => ReplayInv'
  BY DEF ReplayInv, HoldsUncertain, Exec, Logged, vars, engine, disk, clients
<1>. QED
  BY <1>1, ReplayModel, ReplayTools, ReplayMission, ReplayStart DEF Next

\* A call that the death of the process left interrupted stays so: whatever fails and
\* however often the process restarts, its mission never runs it again.  Confirmed calls
\* are never interrupted but paused again, and nothing is said of those.
THEOREM NoReplay == Spec => InterruptedCallNotReplayed
<1> DEFINE Stays == \A m \in Missions, k \in Slots :
                        exec[m][k] = "interrupted" => exec'[m][k] = "interrupted"
<1>1. TypeInv /\ ReplayInv /\ [Next]_vars => [Stays]_vars
  <2> SUFFICES ASSUME TypeInv, ReplayInv, Next PROVE Stays
    BY DEF vars
  <2>0. exec \in [Missions -> [Slots -> ExecStatus]] /\ op \in OpKinds
    BY DEF TypeInv, TypeOK
  <2>1. ASSUME NEW B, NEW status, SetExec(B, status),
               \A k \in B \cap Slots : Exec(k) # "interrupted"
        PROVE  Stays
    BY <2>0, <2>1 DEF SetExec, Exec
  <2>2. CASE UNCHANGED exec
    BY <2>2
  <2>3. ASSUME NEW B \in Batches,
               ToolsPause(B) \/ ResumeTools(B) \/ ReleaseTools(B) \/ ToolResultFails(B)
        PROVE  Stays
    <3>1. PICK status : SetExec(B, status)
      BY <2>3 DEF ToolsPause, ResumeTools, ReleaseTools, ToolResultFails
    <3>2. \A k \in B : Exec(k) \in {"running", "paused", "resumed"}
      BY <2>3 DEF ToolsPause, ResumeTools, ReleaseTools, ToolResultFails
    <3>. QED
      BY <2>1, <3>1, <3>2
  <2>4. ASSUME NEW k \in Slots, ToolCallLogged(k) PROVE Stays
    <3>1. CASE op.left = {k}
      <4>1. SetExec(op.batch, "running") /\ op.kind = "log_calls"
        BY <2>4, <3>1 DEF ToolCallLogged
      <4>2. \A j \in op.batch : Exec(j) # "interrupted"
        BY <4>1 DEF ReplayInv
      <4>. QED
        BY <2>1, <4>1, <4>2
    <3>2. CASE op.left # {k}
      BY <2>2, <2>4, <3>2 DEF ToolCallLogged
    <3>. QED
      BY <3>1, <3>2
  <2>5. CASE Halt
    BY <2>0, <2>5 DEF Halt
  <2>6. CASE ModelNext
    BY <2>2, <2>6 DEF ModelNext, ReserveModel, ModelAnswers, ChargeModel, ChargeModelUnknown,
                      ReserveModelSaved, ReserveModelFails, UsageLogged, clients
  <2>7. CASE ToolNext
    BY <2>2, <2>3, <2>4, <2>7
       DEF ToolNext, ReserveTools, ReserveToolsSaved, ReserveToolsFails, clients
  <2>8. CASE MissionNext
    BY <2>2, <2>8
       DEF MissionNext, RecordStageStarted, RecordStageCompleted, StageStartedLogged,
           StageCompletedLogged, RecordMissionCompleted, RecordMissionFailed, RecordOutcome,
           OutcomeLogged, BeginExecution, BeginExecutionLogged, MissionStartedLogged,
           Saved, SavedFails, LastAppendFails, clients
  <2>9. CASE StartNext
    BY <2>2, <2>5, <2>9
       DEF StartNext, StartFresh, StartFreshLogged, Restore, RestoreUsage, RestoreOrphans,
           RestoreTools, InitSaved, RestoreOutcome, RestoreStages, StartFails, Crash, clients
  <2>. QED
    BY <2>6, <2>7, <2>8, <2>9 DEF Next
<1>. QED
  BY <1>1, TypeInit, TypeStep, ReplayInit, ReplayStep, PTL
     DEF Spec, InterruptedCallNotReplayed

-----------------------------------------------------------------------------
(***************************************************************************)
(* The log.                                                                *)
(***************************************************************************)
\* The events are those of usage, calls, stages, and the start and end of missions.
LEMMA EventsMade ==
    \A m \in Missions :
        /\ \A i \in Invocations : ModelUsage(m, i) \in Events
        /\ \A k \in Slots : ToolCall(m, k) \in Events
        /\ \A s \in Stages : StageStarted(m, s) \in Events /\ StageCompleted(m, s) \in Events
        /\ MissionStarted(m) \in Events
        /\ \A p \in Outcomes : MissionEnded(m, p) \in Events
        /\ \A e \in Events : e[2] \in Missions
BY DEF Events, ModelUsage, ToolCall, StageStarted, StageCompleted, MissionStarted, MissionEnded

\* An event names its kind, its mission and what it is about.
LEMMA EventsName ==
    ASSUME NEW m, NEW x
    PROVE  /\ ModelUsage(m, x)[1] = "model_usage" /\ ModelUsage(m, x)[2] = m /\ ModelUsage(m, x)[3] = x
           /\ ToolCall(m, x)[1] = "tool_call" /\ ToolCall(m, x)[2] = m /\ ToolCall(m, x)[3] = x
           /\ StageStarted(m, x)[1] = "stage_started" /\ StageStarted(m, x)[2] = m
           /\ StageStarted(m, x)[3] = x
           /\ StageCompleted(m, x)[1] = "stage_completed" /\ StageCompleted(m, x)[2] = m
           /\ StageCompleted(m, x)[3] = x
           /\ MissionStarted(m)[1] = "mission_started" /\ MissionStarted(m)[2] = m
           /\ MissionEnded(m, x)[1] = "mission_ended" /\ MissionEnded(m, x)[2] = m
           /\ MissionEnded(m, x)[3] = x
BY DEF ModelUsage, ToolCall, StageStarted, StageCompleted, MissionStarted, MissionEnded

\* An appended event is in the log once more, and the others as often as before.
LEMMA Appended ==
    ASSUME log \in [Events -> Nat], NEW e \in Events, RecordEvent(e)
    PROVE  /\ \A x \in Events : log'[x] = IF x = e THEN log[x] + 1 ELSE log[x]
           /\ \A x \in Events : Logged(x)' <=> Logged(x) \/ x = e
           /\ UNCHANGED <<ckpt, faults>>
<1>1. log' = [x \in Events |-> IF x = e THEN log[e] + 1 ELSE log[x]] /\ UNCHANGED <<ckpt, faults>>
  BY DEF RecordEvent
<1>2. \A x \in Events : log[x] \in Nat /\ log'[x] = IF x = e THEN log[x] + 1 ELSE log[x]
  BY <1>1
<1>3. \A x \in Events : log'[x] > 0 <=> log[x] > 0 \/ x = e
  BY <1>2
<1>. QED
  BY <1>1, <1>2, <1>3 DEF Logged

-----------------------------------------------------------------------------
(***************************************************************************)
(* What the operations do to the state in memory, field by field.          *)
(***************************************************************************)
\* The mission and its phase are left as they are.
SameMission == mem'.mission = mem.mission /\ mem'.phase = mem.phase
\* So is what is known of the tokens.
SameTokens == mem'.tokensUsed = mem.tokensUsed /\ mem'.reservations = mem.reservations
\* So is what is known of the calls.
SameCalls == mem'.reservedKeys = mem.reservedKeys /\ mem'.toolCallsUsed = mem.toolCallsUsed

\* A reservation of tokens.
LEMMA ReserveModelMoves ==
    ASSUME TypeInv, NEW i \in Invocations, ReserveModel(i)
    PROVE  /\ mem'.reservations = mem.reservations \cup {i} /\ mem'.tokensUsed = mem.tokensUsed
           /\ SameMission /\ SameCalls
           /\ op' = [kind |-> "reserve_model", id |-> i, undo |-> mem]
           /\ op = NoOp /\ alive /\ model[i] = "idle" /\ model'[i] = "reserving"
           /\ \A j \in Invocations \ {i} : model'[j] = model[j]
           /\ Available(mem) >= MaxTokensPerInvocation
           /\ UNCHANGED <<alive, startedStages, completedStages, disk, charge, exec, lastMission, faults>>
BY DEF TypeInv, TypeOK, State, ReserveModel, Idle, MemoryOnly, SameMission, SameCalls

\* A charge.
LEMMA ChargeModelMoves ==
    ASSUME TypeInv, NEW i \in Invocations, ChargeModel(i)
    PROVE  /\ mem'.reservations = mem.reservations \ {i} /\ i \in mem.reservations
           /\ mem'.tokensUsed = mem.tokensUsed + charge[i]
           /\ SameMission /\ SameCalls
           /\ op' = [kind |-> "log_usage", id |-> i]
           /\ op = NoOp /\ alive /\ model[i] = "answered" /\ model'[i] = "settled"
           /\ \A j \in Invocations \ {i} : model'[j] = model[j]
           /\ UNCHANGED <<alive, startedStages, completedStages, disk, charge, exec, lastMission, faults>>
BY DEF TypeInv, TypeOK, State, ChargeModel, Idle, MemoryOnly, SameMission, SameCalls

\* A reservation of calls.
LEMMA ReserveToolsMoves ==
    ASSUME TypeInv, NEW B \in Batches, ReserveTools(B)
    PROVE  /\ mem'.reservedKeys = mem.reservedKeys \cup B
           /\ mem'.toolCallsUsed = mem.toolCallsUsed + Cardinality(B)
           /\ mem.toolCallsUsed + Cardinality(B) <= MaxToolCalls
           /\ SameMission /\ SameTokens
           /\ op' = [kind |-> "reserve_tools", batch |-> B, undo |-> mem]
           /\ op = NoOp /\ alive
           /\ UNCHANGED <<alive, startedStages, completedStages, disk, clients, lastMission, faults>>
BY DEF TypeInv, TypeOK, State, ReserveTools, Idle, MemoryOnly, SameMission, SameTokens

\* The release of calls.
LEMMA ReleaseToolsMoves ==
    ASSUME TypeInv, NEW B \in Batches, ReleaseTools(B)
    PROVE  /\ mem'.reservedKeys = mem.reservedKeys \ B /\ mem'.toolCallsUsed = mem.toolCallsUsed
           /\ SameMission /\ SameTokens
           /\ op' = NoOp \/ op' = [kind |-> "save", then |-> "none"]
           /\ op = NoOp /\ alive /\ SetExec(B, "done")
           /\ UNCHANGED <<alive, startedStages, completedStages, disk, model, charge, lastMission, faults>>
BY DEF TypeInv, TypeOK, State, ReleaseTools, Idle, MemoryOnly, SameMission, SameTokens

\* The end of a mission, for the first time or again.
LEMMA RecordOutcomeMoves ==
    ASSUME TypeInv, NEW p, RecordOutcome(p)
    PROVE  /\ mem'.mission = mem.mission /\ mem'.phase = p
           /\ \/ mem.phase = "OBSERVE" /\ op' = [kind |-> "save", then |-> "log_outcome"]
              \/ /\ mem.phase = p /\ EndedUnlogged(mem)
                 /\ op' = [kind |-> "log_outcome", then |-> "none"]
           /\ SameTokens /\ SameCalls
           /\ op = NoOp /\ alive
           /\ UNCHANGED <<alive, startedStages, completedStages, disk, clients, lastMission, faults>>
BY DEF TypeInv, TypeOK, State, RecordOutcome, Idle, MemoryOnly, SameTokens, SameCalls

\* A new mission.
LEMMA NewMissionMoves ==
    ASSUME TypeInv, NEW next, NewMission(next), lastMission < MaxMissions
    PROVE  /\ lastMission' = lastMission + 1 /\ lastMission + 1 \in Missions
           /\ mem'.mission = lastMission + 1 /\ mem'.phase = "OBSERVE"
           /\ mem'.tokensUsed = 0 /\ mem'.reservations = {}
           /\ mem'.reservedKeys = {} /\ mem'.toolCallsUsed = 0
           /\ mem' = InitialState(lastMission + 1)
           /\ startedStages' = {} /\ completedStages' = {} /\ op' = next
BY BoundAssumption DEF NewMission, InitialState, Missions, TypeInv, TypeOK

\* What a restart finds in the log is charged.
LEMMA RestoreUsageMoves ==
    ASSUME TypeInv, NEW i \in Invocations, RestoreUsage(i)
    PROVE  /\ mem'.reservations = mem.reservations \ {i} /\ i \in mem.reservations
           /\ mem'.tokensUsed = mem.tokensUsed + charge[i]
           /\ SameMission /\ SameCalls
           /\ op.kind = "restore_usage" /\ op'.kind = "restore_usage" /\ UsageEventOf(i)
           /\ UNCHANGED <<alive, startedStages, completedStages, disk, clients, lastMission, faults>>
<1>1. op \in [kind : {"restore_usage"}, changed : BOOLEAN]
  BY DEF TypeInv, TypeOK, OpKinds, RestoreUsage
<1>. QED
  BY <1>1 DEF TypeInv, TypeOK, State, RestoreUsage, MemoryOnly, SameMission, SameCalls

\* And the rest released.
LEMMA RestoreOrphansMoves ==
    ASSUME TypeInv, RestoreOrphans
    PROVE  /\ mem'.reservations = {} /\ mem'.tokensUsed = mem.tokensUsed
           /\ SameMission /\ SameCalls
           /\ op.kind = "restore_usage" /\ \A i \in mem.reservations : ~UsageEventOf(i)
           /\ op' \in {[kind |-> "init_save", then |-> "restore_tools"], [kind |-> "restore_tools"]}
           /\ UNCHANGED <<alive, startedStages, completedStages, disk, clients, lastMission, faults>>
BY DEF TypeInv, TypeOK, State, RestoreOrphans, MemoryOnly, SameMission, SameCalls

\* The calls that are reserved but not in the log.
Unlogged(s) == {k \in s.reservedKeys : ~Logged(ToolCall(s.mission, k))}

\* The reservations of such calls are given back.
LEMMA RestoreToolsMoves ==
    ASSUME TypeInv, RestoreTools
    PROVE  /\ mem'.reservedKeys = mem.reservedKeys \ Unlogged(mem)
           /\ LET used == mem.toolCallsUsed - Cardinality(Unlogged(mem))
              IN  mem'.toolCallsUsed = IF Unlogged(mem) = {} THEN mem.toolCallsUsed
                                       ELSE IF used < 0 THEN 0 ELSE used
           /\ SameMission /\ SameTokens
           /\ op.kind = "restore_tools"
           /\ op' \in {[kind |-> "init_save", then |-> "restore_outcome"], [kind |-> "restore_outcome"]}
           /\ UNCHANGED <<alive, startedStages, completedStages, disk, clients, lastMission, faults>>
BY DEF TypeInv, TypeOK, State, RestoreTools, MemoryOnly, SameMission, SameTokens, Unlogged

\* The death of the process.
LEMMA HaltMoves ==
    ASSUME TypeInv, Crash \/ StartFails
    PROVE  /\ mem' = NoState /\ mem'.mission = 0 /\ mem'.phase = "OBSERVE" /\ mem'.tokensUsed = 0
           /\ mem'.reservations = {} /\ mem'.reservedKeys = {} /\ mem'.toolCallsUsed = 0
           /\ op' = NoOp /\ ~alive' /\ startedStages' = {} /\ completedStages' = {}
           /\ \A i \in Invocations : model'[i] # model[i] => model[i] # "settled" /\ model'[i] = "lost"
           /\ \A m \in Missions, k \in Slots : exec'[m][k] = "none" <=> exec[m][k] = "none"
           /\ UNCHANGED <<disk, charge, lastMission>>
<1>1. Halt /\ UNCHANGED disk
  BY DEF StartFails, Crash, SaveFails, AppendFails
<1>2. \A m \in Missions, k \in Slots : exec'[m][k] = "none" <=> exec[m][k] = "none"
  BY <1>1 DEF Halt, TypeInv, TypeOK
<1>. QED
  BY <1>1, <1>2 DEF Halt, NoState, InitialState

-----------------------------------------------------------------------------
(***************************************************************************)
(* The story of the missions.  Missions are numbered as they begin, so     *)
(* nothing is in the log of a mission that has not begun.  Whatever a      *)
(* mission executes it executes after a reservation, which saves a         *)
(* checkpoint of that mission, so that a later mission can only begin from *)
(* this one or from one that replaced it; and what is recorded once is     *)
(* remembered, in memory or by reading the log again.                      *)
(***************************************************************************)
Reserving == {"reserve_model", "reserve_tools"}
Restoring == {"restore_usage", "restore_tools", "init_save", "restore_outcome", "restore_stages"}
Saving(then) == [kind |-> "save", then |-> then]

\* The mission m executed something, or it has ended, as the log tells.
Executed(m) ==
    \/ \E i \in Invocations : Logged(ModelUsage(m, i))
    \/ \E k \in Slots : Logged(ToolCall(m, k))
Ended(m) == \E p \in Outcomes : Logged(MissionEnded(m, p))

Numbered ==
    /\ \A e \in Events : Logged(e) => e[2] <= lastMission
    /\ ckpt.mission <= lastMission /\ mem.mission <= lastMission
    /\ alive => ckpt.mission <= mem.mission

\* What holds a reservation was saved.
Owned ==
    /\ mem.reservations # {} /\ op.kind # "reserve_model" => ckpt.mission = mem.mission
    /\ op.kind \in Reserving /\ op.undo.reservations # {} => ckpt.mission = mem.mission
    /\ op.kind \in {"log_usage", "log_calls"} => ckpt.mission = mem.mission

Closed ==
    \A m \in Missions : Executed(m) =>
        /\ m <= ckpt.mission
        /\ m < mem.mission \/ m < ckpt.mission => Ended(m)

Phased ==
    /\ op.kind \in Reserving => op.undo.phase = mem.phase
    /\ op.kind = "log_outcome" \/ op = Saving("log_outcome") => mem.phase \in Outcomes
    /\ ckpt.mission = mem.mission /\ ckpt.phase \in Outcomes => mem.phase = ckpt.phase

UsageUnrecorded ==
    /\ \A m \in Missions, i \in Invocations : Logged(ModelUsage(m, i)) => model[i] = "settled"
    /\ op.kind = "log_usage" =>
          model[op.id] = "settled" /\ \A m \in Missions : ~Logged(ModelUsage(m, op.id))
    /\ op.kind = "reserve_model" => model[op.id] = "reserving"

StagesUnrecorded ==
    /\ op.kind = "log_stage_started" => op.stage \notin startedStages
    /\ op.kind = "log_stage_completed" => op.stage \notin completedStages
    /\ alive /\ op.kind \notin Restoring => \A s \in Stages :
          /\ Logged(StageStarted(mem.mission, s)) => s \in startedStages
          /\ Logged(StageCompleted(mem.mission, s)) => s \in completedStages

StartUnrecorded ==
    op.kind \in {"init_start", "log_start"} \/ op = Saving("log_start")
        => ~Logged(MissionStarted(mem.mission))

\* What is recorded once is in the log once; the end of a mission apart.
RecordedOnce == \A e \in Events : e[1] \notin {"tool_call", "mission_ended"} => log[e] <= 1

LogInv ==
    /\ Numbered /\ Owned /\ Closed /\ Phased
    /\ UsageUnrecorded /\ StagesUnrecorded /\ StartUnrecorded /\ RecordedOnce

\* What a state of the engine is made of.
LEMMA Typed ==
    ASSUME TypeInv
    PROVE  /\ mem \in State /\ ckpt \in State /\ op \in OpKinds
           /\ mem.mission \in 0..MaxMissions /\ ckpt.mission \in 0..MaxMissions
           /\ mem.phase \in Phases /\ ckpt.phase \in Phases
           /\ lastMission \in 0..MaxMissions /\ MaxMissions \in Nat
           /\ log \in [Events -> Nat]
           /\ model \in [Invocations -> ModelStatus]
           /\ (alive => mem.mission \in Missions) /\ (~alive => mem.mission = 0)
           /\ \A m \in Missions : m \in Nat /\ m > 0
BY BoundAssumption DEF TypeInv, TypeOK, State, Missions

\* Initially the log is empty.
LEMMA LogInit == Init => LogInv
<1> SUFFICES ASSUME Init PROVE LogInv
  OBVIOUS
<1>1. /\ \A e \in Events : log[e] = 0 /\ ~Logged(e)
      /\ mem = NoState /\ ckpt = NoState /\ NoState.mission = 0 /\ NoState.reservations = {}
      /\ NoState.phase = "OBSERVE" /\ lastMission = 0 /\ op.kind = "none" /\ ~alive
  BY DEF Init, NoState, InitialState, Logged, NoOp
<1>2. \A m \in Missions : ~Executed(m)
  BY <1>1, EventsMade DEF Executed
<1>3. \A m \in Missions, i \in Invocations : ~Logged(ModelUsage(m, i))
  BY <1>1, EventsMade
<1>. QED
  BY <1>1, <1>2, <1>3
     DEF LogInv, Numbered, Owned, Closed, Phased, UsageUnrecorded, StagesUnrecorded,
         StartUnrecorded, RecordedOnce, Outcomes, Reserving, Saving

\* A step that leaves the log, the checkpoint and the mission, and reserves nothing, keeps the story.
LEMMA LogQuiet ==
    ASSUME TypeInv, LogInv, SameMission, UNCHANGED <<alive, log, ckpt, lastMission>>,
           startedStages' = startedStages, completedStages' = completedStages,
           mem'.reservations \subseteq mem.reservations, op.kind # "reserve_model",
           op'.kind \in Restoring \cup {"none", "save"},
           op'.kind \in Restoring \/ op.kind \notin Restoring,
           op' \notin {Saving("log_outcome"), Saving("log_start")},
           \A i \in Invocations : model[i] = "settled" => model'[i] = "settled"
    PROVE  LogInv'
<1>1. \A e \in Events : Logged(e)' <=> Logged(e)
  BY DEF Logged
<1>2. Numbered'
  BY <1>1, Typed DEF LogInv, Numbered, SameMission
<1>3. Owned'
  BY DEF LogInv, Owned, SameMission, Reserving, Restoring
<1>4. Closed'
  BY DEF LogInv, Closed, Executed, Ended, Logged, SameMission
<1>5. Phased'
  BY DEF LogInv, Phased, SameMission, Reserving, Restoring, Saving
<1>6. UsageUnrecorded'
  BY DEF LogInv, UsageUnrecorded, Logged, Restoring
<1>7. StagesUnrecorded'
  BY DEF LogInv, StagesUnrecorded, Logged, Restoring, SameMission
<1>8. StartUnrecorded' /\ RecordedOnce'
  BY DEF LogInv, StartUnrecorded, RecordedOnce, Restoring, Saving
<1>. QED
  BY <1>2, <1>3, <1>4, <1>5, <1>6, <1>7, <1>8 DEF LogInv

\* Saving a checkpoint keeps the story.
LEMMA LogSaves ==
    ASSUME TypeInv, LogInv, ckpt' = mem, alive,
           UNCHANGED <<alive, mem, startedStages, completedStages, log, lastMission>>,
           op'.kind \notin Reserving \cup {"log_usage", "log_stage_started", "log_stage_completed", "save"},
           op'.kind = "log_outcome" => op = Saving("log_outcome"),
           op'.kind \in {"init_start", "log_start"} => op = Saving("log_start"),
           op'.kind \in Restoring \/ op.kind \notin Restoring,
           \A i \in Invocations : model[i] = "settled" => model'[i] = "settled"
    PROVE  LogInv'
<1>1. \A e \in Events : Logged(e)' <=> Logged(e)
  BY DEF Logged
<1>2. Numbered'
  BY <1>1, Typed DEF LogInv, Numbered
<1>3. Owned'
  BY DEF LogInv, Owned, Reserving
<1>4. Closed'
  BY Typed DEF LogInv, Closed, Executed, Ended, Logged, Numbered
<1>5. Phased'
  BY DEF LogInv, Phased, Reserving, Saving
<1>6. UsageUnrecorded'
  BY DEF LogInv, UsageUnrecorded, Logged, Reserving
<1>7. StagesUnrecorded'
  BY DEF LogInv, StagesUnrecorded, Logged
<1>8. StartUnrecorded' /\ RecordedOnce'
  BY DEF LogInv, StartUnrecorded, RecordedOnce, Saving, Logged
<1>. QED
  BY <1>2, <1>3, <1>4, <1>5, <1>6, <1>7, <1>8 DEF LogInv

\* What an append leaves as it was, unless the event is of its kind.
LEMMA Elsewhere ==
    ASSUME TypeInv, NEW e \in Events, RecordEvent(e)
    PROVE  /\ \A m \in Missions, i \in Invocations :
                 Logged(ModelUsage(m, i))' <=> Logged(ModelUsage(m, i)) \/ ModelUsage(m, i) = e
           /\ \A m \in Missions, k \in Slots :
                 Logged(ToolCall(m, k))' <=> Logged(ToolCall(m, k)) \/ ToolCall(m, k) = e
           /\ \A m \in Missions, s \in Stages :
                 Logged(StageStarted(m, s))' <=> Logged(StageStarted(m, s)) \/ StageStarted(m, s) = e
           /\ \A m \in Missions, s \in Stages :
                 Logged(StageCompleted(m, s))' <=> Logged(StageCompleted(m, s)) \/ StageCompleted(m, s) = e
           /\ \A m \in Missions :
                 Logged(MissionStarted(m))' <=> Logged(MissionStarted(m)) \/ MissionStarted(m) = e
           /\ \A m \in Missions, p \in Outcomes :
                 Logged(MissionEnded(m, p))' <=> Logged(MissionEnded(m, p)) \/ MissionEnded(m, p) = e
BY EventsMade, Appended, Typed

\* An event of a mission that was saved, or of one that is neither usage nor call, keeps it closed.
LEMMA LogAppends ==
    ASSUME TypeInv, LogInv, alive, NEW e \in Events, RecordEvent(e), e[2] = mem.mission,
           UNCHANGED <<alive, mem, lastMission>>,
           e[1] \in {"model_usage", "tool_call"} => ckpt.mission = mem.mission,
           e[1] \notin {"tool_call", "mission_ended"} => ~Logged(e)
    PROVE  /\ Numbered' /\ Closed' /\ RecordedOnce' /\ UNCHANGED <<ckpt, faults>>
<1>1. /\ \A x \in Events : log'[x] = IF x = e THEN log[x] + 1 ELSE log[x]
      /\ \A x \in Events : Logged(x)' <=> Logged(x) \/ x = e
      /\ UNCHANGED <<ckpt, faults>>
  BY Appended, Typed
<1>2. Numbered'
  BY <1>1, Typed DEF LogInv, Numbered
<1>3. ASSUME NEW m \in Missions, Executed(m)'
      PROVE  Executed(m) \/ (m = mem.mission /\ ckpt.mission = mem.mission)
  <2>1. CASE \E i \in Invocations : Logged(ModelUsage(m, i))'
    <3>1. PICK i \in Invocations : Logged(ModelUsage(m, i))'
      BY <2>1
    <3>. QED
      BY <3>1, EventsMade, EventsName, <1>1 DEF Executed
  <2>2. CASE \E k \in Slots : Logged(ToolCall(m, k))'
    <3>1. PICK k \in Slots : Logged(ToolCall(m, k))'
      BY <2>2
    <3>. QED
      BY <3>1, EventsMade, EventsName, <1>1 DEF Executed
  <2>. QED
    BY <1>3, <2>1, <2>2 DEF Executed
<1>4. \A m \in Missions : Ended(m) => Ended(m)'
  BY Elsewhere DEF Ended
<1>5. Closed'
  BY <1>1, <1>3, <1>4, Typed DEF LogInv, Closed
<1>6. RecordedOnce'
  <2> SUFFICES ASSUME NEW x \in Events, x[1] \notin {"tool_call", "mission_ended"} PROVE log'[x] <= 1
    BY DEF RecordedOnce
  <2>1. x = e => log[x] = 0 /\ log'[x] = 1
    BY <1>1, Typed DEF Logged
  <2>2. x # e => log'[x] = log[x] /\ log[x] <= 1
    BY <1>1 DEF LogInv, RecordedOnce
  <2>. QED
    BY <2>1, <2>2
<1>. QED
  BY <1>1, <1>2, <1>5, <1>6

\* A new mission begins when the one before it has ended, or when there was none.
LEMMA LogNewMission ==
    ASSUME TypeInv, LogInv, NEW next, NewMission(next), lastMission < MaxMissions, alive', UNCHANGED ckpt,
           next \in {[kind |-> "init_start"], Saving("log_start")},
           \A e \in Events : Logged(e) => Logged(e)',
           \A e \in Events : Logged(e)' => Logged(e) \/ (e[1] = "mission_ended" /\ e[2] = mem.mission),
           NEW old, old = mem.mission, alive => Ended(old)', ~alive => ckpt = NoState,
           RecordedOnce',
           \A i \in Invocations : model[i] = "settled" => model'[i] = "settled"
    PROVE  LogInv'
<1>1. /\ lastMission' = lastMission + 1 /\ lastMission + 1 \in Missions
      /\ mem'.mission = lastMission + 1 /\ mem'.phase = "OBSERVE" /\ mem'.reservations = {}
      /\ startedStages' = {} /\ completedStages' = {} /\ op' = next
  BY NewMissionMoves
<1>2. /\ ckpt.mission <= lastMission /\ mem.mission <= lastMission
      /\ (alive => ckpt.mission <= mem.mission)
      /\ \A e \in Events : Logged(e) => e[2] <= lastMission
  BY DEF LogInv, Numbered
<1>3. Numbered'
  <2>1. \A e \in Events : e[2] \in Missions
    BY <1>1, EventsMade
  <2>. QED
    BY <1>1, <1>2, <2>1, Typed DEF Numbered
<1>4. Owned'
  BY <1>1 DEF Owned, Reserving, Saving
<1>5. ASSUME NEW m \in Missions PROVE Executed(m)' => Executed(m)
  BY EventsMade, EventsName DEF Executed
<1>6. ASSUME NEW m \in Missions PROVE Ended(m) => Ended(m)'
  BY EventsMade DEF Ended
<1>7. Closed'
  <2> SUFFICES ASSUME NEW m \in Missions, Executed(m)'
               PROVE  m <= ckpt.mission /\ Ended(m)'
    BY DEF Closed
  <2>1. Executed(m) /\ m <= ckpt.mission
    BY <1>5 DEF LogInv, Closed
  <2>2. alive
    <3>1. ~alive => ckpt.mission = 0
      BY NoStateType
    <3>. QED
      BY <2>1, <3>1, Typed
  <2>3. m <= mem.mission
    BY <1>2, <2>1, <2>2, Typed
  <2>4. m # mem.mission => Ended(m)
    BY <2>1, <2>3, Typed DEF LogInv, Closed
  <2>5. CASE m = old
    BY <2>1, <2>2, <2>5
  <2>6. CASE m # old
    BY <1>6, <2>1, <2>4, <2>6
  <2>. QED
    BY <2>5, <2>6
<1>8. Phased'
  BY <1>1, <1>2, Typed DEF Phased, Reserving, Saving
<1>9. \A e \in Events : Logged(e)' => e[2] # lastMission + 1
  BY <1>2, Typed
<1>10. UsageUnrecorded'
  BY <1>1, EventsMade, EventsName DEF LogInv, UsageUnrecorded, Saving
<1>11. StagesUnrecorded'
  BY <1>1, <1>9, EventsMade, EventsName DEF StagesUnrecorded, Saving
<1>12. StartUnrecorded'
  <2>1. MissionStarted(lastMission + 1)[2] = lastMission + 1 /\ MissionStarted(lastMission + 1) \in Events
    BY <1>1, EventsMade, EventsName
  <2>2. \A m \in Missions : m = lastMission + 1 => ~Logged(MissionStarted(m))'
    BY <1>9, <2>1, EventsMade
  <2>. QED
    BY <1>1, <2>2 DEF StartUnrecorded
<1>. QED
  BY <1>3, <1>4, <1>7, <1>8, <1>10, <1>11, <1>12 DEF LogInv

\* The steps of model invocations keep the story.
LEMMA LogModel == TypeInv /\ LogInv /\ ModelNext => LogInv'
<1> SUFFICES ASSUME TypeInv, LogInv, ModelNext PROVE LogInv'
  OBVIOUS
<1>1. ASSUME NEW i \in Invocations, ReserveModel(i) PROVE LogInv'
  <2>0. /\ mem'.reservations = mem.reservations \cup {i} /\ SameMission
        /\ op' = [kind |-> "reserve_model", id |-> i, undo |-> mem]
        /\ op = NoOp /\ model[i] = "idle" /\ model'[i] = "reserving"
        /\ \A j \in Invocations \ {i} : model'[j] = model[j]
        /\ UNCHANGED <<alive, startedStages, completedStages, log, ckpt, lastMission>>
    BY <1>1, ReserveModelMoves DEF disk
  <2>1. Numbered' /\ RecordedOnce' /\ StartUnrecorded'
    BY <2>0 DEF LogInv, Numbered, RecordedOnce, StartUnrecorded, Logged, SameMission, Saving
  <2>2. Closed'
    BY <2>0 DEF LogInv, Closed, Executed, Ended, Logged, SameMission
  <2>3. Owned' /\ Phased'
    BY <2>0 DEF LogInv, Owned, Phased, SameMission, NoOp, Reserving, Saving
  <2>4. UsageUnrecorded'
    BY <2>0 DEF LogInv, UsageUnrecorded, Logged
  <2>5. StagesUnrecorded'
    BY <2>0 DEF LogInv, StagesUnrecorded, Logged, NoOp, Restoring, SameMission
  <2>. QED
    BY <2>1, <2>2, <2>3, <2>4, <2>5 DEF LogInv
<1>2. ASSUME NEW i \in Invocations, NEW c, ModelAnswers(i, c) PROVE LogInv'
  <2>0. /\ UNCHANGED <<alive, mem, op, startedStages, completedStages, log, ckpt, lastMission>>
        /\ model[i] = "calling" /\ model' = [model EXCEPT ![i] = "answered"]
    BY <1>2 DEF ModelAnswers, MemoryOnly, disk, engine
  <2>1. Numbered' /\ RecordedOnce' /\ StartUnrecorded' /\ Owned' /\ Phased' /\ StagesUnrecorded'
    BY <2>0 DEF LogInv, Numbered, RecordedOnce, StartUnrecorded, Logged, Owned, Phased, StagesUnrecorded
  <2>2. Closed'
    BY <2>0 DEF LogInv, Closed, Executed, Ended, Logged
  <2>3. UsageUnrecorded'
    BY <2>0, Typed, OpFields DEF LogInv, UsageUnrecorded, Logged
  <2>. QED
    BY <2>1, <2>2, <2>3 DEF LogInv
<1>3. ASSUME NEW i \in Invocations, ChargeModel(i) PROVE LogInv'
  <2>0. /\ mem'.reservations = mem.reservations \ {i} /\ i \in mem.reservations /\ SameMission
        /\ op' = [kind |-> "log_usage", id |-> i]
        /\ op = NoOp /\ model[i] = "answered" /\ model'[i] = "settled"
        /\ \A j \in Invocations \ {i} : model'[j] = model[j]
        /\ UNCHANGED <<alive, startedStages, completedStages, log, ckpt, lastMission>>
    BY <1>3, ChargeModelMoves DEF disk
  <2>1. Numbered' /\ RecordedOnce' /\ StartUnrecorded'
    BY <2>0 DEF LogInv, Numbered, RecordedOnce, StartUnrecorded, Logged, SameMission, Saving
  <2>2. Closed'
    BY <2>0 DEF LogInv, Closed, Executed, Ended, Logged, SameMission
  <2>3. Owned' /\ Phased'
    BY <2>0 DEF LogInv, Owned, Phased, SameMission, NoOp, Reserving, Saving
  <2>4. UsageUnrecorded'
    BY <2>0 DEF LogInv, UsageUnrecorded, Logged
  <2>5. StagesUnrecorded'
    BY <2>0 DEF LogInv, StagesUnrecorded, Logged, NoOp, Restoring, SameMission
  <2>. QED
    BY <2>1, <2>2, <2>3, <2>4, <2>5 DEF LogInv
<1>4. ASSUME NEW i \in Invocations, ChargeModelUnknown(i) PROVE LogInv'
  <2>1. \A j \in Invocations : model[j] = "settled" => model'[j] = "settled"
    BY <1>4, Typed DEF ChargeModelUnknown
  <2>2. /\ UNCHANGED <<alive, mem, op, startedStages, completedStages, log, ckpt, lastMission>>
        /\ op = NoOp
    BY <1>4 DEF ChargeModelUnknown, MemoryOnly, disk, engine, Idle
  <2>. QED
    BY <2>1, <2>2, LogQuiet DEF SameMission, NoOp, Restoring, Saving
<1>5. CASE ReserveModelSaved
  <2>1. /\ ckpt' = mem /\ op' = NoOp /\ op.kind = "reserve_model" /\ alive
        /\ UNCHANGED <<alive, mem, startedStages, completedStages, log, lastMission>>
    BY <1>5 DEF ReserveModelSaved, SaveCheckpoint, TypeInv, TypeOK, NoOp
  <2>2. model[op.id] = "reserving"
    BY <2>1 DEF LogInv, UsageUnrecorded
  <2>3. \A j \in Invocations : model[j] = "settled" => model'[j] = "settled"
    BY <1>5, <2>2, Typed DEF ReserveModelSaved
  <2>. QED
    BY <2>1, <2>3, LogSaves DEF NoOp, Restoring, Reserving, Saving
<1>6. CASE ReserveModelFails
  <2>1. /\ mem' = op.undo /\ op' = NoOp /\ op.kind = "reserve_model"
        /\ UNCHANGED <<alive, startedStages, completedStages, log, ckpt, lastMission>>
    BY <1>6 DEF ReserveModelFails, SaveFails, disk
  <2>2. mem'.mission = mem.mission /\ mem'.phase = mem.phase
    BY <2>1 DEF TypeInv, UndoOK, LogInv, Phased, Reserving
  <2>3. \A j \in Invocations : model[j] = "settled" => model'[j] = "settled"
    BY <1>6, Typed DEF ReserveModelFails
  <2>4. Numbered' /\ RecordedOnce' /\ StartUnrecorded'
    BY <2>1, <2>2 DEF LogInv, Numbered, RecordedOnce, StartUnrecorded, Logged, NoOp, Saving
  <2>5. Closed'
    BY <2>1, <2>2 DEF LogInv, Closed, Executed, Ended, Logged
  <2>6. Owned' /\ Phased'
    BY <2>1, <2>2 DEF LogInv, Owned, Phased, NoOp, Reserving, Saving
  <2>7. UsageUnrecorded'
    BY <2>1, <2>3 DEF LogInv, UsageUnrecorded, Logged, NoOp
  <2>8. StagesUnrecorded'
    BY <2>1, <2>2 DEF LogInv, StagesUnrecorded, Logged, NoOp, Restoring
  <2>. QED
    BY <2>4, <2>5, <2>6, <2>7, <2>8 DEF LogInv
<1>7. CASE UsageLogged
  <2> DEFINE e == ModelUsage(mem.mission, op.id)
  <2>1. /\ op.kind = "log_usage" /\ op.id \in Invocations /\ alive /\ mem.mission \in Missions
        /\ op' = Saving("none") /\ RecordEvent(e)
        /\ UNCHANGED <<alive, mem, startedStages, completedStages, lastMission, model>>
    BY <1>7, Typed, OpFields DEF UsageLogged, TypeInv, TypeOK, NoOp, Saving, clients
  <2>2. e \in Events /\ e[1] = "model_usage" /\ e[2] = mem.mission /\ e[3] = op.id
    BY <2>1, EventsMade, EventsName
  <2>3. ~Logged(e) /\ ckpt.mission = mem.mission /\ model[op.id] = "settled"
    BY <2>1 DEF LogInv, UsageUnrecorded, Owned
  <2> HIDE DEF e
  <2>4. Numbered' /\ Closed' /\ RecordedOnce' /\ UNCHANGED ckpt
    BY <2>1, <2>2, <2>3, LogAppends
  <2>5. StartUnrecorded' /\ Owned' /\ Phased'
    BY <2>1, <2>4 DEF LogInv, StartUnrecorded, Owned, Phased, Saving, Reserving
  <2>6. UsageUnrecorded'
    BY <2>1, <2>2, <2>3, Elsewhere, EventsName DEF LogInv, UsageUnrecorded, Saving
  <2>7. StagesUnrecorded'
    BY <2>1, <2>2, Elsewhere, EventsName DEF LogInv, StagesUnrecorded, Saving, Restoring
  <2>. QED
    BY <2>4, <2>5, <2>6, <2>7 DEF LogInv
<1>. QED
  BY <1>1, <1>2, <1>3, <1>4, <1>5, <1>6, <1>7 DEF ModelNext

\* The steps of tool calls keep the story.
LEMMA LogTools == TypeInv /\ LogInv /\ ToolNext => LogInv'
<1> SUFFICES ASSUME TypeInv, LogInv, ToolNext PROVE LogInv'
  OBVIOUS
<1>1. ASSUME NEW B \in Batches, ReserveTools(B) PROVE LogInv'
  <2>0. /\ SameMission /\ mem'.reservations = mem.reservations
        /\ op' = [kind |-> "reserve_tools", batch |-> B, undo |-> mem] /\ op = NoOp
        /\ UNCHANGED <<alive, startedStages, completedStages, log, ckpt, lastMission, model>>
    BY <1>1, ReserveToolsMoves DEF disk, clients, SameTokens
  <2>1. Numbered' /\ RecordedOnce' /\ StartUnrecorded'
    BY <2>0 DEF LogInv, Numbered, RecordedOnce, StartUnrecorded, Logged, SameMission, Saving
  <2>2. Closed'
    BY <2>0 DEF LogInv, Closed, Executed, Ended, Logged, SameMission
  <2>3. Owned' /\ Phased'
    BY <2>0 DEF LogInv, Owned, Phased, SameMission, NoOp, Reserving, Saving
  <2>4. UsageUnrecorded'
    BY <2>0 DEF LogInv, UsageUnrecorded, Logged
  <2>5. StagesUnrecorded'
    BY <2>0 DEF LogInv, StagesUnrecorded, Logged, NoOp, Restoring, SameMission
  <2>. QED
    BY <2>1, <2>2, <2>3, <2>4, <2>5 DEF LogInv
<1>2. ASSUME NEW B \in Batches, ToolsPause(B) \/ ResumeTools(B) \/ ToolResultFails(B) PROVE LogInv'
  <2>1. /\ UNCHANGED <<alive, mem, op, startedStages, completedStages, log, ckpt, lastMission, model>>
        /\ op = NoOp
    BY <1>2 DEF ToolsPause, ResumeTools, ToolResultFails, Idle, MemoryOnly, AppendFails, disk, engine
  <2>. QED
    BY <2>1, LogQuiet DEF SameMission, NoOp, Restoring, Saving
<1>3. ASSUME NEW B \in Batches, ReleaseTools(B) PROVE LogInv'
  <2>1. /\ SameMission /\ mem'.reservations = mem.reservations
        /\ op' = NoOp \/ op' = Saving("none")
        /\ op = NoOp
        /\ UNCHANGED <<alive, startedStages, completedStages, log, ckpt, lastMission, model>>
    BY <1>3, ReleaseToolsMoves DEF disk, SameTokens, Saving
  <2>. QED
    BY <2>1, LogQuiet DEF NoOp, Restoring, Saving
<1>4. CASE ReserveToolsSaved
  <2>1. /\ ckpt' = mem /\ op.kind = "reserve_tools" /\ op'.kind = "log_calls" /\ alive
        /\ UNCHANGED <<alive, mem, startedStages, completedStages, log, lastMission, model>>
    BY <1>4 DEF ReserveToolsSaved, SaveCheckpoint, TypeInv, TypeOK, NoOp, clients
  <2>. QED
    BY <2>1, LogSaves DEF Restoring, Reserving
<1>5. CASE ReserveToolsFails
  <2>1. /\ mem' = op.undo /\ op' = NoOp /\ op.kind = "reserve_tools"
        /\ UNCHANGED <<alive, startedStages, completedStages, log, ckpt, lastMission, model>>
    BY <1>5 DEF ReserveToolsFails, SaveFails, disk, clients
  <2>2. mem'.mission = mem.mission /\ mem'.phase = mem.phase
    BY <2>1 DEF TypeInv, UndoOK, LogInv, Phased, Reserving
  <2>4. Numbered' /\ RecordedOnce' /\ StartUnrecorded'
    BY <2>1, <2>2 DEF LogInv, Numbered, RecordedOnce, StartUnrecorded, Logged, NoOp, Saving
  <2>5. Closed'
    BY <2>1, <2>2 DEF LogInv, Closed, Executed, Ended, Logged
  <2>6. Owned' /\ Phased'
    BY <2>1, <2>2 DEF LogInv, Owned, Phased, NoOp, Reserving, Saving
  <2>7. UsageUnrecorded'
    BY <2>1 DEF LogInv, UsageUnrecorded, Logged, NoOp
  <2>8. StagesUnrecorded'
    BY <2>1, <2>2 DEF LogInv, StagesUnrecorded, Logged, NoOp, Restoring
  <2>. QED
    BY <2>4, <2>5, <2>6, <2>7, <2>8 DEF LogInv
<1>6. ASSUME NEW k \in Slots, ToolCallLogged(k) PROVE LogInv'
  <2> DEFINE e == ToolCall(mem.mission, k)
  <2>1. /\ op.kind = "log_calls" /\ alive /\ mem.mission \in Missions /\ RecordEvent(e)
        /\ UNCHANGED <<alive, mem, startedStages, completedStages, lastMission, model>>
    BY <1>6, Typed DEF ToolCallLogged, TypeInv, TypeOK, NoOp
  <2>0. op'.kind \in {"none", "log_calls"}
    BY <1>6, Typed DEF ToolCallLogged, NoOp, OpKinds
  <2>2. e \in Events /\ e[1] = "tool_call" /\ e[2] = mem.mission
    BY <2>1, EventsMade, EventsName
  <2>3. ckpt.mission = mem.mission
    BY <2>1 DEF LogInv, Owned
  <2> HIDE DEF e
  <2>4. Numbered' /\ Closed' /\ RecordedOnce' /\ UNCHANGED ckpt
    BY <2>1, <2>2, <2>3, LogAppends
  <2>5. StartUnrecorded' /\ Owned' /\ Phased'
    BY <2>0, <2>1, <2>3, <2>4 DEF LogInv, StartUnrecorded, Owned, Phased, Saving, Reserving
  <2>6. UsageUnrecorded'
    BY <2>0, <2>1, <2>2, Elsewhere, EventsName DEF LogInv, UsageUnrecorded
  <2>7. StagesUnrecorded'
    BY <2>0, <2>1, <2>2, Elsewhere, EventsName DEF LogInv, StagesUnrecorded, Restoring
  <2>. QED
    BY <2>4, <2>5, <2>6, <2>7 DEF LogInv
<1>. QED
  BY <1>1, <1>2, <1>3, <1>4, <1>5, <1>6 DEF ToolNext

\* An event that an operation appends last, and that begins nothing else.
LEMMA LogLast ==
    ASSUME TypeInv, LogInv, alive, NEW e \in Events, RecordEvent(e), e[2] = mem.mission,
           e[1] \in {"stage_started", "stage_completed", "mission_started", "mission_ended"},
           e[1] # "mission_ended" => ~Logged(e),
           UNCHANGED <<alive, mem, lastMission, model>>,
           startedStages \subseteq startedStages', completedStages \subseteq completedStages',
           e[1] = "stage_started" => e[3] \in startedStages',
           e[1] = "stage_completed" => e[3] \in completedStages',
           op.kind # "reserve_model",
           op' \in {NoOp, Saving("none"), [kind |-> "restore_stages"]},
           op'.kind \in Restoring \/ op.kind \notin Restoring
    PROVE  LogInv'
<1>1. Numbered' /\ Closed' /\ RecordedOnce' /\ UNCHANGED ckpt
  BY LogAppends
<1>2. StartUnrecorded' /\ Owned' /\ Phased'
  BY <1>1 DEF LogInv, StartUnrecorded, Owned, Phased, Saving, Reserving, NoOp
<1>3. UsageUnrecorded'
  BY Elsewhere, EventsName DEF LogInv, UsageUnrecorded, NoOp, Saving
<1>4. StagesUnrecorded'
  BY Elsewhere, EventsName, Typed DEF LogInv, StagesUnrecorded, NoOp, Saving, Restoring
<1>. QED
  BY <1>1, <1>2, <1>3, <1>4 DEF LogInv

\* Beginning a record keeps the story, if it is not in the log.
LEMMA LogBegins ==
    ASSUME TypeInv, LogInv, op = NoOp, alive, UNCHANGED <<alive, log, ckpt, lastMission, model>>,
           startedStages' = startedStages, completedStages' = completedStages,
           mem'.mission = mem.mission, mem'.reservations = mem.reservations,
           mem.phase \in Outcomes => mem'.phase = mem.phase,
           op'.kind \in {"log_stage_started", "log_stage_completed", "log_outcome"} \/ op' = Saving("log_outcome"),
           op'.kind = "log_outcome" \/ op' = Saving("log_outcome") => mem'.phase \in Outcomes,
           op'.kind = "log_stage_started" => op'.stage \notin startedStages,
           op'.kind = "log_stage_completed" => op'.stage \notin completedStages
    PROVE  LogInv'
<1>1. Numbered' /\ RecordedOnce' /\ StartUnrecorded'
  BY DEF LogInv, Numbered, RecordedOnce, StartUnrecorded, Logged, Saving
<1>2. Closed'
  BY DEF LogInv, Closed, Executed, Ended, Logged
<1>3. Owned' /\ Phased'
  BY DEF LogInv, Owned, Phased, NoOp, Reserving, Saving
<1>4. UsageUnrecorded'
  BY DEF LogInv, UsageUnrecorded, Logged, Saving
<1>5. StagesUnrecorded'
  BY DEF LogInv, StagesUnrecorded, Logged, NoOp, Restoring, Saving
<1>. QED
  BY <1>1, <1>2, <1>3, <1>4, <1>5 DEF LogInv

\* The steps of stages and outcomes keep the story.
LEMMA LogMission == TypeInv /\ LogInv /\ MissionNext => LogInv'
<1> SUFFICES ASSUME TypeInv, LogInv, MissionNext PROVE LogInv'
  OBVIOUS
<1>0. op = NoOp \/ alive
  BY DEF TypeInv, TypeOK
<1>1. ASSUME NEW s \in Stages, RecordStageStarted(s) \/ RecordStageCompleted(s) PROVE LogInv'
  <2>1. /\ op = NoOp /\ alive
        /\ UNCHANGED <<alive, mem, startedStages, completedStages, log, ckpt, lastMission, model>>
        /\ \/ op' = [kind |-> "log_stage_started", stage |-> s] /\ s \notin startedStages
           \/ op' = [kind |-> "log_stage_completed", stage |-> s] /\ s \notin completedStages
    BY <1>1 DEF RecordStageStarted, RecordStageCompleted, Idle, MemoryOnly, disk, clients
  <2>2. /\ op'.kind \in {"log_stage_started", "log_stage_completed"} /\ op' # Saving("log_outcome")
        /\ op'.kind = "log_stage_started" => op'.stage \notin startedStages
        /\ op'.kind = "log_stage_completed" => op'.stage \notin completedStages
    BY <2>1 DEF Saving
  <2>. QED
    BY <2>1, <2>2, LogBegins
<1>2. CASE StageStartedLogged
  <2> DEFINE e == StageStarted(mem.mission, op.stage)
  <2>1. /\ op.kind = "log_stage_started" /\ op.stage \in Stages /\ alive /\ mem.mission \in Missions
        /\ RecordEvent(e) /\ op' = NoOp
        /\ startedStages' = startedStages \cup {op.stage}
        /\ UNCHANGED <<alive, mem, completedStages, lastMission, model>>
    BY <1>0, <1>2, Typed, OpFields DEF StageStartedLogged, clients, NoOp
  <2>2. e \in Events /\ e[1] = "stage_started" /\ e[2] = mem.mission /\ e[3] = op.stage
    BY <2>1, EventsMade, EventsName
  <2>3. ~Logged(e)
    BY <2>1 DEF LogInv, StagesUnrecorded, Restoring
  <2> HIDE DEF e
  <2>. QED
    BY <2>1, <2>2, <2>3, LogLast DEF Restoring, NoOp
<1>3. CASE StageCompletedLogged
  <2> DEFINE e == StageCompleted(mem.mission, op.stage)
  <2>1. /\ op.kind = "log_stage_completed" /\ op.stage \in Stages /\ alive /\ mem.mission \in Missions
        /\ RecordEvent(e) /\ op' = Saving("none")
        /\ completedStages' = completedStages \cup {op.stage}
        /\ UNCHANGED <<alive, mem, startedStages, lastMission, model>>
    BY <1>0, <1>3, Typed, OpFields DEF StageCompletedLogged, clients, NoOp, Saving
  <2>2. e \in Events /\ e[1] = "stage_completed" /\ e[2] = mem.mission /\ e[3] = op.stage
    BY <2>1, EventsMade, EventsName
  <2>3. ~Logged(e)
    BY <2>1 DEF LogInv, StagesUnrecorded, Restoring
  <2> HIDE DEF e
  <2>. QED
    BY <2>1, <2>2, <2>3, LogLast DEF Restoring
<1>4. ASSUME NEW p \in Outcomes, RecordOutcome(p) PROVE LogInv'
  <2>1. /\ mem'.mission = mem.mission /\ mem'.phase = p /\ mem'.reservations = mem.reservations
        /\ mem.phase \in {"OBSERVE", p}
        /\ op' \in {Saving("log_outcome"), [kind |-> "log_outcome", then |-> "none"]}
        /\ op = NoOp /\ alive
        /\ UNCHANGED <<alive, startedStages, completedStages, log, ckpt, lastMission, model>>
    BY <1>4, RecordOutcomeMoves DEF SameTokens, disk, clients, Saving
  <2>. QED
    BY <2>1, LogBegins DEF Outcomes, Saving
<1>5. ASSUME op.kind = "log_outcome", RecordEvent(MissionEnded(mem.mission, mem.phase))
      PROVE  /\ MissionEnded(mem.mission, mem.phase) \in Events /\ alive /\ mem.mission \in Missions
             /\ mem.phase \in Outcomes
             /\ MissionEnded(mem.mission, mem.phase)[1] = "mission_ended"
             /\ MissionEnded(mem.mission, mem.phase)[2] = mem.mission
  <2>1. mem.phase \in Outcomes /\ alive /\ mem.mission \in Missions
    BY <1>0, <1>5, Typed DEF LogInv, Phased, NoOp
  <2>. QED
    BY <2>1, EventsMade, EventsName
<1>6. CASE OutcomeLogged
  <2>1. /\ op.kind = "log_outcome" /\ RecordEvent(MissionEnded(mem.mission, mem.phase)) /\ op' = NoOp
        /\ UNCHANGED <<alive, mem, startedStages, completedStages, lastMission, model>>
    BY <1>6 DEF OutcomeLogged, clients
  <2>. QED
    BY <1>5, <2>1, LogLast DEF Restoring, NoOp
<1>7. CASE BeginExecution
  <2>1. CASE EndedUnlogged(mem)
    <3>1. /\ op = NoOp /\ alive /\ mem.phase \in Outcomes
          /\ UNCHANGED <<alive, mem, startedStages, completedStages, log, ckpt, lastMission, model>>
          /\ op' = [kind |-> "log_outcome", then |-> "new_mission"]
      BY <1>7, <2>1 DEF BeginExecution, Idle, MemoryOnly, disk, clients
    <3>. QED
      BY <3>1, LogBegins DEF Saving
  <2>2. CASE ~EndedUnlogged(mem)
    <3>1. /\ NewMission(Saving("log_start")) /\ lastMission < MaxMissions /\ alive
          /\ UNCHANGED <<alive, log, ckpt, model>>
      BY <1>7, <2>2 DEF BeginExecution, Idle, MemoryOnly, disk, clients, Saving
    <3>2. mem.phase \in Outcomes /\ Logged(MissionEnded(mem.mission, mem.phase))
      BY <1>7, <2>2 DEF BeginExecution, EndedUnlogged
    <3>3. PICK old : old = mem.mission
      OBVIOUS
    <3>4. Ended(old)'
      BY <3>1, <3>2, <3>3 DEF Ended, Logged
    <3>5. RecordedOnce' /\ \A e \in Events : Logged(e)' <=> Logged(e)
      BY <3>1 DEF LogInv, RecordedOnce, Logged
    <3>. QED
      BY <3>1, <3>3, <3>4, <3>5, LogNewMission
  <2>. QED
    BY <2>1, <2>2
<1>8. CASE BeginExecutionLogged
  <2> DEFINE e == MissionEnded(mem.mission, mem.phase)
  <2>1. /\ op.kind = "log_outcome" /\ op.then = "new_mission" /\ RecordEvent(e)
        /\ NewMission(Saving("log_start")) /\ UNCHANGED <<alive, model>>
    BY <1>8 DEF BeginExecutionLogged, clients, Saving
  <2>2. /\ e \in Events /\ alive /\ mem.mission \in Missions /\ mem.phase \in Outcomes
        /\ e[1] = "mission_ended" /\ e[2] = mem.mission
    BY <1>5, <2>1
  <2>3. lastMission < MaxMissions
    BY <2>1, Typed, OpFields DEF TypeInv, NextOK
  <2>4. PICK old : old = mem.mission
    OBVIOUS
  <2>5. PICK phase : phase = mem.phase
    OBVIOUS
  <2>6. e = MissionEnded(old, phase) /\ phase \in Outcomes
    BY <2>2, <2>4, <2>5
  <2> HIDE DEF e
  <2>7. /\ \A x \in Events : log'[x] = IF x = e THEN log[x] + 1 ELSE log[x]
        /\ \A x \in Events : Logged(x)' <=> Logged(x) \/ x = e
        /\ UNCHANGED <<ckpt, faults>>
    BY <2>1, <2>2, Appended, Typed
  <2>8. Logged(MissionEnded(old, phase))'
    <3>1. \A x \in Events : x = e => Logged(x)'
      BY <2>7
    <3>. QED
      BY <3>1, <2>2, <2>6
  <2>9. Ended(old)'
    BY <2>6, <2>8 DEF Ended
  <2>10. RecordedOnce'
    BY <2>2, <2>7 DEF LogInv, RecordedOnce
  <2>. QED
    BY <2>1, <2>2, <2>3, <2>4, <2>7, <2>9, <2>10, LogNewMission
<1>9. CASE MissionStartedLogged
  <2> DEFINE e == MissionStarted(mem.mission)
  <2>1. /\ op.kind = "log_start" /\ alive /\ mem.mission \in Missions /\ RecordEvent(e) /\ op' = NoOp
        /\ UNCHANGED <<alive, mem, startedStages, completedStages, lastMission, model>>
    BY <1>0, <1>9, Typed DEF MissionStartedLogged, clients, NoOp
  <2>2. e \in Events /\ e[1] = "mission_started" /\ e[2] = mem.mission
    BY <2>1, EventsMade, EventsName
  <2>3. ~Logged(e)
    BY <2>1 DEF LogInv, StartUnrecorded
  <2> HIDE DEF e
  <2>. QED
    BY <2>1, <2>2, <2>3, LogLast DEF Restoring, NoOp
<1>10. CASE Saved
  <2>1. /\ op.kind = "save" /\ ckpt' = mem /\ alive
        /\ UNCHANGED <<alive, mem, startedStages, completedStages, log, lastMission, model>>
        /\ \/ op' = NoOp
           \/ op.then = "log_outcome" /\ op' = [kind |-> "log_outcome", then |-> "none"]
           \/ op.then = "log_start" /\ op' = [kind |-> "log_start"]
    BY <1>0, <1>10, OpFields, Typed DEF Saved, SaveCheckpoint, clients, NoOp
  <2>2. op = Saving(op.then)
    BY <2>1, Typed DEF OpKinds, Saving
  <2>3. /\ op'.kind \in {"none", "log_outcome", "log_start"}
        /\ op'.kind = "log_outcome" => op = Saving("log_outcome")
        /\ op'.kind = "log_start" => op = Saving("log_start")
    BY <2>1, <2>2 DEF NoOp
  <2>. QED
    BY <2>1, <2>3, LogSaves DEF Reserving, Restoring
<1>11. CASE SavedFails \/ LastAppendFails
  <2>1. /\ op.kind \in {"save", "log_usage", "log_calls", "log_outcome", "log_start",
                        "log_stage_started", "log_stage_completed"}
        /\ op' = NoOp
        /\ UNCHANGED <<alive, mem, startedStages, completedStages, log, ckpt, lastMission, model>>
    BY <1>11 DEF SavedFails, LastAppendFails, SaveFails, AppendFails, disk, clients
  <2>. QED
    BY <2>1, LogQuiet DEF SameMission, NoOp, Restoring, Saving
<1>. QED
  BY <1>1, <1>2, <1>3, <1>4, <1>6, <1>7, <1>8, <1>9, <1>10, <1>11
     DEF MissionNext, RecordMissionCompleted, RecordMissionFailed, Outcomes

\* The steps of initialize, and a crash, keep the story.
LEMMA LogStart == TypeInv /\ LogInv /\ StartNext => LogInv'
<1> SUFFICES ASSUME TypeInv, LogInv, StartNext PROVE LogInv'
  OBVIOUS
<1>0. op = NoOp \/ alive
  BY DEF TypeInv, TypeOK
<1>1. CASE StartFresh
  <2>1. /\ NewMission([kind |-> "init_start"]) /\ lastMission < MaxMissions /\ ~alive /\ alive'
        /\ ckpt = NoState /\ UNCHANGED <<log, ckpt, model>>
    BY <1>1 DEF StartFresh, MemoryOnly, disk, clients
  <2>2. RecordedOnce' /\ \A e \in Events : Logged(e)' <=> Logged(e)
    BY <2>1 DEF LogInv, RecordedOnce, Logged
  <2>. QED
    BY <2>1, <2>2, LogNewMission
<1>2. CASE StartFreshLogged
  <2> DEFINE e == MissionStarted(mem.mission)
  <2>1. /\ op.kind = "init_start" /\ alive /\ mem.mission \in Missions /\ RecordEvent(e) /\ op' = NoOp
        /\ UNCHANGED <<alive, mem, startedStages, completedStages, lastMission, model>>
    BY <1>0, <1>2, Typed DEF StartFreshLogged, clients, NoOp
  <2>2. e \in Events /\ e[1] = "mission_started" /\ e[2] = mem.mission
    BY <2>1, EventsMade, EventsName
  <2>3. ~Logged(e)
    BY <2>1 DEF LogInv, StartUnrecorded
  <2> HIDE DEF e
  <2>. QED
    BY <2>1, <2>2, <2>3, LogLast DEF Restoring, NoOp
<1>3. CASE Restore
  <2>1. /\ mem' = ckpt /\ op' = [kind |-> "restore_usage", changed |-> FALSE] /\ ~alive /\ ckpt # NoState
        /\ UNCHANGED <<startedStages, completedStages, log, ckpt, lastMission, model>>
    BY <1>3 DEF Restore, MemoryOnly, disk, clients
  <2>2. ckpt.mission # 0 /\ mem.mission = 0 /\ op = NoOp
    BY <1>0, <2>1, Typed DEF TypeInv, CkptOK
  <2>3. Numbered' /\ RecordedOnce'
    BY <2>1, Typed DEF LogInv, Numbered, RecordedOnce, Logged
  <2>4. Owned' /\ Phased' /\ StartUnrecorded' /\ StagesUnrecorded'
    BY <2>1 DEF Owned, Phased, StartUnrecorded, StagesUnrecorded, Reserving, Restoring, Saving
  <2>5. Closed'
    BY <2>1 DEF LogInv, Closed, Executed, Ended, Logged
  <2>6. UsageUnrecorded'
    BY <2>1 DEF LogInv, UsageUnrecorded, Logged
  <2>. QED
    BY <2>3, <2>4, <2>5, <2>6 DEF LogInv
<1>4. ASSUME NEW i \in Invocations, RestoreUsage(i) PROVE LogInv'
  <2>1. /\ SameMission /\ mem'.reservations \subseteq mem.reservations
        /\ op.kind = "restore_usage" /\ op'.kind = "restore_usage"
        /\ UNCHANGED <<alive, startedStages, completedStages, log, ckpt, lastMission, model>>
    BY <1>4, RestoreUsageMoves DEF disk, clients
  <2>. QED
    BY <2>1, LogQuiet DEF Restoring, Saving
<1>5. CASE RestoreOrphans
  <2>1. /\ SameMission /\ mem'.reservations \subseteq mem.reservations
        /\ op.kind = "restore_usage" /\ op'.kind \in {"init_save", "restore_tools"}
        /\ UNCHANGED <<alive, startedStages, completedStages, log, ckpt, lastMission, model>>
    BY <1>5, RestoreOrphansMoves DEF disk, clients
  <2>. QED
    BY <2>1, LogQuiet DEF Restoring, Saving
<1>6. CASE RestoreTools
  <2>1. /\ SameMission /\ mem'.reservations = mem.reservations
        /\ op.kind = "restore_tools" /\ op'.kind \in {"init_save", "restore_outcome"}
        /\ UNCHANGED <<alive, startedStages, completedStages, log, ckpt, lastMission, model>>
    BY <1>6, RestoreToolsMoves DEF disk, clients, SameTokens
  <2>. QED
    BY <2>1, LogQuiet DEF Restoring, Saving
<1>7. CASE InitSaved
  <2>1. /\ ckpt' = mem /\ op.kind = "init_save" /\ alive
        /\ op'.kind \in {"restore_tools", "restore_outcome"}
        /\ UNCHANGED <<alive, mem, startedStages, completedStages, log, lastMission, model>>
    BY <1>0, <1>7, OpFields, Typed DEF InitSaved, SaveCheckpoint, clients, NoOp
  <2>. QED
    BY <2>1, LogSaves DEF Restoring, Reserving
<1>8. CASE RestoreOutcome
  <2>1. /\ op.kind = "restore_outcome" /\ alive /\ op' = [kind |-> "restore_stages"]
        /\ UNCHANGED <<alive, mem, startedStages, completedStages, lastMission, model>>
    BY <1>0, <1>8 DEF RestoreOutcome, clients, NoOp
  <2>2. CASE EndedUnlogged(mem)
    <3> DEFINE e == MissionEnded(mem.mission, mem.phase)
    <3>1. RecordEvent(e) /\ mem.phase \in Outcomes /\ mem.mission \in Missions
      BY <1>8, <2>1, <2>2, Typed DEF RestoreOutcome, EndedUnlogged
    <3>2. e \in Events /\ e[1] = "mission_ended" /\ e[2] = mem.mission
      BY <3>1, EventsMade, EventsName
    <3> HIDE DEF e
    <3>. QED
      BY <2>1, <3>1, <3>2, LogLast DEF Restoring
  <2>3. CASE ~EndedUnlogged(mem)
    <3>1. UNCHANGED <<log, ckpt>>
      BY <1>8, <2>3 DEF RestoreOutcome, MemoryOnly, disk
    <3>. QED
      BY <2>1, <3>1, LogQuiet DEF Restoring, Saving, SameMission
  <2>. QED
    BY <2>2, <2>3
<1>9. CASE RestoreStages
  <2>1. /\ startedStages'   = {s \in Stages : Logged(StageStarted(mem.mission, s))}
        /\ completedStages' = {s \in Stages : Logged(StageCompleted(mem.mission, s))}
        /\ op' = NoOp /\ op.kind = "restore_stages"
        /\ UNCHANGED <<alive, mem, log, ckpt, lastMission, model>>
    BY <1>9 DEF RestoreStages, MemoryOnly, disk, clients
  <2>2. Numbered' /\ RecordedOnce' /\ StartUnrecorded'
    BY <2>1 DEF LogInv, Numbered, RecordedOnce, StartUnrecorded, Logged, NoOp, Saving
  <2>3. Closed'
    BY <2>1 DEF LogInv, Closed, Executed, Ended, Logged
  <2>4. Owned' /\ Phased'
    BY <2>1 DEF LogInv, Owned, Phased, NoOp, Reserving, Saving
  <2>5. UsageUnrecorded'
    BY <2>1 DEF LogInv, UsageUnrecorded, Logged, NoOp
  <2>6. StagesUnrecorded'
    BY <2>1 DEF StagesUnrecorded, Logged, NoOp
  <2>. QED
    BY <2>2, <2>3, <2>4, <2>5, <2>6 DEF LogInv
<1>10. CASE StartFails \/ Crash
  <2>1. /\ mem'.mission = 0 /\ mem'.reservations = {} /\ mem'.phase = "OBSERVE" /\ op' = NoOp /\ ~alive'
        /\ \A i \in Invocations : model'[i] # model[i] => model[i] # "settled"
        /\ UNCHANGED <<log, ckpt, lastMission>>
    BY <1>10, HaltMoves DEF disk
  <2>2. Numbered' /\ RecordedOnce' /\ StartUnrecorded'
    BY <2>1, Typed DEF LogInv, Numbered, RecordedOnce, StartUnrecorded, Logged, NoOp, Saving
  <2>3. Closed'
    BY <2>1, Typed DEF LogInv, Closed, Executed, Ended, Logged
  <2>4. Owned' /\ Phased'
    <3>1. ckpt.mission = 0 => ckpt.phase = "OBSERVE"
      BY DEF TypeInv, CkptOK, NoState, InitialState
    <3>. QED
      BY <2>1, <3>1 DEF Owned, Phased, NoOp, Reserving, Saving, Outcomes
  <2>5. UsageUnrecorded'
    BY <2>1 DEF LogInv, UsageUnrecorded, Logged, NoOp
  <2>6. StagesUnrecorded'
    BY <2>1 DEF StagesUnrecorded, NoOp
  <2>. QED
    BY <2>2, <2>3, <2>4, <2>5, <2>6 DEF LogInv
<1>. QED
  BY <1>1, <1>2, <1>3, <1>4, <1>5, <1>6, <1>7, <1>8, <1>9, <1>10 DEF StartNext

\* Every step keeps the story.
LEMMA LogStep == TypeInv /\ LogInv /\ [Next]_vars => LogInv'
<1>1. LogInv /\ UNCHANGED vars => LogInv'
  BY DEF LogInv, Numbered, Owned, Closed, Phased, UsageUnrecorded, StagesUnrecorded, StartUnrecorded,
         RecordedOnce, Executed, Ended, Logged, vars, engine, disk, clients
<1>. QED
  BY <1>1, LogModel, LogTools, LogMission, LogStart DEF Next

\* What the checkpoint shows as ended stays so: it is replaced by one of a later mission, or by one of
\* the same mission, which has ended the same way.
THEOREM OutcomeIsFinal == Spec => DurableOutcomeIsFinal
<1> DEFINE Final == ckpt.phase \in Outcomes /\ ckpt'.mission = ckpt.mission => ckpt'.phase = ckpt.phase
<1>1. TypeInv /\ LogInv /\ [Next]_vars => [Final]_vars
  <2> SUFFICES ASSUME LogInv, Next PROVE Final
    BY DEF vars
  <2>1. ckpt' = ckpt \/ ckpt' = mem
    <3>1. CASE ModelNext
      BY <3>1 DEF ModelNext, ReserveModel, ModelAnswers, ChargeModel, ChargeModelUnknown, ReserveModelSaved,
                  ReserveModelFails, UsageLogged, MemoryOnly, SaveCheckpoint, SaveFails, RecordEvent, disk
    <3>2. CASE ToolNext
      BY <3>2 DEF ToolNext, ReserveTools, ToolsPause, ResumeTools, ReleaseTools, ToolResultFails,
                  ReserveToolsSaved, ReserveToolsFails, ToolCallLogged, MemoryOnly, SaveCheckpoint, SaveFails,
                  AppendFails, RecordEvent, disk
    <3>3. CASE MissionNext
      BY <3>3 DEF MissionNext, RecordStageStarted, RecordStageCompleted, StageStartedLogged, StageCompletedLogged,
                  RecordMissionCompleted, RecordMissionFailed, RecordOutcome, OutcomeLogged, BeginExecution,
                  BeginExecutionLogged, MissionStartedLogged, Saved, SavedFails, LastAppendFails, MemoryOnly,
                  SaveCheckpoint, SaveFails, AppendFails, RecordEvent, disk
    <3>4. CASE StartNext
      BY <3>4 DEF StartNext, StartFresh, StartFreshLogged, Restore, RestoreUsage, RestoreOrphans, RestoreTools,
                  InitSaved, RestoreOutcome, RestoreStages, StartFails, Crash, MemoryOnly, SaveCheckpoint,
                  SaveFails, AppendFails, RecordEvent, disk
    <3>. QED
      BY <3>1, <3>2, <3>3, <3>4 DEF Next
  <2>. QED
    BY <2>1 DEF LogInv, Phased
<1>. QED
  BY <1>1, TypeInit, TypeStep, LogInit, LogStep, PTL DEF Spec, DurableOutcomeIsFinal

\* A mission that executed anything is not replaced before its outcome is in the log, whatever fails.
THEOREM MissionsAreClosed == Spec => []ReplacedMissionsAreClosed
<1>1. LogInv => ReplacedMissionsAreClosed
  BY DEF LogInv, Closed, Executed, Ended, ReplacedMissionsAreClosed
<1>. QED
  BY <1>1, TypeInit, TypeStep, LogInit, LogStep, PTL DEF Spec

\* What is recorded once is in the log once, whatever fails; the end of a mission apart.
THEOREM RecordsAreUnique == Spec => []RecordedOnce
<1>1. LogInv => RecordedOnce
  BY DEF LogInv
<1>. QED
  BY <1>1, TypeInit, TypeStep, LogInit, LogStep, PTL DEF Spec

-----------------------------------------------------------------------------
(***************************************************************************)
(* The outcome of a mission, as long as no save fails.  Then a checkpoint  *)
(* shows the outcome before the log does, so that neither a retry nor a    *)
(* restart finds the mission open that has an outcome in the log.  When    *)
(* saves fail it is not so: the outcome may be logged while the checkpoint *)
(* still shows the mission open, and after a crash it ends once more.      *)
(***************************************************************************)
Deciding == op = Saving("log_outcome")

OutcomeInv ==
    /\ \A m \in Missions, p \in Outcomes : Logged(MissionEnded(m, p)) =>
          (m = mem.mission => mem.phase = p) /\ (m = ckpt.mission => ckpt.phase = p)
    /\ mem.phase \in Outcomes /\ ~Deciding => ckpt.mission = mem.mission /\ ckpt.phase = mem.phase
    /\ Deciding \/ op.kind = "log_outcome" => ~Logged(MissionEnded(mem.mission, mem.phase))
    /\ \A m \in Missions, p, q \in Outcomes :
          Logged(MissionEnded(m, p)) /\ Logged(MissionEnded(m, q)) => p = q
    /\ \A m \in Missions, p \in Outcomes : log[MissionEnded(m, p)] <= 1

\* Events of the end of missions are added by none of these steps.
NoEnds ==
    \A m \in Missions, p \in Outcomes : log'[MissionEnded(m, p)] = log[MissionEnded(m, p)]

\* Where no save may fail none does.
LEMMA NoSaveFails == TypeInv /\ MaxSaveFailures = 0 => ~SaveFails
BY DEF TypeInv, TypeOK, SaveFails

\* An event of another kind is no end.
LEMMA OtherEvent ==
    ASSUME TypeInv, NEW e \in Events, RecordEvent(e), e[1] # "mission_ended"
    PROVE  NoEnds
BY Appended, EventsMade, EventsName, Typed DEF NoEnds

\* A step that ends nothing and saves nothing keeps the outcomes.
LEMMA OutcomeQuiet ==
    ASSUME TypeInv, LogInv, OutcomeInv, NoEnds, UNCHANGED ckpt, SameMission,
           op' = op \/ (~Deciding /\ op' # Saving("log_outcome") /\ op'.kind # "log_outcome")
    PROVE  OutcomeInv'
<1>1. \A m \in Missions, p \in Outcomes :
         /\ log'[MissionEnded(m, p)] = log[MissionEnded(m, p)]
         /\ Logged(MissionEnded(m, p))' <=> Logged(MissionEnded(m, p))
  BY DEF NoEnds, Logged
<1>2. op' = op /\ (Deciding \/ op.kind = "log_outcome") => ~Logged(MissionEnded(mem.mission, mem.phase))'
  <2> SUFFICES ASSUME op' = op, Deciding \/ op.kind = "log_outcome"
               PROVE  ~Logged(MissionEnded(mem.mission, mem.phase))'
    OBVIOUS
  <2>1. alive
    BY DEF TypeInv, TypeOK, Deciding, Saving, NoOp
  <2>2. mem.mission \in Missions /\ mem.phase \in Outcomes
    BY <2>1, Typed DEF LogInv, Phased, Deciding
  <2>3. ~Logged(MissionEnded(mem.mission, mem.phase))
    BY DEF OutcomeInv
  <2>4. \A m \in Missions, p \in Outcomes :
           m = mem.mission /\ p = mem.phase => ~Logged(MissionEnded(m, p))'
    BY <1>1, <2>3
  <2>. QED
    BY <2>2, <2>4 DEF SameMission
<1>3. Deciding' <=> op' = Saving("log_outcome")
  BY DEF Deciding
<1>. QED
  BY <1>1, <1>2, <1>3 DEF OutcomeInv, SameMission, Deciding

\* Saving keeps the outcomes.
LEMMA OutcomeSaves ==
    ASSUME TypeInv, OutcomeInv, ckpt' = mem, UNCHANGED <<mem, log>>, op' # Saving("log_outcome"),
           op'.kind = "log_outcome" => Deciding
    PROVE  OutcomeInv'
BY DEF OutcomeInv, Deciding, Logged

\* The outcome of the mission is appended when it is not in the log.
LEMMA OutcomeEnds ==
    ASSUME TypeInv, OutcomeInv, ~Deciding, alive, mem.phase \in Outcomes,
           RecordEvent(MissionEnded(mem.mission, mem.phase)),
           ~Logged(MissionEnded(mem.mission, mem.phase))
    PROVE  /\ \A m \in Missions, p \in Outcomes : Logged(MissionEnded(m, p))' =>
                 (m = mem.mission => mem.phase = p) /\ (m = ckpt.mission => ckpt.phase = p)
           /\ \A m \in Missions, p, q \in Outcomes :
                 Logged(MissionEnded(m, p))' /\ Logged(MissionEnded(m, q))' => p = q
           /\ \A m \in Missions, p \in Outcomes : log'[MissionEnded(m, p)] <= 1
           /\ UNCHANGED ckpt
<1> DEFINE e == MissionEnded(mem.mission, mem.phase)
<1>1. mem.mission \in Missions /\ e \in Events /\ e[2] = mem.mission /\ e[3] = mem.phase /\ RecordEvent(e)
      /\ ~Logged(e)
  BY Typed, EventsMade, EventsName
<1> HIDE DEF e
<1>2. /\ \A x \in Events : log'[x] = IF x = e THEN log[x] + 1 ELSE log[x]
      /\ \A x \in Events : Logged(x)' <=> Logged(x) \/ x = e
      /\ UNCHANGED ckpt
  BY <1>1, Appended, Typed
<1>3. \A m \in Missions, p \in Outcomes :
         Logged(MissionEnded(m, p))' <=> Logged(MissionEnded(m, p)) \/ (m = mem.mission /\ p = mem.phase)
  BY <1>1, <1>2, EventsMade, EventsName DEF e
<1>4. log[e] = 0
  BY <1>1, Typed DEF Logged
<1>5. \A m \in Missions, p \in Outcomes : log'[MissionEnded(m, p)] <= 1
  BY <1>2, <1>4, EventsMade DEF OutcomeInv
<1>. QED
  BY <1>2, <1>3, <1>5 DEF OutcomeInv

\* A mission that begins has no outcome.
LEMMA OutcomeNew ==
    ASSUME TypeInv, LogInv, NEW next, NewMission(next), lastMission < MaxMissions, UNCHANGED ckpt,
           next # Saving("log_outcome"), next.kind # "log_outcome",
           \A m \in Missions, p \in Outcomes : Logged(MissionEnded(m, p))' =>
                 m <= lastMission /\ (m = ckpt.mission => ckpt.phase = p),
           \A m \in Missions, p, q \in Outcomes :
                 Logged(MissionEnded(m, p))' /\ Logged(MissionEnded(m, q))' => p = q,
           \A m \in Missions, p \in Outcomes : log'[MissionEnded(m, p)] <= 1
    PROVE  OutcomeInv'
<1>1. mem'.mission = lastMission + 1 /\ mem'.phase = "OBSERVE" /\ op' = next
  BY NewMissionMoves
<1>2. \A m \in Missions, p \in Outcomes : Logged(MissionEnded(m, p))' => m # mem'.mission
  BY <1>1, Typed
<1>. QED
  BY <1>1, <1>2 DEF OutcomeInv, Deciding, Outcomes

\* What is logged is of a mission that has begun.
LEMMA EndsBegan ==
    ASSUME TypeInv, LogInv
    PROVE  \A m \in Missions, p \in Outcomes : Logged(MissionEnded(m, p)) => m <= lastMission
BY EventsMade, EventsName DEF LogInv, Numbered

\* Initially there is no outcome.
LEMMA OutcomeInit == Init => OutcomeInv
<1> SUFFICES ASSUME Init PROVE OutcomeInv
  OBVIOUS
<1>1. \A m \in Missions, p \in Outcomes : log[MissionEnded(m, p)] = 0
  BY EventsMade DEF Init
<1>2. mem.phase = "OBSERVE" /\ op = NoOp
  BY DEF Init, NoState, InitialState
<1>. QED
  BY <1>1, <1>2 DEF OutcomeInv, Logged, Deciding, NoOp, Saving, Outcomes

\* The steps of model invocations and of tool calls keep the outcomes.
LEMMA OutcomeClients ==
    TypeInv /\ LogInv /\ OutcomeInv /\ (ModelNext \/ ToolNext) => OutcomeInv'
<1> SUFFICES ASSUME TypeInv, LogInv, OutcomeInv, ModelNext \/ ToolNext PROVE OutcomeInv'
  OBVIOUS
<1>0. UNCHANGED log => NoEnds
  BY DEF NoEnds
<1>1. ASSUME NEW i \in Invocations, ReserveModel(i) \/ ChargeModel(i) PROVE OutcomeInv'
  <2>1. SameMission /\ UNCHANGED disk /\ op = NoOp /\ op'.kind \in {"reserve_model", "log_usage"}
    BY <1>1, ReserveModelMoves, ChargeModelMoves
  <2>. QED
    BY <1>0, <2>1, OutcomeQuiet DEF disk, Deciding, NoOp, Saving
<1>2. ASSUME NEW i \in Invocations, NEW c, ModelAnswers(i, c) \/ ChargeModelUnknown(i) PROVE OutcomeInv'
  BY <1>0, <1>2, OutcomeQuiet DEF ModelAnswers, ChargeModelUnknown, MemoryOnly, disk, engine, SameMission
<1>3. ASSUME NEW B \in Batches, ReserveTools(B) \/ ReleaseTools(B) PROVE OutcomeInv'
  <2>1. SameMission /\ UNCHANGED disk /\ op = NoOp
        /\ op' # Saving("log_outcome") /\ op'.kind # "log_outcome"
    BY <1>3, ReserveToolsMoves, ReleaseToolsMoves DEF NoOp, Saving
  <2>. QED
    BY <1>0, <2>1, OutcomeQuiet DEF disk, Deciding, NoOp, Saving
<1>4. ASSUME NEW B \in Batches, ToolsPause(B) \/ ResumeTools(B) \/ ToolResultFails(B) PROVE OutcomeInv'
  BY <1>0, <1>4, OutcomeQuiet
     DEF ToolsPause, ResumeTools, ToolResultFails, MemoryOnly, AppendFails, disk, engine, SameMission
<1>5. CASE ReserveModelSaved \/ ReserveToolsSaved
  BY <1>5, OutcomeSaves DEF ReserveModelSaved, ReserveToolsSaved, SaveCheckpoint, NoOp, Saving
<1>6. CASE ReserveModelFails \/ ReserveToolsFails
  <2>1. /\ mem' = op.undo /\ op' = NoOp /\ op.kind \in Reserving /\ UNCHANGED disk
    BY <1>6 DEF ReserveModelFails, ReserveToolsFails, SaveFails, Reserving
  <2>2. SameMission
    BY <2>1 DEF TypeInv, UndoOK, LogInv, Phased, Reserving, SameMission
  <2>. QED
    BY <1>0, <2>1, <2>2, OutcomeQuiet DEF disk, Deciding, NoOp, Saving, Reserving
<1>7. CASE UsageLogged
  <2>1. /\ op.kind = "log_usage" /\ RecordEvent(ModelUsage(mem.mission, op.id)) /\ UNCHANGED mem
        /\ op' = Saving("none")
    BY <1>7 DEF UsageLogged, Saving
  <2>2. op.id \in Invocations /\ mem.mission \in Missions
    BY <2>1, Typed, OpFields DEF TypeInv, TypeOK, NoOp
  <2>3. NoEnds /\ UNCHANGED ckpt
    BY <2>1, <2>2, OtherEvent, EventsMade, EventsName DEF RecordEvent
  <2>. QED
    BY <2>1, <2>3, OutcomeQuiet DEF SameMission, Deciding, Saving
<1>8. ASSUME NEW k \in Slots, ToolCallLogged(k) PROVE OutcomeInv'
  <2>1. op.kind = "log_calls" /\ RecordEvent(ToolCall(mem.mission, k)) /\ UNCHANGED mem
    BY <1>8 DEF ToolCallLogged
  <2>2. op'.kind \in {"none", "log_calls"} /\ mem.mission \in Missions
    BY <1>8, Typed DEF ToolCallLogged, NoOp, OpKinds, TypeInv, TypeOK
  <2>3. ToolCall(mem.mission, k) \in Events /\ ToolCall(mem.mission, k)[1] # "mission_ended"
    BY <2>2, EventsMade, EventsName
  <2>4. NoEnds /\ UNCHANGED ckpt
    BY <2>1, <2>3, OtherEvent DEF RecordEvent
  <2>. QED
    BY <2>1, <2>2, <2>4, OutcomeQuiet DEF SameMission, Deciding, Saving
<1>. QED
  BY <1>1, <1>2, <1>3, <1>4, <1>5, <1>6, <1>7, <1>8 DEF ModelNext, ToolNext

\* The steps of stages and outcomes keep the outcomes, where no save fails.
LEMMA OutcomeMission ==
    TypeInv /\ LogInv /\ OutcomeInv /\ MissionNext /\ ~SaveFails => OutcomeInv'
<1> SUFFICES ASSUME TypeInv, LogInv, OutcomeInv, MissionNext, ~SaveFails PROVE OutcomeInv'
  OBVIOUS
<1>0. (UNCHANGED log => NoEnds) /\ (op # NoOp => alive)
  BY DEF NoEnds, TypeInv, TypeOK
<1>1. ASSUME NEW s \in Stages, RecordStageStarted(s) \/ RecordStageCompleted(s) PROVE OutcomeInv'
  BY <1>0, <1>1, OutcomeQuiet
     DEF RecordStageStarted, RecordStageCompleted, Idle, MemoryOnly, disk, SameMission, Deciding, NoOp, Saving
<1>2. CASE StageStartedLogged \/ StageCompletedLogged \/ MissionStartedLogged
  <2>1. PICK e \in {StageStarted(mem.mission, op.stage), StageCompleted(mem.mission, op.stage),
                    MissionStarted(mem.mission)} :
           /\ RecordEvent(e) /\ UNCHANGED mem /\ op'.kind \in {"none", "save"} /\ op' # Saving("log_outcome")
           /\ op.kind \in {"log_stage_started", "log_stage_completed", "log_start"}
           /\ e # MissionStarted(mem.mission) => op.kind # "log_start"
    BY <1>2 DEF StageStartedLogged, StageCompletedLogged, MissionStartedLogged, NoOp, Saving
  <2>2. mem.mission \in Missions /\ (e # MissionStarted(mem.mission) => op.stage \in Stages)
    BY <1>0, <2>1, OpFields, Typed DEF NoOp
  <2>3. e \in Events /\ e[1] # "mission_ended"
    BY <2>1, <2>2, EventsMade, EventsName
  <2>4. NoEnds /\ UNCHANGED ckpt
    BY <2>1, <2>3, OtherEvent DEF RecordEvent
  <2>. QED
    BY <2>1, <2>4, OutcomeQuiet DEF SameMission, Deciding, Saving
<1>3. ASSUME NEW p \in Outcomes, RecordOutcome(p) PROVE OutcomeInv'
  <2>1. /\ mem'.mission = mem.mission /\ mem'.phase = p /\ UNCHANGED <<log, ckpt>> /\ op = NoOp /\ alive
        /\ \/ mem.phase = "OBSERVE" /\ op' = Saving("log_outcome")
           \/ /\ mem.phase = p /\ EndedUnlogged(mem)
              /\ op' = [kind |-> "log_outcome", then |-> "none"]
    BY <1>3, RecordOutcomeMoves DEF disk, Saving
  <2>2. mem.mission \in Missions /\ \A x : Logged(x)' <=> Logged(x)
    BY <2>1, Typed DEF Logged
  <2>3. CASE mem.phase = "OBSERVE" /\ op' = Saving("log_outcome")
    <3>1. \A q \in Outcomes : ~Logged(MissionEnded(mem.mission, q))
      BY <2>2, <2>3 DEF OutcomeInv, Outcomes
    <3>. QED
      BY <2>1, <2>2, <2>3, <3>1 DEF OutcomeInv, Deciding
  <2>4. CASE mem.phase = p /\ EndedUnlogged(mem) /\ op' = [kind |-> "log_outcome", then |-> "none"]
    BY <2>1, <2>2, <2>4 DEF OutcomeInv, Deciding, EndedUnlogged, NoOp, Saving
  <2>. QED
    BY <2>1, <2>3, <2>4
<1>4. op.kind = "log_outcome" => /\ ~Deciding /\ alive /\ mem.phase \in Outcomes
                                 /\ ~Logged(MissionEnded(mem.mission, mem.phase))
  BY <1>0 DEF OutcomeInv, LogInv, Phased, Deciding, Saving, NoOp
<1>5. CASE OutcomeLogged
  <2>1. /\ op.kind = "log_outcome" /\ RecordEvent(MissionEnded(mem.mission, mem.phase)) /\ op' = NoOp
        /\ UNCHANGED mem
    BY <1>5 DEF OutcomeLogged
  <2>. QED
    BY <1>4, <2>1, OutcomeEnds DEF OutcomeInv, Deciding, NoOp, Saving
<1>6. CASE BeginExecution
  <2>1. CASE EndedUnlogged(mem)
    BY <1>6, <2>1 DEF BeginExecution, Idle, MemoryOnly, disk, OutcomeInv, Deciding, Logged, EndedUnlogged,
                      NoOp, Saving
  <2>2. CASE ~EndedUnlogged(mem)
    <3>1. NewMission(Saving("log_start")) /\ lastMission < MaxMissions /\ UNCHANGED <<log, ckpt>>
      BY <1>6, <2>2 DEF BeginExecution, MemoryOnly, disk, Saving
    <3>2. Saving("log_start") # Saving("log_outcome") /\ Saving("log_start").kind # "log_outcome"
      BY DEF Saving
    <3>. QED
      BY <3>1, <3>2, EndsBegan, OutcomeNew DEF OutcomeInv, Logged
  <2>. QED
    BY <2>1, <2>2
<1>7. CASE BeginExecutionLogged
  <2>1. /\ op.kind = "log_outcome" /\ op.then = "new_mission"
        /\ RecordEvent(MissionEnded(mem.mission, mem.phase))
        /\ NewMission(Saving("log_start"))
    BY <1>7 DEF BeginExecutionLogged, Saving
  <2>2. lastMission < MaxMissions
    BY <2>1, Typed, OpFields DEF TypeInv, NextOK
  <2>3. Saving("log_start") # Saving("log_outcome") /\ Saving("log_start").kind # "log_outcome"
    BY DEF Saving
  <2>4. /\ \A m \in Missions, p \in Outcomes : Logged(MissionEnded(m, p))' =>
              (m = mem.mission => mem.phase = p) /\ (m = ckpt.mission => ckpt.phase = p)
        /\ \A m \in Missions, p, q \in Outcomes :
              Logged(MissionEnded(m, p))' /\ Logged(MissionEnded(m, q))' => p = q
        /\ \A m \in Missions, p \in Outcomes : log'[MissionEnded(m, p)] <= 1
        /\ UNCHANGED ckpt
    BY <1>4, <2>1, OutcomeEnds
  <2>5. \A m \in Missions, p \in Outcomes : Logged(MissionEnded(m, p))' => m <= lastMission
    <3>1. mem.mission \in Missions /\ mem.mission <= lastMission
      BY <1>4, <2>1, Typed DEF LogInv, Numbered
    <3>. QED
      BY <1>4, <2>1, <3>1, EndsBegan, Elsewhere, EventsMade, EventsName
  <2>. QED
    BY <2>1, <2>2, <2>3, <2>4, <2>5, OutcomeNew
<1>8. CASE Saved
  <2>1. /\ op.kind = "save" /\ ckpt' = mem /\ UNCHANGED <<mem, log>>
        /\ \/ op' = NoOp
           \/ op.then = "log_outcome" /\ op' = [kind |-> "log_outcome", then |-> "none"]
           \/ op.then = "log_start" /\ op' = [kind |-> "log_start"]
    BY <1>8, OpFields, Typed DEF Saved, SaveCheckpoint, NoOp
  <2>2. op = Saving(op.then)
    BY <2>1, Typed DEF OpKinds, Saving
  <2>. QED
    BY <2>1, <2>2, OutcomeSaves DEF Deciding, Saving, NoOp
<1>9. CASE LastAppendFails
  BY <1>0, <1>9, OutcomeQuiet DEF LastAppendFails, AppendFails, disk, SameMission, Deciding, NoOp, Saving
<1>. QED
  BY <1>1, <1>2, <1>3, <1>5, <1>6, <1>7, <1>8, <1>9
     DEF MissionNext, RecordMissionCompleted, RecordMissionFailed, Outcomes, SavedFails

\* The steps of initialize, and a crash, keep the outcomes.
LEMMA OutcomeStart == TypeInv /\ LogInv /\ OutcomeInv /\ StartNext => OutcomeInv'
<1> SUFFICES ASSUME TypeInv, LogInv, OutcomeInv, StartNext PROVE OutcomeInv'
  OBVIOUS
<1>0. (UNCHANGED log => NoEnds) /\ (op # NoOp => alive)
  BY DEF NoEnds, TypeInv, TypeOK
<1>1. CASE StartFresh
  <2>1. NewMission([kind |-> "init_start"]) /\ lastMission < MaxMissions /\ UNCHANGED <<log, ckpt>>
    BY <1>1 DEF StartFresh, MemoryOnly, disk
  <2>. QED
    BY <2>1, EndsBegan, OutcomeNew DEF OutcomeInv, Logged, Saving
<1>2. CASE StartFreshLogged
  <2>1. /\ op.kind = "init_start" /\ RecordEvent(MissionStarted(mem.mission)) /\ UNCHANGED mem /\ op' = NoOp
        /\ mem.mission \in Missions
    BY <1>0, <1>2, Typed DEF StartFreshLogged, NoOp
  <2>2. NoEnds /\ UNCHANGED ckpt
    BY <2>1, OtherEvent, EventsMade, EventsName DEF RecordEvent
  <2>. QED
    BY <2>1, <2>2, OutcomeQuiet DEF SameMission, Deciding, Saving, NoOp
<1>3. CASE Restore
  <2>1. mem' = ckpt /\ op'.kind = "restore_usage" /\ UNCHANGED <<log, ckpt>>
    BY <1>3 DEF Restore, MemoryOnly, disk
  <2>. QED
    BY <2>1 DEF OutcomeInv, Deciding, Saving, Logged
<1>4. ASSUME NEW i \in Invocations, RestoreUsage(i) PROVE OutcomeInv'
  BY <1>0, <1>4, RestoreUsageMoves, OutcomeQuiet DEF disk, Deciding, Saving
<1>5. CASE RestoreOrphans
  BY <1>0, <1>5, RestoreOrphansMoves, OutcomeQuiet DEF disk, Deciding, Saving
<1>6. CASE RestoreTools
  BY <1>0, <1>6, RestoreToolsMoves, OutcomeQuiet DEF disk, Deciding, Saving
<1>7. CASE InitSaved
  <2>1. ckpt' = mem /\ op'.kind \in {"restore_tools", "restore_outcome"} /\ UNCHANGED <<mem, log>>
    BY <1>7, OpFields, Typed DEF InitSaved, SaveCheckpoint
  <2>. QED
    BY <2>1, OutcomeSaves DEF Saving
<1>8. CASE RestoreOutcome
  <2>1. op.kind = "restore_outcome" /\ alive /\ op' = [kind |-> "restore_stages"] /\ UNCHANGED mem
    BY <1>0, <1>8 DEF RestoreOutcome, NoOp
  <2>2. CASE EndedUnlogged(mem)
    BY <1>8, <2>1, <2>2, OutcomeEnds DEF RestoreOutcome, EndedUnlogged, OutcomeInv, Deciding, Saving
  <2>3. CASE ~EndedUnlogged(mem)
    BY <1>0, <1>8, <2>1, <2>3, OutcomeQuiet DEF RestoreOutcome, MemoryOnly, disk, SameMission, Deciding, Saving
  <2>. QED
    BY <2>2, <2>3
<1>9. CASE RestoreStages
  BY <1>0, <1>9, OutcomeQuiet DEF RestoreStages, MemoryOnly, disk, SameMission, Deciding, NoOp, Saving
<1>10. CASE StartFails \/ Crash
  <2>1. mem'.mission = 0 /\ mem'.phase = "OBSERVE" /\ op' = NoOp /\ UNCHANGED <<log, ckpt>>
    BY <1>10, HaltMoves DEF disk
  <2>. QED
    BY <2>1, Typed DEF OutcomeInv, Deciding, NoOp, Saving, Logged, Outcomes
<1>. QED
  BY <1>1, <1>2, <1>3, <1>4, <1>5, <1>6, <1>7, <1>8, <1>9, <1>10 DEF StartNext

\* Every step keeps the outcomes, where no save fails.
LEMMA OutcomeStep ==
    ASSUME MaxSaveFailures = 0
    PROVE  TypeInv /\ LogInv /\ OutcomeInv /\ [Next]_vars => OutcomeInv'
<1>1. OutcomeInv /\ UNCHANGED vars => OutcomeInv'
  BY DEF OutcomeInv, Deciding, Logged, vars, engine, disk, clients
<1>. QED
  BY <1>1, NoSaveFails, OutcomeClients, OutcomeMission, OutcomeStart DEF Next

\* Where no save fails the log tells one story of every mission: at most one outcome, nothing twice that is
\* recorded once, and an outcome before another mission begins, whatever else fails and however often the
\* process dies.
THEOREM LogTellsOneStory ==
    ASSUME MaxSaveFailures = 0
    PROVE  Spec => []LogIsSound
<1>1. Init => TypeInv /\ LogInv /\ OutcomeInv
  BY TypeInit, LogInit, OutcomeInit
<1>2. TypeInv /\ LogInv /\ OutcomeInv /\ [Next]_vars => (TypeInv /\ LogInv /\ OutcomeInv)'
  BY TypeStep, LogStep, OutcomeStep
<1>3. TypeInv /\ LogInv /\ OutcomeInv => LogIsSound
  <2> SUFFICES ASSUME LogInv, OutcomeInv PROVE LogIsSound
    OBVIOUS
  <2>1. ExclusiveOutcome
    BY DEF OutcomeInv, ExclusiveOutcome, Outcomes
  <2>2. NoDuplicateEvents
    <3> SUFFICES ASSUME NEW e \in Events, e[1] # "tool_call" PROVE log[e] <= 1
      BY DEF NoDuplicateEvents
    <3>1. CASE e[1] = "mission_ended"
      <4>1. e[2] \in Missions /\ e[3] \in Outcomes /\ e = MissionEnded(e[2], e[3])
        BY <3>1 DEF Events, MissionEnded
      <4>. QED
        BY <4>1 DEF OutcomeInv
    <3>2. CASE e[1] # "mission_ended"
      BY <3>2 DEF LogInv, RecordedOnce
    <3>. QED
      BY <3>1, <3>2
  <2>3. ReplacedMissionsAreClosed
    BY DEF LogInv, Closed, Executed, Ended, ReplacedMissionsAreClosed
  <2>. QED
    BY <2>1, <2>2, <2>3 DEF LogIsSound
<1>. QED
  BY <1>1, <1>2, <1>3, PTL DEF Spec

-----------------------------------------------------------------------------
(***************************************************************************)
(* Tokens.  An invocation that consumed c tokens has the pairs <<i, 1>> to *)
(* <<i, c>>, so that the tokens of invocations are a set that can be       *)
(* counted.                                                                *)
(***************************************************************************)
\* What the invocations S consumed, if the charges are ch; of each the tokens after the first n.
TokensOf(ch, n, S) == UNION {{i} \X ((n + 1)..ch[i]) : i \in S}
Spent(ch, S) == Cardinality(TokensOf(ch, 0, S))

\* The tokens that are set aside for the invocations C and R: for those in C what they consumed, up to
\* their reservation, for those in R their reservation.
Within(ch, C)  == {t \in C \X (1..MaxTokensPerInvocation) : t[2] <= ch[t[1]]}
Held(ch, C, R) == Within(ch, C) \cup (R \X (1..MaxTokensPerInvocation))

Charged == [Invocations -> Nat]

\* The tokens of an invocation.
LEMMA TokensMember ==
    ASSUME NEW ch \in Charged, NEW n \in Nat, NEW S \in SUBSET Invocations
    PROVE  \A i, k : <<i, k>> \in TokensOf(ch, n, S) <=> i \in S /\ k \in (n + 1)..ch[i]
BY DEF TokensOf

\* There are finitely many tokens.
LEMMA TokensFinite ==
    ASSUME NEW ch \in Charged, NEW n \in Nat, NEW S \in SUBSET Invocations
    PROVE  IsFiniteSet(TokensOf(ch, n, S)) /\ Cardinality(TokensOf(ch, n, S)) \in Nat
<1> DEFINE f == [i \in S |-> {i} \X ((n + 1)..ch[i])]
           F == {f[i] : i \in S}
<1>1. IsFiniteSet(S)
  BY FiniteAssumption, FS_Subset
<1>2. f \in Surjection(S, F)
  BY DEF Surjection
<1>3. IsFiniteSet(F)
  BY <1>1, <1>2, FS_Surjection
<1>4. ASSUME NEW i \in S PROVE IsFiniteSet({i} \X ((n + 1)..ch[i]))
  <2>1. ch[i] \in Int /\ n + 1 \in Int
    BY DEF Charged
  <2>2. IsFiniteSet((n + 1)..ch[i]) /\ IsFiniteSet({i})
    BY <2>1, FS_Interval, FS_Singleton
  <2>. QED
    BY <2>2, FS_Product
<1>5. \A T \in F : IsFiniteSet(T)
  BY <1>4
<1>6. TokensOf(ch, n, S) = UNION F
  BY DEF TokensOf
<1>7. IsFiniteSet(TokensOf(ch, n, S))
  BY <1>3, <1>5, <1>6, FS_UNION
<1>. QED
  BY <1>7, FS_CardinalityType

\* More invocations have spent more.
LEMMA SpentMore ==
    ASSUME NEW ch \in Charged, NEW S \in SUBSET Invocations, NEW T \in SUBSET S
    PROVE  Spent(ch, T) <= Spent(ch, S)
<1>1. IsFiniteSet(TokensOf(ch, 0, S))
  BY TokensFinite
<1>2. TokensOf(ch, 0, T) \subseteq TokensOf(ch, 0, S)
  BY DEF TokensOf
<1>. QED
  BY <1>1, <1>2, FS_Subset DEF Spent

\* Those who charge nothing have spent nothing.
LEMMA SpentNothing == \A ch : Spent(ch, {}) = 0
<1>1. \A ch : TokensOf(ch, 0, {}) = {}
  BY DEF TokensOf
<1>. QED
  BY <1>1, FS_EmptySet DEF Spent

\* One more invocation spends what it is charged.
LEMMA SpentAdds ==
    ASSUME NEW ch \in Charged, NEW S \in SUBSET Invocations, NEW i \in Invocations \ S
    PROVE  Spent(ch, S \cup {i}) = Spent(ch, S) + ch[i]
<1> DEFINE A == TokensOf(ch, 0, S)
           B == {i} \X (1..ch[i])
<1>1. ch[i] \in Nat
  BY DEF Charged
<1>2. IsFiniteSet(1..ch[i]) /\ Cardinality(1..ch[i]) = ch[i]
  BY <1>1, FS_Interval
<1>3. IsFiniteSet({i}) /\ Cardinality({i}) = 1
  BY FS_Singleton
<1>4. IsFiniteSet(B) /\ Cardinality(B) = 1 * ch[i]
  BY <1>2, <1>3, FS_Product
<1>5. IsFiniteSet(A) /\ Cardinality(A) \in Nat
  BY TokensFinite
<1>6. TokensOf(ch, 0, S \cup {i}) = A \cup B
  BY DEF TokensOf
<1>7. A \cap B = {}
  BY DEF TokensOf
<1>8. Cardinality(A \cup B) = Cardinality(A) + Cardinality(B) - 0
  BY <1>4, <1>5, <1>7, FS_Union, FS_EmptySet
<1>9. Cardinality(B) = ch[i]
  BY <1>1, <1>4
<1> HIDE DEF A, B
<1>10. Cardinality(A \cup B) = Cardinality(A) + ch[i]
  BY <1>1, <1>5, <1>8, <1>9
<1>. QED
  BY <1>6, <1>10 DEF Spent, A

\* Charges that agree on the invocations spend the same.
LEMMA SpentSame ==
    ASSUME NEW ch, NEW dh, NEW S, \A i \in S : ch[i] = dh[i]
    PROVE  Spent(ch, S) = Spent(dh, S) /\ \A R : Held(ch, S, R) = Held(dh, S, R)
BY DEF Spent, TokensOf, Held, Within

\* What is set aside is finite.
LEMMA HeldFinite ==
    ASSUME NEW ch, NEW C \in SUBSET Invocations, NEW R \in SUBSET Invocations
    PROVE  IsFiniteSet(Held(ch, C, R)) /\ Cardinality(Held(ch, C, R)) \in Nat
<1>1. IsFiniteSet(Invocations) /\ IsFiniteSet(1..MaxTokensPerInvocation)
  BY FiniteAssumption, BudgetAssumption, FS_Interval
<1>2. IsFiniteSet(Invocations \X (1..MaxTokensPerInvocation))
  BY <1>1, FS_Product
<1>3. Held(ch, C, R) \subseteq Invocations \X (1..MaxTokensPerInvocation)
  BY DEF Held, Within
<1>. QED
  BY <1>2, <1>3, FS_Subset, FS_CardinalityType

\* The reservations of R.
LEMMA ReservationsCounted ==
    ASSUME NEW R \in SUBSET Invocations
    PROVE  /\ IsFiniteSet(R \X (1..MaxTokensPerInvocation))
           /\ Cardinality(R \X (1..MaxTokensPerInvocation)) = MaxTokensPerInvocation * Cardinality(R)
           /\ MaxTokensPerInvocation * Cardinality(R) \in Nat
<1>1. IsFiniteSet(R) /\ Cardinality(R) \in Nat
  BY FiniteAssumption, FS_Subset, FS_CardinalityType
<1>2. IsFiniteSet(1..MaxTokensPerInvocation) /\ Cardinality(1..MaxTokensPerInvocation) = MaxTokensPerInvocation
  BY BudgetAssumption, FS_Interval
<1>3. /\ IsFiniteSet(R \X (1..MaxTokensPerInvocation))
      /\ Cardinality(R \X (1..MaxTokensPerInvocation)) = Cardinality(R) * MaxTokensPerInvocation
  BY <1>1, <1>2, FS_Product
<1>. QED
  BY <1>1, <1>3, BudgetAssumption

\* A reservation that fits in what is available, fits in the budget.
LEMMA HeldReserves ==
    ASSUME NEW ch \in Charged, NEW C \in SUBSET Invocations, NEW R \in SUBSET Invocations, NEW i \in Invocations,
           Spent(ch, C) + MaxTokensPerInvocation * Cardinality(R) + MaxTokensPerInvocation <= MaxTokens
    PROVE  Cardinality(Held(ch, C, R \cup {i})) <= MaxTokens
<1> DEFINE W == Within(ch, C)
           P == R \X (1..MaxTokensPerInvocation)
           Q == {i} \X (1..MaxTokensPerInvocation)
<1>1. IsFiniteSet(TokensOf(ch, 0, C)) /\ Spent(ch, C) \in Nat
  BY TokensFinite DEF Spent
<1>2. W \subseteq TokensOf(ch, 0, C)
  <2> SUFFICES ASSUME NEW t \in W PROVE t \in TokensOf(ch, 0, C)
    OBVIOUS
  <2>1. t = <<t[1], t[2]>> /\ t[1] \in C /\ t[2] \in 1..ch[t[1]]
    BY DEF Within, Charged
  <2>. QED
    BY <2>1, TokensMember
<1>3. IsFiniteSet(W) /\ Cardinality(W) \in Nat /\ Cardinality(W) <= Spent(ch, C)
  BY <1>1, <1>2, FS_Subset, FS_CardinalityType DEF Spent
<1>4. IsFiniteSet(P) /\ Cardinality(P) = MaxTokensPerInvocation * Cardinality(R) /\ Cardinality(P) \in Nat
  BY ReservationsCounted
<1>5. IsFiniteSet(Q) /\ Cardinality(Q) = MaxTokensPerInvocation
  <2>1. {i} \in SUBSET Invocations /\ Cardinality({i}) = 1
    BY FS_Singleton
  <2>2. MaxTokensPerInvocation * 1 = MaxTokensPerInvocation
    BY BudgetAssumption
  <2>. QED
    BY <2>1, <2>2, ReservationsCounted
<1>6. Held(ch, C, R \cup {i}) = (W \cup P) \cup Q
  BY DEF Held
<1> HIDE DEF W, P, Q
<1>7. /\ IsFiniteSet(W \cup P) /\ Cardinality(W \cup P) = Cardinality(W) + Cardinality(P) - Cardinality(W \cap P)
      /\ Cardinality(W \cap P) \in Nat
  BY <1>3, <1>4, FS_Union, FS_Intersection, FS_CardinalityType
<1>8. /\ Cardinality((W \cup P) \cup Q) = Cardinality(W \cup P) + Cardinality(Q) - Cardinality((W \cup P) \cap Q)
      /\ Cardinality((W \cup P) \cap Q) \in Nat
  BY <1>5, <1>7, FS_Union, FS_Intersection, FS_CardinalityType
<1>. QED
  <2>1. Spent(ch, C) + Cardinality(P) + MaxTokensPerInvocation <= MaxTokens
    BY <1>4
  <2>2. Cardinality((W \cup P) \cup Q) <= Spent(ch, C) + Cardinality(P) + MaxTokensPerInvocation
    BY ONLY <1>1, <1>3, <1>4, <1>5, <1>7, <1>8, BudgetAssumption
  <2>3. Cardinality((W \cup P) \cup Q) \in Nat
    BY <1>5, <1>7, FS_Union, FS_CardinalityType
  <2>4. Spent(ch, C) \in Nat /\ Cardinality(P) \in Nat
    BY <1>1, <1>4
  <2>5. Cardinality((W \cup P) \cup Q) <= MaxTokens
    BY ONLY <2>1, <2>2, <2>3, <2>4, BudgetAssumption
  <2>. QED
    BY <1>6, <2>5

\* What is spent and what is reserved is what is set aside, or runs over the reservations.
LEMMA SpentWithinHeld ==
    ASSUME NEW ch \in Charged, NEW C \in SUBSET Invocations, NEW R \in SUBSET Invocations, C \cap R = {}
    PROVE  Spent(ch, C) + MaxTokensPerInvocation * Cardinality(R)
              <= Cardinality(Held(ch, C, R)) + Cardinality(TokensOf(ch, MaxTokensPerInvocation, Invocations))
<1> DEFINE S == TokensOf(ch, 0, C)
           P == R \X (1..MaxTokensPerInvocation)
           H == Held(ch, C, R)
           X == TokensOf(ch, MaxTokensPerInvocation, Invocations)
<1>1. IsFiniteSet(S) /\ Cardinality(S) \in Nat /\ Cardinality(S) = Spent(ch, C)
  BY TokensFinite DEF Spent
<1>2. IsFiniteSet(P) /\ Cardinality(P) = MaxTokensPerInvocation * Cardinality(R) /\ Cardinality(P) \in Nat
  BY ReservationsCounted
<1>3. IsFiniteSet(H) /\ Cardinality(H) \in Nat
  BY HeldFinite
<1>4. IsFiniteSet(X) /\ Cardinality(X) \in Nat
  BY TokensFinite, BudgetAssumption
<1>5. S \cap P = {}
  BY DEF TokensOf
<1>6. S \cup P \subseteq H \cup X
  <2>1. P \subseteq H
    BY DEF Held
  <2>2. ASSUME NEW t \in S PROVE t \in H \cup X
    <3>1. PICK i \in C : t \in {i} \X (1..ch[i])
      BY <2>2 DEF TokensOf
    <3>2. t = <<i, t[2]>> /\ t[1] = i /\ t[2] \in 1..ch[i] /\ ch[i] \in Nat /\ i \in Invocations
      BY <3>1 DEF Charged
    <3>3. CASE t[2] <= MaxTokensPerInvocation
      <4>1. t[2] \in 1..MaxTokensPerInvocation /\ t[2] <= ch[t[1]]
        BY <3>2, <3>3, BudgetAssumption
      <4>2. t \in Within(ch, C)
        BY <3>2, <4>1 DEF Within
      <4>. QED
        BY <4>2 DEF Held
    <3>4. CASE ~(t[2] <= MaxTokensPerInvocation)
      <4>1. t[2] \in (MaxTokensPerInvocation + 1)..ch[i]
        BY <3>2, <3>4, BudgetAssumption
      <4>2. <<i, t[2]>> \in X
        BY <3>2, <4>1, TokensMember, BudgetAssumption
      <4>. QED
        BY <3>2, <4>2
    <3>. QED
      BY <3>3, <3>4
  <2>. QED
    BY <2>1, <2>2
<1> HIDE DEF S, P, H, X
<1>7. Cardinality(S \cup P) = Cardinality(S) + Cardinality(P) - 0
  <2>1. Cardinality(S \cap P) = 0
    BY <1>5, FS_EmptySet
  <2>. QED
    BY <1>1, <1>2, <2>1, FS_Union
<1>8. /\ IsFiniteSet(H \cup X) /\ Cardinality(H \cup X) = Cardinality(H) + Cardinality(X) - Cardinality(H \cap X)
      /\ Cardinality(H \cap X) \in Nat
  BY <1>3, <1>4, FS_Union, FS_Intersection, FS_CardinalityType
<1>9. Cardinality(S \cup P) <= Cardinality(H \cup X)
  BY <1>6, <1>8, FS_Subset
<1>10. Cardinality(S) + Cardinality(P) <= Cardinality(H) + Cardinality(X)
  BY <1>1, <1>2, <1>3, <1>4, <1>7, <1>8, <1>9
<1>. QED
  BY <1>1, <1>2, <1>10 DEF H, X

-----------------------------------------------------------------------------
(***************************************************************************)
(* The account.  Behind the tokensUsed of every state that the engine has  *)
(* or may go back to are the invocations that were charged to it: each     *)
(* settled, none reserved any more, and of those whose usage is in the log *)
(* exactly those of its mission.  What they consumed, up to a reservation  *)
(* each, fits with the reservations into the budget.                       *)
(***************************************************************************)
\* The account of state s, if the invocations C are charged to it.  ch are the charges, used says which
\* invocation has its usage in the log of which mission.
Accounts(s, C, ch, used) ==
    /\ s.tokensUsed = Spent(ch, C)
    /\ C \cap s.reservations = {}
    /\ Cardinality(Held(ch, C, s.reservations)) <= MaxTokens
    /\ \A m \in Missions, i \in Invocations :
          <<m, i>> \in used => (i \in C \cup s.reservations <=> m = s.mission)

\* The state s has an account, in which the invocations I are charged.
Accounted(s, I, ch, settled, used) ==
    \E C \in SUBSET settled : I \subseteq C /\ Accounts(s, C, ch, used)

Settled  == {i \in Invocations : model[i] = "settled"}
Used     == {p \in Missions \X Invocations : Logged(ModelUsage(p[1], p[2]))}
Charging == {i \in Invocations : op.kind = "log_usage" /\ op.id = i}

AccountInv ==
    /\ Accounted(mem, Charging, charge, Settled, Used)
    /\ Accounted(ckpt, {}, charge, Settled, Used)
    /\ op.kind \in Reserving => Accounted(op.undo, {}, charge, Settled, Used)
    /\ op.kind = "reserve_model" => /\ op.undo.reservations \subseteq ckpt.reservations
                                    /\ op.undo.reservations \subseteq mem.reservations
    /\ op.kind = "reserve_tools" => op.undo.reservations = mem.reservations
    /\ op.kind # "reserve_model" => mem.reservations \subseteq ckpt.reservations
    /\ op.kind = "log_usage" => op.id \in ckpt.reservations /\ op.id \notin mem.reservations
    /\ op.kind # "restore_usage" =>
          \A m \in Missions, i \in Invocations : <<m, i>> \in Used => i \notin mem.reservations

\* A mission that begins owes nothing.
LEMMA AccountOpens ==
    ASSUME NEW s, NEW ch, NEW settled, NEW used, s.tokensUsed = 0, s.reservations = {},
           \A m \in Missions, i \in Invocations : <<m, i>> \in used => m # s.mission
    PROVE  Accounted(s, {}, ch, settled, used)
<1>1. Held(ch, {}, {}) = {}
  BY DEF Held, Within
<1>2. Cardinality(Held(ch, {}, s.reservations)) <= MaxTokens
  BY <1>1, FS_EmptySet, BudgetAssumption
<1>3. Accounts(s, {}, ch, used)
  BY <1>2, SpentNothing DEF Accounts
<1>. QED
  BY <1>3 DEF Accounted

\* A state of the same mission with the same tokens has the same account, whatever else is settled.
LEMMA AccountSame ==
    ASSUME NEW s, NEW t, NEW I, NEW J \in SUBSET I, NEW ch, NEW dh, NEW settled, NEW more, NEW used,
           t.mission = s.mission, t.tokensUsed = s.tokensUsed, t.reservations = s.reservations,
           settled \subseteq more, \A i \in settled : dh[i] = ch[i],
           Accounted(s, I, ch, settled, used)
    PROVE  Accounted(t, J, dh, more, used)
<1>1. PICK C \in SUBSET settled : I \subseteq C /\ Accounts(s, C, ch, used)
  BY DEF Accounted
<1>2. Spent(ch, C) = Spent(dh, C) /\ \A R : Held(ch, C, R) = Held(dh, C, R)
  BY <1>1, SpentSame
<1>3. Accounts(t, C, dh, used)
  BY <1>1, <1>2 DEF Accounts
<1>. QED
  BY <1>1, <1>3 DEF Accounted

\* A reservation that fits in what is available is in the account.
LEMMA AccountReserves ==
    ASSUME NEW s \in State, NEW t, NEW ch \in Charged, NEW settled \in SUBSET Invocations, NEW used,
           NEW i \in Invocations, i \notin settled,
           t.mission = s.mission, t.tokensUsed = s.tokensUsed, t.reservations = s.reservations \cup {i},
           Available(s) >= MaxTokensPerInvocation,
           \A m \in Missions : <<m, i>> \notin used,
           Accounted(s, {}, ch, settled, used)
    PROVE  Accounted(t, {}, ch, settled, used)
<1>1. PICK C \in SUBSET settled : Accounts(s, C, ch, used)
  BY DEF Accounted
<1>2. Spent(ch, C) + MaxTokensPerInvocation * Cardinality(s.reservations) + MaxTokensPerInvocation <= MaxTokens
  <2>1. MaxTokensPerInvocation * Cardinality(s.reservations) \in Nat /\ s.tokensUsed \in Nat
    BY ReservationsCounted DEF State
  <2>2. MaxTokens - s.tokensUsed - MaxTokensPerInvocation * Cardinality(s.reservations) >= MaxTokensPerInvocation
    BY DEF Available, Reserved
  <2>3. ASSUME NEW r \in Nat, NEW u \in Nat, MaxTokens - u - r >= MaxTokensPerInvocation
        PROVE  u + r + MaxTokensPerInvocation <= MaxTokens
    BY <2>3, BudgetAssumption
  <2>4. s.tokensUsed + MaxTokensPerInvocation * Cardinality(s.reservations) + MaxTokensPerInvocation <= MaxTokens
    BY <2>1, <2>2, <2>3
  <2>. QED
    BY <1>1, <2>4 DEF Accounts
<1>3. Cardinality(Held(ch, C, s.reservations \cup {i})) <= MaxTokens
  <2>1. C \in SUBSET Invocations /\ s.reservations \in SUBSET Invocations
    BY DEF State
  <2>. QED
    BY <1>2, <2>1, HeldReserves
<1>4. Accounts(t, C, ch, used)
  BY <1>1, <1>3 DEF Accounts
<1>. QED
  BY <1>4 DEF Accounted

\* A reservation that is charged moves, within the account, to the charged ones.
LEMMA AccountCharges ==
    ASSUME NEW s \in State, NEW t, NEW ch \in Charged, NEW settled \in SUBSET Invocations, NEW used,
           NEW i \in s.reservations,
           t.mission = s.mission, t.tokensUsed = s.tokensUsed + ch[i], t.reservations = s.reservations \ {i},
           Accounted(s, {}, ch, settled, used)
    PROVE  Accounted(t, {i}, ch, settled \cup {i}, used)
<1>1. PICK C \in SUBSET settled : Accounts(s, C, ch, used)
  BY DEF Accounted
<1>2. i \in Invocations \ C /\ s.reservations \in SUBSET Invocations /\ C \in SUBSET Invocations
  BY <1>1 DEF Accounts, State
<1>3. Spent(ch, C \cup {i}) = Spent(ch, C) + ch[i]
  BY <1>2, SpentAdds
<1>4. Held(ch, C \cup {i}, t.reservations) \subseteq Held(ch, C, s.reservations)
  BY <1>2 DEF Held, Within
<1>5. /\ IsFiniteSet(Held(ch, C, s.reservations)) /\ Cardinality(Held(ch, C, s.reservations)) \in Nat
      /\ Cardinality(Held(ch, C \cup {i}, t.reservations)) \in Nat
      /\ Cardinality(Held(ch, C \cup {i}, t.reservations)) <= Cardinality(Held(ch, C, s.reservations))
  BY <1>2, <1>4, HeldFinite, FS_Subset, FS_CardinalityType
<1>6. Cardinality(Held(ch, C \cup {i}, t.reservations)) <= MaxTokens
  BY <1>1, <1>5, BudgetAssumption DEF Accounts
<1>7. (C \cup {i}) \cup t.reservations = C \cup s.reservations
  BY <1>2
<1>8. Accounts(t, C \cup {i}, ch, used)
  BY <1>1, <1>2, <1>3, <1>6, <1>7 DEF Accounts
<1>. QED
  BY <1>8 DEF Accounted

\* Reservations whose usage is not in the log may be released.
LEMMA AccountReleases ==
    ASSUME NEW s \in State, NEW t, NEW ch \in Charged, NEW settled \in SUBSET Invocations, NEW used,
           t.mission = s.mission, t.tokensUsed = s.tokensUsed, t.reservations = {},
           \A m \in Missions, i \in s.reservations : <<m, i>> \notin used,
           Accounted(s, {}, ch, settled, used)
    PROVE  Accounted(t, {}, ch, settled, used)
<1>1. PICK C \in SUBSET settled : Accounts(s, C, ch, used)
  BY DEF Accounted
<1>2. C \in SUBSET Invocations /\ s.reservations \in SUBSET Invocations
  BY DEF State
<1>3. Held(ch, C, {}) \subseteq Held(ch, C, s.reservations)
  BY DEF Held
<1>4. /\ Cardinality(Held(ch, C, {})) \in Nat /\ Cardinality(Held(ch, C, s.reservations)) \in Nat
      /\ Cardinality(Held(ch, C, {})) <= Cardinality(Held(ch, C, s.reservations))
  BY <1>2, <1>3, HeldFinite, FS_Subset, FS_CardinalityType
<1>5. Cardinality(Held(ch, C, {})) <= MaxTokens
  BY <1>1, <1>4, BudgetAssumption DEF Accounts
<1>6. Accounts(t, C, ch, used)
  BY <1>1, <1>5 DEF Accounts
<1>. QED
  BY <1>6 DEF Accounted

\* The usage of an invocation goes into the log of the mission in whose account it is.
LEMMA AccountLogs ==
    ASSUME NEW s, NEW ch, NEW settled, NEW used, NEW n, NEW j, NEW I,
           \/ n = s.mission /\ (j \in I \/ j \in s.reservations),
           Accounted(s, I, ch, settled, used)
    PROVE  Accounted(s, {}, ch, settled, used \cup {<<n, j>>})
<1>1. PICK C \in SUBSET settled : I \subseteq C /\ Accounts(s, C, ch, used)
  BY DEF Accounted
<1>2. j \in C \cup s.reservations /\ n = s.mission
  BY <1>1
<1>3. \A m \in Missions, i \in Invocations :
         <<m, i>> \in used \cup {<<n, j>>} => (i \in C \cup s.reservations <=> m = s.mission)
  BY <1>1, <1>2 DEF Accounts
<1>4. Accounts(s, C, ch, used \cup {<<n, j>>})
  BY <1>1, <1>3 DEF Accounts
<1>. QED
  BY <1>4 DEF Accounted

\* Which usage is in the log changes by nothing but an event of usage.
LEMMA UsedSame ==
    /\ UNCHANGED log => UNCHANGED Used
    /\ TypeInv => \A e \in Events : RecordEvent(e) /\ e[1] # "model_usage" => UNCHANGED Used
<1>1. UNCHANGED log => UNCHANGED Used
  BY DEF Used, Logged
<1>2. ASSUME TypeInv, NEW e \in Events, RecordEvent(e), e[1] # "model_usage" PROVE UNCHANGED Used
  <2>1. \A m \in Missions, i \in Invocations : Logged(ModelUsage(m, i))' <=> Logged(ModelUsage(m, i))
    BY <1>2, Elsewhere, EventsName
  <2>. QED
    BY <2>1 DEF Used
<1>. QED
  BY <1>1, <1>2

\* The types of what accounts are made of.
LEMMA AccountTypes ==
    ASSUME TypeInv
    PROVE  /\ charge \in Charged /\ Settled \in SUBSET Invocations
           /\ mem \in State /\ ckpt \in State /\ (op.kind \in Reserving => op.undo \in State)
           /\ (op.kind # "log_usage" => Charging = {})
           /\ (op.kind = "log_usage" => Charging = {op.id} /\ op.id \in Invocations)
BY Typed, OpFields DEF TypeInv, TypeOK, Charged, Settled, Charging, Reserving

\* Used by the mission m.
LEMMA UsedMember ==
    ASSUME NEW m \in Missions, NEW i \in Invocations
    PROVE  <<m, i>> \in Used <=> Logged(ModelUsage(m, i))
BY DEF Used

\* A step that is no part of an operation may settle invocations, and charge those that are not settled.
LEMMA AccountAside ==
    ASSUME AccountInv, UNCHANGED <<mem, ckpt, op, Used>>,
           Settled \subseteq Settled', \A i \in Settled : charge'[i] = charge[i]
    PROVE  AccountInv'
<1>1. Accounted(mem, Charging, charge, Settled, Used)'
  <2>1. Charging' = Charging
    BY DEF Charging
  <2>. QED
    BY <2>1, AccountSame DEF AccountInv
<1>2. Accounted(ckpt, {}, charge, Settled, Used)'
  BY AccountSame DEF AccountInv
<1>3. op.kind \in Reserving => Accounted(op.undo, {}, charge, Settled, Used)'
  BY AccountSame DEF AccountInv
<1>. QED
  BY <1>1, <1>2, <1>3 DEF AccountInv

\* A step that neither reserves nor charges keeps the accounts; it may save.
LEMMA AccountQuiet ==
    ASSUME TypeInv, AccountInv, UNCHANGED <<Used, charge>>, Settled \subseteq Settled',
           SameTokens, mem'.mission = mem.mission,
           ckpt' = mem \/ (ckpt' = ckpt /\ op.kind # "reserve_model"),
           op.kind # "restore_usage", op'.kind \notin Reserving \cup {"log_usage"}
    PROVE  AccountInv'
<1>1. Charging' = {}
  BY DEF Charging
<1>2. Accounted(mem, {}, charge, Settled, Used)
  BY AccountSame DEF AccountInv
<1>3. Accounted(mem, {}, charge, Settled, Used)'
  BY <1>2, AccountSame DEF SameTokens
<1>4. Accounted(ckpt, {}, charge, Settled, Used)'
  BY <1>2, AccountSame DEF AccountInv
<1>5. op'.kind # "reserve_model" => mem'.reservations \subseteq ckpt'.reservations
  BY DEF AccountInv, SameTokens
<1>6. \A m \in Missions, i \in Invocations : <<m, i>> \in Used' => i \notin mem'.reservations
  BY DEF AccountInv, SameTokens
<1>. QED
  BY <1>1, <1>3, <1>4, <1>5, <1>6 DEF AccountInv, Reserving

\* A step after which there is no reservation, and the state in memory begins anew.
LEMMA AccountAnew ==
    ASSUME AccountInv, UNCHANGED <<Used, charge, ckpt>>, Settled \subseteq Settled',
           mem'.tokensUsed = 0, mem'.reservations = {},
           \A m \in Missions, i \in Invocations : <<m, i>> \in Used => m # mem'.mission,
           op'.kind \notin Reserving \cup {"log_usage"}
    PROVE  AccountInv'
<1>1. Charging' = {}
  BY DEF Charging
<1>2. Accounted(mem, {}, charge, Settled, Used)'
  BY AccountOpens
<1>3. Accounted(ckpt, {}, charge, Settled, Used)'
  BY AccountSame DEF AccountInv
<1>. QED
  BY <1>1, <1>2, <1>3 DEF AccountInv, Reserving

\* A mission that begins has used nothing.
LEMMA UsedBegan ==
    ASSUME TypeInv, LogInv
    PROVE  \A m \in Missions, i \in Invocations : <<m, i>> \in Used => m # 0 /\ m # lastMission + 1
<1> SUFFICES ASSUME NEW m \in Missions, NEW i \in Invocations, <<m, i>> \in Used
             PROVE  m # 0 /\ m # lastMission + 1
  OBVIOUS
<1>1. ModelUsage(m, i) \in Events /\ ModelUsage(m, i)[2] = m /\ Logged(ModelUsage(m, i))
  BY EventsMade, EventsName, UsedMember
<1>2. m <= lastMission
  BY <1>1 DEF LogInv, Numbered
<1>. QED
  BY <1>2, Typed

\* Initially nothing is charged.
LEMMA AccountInit == Init => AccountInv
<1> SUFFICES ASSUME Init PROVE AccountInv
  OBVIOUS
<1>1. /\ mem = NoState /\ ckpt = NoState /\ NoState.tokensUsed = 0 /\ NoState.reservations = {} /\ op.kind = "none"
      /\ \A e \in Events : ~Logged(e)
  BY DEF Init, NoState, InitialState, NoOp, Logged
<1>2. Used = {}
  BY <1>1, EventsMade DEF Used
<1>3. Charging = {}
  BY <1>1 DEF Charging
<1>4. Accounted(NoState, {}, charge, Settled, Used)
  BY <1>1, <1>2, AccountOpens
<1>. QED
  BY <1>1, <1>2, <1>3, <1>4 DEF AccountInv, Reserving

\* The steps of model invocations keep the accounts.
LEMMA AccountModel == TypeInv /\ LogInv /\ AccountInv /\ ModelNext => AccountInv'
<1> SUFFICES ASSUME TypeInv, LogInv, AccountInv, ModelNext PROVE AccountInv'
  OBVIOUS
<1>0. \A m \in Missions, i \in Invocations : <<m, i>> \in Used => i \in Settled
  BY UsedMember DEF LogInv, UsageUnrecorded, Settled
<1>1. ASSUME NEW i \in Invocations, ReserveModel(i) PROVE AccountInv'
  <2>1. /\ mem'.reservations = mem.reservations \cup {i} /\ mem'.tokensUsed = mem.tokensUsed
        /\ mem'.mission = mem.mission
        /\ op' = [kind |-> "reserve_model", id |-> i, undo |-> mem]
        /\ op = NoOp /\ model[i] = "idle" /\ model'[i] = "reserving"
        /\ \A j \in Invocations \ {i} : model'[j] = model[j]
        /\ Available(mem) >= MaxTokensPerInvocation
        /\ UNCHANGED <<log, ckpt, charge>>
    BY <1>1, ReserveModelMoves DEF disk, SameMission
  <2>2. Used' = Used /\ Settled' = Settled /\ Charging' = {} /\ Charging = {} /\ i \notin Settled
    BY <2>1, UsedSame DEF Settled, Charging, NoOp
  <2>3. Accounted(mem, {}, charge, Settled, Used)
    BY <2>2 DEF AccountInv
  <2>4. Accounted(mem', {}, charge, Settled, Used)
    BY <1>0, <2>1, <2>2, <2>3, AccountTypes, AccountReserves
  <2>. QED
    BY <1>0, <2>1, <2>2, <2>3, <2>4 DEF AccountInv, NoOp, Reserving
<1>2. ASSUME NEW i \in Invocations, NEW c, ModelAnswers(i, c) PROVE AccountInv'
  <2>1. /\ UNCHANGED <<mem, ckpt, op, log>> /\ model[i] = "calling"
        /\ model' = [model EXCEPT ![i] = "answered"] /\ charge' = [charge EXCEPT ![i] = c]
    BY <1>2 DEF ModelAnswers, MemoryOnly, disk, engine
  <2>2. /\ Settled \subseteq Settled' /\ \A j \in Settled : charge'[j] = charge[j]
    BY <2>1, Typed, AccountTypes DEF Settled, Charged
  <2>. QED
    BY <2>1, <2>2, UsedSame, AccountAside
<1>3. ASSUME NEW i \in Invocations, ChargeModel(i) PROVE AccountInv'
  <2>1. /\ mem'.reservations = mem.reservations \ {i} /\ i \in mem.reservations
        /\ mem'.tokensUsed = mem.tokensUsed + charge[i] /\ mem'.mission = mem.mission
        /\ op' = [kind |-> "log_usage", id |-> i] /\ op = NoOp /\ model'[i] = "settled"
        /\ \A j \in Invocations \ {i} : model'[j] = model[j]
        /\ UNCHANGED <<log, ckpt, charge>>
    BY <1>3, ChargeModelMoves DEF disk, SameMission
  <2>2. Used' = Used /\ Settled' = Settled \cup {i} /\ Charging' = {i} /\ Charging = {}
    BY <2>1, UsedSame DEF Settled, Charging, NoOp
  <2>3. Accounted(mem, {}, charge, Settled, Used)
    BY <2>2 DEF AccountInv
  <2>4. Accounted(mem', {i}, charge, Settled', Used)
    BY <2>1, <2>2, <2>3, AccountTypes, AccountCharges
  <2>5. Accounted(ckpt, {}, charge, Settled', Used)
    BY <2>2, AccountSame DEF AccountInv
  <2>. QED
    BY <2>1, <2>2, <2>4, <2>5 DEF AccountInv, NoOp, Reserving
<1>4. ASSUME NEW i \in Invocations, ChargeModelUnknown(i) PROVE AccountInv'
  <2>1. UNCHANGED <<mem, ckpt, op, log, charge>> /\ Settled \subseteq Settled'
    BY <1>4, Typed DEF ChargeModelUnknown, MemoryOnly, disk, engine, Settled
  <2>. QED
    BY <2>1, UsedSame, AccountAside
<1>5. CASE ReserveModelSaved
  <2>1. /\ ckpt' = mem /\ op' = NoOp /\ op.kind = "reserve_model"
        /\ UNCHANGED <<mem, log, charge>> /\ model' = [model EXCEPT ![op.id] = "calling"]
    BY <1>5 DEF ReserveModelSaved, SaveCheckpoint
  <2>2. Settled \subseteq Settled'
    BY <2>1, Typed DEF LogInv, UsageUnrecorded, Settled
  <2>. QED
    BY <2>1, <2>2, UsedSame, AccountQuiet DEF SameTokens, NoOp, Reserving
<1>6. CASE ReserveModelFails
  <2>1. /\ mem' = op.undo /\ op' = NoOp /\ op.kind = "reserve_model"
        /\ UNCHANGED <<log, ckpt, charge>> /\ model' = [model EXCEPT ![op.id] = "settled"]
    BY <1>6 DEF ReserveModelFails, SaveFails, disk
  <2>2. Settled \subseteq Settled' /\ Charging' = {} /\ Used' = Used
    BY <2>1, Typed, UsedSame DEF Settled, Charging, NoOp
  <2>3. Accounted(op.undo, {}, charge, Settled', Used) /\ Accounted(ckpt, {}, charge, Settled', Used)
    BY <2>1, <2>2, AccountSame DEF AccountInv, Reserving
  <2>. QED
    BY <2>1, <2>2, <2>3 DEF AccountInv, NoOp, Reserving
<1>7. CASE UsageLogged
  <2> DEFINE e == ModelUsage(mem.mission, op.id)
  <2>1. /\ op.kind = "log_usage" /\ op.id \in Invocations /\ mem.mission \in Missions
        /\ op' = Saving("none") /\ RecordEvent(e)
        /\ UNCHANGED <<mem, ckpt, model, charge>>
    BY <1>7, Typed, OpFields DEF UsageLogged, TypeInv, TypeOK, NoOp, Saving, clients, RecordEvent
  <2>2. e \in Events
    BY <2>1, EventsMade
  <2>3. \A m \in Missions, i \in Invocations :
           ModelUsage(m, i) = e <=> m = mem.mission /\ i = op.id
    BY EventsName
  <2> HIDE DEF e
  <2>4. Used' = Used \cup {<<mem.mission, op.id>>}
    <3>1. \A m \in Missions, i \in Invocations :
             Logged(ModelUsage(m, i))' <=> Logged(ModelUsage(m, i)) \/ (m = mem.mission /\ i = op.id)
      BY <2>1, <2>2, <2>3, Elsewhere
    <3>2. \A p \in Missions \X Invocations : p = <<p[1], p[2]>> /\ p[1] \in Missions /\ p[2] \in Invocations
      OBVIOUS
    <3>3. \A p : p \in Used' <=> p \in Used \/ p = <<mem.mission, op.id>>
      BY <2>1, <3>1, <3>2 DEF Used
    <3>. QED
      BY <3>3
  <2>5. Settled' = Settled /\ Charging = {op.id} /\ Charging' = {}
    BY <2>1, AccountTypes DEF Settled, Charging, Saving
  <2>6. ckpt.mission = mem.mission /\ op.id \in ckpt.reservations /\ op.id \notin mem.reservations
    BY <2>1 DEF LogInv, Owned, AccountInv
  <2>7. Accounted(mem, {}, charge, Settled, Used') /\ Accounted(ckpt, {}, charge, Settled, Used')
    BY <2>4, <2>5, <2>6, AccountLogs DEF AccountInv
  <2>8. \A m \in Missions, i \in Invocations : <<m, i>> \in Used' => i \notin mem.reservations
    BY <2>1, <2>4, <2>6 DEF AccountInv
  <2>. QED
    BY <2>1, <2>5, <2>7, <2>8 DEF AccountInv, Saving, Reserving
<1>. QED
  BY <1>1, <1>2, <1>3, <1>4, <1>5, <1>6, <1>7 DEF ModelNext

\* The steps of tool calls keep the accounts.
LEMMA AccountTools == TypeInv /\ LogInv /\ AccountInv /\ ToolNext => AccountInv'
<1> SUFFICES ASSUME TypeInv, LogInv, AccountInv, ToolNext PROVE AccountInv'
  OBVIOUS
<1>1. ASSUME NEW B \in Batches, ReserveTools(B) PROVE AccountInv'
  <2>1. /\ SameTokens /\ mem'.mission = mem.mission
        /\ op' = [kind |-> "reserve_tools", batch |-> B, undo |-> mem] /\ op = NoOp
        /\ UNCHANGED <<log, ckpt, charge, model>>
    BY <1>1, ReserveToolsMoves DEF disk, clients, SameMission
  <2>2. Used' = Used /\ Settled' = Settled /\ Charging' = {} /\ Charging = {}
    BY <2>1, UsedSame DEF Settled, Charging, NoOp
  <2>3. Accounted(mem, {}, charge, Settled, Used)
    BY <2>2 DEF AccountInv
  <2>4. Accounted(mem', {}, charge, Settled, Used)
    BY <2>1, <2>3, AccountSame DEF SameTokens
  <2>. QED
    BY <2>1, <2>2, <2>3, <2>4 DEF AccountInv, NoOp, Reserving, SameTokens
<1>2. ASSUME NEW B \in Batches, ToolsPause(B) \/ ResumeTools(B) \/ ToolResultFails(B) PROVE AccountInv'
  <2>1. UNCHANGED <<mem, ckpt, op, log, charge, model>>
    BY <1>2 DEF ToolsPause, ResumeTools, ToolResultFails, MemoryOnly, AppendFails, disk, engine
  <2>2. Settled' = Settled
    BY <2>1 DEF Settled
  <2>. QED
    BY <2>1, <2>2, UsedSame, AccountAside
<1>3. ASSUME NEW B \in Batches, ReleaseTools(B) PROVE AccountInv'
  <2>1. /\ SameTokens /\ mem'.mission = mem.mission
        /\ op'.kind \in {"none", "save"} /\ op = NoOp
        /\ UNCHANGED <<log, ckpt, charge, model>>
    BY <1>3, ReleaseToolsMoves DEF disk, SameMission, NoOp
  <2>2. Settled' = Settled
    BY <2>1 DEF Settled
  <2>. QED
    BY <2>1, <2>2, UsedSame, AccountQuiet DEF NoOp, Reserving
<1>4. CASE ReserveToolsSaved
  <2>1. /\ ckpt' = mem /\ op.kind = "reserve_tools" /\ op'.kind = "log_calls"
        /\ UNCHANGED <<mem, log, charge, model>>
    BY <1>4 DEF ReserveToolsSaved, SaveCheckpoint, clients
  <2>2. Settled' = Settled
    BY <2>1 DEF Settled
  <2>. QED
    BY <2>1, <2>2, UsedSame, AccountQuiet DEF SameTokens, Reserving
<1>5. CASE ReserveToolsFails
  <2>1. /\ mem' = op.undo /\ op' = NoOp /\ op.kind = "reserve_tools"
        /\ UNCHANGED <<log, ckpt, charge, model>>
    BY <1>5 DEF ReserveToolsFails, SaveFails, disk, clients
  <2>2. Settled' = Settled /\ Charging' = {} /\ Used' = Used
    BY <2>1, UsedSame DEF Settled, Charging, NoOp
  <2>. QED
    BY <2>1, <2>2 DEF AccountInv, NoOp, Reserving
<1>6. ASSUME NEW k \in Slots, ToolCallLogged(k) PROVE AccountInv'
  <2>1. /\ op.kind = "log_calls" /\ RecordEvent(ToolCall(mem.mission, k)) /\ mem.mission \in Missions
        /\ UNCHANGED <<mem, ckpt, charge, model>>
    BY <1>6, Typed DEF ToolCallLogged, TypeInv, TypeOK, NoOp, RecordEvent
  <2>2. op'.kind \in {"none", "log_calls"}
    BY <1>6, Typed DEF ToolCallLogged, NoOp, OpKinds
  <2>3. ToolCall(mem.mission, k) \in Events /\ ToolCall(mem.mission, k)[1] # "model_usage"
    BY <2>1, EventsMade, EventsName
  <2>4. Settled' = Settled /\ Used' = Used
    BY <2>1, <2>3, UsedSame DEF Settled
  <2>. QED
    BY <2>1, <2>2, <2>4, AccountQuiet DEF SameTokens, Reserving
<1>. QED
  BY <1>1, <1>2, <1>3, <1>4, <1>5, <1>6 DEF ToolNext

\* The steps of stages and outcomes keep the accounts.
LEMMA AccountMission == TypeInv /\ LogInv /\ AccountInv /\ MissionNext => AccountInv'
<1> SUFFICES ASSUME TypeInv, LogInv, AccountInv, MissionNext PROVE AccountInv'
  OBVIOUS
<1>0. op = NoOp \/ mem.mission \in Missions
  BY Typed DEF TypeInv, TypeOK
<1>1. ASSUME NEW s \in Stages, RecordStageStarted(s) \/ RecordStageCompleted(s) PROVE AccountInv'
  <2>1. /\ op = NoOp /\ op'.kind \in {"log_stage_started", "log_stage_completed"}
        /\ UNCHANGED <<mem, ckpt, log, charge, model>>
    BY <1>1 DEF RecordStageStarted, RecordStageCompleted, Idle, MemoryOnly, disk, clients
  <2>2. Settled' = Settled
    BY <2>1 DEF Settled
  <2>. QED
    BY <2>1, <2>2, UsedSame, AccountQuiet DEF SameTokens, NoOp, Reserving
<1>2. ASSUME NEW e \in Events, RecordEvent(e), e[1] # "model_usage", UNCHANGED clients
      PROVE  UNCHANGED <<ckpt, charge, Settled, Used>>
  <2>1. UNCHANGED <<ckpt, charge, model>>
    BY <1>2 DEF RecordEvent, clients
  <2>. QED
    BY <1>2, <2>1, UsedSame DEF Settled
<1>3. CASE StageStartedLogged \/ StageCompletedLogged \/ MissionStartedLogged
  <2>1. PICK e \in {StageStarted(mem.mission, op.stage), StageCompleted(mem.mission, op.stage),
                    MissionStarted(mem.mission)} :
           /\ RecordEvent(e) /\ UNCHANGED <<mem, clients>> /\ op'.kind \in {"none", "save"}
           /\ op.kind \in {"log_stage_started", "log_stage_completed", "log_start"}
           /\ e # MissionStarted(mem.mission) => op.kind # "log_start"
    BY <1>3 DEF StageStartedLogged, StageCompletedLogged, MissionStartedLogged, NoOp
  <2>2. mem.mission \in Missions /\ (e # MissionStarted(mem.mission) => op.stage \in Stages)
    BY <1>0, <2>1, OpFields, Typed DEF NoOp
  <2>3. e \in Events /\ e[1] # "model_usage"
    <3>1. CASE e = MissionStarted(mem.mission)
      BY <2>2, <3>1, EventsMade, EventsName
    <3>2. CASE e # MissionStarted(mem.mission)
      BY <2>1, <2>2, <3>2, EventsMade, EventsName
    <3>. QED
      BY <3>1, <3>2
  <2>. QED
    BY <1>2, <2>1, <2>3, AccountQuiet DEF SameTokens, Reserving
<1>4. ASSUME NEW p \in Outcomes, RecordOutcome(p) PROVE AccountInv'
  <2>1. /\ SameTokens /\ mem'.mission = mem.mission /\ op = NoOp /\ op'.kind \in {"save", "log_outcome"}
        /\ UNCHANGED <<log, ckpt, charge, model>>
    BY <1>4, RecordOutcomeMoves DEF disk, clients
  <2>2. Settled' = Settled
    BY <2>1 DEF Settled
  <2>. QED
    BY <2>1, <2>2, UsedSame, AccountQuiet DEF NoOp, Reserving
<1>5. op.kind = "log_outcome" => /\ MissionEnded(mem.mission, mem.phase) \in Events
                                 /\ MissionEnded(mem.mission, mem.phase)[1] # "model_usage"
  BY <1>0, EventsMade, EventsName DEF LogInv, Phased, NoOp
<1>6. CASE OutcomeLogged
  <2>1. /\ op.kind = "log_outcome" /\ RecordEvent(MissionEnded(mem.mission, mem.phase)) /\ op' = NoOp
        /\ UNCHANGED <<mem, clients>>
    BY <1>6 DEF OutcomeLogged
  <2>. QED
    BY <1>2, <1>5, <2>1, AccountQuiet DEF SameTokens, NoOp, Reserving
<1>7. ASSUME NewMission(Saving("log_start")), lastMission < MaxMissions,
             UNCHANGED <<ckpt, charge, Settled, Used>>
      PROVE  AccountInv'
  <2>1. mem'.mission = lastMission + 1 /\ mem'.tokensUsed = 0 /\ mem'.reservations = {} /\ op'.kind = "save"
    BY <1>7, NewMissionMoves DEF Saving
  <2>. QED
    BY <1>7, <2>1, UsedBegan, AccountAnew DEF Reserving
<1>8. CASE BeginExecution
  <2>1. UNCHANGED <<log, ckpt, charge, model>> /\ op = NoOp /\ lastMission < MaxMissions
    BY <1>8 DEF BeginExecution, Idle, MemoryOnly, disk, clients
  <2>2. Settled' = Settled /\ Used' = Used
    BY <2>1, UsedSame DEF Settled
  <2>3. CASE EndedUnlogged(mem)
    <3>1. UNCHANGED mem /\ op'.kind = "log_outcome"
      BY <1>8, <2>3 DEF BeginExecution
    <3>. QED
      BY <2>1, <2>2, <3>1, AccountQuiet DEF SameTokens, NoOp, Reserving
  <2>4. CASE ~EndedUnlogged(mem)
    <3>1. NewMission(Saving("log_start"))
      BY <1>8, <2>4 DEF BeginExecution, Saving
    <3>. QED
      BY <1>7, <2>1, <2>2, <3>1
  <2>. QED
    BY <2>3, <2>4
<1>9. CASE BeginExecutionLogged
  <2>1. /\ op.kind = "log_outcome" /\ op.then = "new_mission"
        /\ RecordEvent(MissionEnded(mem.mission, mem.phase))
        /\ NewMission(Saving("log_start")) /\ UNCHANGED clients
    BY <1>9 DEF BeginExecutionLogged, Saving
  <2>2. lastMission < MaxMissions
    BY <2>1, Typed, OpFields DEF TypeInv, NextOK
  <2>3. UNCHANGED <<ckpt, charge, Settled, Used>>
    BY <1>2, <1>5, <2>1
  <2>. QED
    BY <1>7, <2>1, <2>2, <2>3
<1>10. CASE Saved
  <2>1. /\ op.kind = "save" /\ ckpt' = mem /\ UNCHANGED <<mem, log, charge, model>>
        /\ op'.kind \in {"none", "log_outcome", "log_start"}
    BY <1>10, OpFields, Typed DEF Saved, SaveCheckpoint, NoOp, clients
  <2>2. Settled' = Settled
    BY <2>1 DEF Settled
  <2>. QED
    BY <2>1, <2>2, UsedSame, AccountQuiet DEF SameTokens, Reserving
<1>11. CASE SavedFails \/ LastAppendFails
  <2>1. /\ op.kind \notin {"reserve_model", "restore_usage"} /\ op' = NoOp
        /\ UNCHANGED <<mem, ckpt, log, charge, model>>
    BY <1>11 DEF SavedFails, LastAppendFails, SaveFails, AppendFails, disk, clients
  <2>2. Settled' = Settled
    BY <2>1 DEF Settled
  <2>. QED
    BY <2>1, <2>2, UsedSame, AccountQuiet DEF SameTokens, NoOp, Reserving
<1>. QED
  BY <1>1, <1>3, <1>4, <1>6, <1>8, <1>9, <1>10, <1>11
     DEF MissionNext, RecordMissionCompleted, RecordMissionFailed, Outcomes

\* The steps of initialize, and a crash, keep the accounts.
LEMMA AccountStart == TypeInv /\ LogInv /\ AccountInv /\ StartNext => AccountInv'
<1> SUFFICES ASSUME TypeInv, LogInv, AccountInv, StartNext PROVE AccountInv'
  OBVIOUS
<1>0. op = NoOp \/ mem.mission \in Missions
  BY Typed DEF TypeInv, TypeOK
<1>1. UNCHANGED <<log, clients>> => UNCHANGED <<charge, Settled, Used>>
  BY UsedSame DEF clients, Settled
<1>2. CASE StartFresh
  <2>1. /\ NewMission([kind |-> "init_start"]) /\ lastMission < MaxMissions
        /\ UNCHANGED <<log, ckpt, clients>>
    BY <1>2 DEF StartFresh, MemoryOnly, disk
  <2>2. mem'.mission = lastMission + 1 /\ mem'.tokensUsed = 0 /\ mem'.reservations = {} /\ op'.kind = "init_start"
    BY <2>1, NewMissionMoves
  <2>. QED
    BY <1>1, <2>1, <2>2, UsedBegan, AccountAnew DEF Reserving
<1>3. CASE StartFreshLogged
  <2>1. /\ op.kind = "init_start" /\ RecordEvent(MissionStarted(mem.mission)) /\ op' = NoOp
        /\ mem.mission \in Missions /\ UNCHANGED <<mem, ckpt, charge, model>>
    BY <1>0, <1>3 DEF StartFreshLogged, RecordEvent, clients, NoOp
  <2>2. MissionStarted(mem.mission) \in Events /\ MissionStarted(mem.mission)[1] # "model_usage"
    BY <2>1, EventsMade, EventsName
  <2>3. Settled' = Settled /\ Used' = Used
    BY <2>1, <2>2, UsedSame DEF Settled
  <2>. QED
    BY <2>1, <2>3, AccountQuiet DEF SameTokens, NoOp, Reserving
<1>4. CASE Restore
  <2>1. mem' = ckpt /\ op'.kind = "restore_usage" /\ UNCHANGED <<log, ckpt, clients>>
    BY <1>4 DEF Restore, MemoryOnly, disk
  <2>2. Charging' = {}
    BY <2>1 DEF Charging
  <2>. QED
    BY <1>1, <2>1, <2>2 DEF AccountInv, Reserving
<1>5. ASSUME NEW i \in Invocations, RestoreUsage(i) PROVE AccountInv'
  <2>1. /\ mem'.reservations = mem.reservations \ {i} /\ i \in mem.reservations
        /\ mem'.tokensUsed = mem.tokensUsed + charge[i] /\ mem'.mission = mem.mission
        /\ op.kind = "restore_usage" /\ op'.kind = "restore_usage" /\ UsageEventOf(i)
        /\ UNCHANGED <<log, ckpt, clients>>
    BY <1>5, RestoreUsageMoves DEF SameMission, disk
  <2>2. i \in Settled
    BY <2>1 DEF UsageEventOf, LogInv, UsageUnrecorded, Settled
  <2>3. Charging' = {} /\ Charging = {}
    BY <2>1 DEF Charging
  <2>4. Accounted(mem, {}, charge, Settled, Used)
    BY <2>3 DEF AccountInv
  <2>5. Accounted(mem', {i}, charge, Settled \cup {i}, Used)
    BY <2>1, <2>4, AccountTypes, AccountCharges
  <2>6. Settled \cup {i} = Settled
    BY <2>2
  <2>7. Accounted(mem', {}, charge, Settled, Used)
    BY <2>5, <2>6, AccountSame
  <2>. QED
    BY <1>1, <2>1, <2>3, <2>7 DEF AccountInv, Reserving
<1>6. CASE RestoreOrphans
  <2>1. /\ mem'.reservations = {} /\ mem'.tokensUsed = mem.tokensUsed /\ mem'.mission = mem.mission
        /\ op.kind = "restore_usage" /\ op'.kind \in {"init_save", "restore_tools"}
        /\ \A i \in mem.reservations : ~UsageEventOf(i)
        /\ UNCHANGED <<log, ckpt, clients>>
    BY <1>6, RestoreOrphansMoves DEF SameMission, disk
  <2>2. Charging' = {} /\ Charging = {}
    BY <2>1 DEF Charging
  <2>3. \A m \in Missions, i \in mem.reservations : <<m, i>> \notin Used
    BY <2>1 DEF UsageEventOf, Used
  <2>4. Accounted(mem, {}, charge, Settled, Used)
    BY <2>2 DEF AccountInv
  <2>5. Accounted(mem', {}, charge, Settled, Used)
    BY <2>1, <2>3, <2>4, AccountTypes, AccountReleases
  <2>. QED
    BY <1>1, <2>1, <2>2, <2>5 DEF AccountInv, Reserving
<1>7. CASE RestoreTools
  <2>1. /\ SameTokens /\ mem'.mission = mem.mission
        /\ op.kind = "restore_tools" /\ op'.kind \in {"init_save", "restore_outcome"}
        /\ UNCHANGED <<log, ckpt, clients>>
    BY <1>7, RestoreToolsMoves DEF SameMission, disk
  <2>. QED
    BY <1>1, <2>1, AccountQuiet DEF Reserving
<1>8. CASE InitSaved
  <2>1. /\ ckpt' = mem /\ op.kind = "init_save" /\ op'.kind \in {"restore_tools", "restore_outcome"}
        /\ UNCHANGED <<mem, log, clients>>
    BY <1>8, OpFields, Typed DEF InitSaved, SaveCheckpoint
  <2>. QED
    BY <1>1, <2>1, AccountQuiet DEF SameTokens, Reserving
<1>9. CASE RestoreOutcome
  <2>1. op.kind = "restore_outcome" /\ op'.kind = "restore_stages" /\ UNCHANGED <<mem, clients>>
        /\ mem.mission \in Missions
    BY <1>0, <1>9 DEF RestoreOutcome, NoOp
  <2>2. CASE EndedUnlogged(mem)
    <3>1. RecordEvent(MissionEnded(mem.mission, mem.phase)) /\ mem.phase \in Outcomes
      BY <1>9, <2>2 DEF RestoreOutcome, EndedUnlogged
    <3>2. /\ MissionEnded(mem.mission, mem.phase) \in Events
          /\ MissionEnded(mem.mission, mem.phase)[1] # "model_usage"
      BY <2>1, <3>1, EventsMade, EventsName
    <3>3. UNCHANGED <<ckpt, charge, Settled, Used>>
      BY <2>1, <3>1, <3>2, UsedSame DEF Settled, clients, RecordEvent
    <3>. QED
      BY <2>1, <3>3, AccountQuiet DEF SameTokens, Reserving
  <2>3. CASE ~EndedUnlogged(mem)
    <3>1. UNCHANGED <<log, ckpt>>
      BY <1>9, <2>3 DEF RestoreOutcome, MemoryOnly, disk
    <3>. QED
      BY <1>1, <2>1, <3>1, AccountQuiet DEF SameTokens, Reserving
  <2>. QED
    BY <2>2, <2>3
<1>10. CASE RestoreStages
  <2>1. op.kind = "restore_stages" /\ op' = NoOp /\ UNCHANGED <<mem, log, ckpt, clients>>
    BY <1>10 DEF RestoreStages, MemoryOnly, disk
  <2>. QED
    BY <1>1, <2>1, AccountQuiet DEF SameTokens, NoOp, Reserving
<1>11. CASE StartFails \/ Crash
  <2>1. /\ mem'.mission = 0 /\ mem'.tokensUsed = 0 /\ mem'.reservations = {} /\ op' = NoOp
        /\ \A i \in Invocations : model'[i] # model[i] => model[i] # "settled"
        /\ UNCHANGED <<log, ckpt, charge>>
    BY <1>11, HaltMoves DEF disk
  <2>2. Settled \subseteq Settled' /\ Used' = Used
    BY <2>1, UsedSame DEF Settled
  <2>. QED
    BY <2>1, <2>2, UsedBegan, AccountAnew DEF NoOp, Reserving
<1>. QED
  BY <1>2, <1>3, <1>4, <1>5, <1>6, <1>7, <1>8, <1>9, <1>10, <1>11 DEF StartNext

\* Every step keeps the accounts.
LEMMA AccountStep == TypeInv /\ LogInv /\ AccountInv /\ [Next]_vars => AccountInv'
<1>1. AccountInv /\ UNCHANGED vars => AccountInv'
  <2> SUFFICES ASSUME AccountInv, UNCHANGED vars PROVE AccountInv'
    OBVIOUS
  <2>1. UNCHANGED <<mem, ckpt, op, log, charge, model>>
    BY DEF vars, engine, disk, clients
  <2>2. Settled' = Settled
    BY <2>1 DEF Settled
  <2>. QED
    BY <2>1, <2>2, UsedSame, AccountAside
<1>. QED
  BY <1>1, AccountModel, AccountTools, AccountMission, AccountStart DEF Next

\* What answers cost is charged once: whatever fails and however often the process dies, an invocation whose
\* usage is in the log is charged to its mission and to no other, no invocation is charged twice, and the
\* budget is exceeded by no more than the answers ran over their reservations.
THEOREM UsageCharged == Spec => []UsageIsExact
<1>1. Init => TypeInv /\ LogInv /\ AccountInv
  BY TypeInit, LogInit, AccountInit
<1>2. TypeInv /\ LogInv /\ AccountInv /\ [Next]_vars => (TypeInv /\ LogInv /\ AccountInv)'
  BY TypeStep, LogStep, AccountStep
<1>3. TypeInv /\ LogInv /\ AccountInv => UsageIsExact
  <2> SUFFICES ASSUME TypeInv, LogInv, AccountInv PROVE UsageIsExact
    OBVIOUS
  <2>0. \A n, S : TokensAfter(n, S) = TokensOf(charge, n, S)
    BY DEF TokensAfter, TokensOf
  <2>1. UsageChargedExactlyOnce
    <3> DEFINE mine == UsageLoggedUnder(mem.mission)
               others == UNION {UsageLoggedUnder(m) : m \in Missions \ {mem.mission}}
    <3> SUFFICES ASSUME alive, op.kind # "restore_usage"
                 PROVE  SumOfCharges(mine) <= mem.tokensUsed /\ mem.tokensUsed <= SumOfCharges(Invocations \ others)
      BY DEF UsageChargedExactlyOnce
    <3>1. PICK C \in SUBSET Settled : Accounts(mem, C, charge, Used)
      BY DEF AccountInv, Accounted
    <3>2. mem.mission \in Missions /\ charge \in Charged /\ C \in SUBSET Invocations
      BY Typed, AccountTypes
    <3>3. mine \subseteq C
      <4> SUFFICES ASSUME NEW i \in Invocations, Logged(ModelUsage(mem.mission, i)) PROVE i \in C
        BY DEF UsageLoggedUnder
      <4>1. <<mem.mission, i>> \in Used
        BY <3>2, UsedMember
      <4>2. i \notin mem.reservations
        BY <3>2, <4>1 DEF AccountInv
      <4>. QED
        BY <3>1, <3>2, <4>1, <4>2 DEF Accounts
    <3>4. C \subseteq Invocations \ others
      <4> SUFFICES ASSUME NEW i \in C, NEW m \in Missions \ {mem.mission}, Logged(ModelUsage(m, i)) PROVE FALSE
        BY <3>2 DEF UsageLoggedUnder
      <4>1. <<m, i>> \in Used /\ i \in Invocations
        BY <3>2, UsedMember
      <4>. QED
        BY <3>1, <4>1 DEF Accounts
    <3>5. /\ SumOfCharges(mine) = Spent(charge, mine)
          /\ SumOfCharges(Invocations \ others) = Spent(charge, Invocations \ others)
      BY <2>0 DEF SumOfCharges, Spent
    <3>6. Spent(charge, mine) <= Spent(charge, C)
      BY <3>2, <3>3, SpentMore
    <3>7. Spent(charge, C) <= Spent(charge, Invocations \ others)
      BY <3>2, <3>4, SpentMore
    <3>. QED
      BY <3>1, <3>5, <3>6, <3>7 DEF Accounts
  <2>2. ASSUME NEW s \in State, NEW I, Accounted(s, I, charge, Settled, Used)
        PROVE  s.tokensUsed + Reserved(s)
                  <= MaxTokens + Cardinality(TokensAfter(MaxTokensPerInvocation, Invocations))
    <3> DEFINE r == MaxTokensPerInvocation * Cardinality(s.reservations)
               x == Cardinality(TokensOf(charge, MaxTokensPerInvocation, Invocations))
    <3>1. PICK C \in SUBSET Settled : Accounts(s, C, charge, Used)
      BY <2>2 DEF Accounted
    <3>2. charge \in Charged /\ C \in SUBSET Invocations /\ s.reservations \in SUBSET Invocations
      BY AccountTypes DEF State
    <3>3. Spent(charge, C) + r <= Cardinality(Held(charge, C, s.reservations)) + x
      BY <3>1, <3>2, SpentWithinHeld DEF Accounts
    <3>4. r \in Nat /\ x \in Nat /\ Spent(charge, C) \in Nat /\ Cardinality(Held(charge, C, s.reservations)) \in Nat
      BY <3>2, ReservationsCounted, TokensFinite, HeldFinite, BudgetAssumption DEF Spent
    <3>5. Cardinality(Held(charge, C, s.reservations)) <= MaxTokens /\ s.tokensUsed = Spent(charge, C)
      BY <3>1 DEF Accounts
    <3>6. Reserved(s) = r
      BY DEF Reserved
    <3> HIDE DEF r, x
    <3>7. s.tokensUsed + r <= MaxTokens + x
      BY <3>3, <3>4, <3>5, BudgetAssumption
    <3>. QED
      BY <2>0, <3>6, <3>7 DEF x
  <2>3. OverspendIsOverrun
    BY <2>2, AccountTypes DEF OverspendIsOverrun, AccountInv
  <2>. QED
    BY <2>1, <2>3 DEF UsageIsExact
<1>. QED
  BY <1>1, <1>2, <1>3, PTL DEF Spec

-----------------------------------------------------------------------------
(***************************************************************************)
(* The count of the calls.  In every state that the engine has or may go   *)
(* back to, toolCallsUsed covers the calls of its mission that are         *)
(* reserved or in the log; and a call is in the log before its tool runs.  *)
(***************************************************************************)
Calls == {p \in Missions \X Slots : Logged(ToolCall(p[1], p[2]))}

\* The calls that the state s has to count.
Known(s, calls) == s.reservedKeys \cup {k \in Slots : <<s.mission, k>> \in calls}

Counted(s, calls) ==
    Cardinality(Known(s, calls)) <= s.toolCallsUsed /\ s.toolCallsUsed <= MaxToolCalls

CountInv ==
    /\ Counted(mem, Calls) /\ Counted(ckpt, Calls)
    /\ op.kind \in Reserving => Counted(op.undo, Calls)
    /\ \A m \in Missions, k \in Slots : exec[m][k] # "none" => <<m, k>> \in Calls

\* There are finitely many calls.
LEMMA KnownFinite ==
    ASSUME NEW s \in State, NEW calls
    PROVE  IsFiniteSet(Known(s, calls)) /\ Cardinality(Known(s, calls)) \in Nat
<1>1. Known(s, calls) \subseteq Slots
  BY DEF Known, State
<1>. QED
  BY <1>1, FiniteAssumption, FS_Subset, FS_CardinalityType

\* Reserving the calls of a batch counts them.
LEMMA CountReserves ==
    ASSUME NEW s \in State, NEW t, NEW calls, NEW B \in SUBSET Slots,
           t.mission = s.mission, t.reservedKeys = s.reservedKeys \cup B,
           t.toolCallsUsed = s.toolCallsUsed + Cardinality(B),
           s.toolCallsUsed + Cardinality(B) <= MaxToolCalls, Counted(s, calls)
    PROVE  Counted(t, calls)
<1>1. IsFiniteSet(B) /\ Cardinality(B) \in Nat
  BY FiniteAssumption, FS_Subset, FS_CardinalityType
<1>2. IsFiniteSet(Known(s, calls)) /\ Cardinality(Known(s, calls)) \in Nat /\ s.toolCallsUsed \in Nat
  BY KnownFinite DEF State
<1>3. Known(t, calls) = Known(s, calls) \cup B
  BY DEF Known
<1>4. /\ Cardinality(Known(s, calls) \cup B)
            = Cardinality(Known(s, calls)) + Cardinality(B) - Cardinality(Known(s, calls) \cap B)
      /\ Cardinality(Known(s, calls) \cap B) \in Nat
  BY <1>1, <1>2, FS_Union, FS_Intersection, FS_CardinalityType
<1>5. Cardinality(Known(s, calls) \cup B) <= s.toolCallsUsed + Cardinality(B)
  BY <1>1, <1>2, <1>4 DEF Counted
<1>. QED
  BY <1>3, <1>5 DEF Counted

\* Fewer reservations are counted as well.
LEMMA CountReleases ==
    ASSUME NEW s \in State, NEW t, NEW calls,
           t.mission = s.mission, t.reservedKeys \subseteq s.reservedKeys, t.toolCallsUsed = s.toolCallsUsed,
           Counted(s, calls)
    PROVE  Counted(t, calls)
<1>1. Known(t, calls) \subseteq Known(s, calls)
  BY DEF Known
<1>2. /\ Cardinality(Known(t, calls)) \in Nat /\ Cardinality(Known(s, calls)) \in Nat /\ s.toolCallsUsed \in Nat
      /\ Cardinality(Known(t, calls)) <= Cardinality(Known(s, calls))
  BY <1>1, KnownFinite, FS_Subset, FS_CardinalityType DEF State
<1>. QED
  BY <1>2 DEF Counted

\* So are those that remain when the reservations U of calls that are not in the log are given back.
LEMMA CountGivesBack ==
    ASSUME NEW s \in State, NEW t, NEW calls, NEW U \in SUBSET s.reservedKeys,
           \A k \in U : <<s.mission, k>> \notin calls,
           t.mission = s.mission, t.reservedKeys = s.reservedKeys \ U,
           LET used == s.toolCallsUsed - Cardinality(U)
           IN  t.toolCallsUsed = IF U = {} THEN s.toolCallsUsed ELSE IF used < 0 THEN 0 ELSE used,
           Counted(s, calls)
    PROVE  Counted(t, calls)
<1>1. /\ IsFiniteSet(Known(s, calls)) /\ Cardinality(Known(s, calls)) \in Nat /\ s.toolCallsUsed \in Nat
      /\ U \subseteq Known(s, calls)
  BY KnownFinite DEF State, Known
<1>2. IsFiniteSet(U) /\ Cardinality(U) \in Nat
  BY <1>1, FS_Subset, FS_CardinalityType
<1>3. Known(t, calls) = Known(s, calls) \ U
  BY DEF Known
<1>4. /\ Cardinality(Known(s, calls) \ U)
            = Cardinality(Known(s, calls)) - Cardinality(Known(s, calls) \cap U)
      /\ IsFiniteSet(Known(s, calls) \ U)
  BY <1>1, FS_Difference
<1>5. Known(s, calls) \cap U = U /\ Cardinality(Known(s, calls) \ U) \in Nat
  BY <1>1, <1>4, FS_CardinalityType
<1>6. U = {} => Cardinality(U) = 0
  BY FS_EmptySet
<1>7. Cardinality(Known(t, calls)) = Cardinality(Known(s, calls)) - Cardinality(U)
  BY <1>3, <1>4, <1>5
<1>8. Cardinality(U) <= Cardinality(Known(s, calls))
  BY <1>1, <1>2, <1>3, <1>5, <1>7
<1>9. Cardinality(U) <= s.toolCallsUsed
  BY <1>1, <1>2, <1>8 DEF Counted
<1>10. t.toolCallsUsed = s.toolCallsUsed - Cardinality(U)
  BY <1>1, <1>2, <1>6, <1>9
<1>. QED
  BY <1>1, <1>2, <1>7, <1>10, BudgetAssumption DEF Counted

\* A mission that begins has no calls.
LEMMA CountOpens ==
    ASSUME NEW s, NEW calls, s.reservedKeys = {}, s.toolCallsUsed = 0,
           \A k \in Slots : <<s.mission, k>> \notin calls
    PROVE  Counted(s, calls)
<1>1. Known(s, calls) = {}
  BY DEF Known
<1>. QED
  BY <1>1, FS_EmptySet, BudgetAssumption DEF Counted

\* A call that is reserved may be logged.
LEMMA CountLogs ==
    ASSUME NEW s, NEW calls, NEW n, NEW j \in Slots, n = s.mission, j \in s.reservedKeys, Counted(s, calls)
    PROVE  Counted(s, calls \cup {<<n, j>>})
<1>1. Known(s, calls \cup {<<n, j>>}) = Known(s, calls)
  BY DEF Known
<1>. QED
  BY <1>1 DEF Counted

\* Which calls are in the log changes by nothing but an event of a call.
LEMMA CallsSame ==
    /\ UNCHANGED log => UNCHANGED Calls
    /\ TypeInv => \A e \in Events : RecordEvent(e) /\ e[1] # "tool_call" => UNCHANGED Calls
<1>1. UNCHANGED log => UNCHANGED Calls
  BY DEF Calls, Logged
<1>2. ASSUME TypeInv, NEW e \in Events, RecordEvent(e), e[1] # "tool_call" PROVE UNCHANGED Calls
  <2>1. \A m \in Missions, k \in Slots : Logged(ToolCall(m, k))' <=> Logged(ToolCall(m, k))
    BY <1>2, Elsewhere, EventsName
  <2>. QED
    BY <2>1 DEF Calls
<1>. QED
  BY <1>1, <1>2

\* A mission that begins has called nothing.
LEMMA CallsBegan ==
    ASSUME TypeInv, LogInv
    PROVE  \A m, k : <<m, k>> \in Calls => m # 0 /\ m # lastMission + 1
<1> SUFFICES ASSUME NEW m \in Missions, NEW k \in Slots, <<m, k>> \in Calls
             PROVE  m # 0 /\ m # lastMission + 1
  BY DEF Calls
<1>1. ToolCall(m, k) \in Events /\ ToolCall(m, k)[2] = m /\ Logged(ToolCall(m, k))
  BY EventsMade, EventsName DEF Calls
<1>2. m <= lastMission
  BY <1>1 DEF LogInv, Numbered
<1>. QED
  BY <1>2, Typed

\* A step that reserves no call, releases none that is not in the log and runs none keeps the count.
LEMMA CountQuiet ==
    ASSUME CountInv, UNCHANGED Calls, SameCalls, mem'.mission = mem.mission,
           ckpt' = ckpt \/ ckpt' = mem,
           op'.kind \notin Reserving \/ op' = op \/ op'.undo = mem,
           \A m \in Missions, k \in Slots : exec'[m][k] # "none" => exec[m][k] # "none"
    PROVE  CountInv'
<1>1. Counted(mem', Calls) /\ Counted(ckpt', Calls)
  BY DEF CountInv, Counted, Known, SameCalls
<1>2. op'.kind \in Reserving => Counted(op'.undo, Calls)
  BY DEF CountInv
<1>. QED
  BY <1>1, <1>2 DEF CountInv

\* A step after which the state in memory begins anew keeps it too.
LEMMA CountAnew ==
    ASSUME TypeInv, LogInv, CountInv, UNCHANGED <<Calls, ckpt>>,
           mem'.reservedKeys = {}, mem'.toolCallsUsed = 0, mem'.mission \in {0, lastMission + 1},
           op'.kind \notin Reserving,
           \A m \in Missions, k \in Slots : exec'[m][k] # "none" => exec[m][k] # "none"
    PROVE  CountInv'
<1>1. Counted(mem', Calls)
  BY CallsBegan, CountOpens
<1>. QED
  BY <1>1 DEF CountInv

\* Moving the calls of a batch that are in the log keeps every call that ran in the log.
LEMMA CountMoves ==
    ASSUME TypeInv, NEW B, NEW status, SetExec(B, status), mem.mission \in Missions,
           \A k \in B \cap Slots : exec[mem.mission][k] # "none"
    PROVE  \A m \in Missions, k \in Slots : exec'[m][k] # "none" => exec[m][k] # "none"
BY DEF SetExec, TypeInv, TypeOK

\* Initially there is no call.
LEMMA CountInit == Init => CountInv
<1> SUFFICES ASSUME Init PROVE CountInv
  OBVIOUS
<1>1. /\ mem = NoState /\ ckpt = NoState /\ NoState.reservedKeys = {} /\ NoState.toolCallsUsed = 0
      /\ op.kind = "none"
      /\ \A e \in Events : ~Logged(e)
      /\ \A m \in Missions, k \in Slots : exec[m][k] = "none"
  BY DEF Init, NoState, InitialState, NoOp, Logged
<1>2. Calls = {}
  BY <1>1, EventsMade DEF Calls
<1>3. Counted(NoState, Calls)
  BY <1>1, <1>2, CountOpens
<1>. QED
  BY <1>1, <1>2, <1>3 DEF CountInv, Reserving

\* The steps of model invocations keep the count.
LEMMA CountModel == TypeInv /\ LogInv /\ CountInv /\ ModelNext => CountInv'
<1> SUFFICES ASSUME TypeInv, LogInv, CountInv, ModelNext PROVE CountInv'
  OBVIOUS
<1>1. ASSUME NEW i \in Invocations, ReserveModel(i) \/ ChargeModel(i) PROVE CountInv'
  <2>1. /\ SameCalls /\ mem'.mission = mem.mission /\ UNCHANGED <<log, ckpt, exec>>
        /\ op'.kind \notin Reserving \/ op'.undo = mem
    BY <1>1, ReserveModelMoves, ChargeModelMoves DEF disk, SameMission, Reserving
  <2>. QED
    BY <2>1, CallsSame, CountQuiet
<1>2. ASSUME NEW i \in Invocations, NEW c, ModelAnswers(i, c) \/ ChargeModelUnknown(i) PROVE CountInv'
  <2>1. UNCHANGED <<mem, ckpt, op, log, exec>>
    BY <1>2 DEF ModelAnswers, ChargeModelUnknown, MemoryOnly, disk, engine
  <2>. QED
    BY <2>1, CallsSame, CountQuiet DEF SameCalls
<1>3. CASE ReserveModelSaved
  <2>1. ckpt' = mem /\ op' = NoOp /\ UNCHANGED <<mem, log, exec>>
    BY <1>3 DEF ReserveModelSaved, SaveCheckpoint
  <2>. QED
    BY <2>1, CallsSame, CountQuiet DEF SameCalls, NoOp, Reserving
<1>4. CASE ReserveModelFails
  <2>1. mem' = op.undo /\ op' = NoOp /\ op.kind \in Reserving /\ UNCHANGED <<ckpt, log, exec>>
    BY <1>4 DEF ReserveModelFails, SaveFails, disk, Reserving
  <2>2. UNCHANGED Calls
    BY <2>1, CallsSame
  <2>. QED
    BY <2>1, <2>2 DEF CountInv, NoOp, Reserving
<1>5. CASE UsageLogged
  <2>1. /\ op.kind = "log_usage" /\ RecordEvent(ModelUsage(mem.mission, op.id)) /\ op'.kind = "save"
        /\ op.id \in Invocations /\ mem.mission \in Missions /\ UNCHANGED <<mem, ckpt, exec>>
    BY <1>5, Typed, OpFields DEF UsageLogged, TypeInv, TypeOK, NoOp, clients, RecordEvent
  <2>2. ModelUsage(mem.mission, op.id) \in Events /\ ModelUsage(mem.mission, op.id)[1] # "tool_call"
    BY <2>1, EventsMade, EventsName
  <2>3. UNCHANGED Calls
    BY <2>1, <2>2, CallsSame
  <2>. QED
    BY <2>1, <2>3, CountQuiet DEF SameCalls, Reserving
<1>. QED
  BY <1>1, <1>2, <1>3, <1>4, <1>5 DEF ModelNext

\* The steps of tool calls keep the count.
LEMMA CountTools == TypeInv /\ LogInv /\ ReplayInv /\ CountInv /\ ToolNext => CountInv'
<1> SUFFICES ASSUME TypeInv, LogInv, ReplayInv, CountInv, ToolNext PROVE CountInv'
  OBVIOUS
<1>0. \A B \in Batches : B \in SUBSET Slots
  BY BatchAssumption
<1>1. ASSUME NEW B \in Batches, ReserveTools(B) PROVE CountInv'
  <2>1. /\ mem'.reservedKeys = mem.reservedKeys \cup B
        /\ mem'.toolCallsUsed = mem.toolCallsUsed + Cardinality(B)
        /\ mem.toolCallsUsed + Cardinality(B) <= MaxToolCalls
        /\ mem'.mission = mem.mission
        /\ op' = [kind |-> "reserve_tools", batch |-> B, undo |-> mem]
        /\ UNCHANGED <<log, ckpt, exec>>
    BY <1>1, ReserveToolsMoves DEF disk, clients, SameMission
  <2>2. UNCHANGED Calls
    BY <2>1, CallsSame
  <2>3. Counted(mem', Calls)
    BY <1>0, <2>1, Typed, CountReserves DEF CountInv
  <2>. QED
    BY <2>1, <2>2, <2>3 DEF CountInv
<1>2. ASSUME NEW B \in Batches, NEW status, Idle, SetExec(B, status), \A k \in B : Exec(k) # "none"
      PROVE  \A m \in Missions, k \in Slots : exec'[m][k] # "none" => exec[m][k] # "none"
  BY <1>2, Typed, CountMoves DEF Idle, Exec
<1>3. ASSUME NEW B \in Batches, ToolsPause(B) \/ ResumeTools(B) \/ ToolResultFails(B) PROVE CountInv'
  <2>1. UNCHANGED <<mem, ckpt, op, log>> /\ Idle
    BY <1>3 DEF ToolsPause, ResumeTools, ToolResultFails, MemoryOnly, AppendFails, disk, engine
  <2>2. PICK status \in {"paused", "resumed", "done"} :
           SetExec(B, status) /\ \A k \in B : Exec(k) \in {"running", "paused", "resumed"}
    BY <1>3 DEF ToolsPause, ResumeTools, ToolResultFails
  <2>3. \A m \in Missions, k \in Slots : exec'[m][k] # "none" => exec[m][k] # "none"
    BY <1>2, <2>1, <2>2
  <2>. QED
    BY <2>1, <2>3, CallsSame, CountQuiet DEF SameCalls
<1>4. ASSUME NEW B \in Batches, ReleaseTools(B) PROVE CountInv'
  <2>1. /\ mem'.reservedKeys = mem.reservedKeys \ B /\ mem'.toolCallsUsed = mem.toolCallsUsed
        /\ mem'.mission = mem.mission /\ op'.kind \in {"none", "save"} /\ SetExec(B, "done")
        /\ Idle /\ UNCHANGED <<log, ckpt>>
    BY <1>4, ReleaseToolsMoves DEF disk, SameMission, NoOp, Idle
  <2>2. UNCHANGED Calls
    BY <2>1, CallsSame
  <2>3. Counted(mem', Calls)
    BY <2>1, Typed, CountReleases DEF CountInv
  <2>4. \A k \in B : Exec(k) # "none"
    BY <1>4 DEF ReleaseTools
  <2>5. \A m \in Missions, k \in Slots : exec'[m][k] # "none" => exec[m][k] # "none"
    BY <1>2, <2>1, <2>4
  <2>. QED
    BY <2>1, <2>2, <2>3, <2>5 DEF CountInv, Reserving
<1>5. CASE ReserveToolsSaved
  <2>1. ckpt' = mem /\ op'.kind = "log_calls" /\ UNCHANGED <<mem, log, exec>>
    BY <1>5 DEF ReserveToolsSaved, SaveCheckpoint, clients
  <2>. QED
    BY <2>1, CallsSame, CountQuiet DEF SameCalls, Reserving
<1>6. CASE ReserveToolsFails
  <2>1. mem' = op.undo /\ op' = NoOp /\ op.kind \in Reserving /\ UNCHANGED <<ckpt, log, exec>>
    BY <1>6 DEF ReserveToolsFails, SaveFails, disk, clients, Reserving
  <2>2. UNCHANGED Calls
    BY <2>1, CallsSame
  <2>. QED
    BY <2>1, <2>2 DEF CountInv, NoOp, Reserving
<1>7. ASSUME NEW k \in Slots, ToolCallLogged(k) PROVE CountInv'
  <2> DEFINE e == ToolCall(mem.mission, k)
  <2>1. /\ op.kind = "log_calls" /\ k \in op.left /\ RecordEvent(e) /\ UNCHANGED <<mem, ckpt>>
        /\ mem.mission \in Missions /\ op.batch \in Batches
    BY <1>7, Typed, OpFields DEF ToolCallLogged, TypeInv, TypeOK, NoOp, RecordEvent
  <2>2. op'.kind \in {"none", "log_calls"}
    BY <1>7, Typed DEF ToolCallLogged, NoOp, OpKinds
  <2>3. /\ op.batch \subseteq mem.reservedKeys /\ op.left \subseteq op.batch /\ ckpt = mem
        /\ \A j \in op.batch \ op.left : Logged(ToolCall(mem.mission, j))
    BY <2>1 DEF ReplayInv
  <2>4. e \in Events /\ \A m \in Missions, j \in Slots : ToolCall(m, j) = e <=> m = mem.mission /\ j = k
    BY <2>1, EventsMade, EventsName
  <2> HIDE DEF e
  <2>5. Calls' = Calls \cup {<<mem.mission, k>>}
    <3>1. \A m \in Missions, j \in Slots :
             Logged(ToolCall(m, j))' <=> Logged(ToolCall(m, j)) \/ (m = mem.mission /\ j = k)
      BY <2>1, <2>4, Elsewhere
    <3>2. \A p \in Missions \X Slots : p = <<p[1], p[2]>> /\ p[1] \in Missions /\ p[2] \in Slots
      OBVIOUS
    <3>3. \A p : p \in Calls' <=> p \in Calls \/ p = <<mem.mission, k>>
      BY <2>1, <3>1, <3>2 DEF Calls
    <3>. QED
      BY <3>3
  <2>6. Counted(mem, Calls') /\ Counted(ckpt, Calls')
    BY <2>1, <2>3, <2>5, CountLogs DEF CountInv
  <2>7. ASSUME NEW m \in Missions, NEW j \in Slots, exec'[m][j] # "none" PROVE <<m, j>> \in Calls'
    <3>1. CASE exec[m][j] # "none"
      BY <2>5, <3>1 DEF CountInv
    <3>2. CASE exec[m][j] = "none"
      <4>1. op.left = {k} /\ SetExec(op.batch, "running")
        BY <1>7, <2>7, <3>2 DEF ToolCallLogged
      <4>2. m = mem.mission /\ j \in op.batch
        BY <2>1, <2>7, <3>2, <4>1 DEF SetExec, TypeInv, TypeOK
      <4>3. j = k \/ Logged(ToolCall(mem.mission, j))
        BY <2>3, <4>1, <4>2
      <4>. QED
        BY <2>1, <2>5, <4>2, <4>3 DEF Calls
    <3>. QED
      BY <3>1, <3>2
  <2>. QED
    BY <2>1, <2>2, <2>6, <2>7 DEF CountInv, Reserving
<1>. QED
  BY <1>1, <1>3, <1>4, <1>5, <1>6, <1>7 DEF ToolNext

\* The steps of stages and outcomes keep the count.
LEMMA CountMission == TypeInv /\ LogInv /\ CountInv /\ MissionNext => CountInv'
<1> SUFFICES ASSUME TypeInv, LogInv, CountInv, MissionNext PROVE CountInv'
  OBVIOUS
<1>0. op = NoOp \/ mem.mission \in Missions
  BY Typed DEF TypeInv, TypeOK
<1>1. ASSUME NEW e \in Events, RecordEvent(e), e[1] # "tool_call", UNCHANGED clients
      PROVE  UNCHANGED <<ckpt, exec, Calls>>
  BY <1>1, CallsSame DEF RecordEvent, clients
<1>2. ASSUME NEW s \in Stages, RecordStageStarted(s) \/ RecordStageCompleted(s) PROVE CountInv'
  <2>1. /\ op'.kind \in {"log_stage_started", "log_stage_completed"}
        /\ UNCHANGED <<mem, ckpt, log, exec>>
    BY <1>2 DEF RecordStageStarted, RecordStageCompleted, Idle, MemoryOnly, disk, clients
  <2>. QED
    BY <2>1, CallsSame, CountQuiet DEF SameCalls, Reserving
<1>3. CASE StageStartedLogged \/ StageCompletedLogged \/ MissionStartedLogged
  <2>1. PICK e \in {StageStarted(mem.mission, op.stage), StageCompleted(mem.mission, op.stage),
                    MissionStarted(mem.mission)} :
           /\ RecordEvent(e) /\ UNCHANGED <<mem, clients>> /\ op'.kind \in {"none", "save"}
           /\ op.kind \in {"log_stage_started", "log_stage_completed", "log_start"}
           /\ e # MissionStarted(mem.mission) => op.kind # "log_start"
    BY <1>3 DEF StageStartedLogged, StageCompletedLogged, MissionStartedLogged, NoOp
  <2>2. mem.mission \in Missions /\ (e # MissionStarted(mem.mission) => op.stage \in Stages)
    BY <1>0, <2>1, OpFields, Typed DEF NoOp
  <2>3. e \in Events /\ e[1] # "tool_call"
    <3>1. CASE e = MissionStarted(mem.mission)
      BY <2>2, <3>1, EventsMade, EventsName
    <3>2. CASE e # MissionStarted(mem.mission)
      BY <2>1, <2>2, <3>2, EventsMade, EventsName
    <3>. QED
      BY <3>1, <3>2
  <2>. QED
    BY <1>1, <2>1, <2>3, CountQuiet DEF SameCalls, Reserving
<1>4. ASSUME NEW p \in Outcomes, RecordOutcome(p) PROVE CountInv'
  <2>1. /\ SameCalls /\ mem'.mission = mem.mission /\ op'.kind \in {"save", "log_outcome"}
        /\ UNCHANGED <<log, ckpt, exec>>
    BY <1>4, RecordOutcomeMoves DEF disk, clients
  <2>. QED
    BY <2>1, CallsSame, CountQuiet DEF Reserving
<1>5. op.kind = "log_outcome" => /\ MissionEnded(mem.mission, mem.phase) \in Events
                                 /\ MissionEnded(mem.mission, mem.phase)[1] # "tool_call"
  BY <1>0, EventsMade, EventsName DEF LogInv, Phased, NoOp
<1>6. CASE OutcomeLogged
  <2>1. /\ op.kind = "log_outcome" /\ RecordEvent(MissionEnded(mem.mission, mem.phase)) /\ op' = NoOp
        /\ UNCHANGED <<mem, clients>>
    BY <1>6 DEF OutcomeLogged
  <2>. QED
    BY <1>1, <1>5, <2>1, CountQuiet DEF SameCalls, NoOp, Reserving
<1>7. ASSUME NewMission(Saving("log_start")), lastMission < MaxMissions, UNCHANGED <<ckpt, exec, Calls>>
      PROVE  CountInv'
  <2>1. mem'.mission = lastMission + 1 /\ mem'.toolCallsUsed = 0 /\ mem'.reservedKeys = {} /\ op'.kind = "save"
    BY <1>7, NewMissionMoves DEF Saving
  <2>. QED
    BY <1>7, <2>1, CountAnew DEF Reserving
<1>8. CASE BeginExecution
  <2>1. UNCHANGED <<log, ckpt, exec>> /\ lastMission < MaxMissions
    BY <1>8 DEF BeginExecution, MemoryOnly, disk, clients
  <2>2. CASE EndedUnlogged(mem)
    <3>1. UNCHANGED mem /\ op'.kind = "log_outcome"
      BY <1>8, <2>2 DEF BeginExecution
    <3>. QED
      BY <2>1, <3>1, CallsSame, CountQuiet DEF SameCalls, Reserving
  <2>3. CASE ~EndedUnlogged(mem)
    <3>1. NewMission(Saving("log_start"))
      BY <1>8, <2>3 DEF BeginExecution, Saving
    <3>. QED
      BY <1>7, <2>1, <3>1, CallsSame
  <2>. QED
    BY <2>2, <2>3
<1>9. CASE BeginExecutionLogged
  <2>1. /\ op.kind = "log_outcome" /\ op.then = "new_mission"
        /\ RecordEvent(MissionEnded(mem.mission, mem.phase))
        /\ NewMission(Saving("log_start")) /\ UNCHANGED clients
    BY <1>9 DEF BeginExecutionLogged, Saving
  <2>2. lastMission < MaxMissions
    BY <2>1, Typed, OpFields DEF TypeInv, NextOK
  <2>3. UNCHANGED <<ckpt, exec, Calls>>
    BY <1>1, <1>5, <2>1
  <2>. QED
    BY <1>7, <2>1, <2>2, <2>3
<1>10. CASE Saved
  <2>1. ckpt' = mem /\ UNCHANGED <<mem, log, exec>> /\ op'.kind \in {"none", "log_outcome", "log_start"}
    BY <1>10, OpFields, Typed DEF Saved, SaveCheckpoint, NoOp, clients
  <2>. QED
    BY <2>1, CallsSame, CountQuiet DEF SameCalls, Reserving
<1>11. CASE SavedFails \/ LastAppendFails
  <2>1. op' = NoOp /\ UNCHANGED <<mem, ckpt, log, exec>>
    BY <1>11 DEF SavedFails, LastAppendFails, SaveFails, AppendFails, disk, clients
  <2>. QED
    BY <2>1, CallsSame, CountQuiet DEF SameCalls, NoOp, Reserving
<1>. QED
  BY <1>2, <1>3, <1>4, <1>6, <1>8, <1>9, <1>10, <1>11
     DEF MissionNext, RecordMissionCompleted, RecordMissionFailed, Outcomes

\* The steps of initialize, and a crash, keep the count.
LEMMA CountStart == TypeInv /\ LogInv /\ CountInv /\ StartNext => CountInv'
<1> SUFFICES ASSUME TypeInv, LogInv, CountInv, StartNext PROVE CountInv'
  OBVIOUS
<1>0. op = NoOp \/ mem.mission \in Missions
  BY Typed DEF TypeInv, TypeOK
<1>1. CASE StartFresh
  <2>1. /\ NewMission([kind |-> "init_start"]) /\ lastMission < MaxMissions
        /\ UNCHANGED <<log, ckpt, exec>>
    BY <1>1 DEF StartFresh, MemoryOnly, disk, clients
  <2>2. mem'.mission = lastMission + 1 /\ mem'.toolCallsUsed = 0 /\ mem'.reservedKeys = {} /\ op'.kind = "init_start"
    BY <2>1, NewMissionMoves
  <2>. QED
    BY <2>1, <2>2, CallsSame, CountAnew DEF Reserving
<1>2. CASE StartFreshLogged
  <2>1. /\ op.kind = "init_start" /\ RecordEvent(MissionStarted(mem.mission)) /\ op' = NoOp
        /\ mem.mission \in Missions /\ UNCHANGED <<mem, ckpt, exec>>
    BY <1>0, <1>2 DEF StartFreshLogged, RecordEvent, clients, NoOp
  <2>2. MissionStarted(mem.mission) \in Events /\ MissionStarted(mem.mission)[1] # "tool_call"
    BY <2>1, EventsMade, EventsName
  <2>3. UNCHANGED Calls
    BY <2>1, <2>2, CallsSame
  <2>. QED
    BY <2>1, <2>3, CountQuiet DEF SameCalls, NoOp, Reserving
<1>3. CASE Restore
  <2>1. mem' = ckpt /\ op'.kind = "restore_usage" /\ UNCHANGED <<log, ckpt, exec>>
    BY <1>3 DEF Restore, MemoryOnly, disk, clients
  <2>. QED
    BY <2>1, CallsSame DEF CountInv, Reserving
<1>4. ASSUME NEW i \in Invocations, RestoreUsage(i) PROVE CountInv'
  <2>1. /\ SameCalls /\ mem'.mission = mem.mission /\ op'.kind = "restore_usage"
        /\ UNCHANGED <<log, ckpt, exec>>
    BY <1>4, RestoreUsageMoves DEF SameMission, disk, clients
  <2>. QED
    BY <2>1, CallsSame, CountQuiet DEF Reserving
<1>5. CASE RestoreOrphans
  <2>1. /\ SameCalls /\ mem'.mission = mem.mission /\ op'.kind \in {"init_save", "restore_tools"}
        /\ UNCHANGED <<log, ckpt, exec>>
    BY <1>5, RestoreOrphansMoves DEF SameMission, disk, clients
  <2>. QED
    BY <2>1, CallsSame, CountQuiet DEF Reserving
<1>6. CASE RestoreTools
  <2>1. /\ mem'.reservedKeys = mem.reservedKeys \ Unlogged(mem)
        /\ LET used == mem.toolCallsUsed - Cardinality(Unlogged(mem))
           IN  mem'.toolCallsUsed = IF Unlogged(mem) = {} THEN mem.toolCallsUsed
                                    ELSE IF used < 0 THEN 0 ELSE used
        /\ mem'.mission = mem.mission /\ op'.kind \in {"init_save", "restore_outcome"}
        /\ UNCHANGED <<log, ckpt, exec>>
    BY <1>6, RestoreToolsMoves DEF SameMission, disk, clients
  <2>2. Unlogged(mem) \in SUBSET mem.reservedKeys /\ \A k \in Unlogged(mem) : <<mem.mission, k>> \notin Calls
    BY DEF Unlogged, Calls
  <2>3. Counted(mem', Calls)
    BY <2>1, <2>2, Typed, CountGivesBack DEF CountInv
  <2>. QED
    BY <2>1, <2>3, CallsSame DEF CountInv, Reserving
<1>7. CASE InitSaved
  <2>1. ckpt' = mem /\ op'.kind \in {"restore_tools", "restore_outcome"} /\ UNCHANGED <<mem, log, exec>>
    BY <1>7, OpFields, Typed DEF InitSaved, SaveCheckpoint, clients
  <2>. QED
    BY <2>1, CallsSame, CountQuiet DEF SameCalls, Reserving
<1>8. CASE RestoreOutcome
  <2>1. op.kind = "restore_outcome" /\ op'.kind = "restore_stages" /\ UNCHANGED <<mem, exec>>
        /\ mem.mission \in Missions
    BY <1>0, <1>8 DEF RestoreOutcome, NoOp, clients
  <2>2. UNCHANGED <<ckpt, Calls>>
    <3>1. CASE EndedUnlogged(mem)
      <4>1. RecordEvent(MissionEnded(mem.mission, mem.phase)) /\ mem.phase \in Outcomes
        BY <1>8, <3>1 DEF RestoreOutcome, EndedUnlogged
      <4>2. /\ MissionEnded(mem.mission, mem.phase) \in Events
            /\ MissionEnded(mem.mission, mem.phase)[1] # "tool_call"
        BY <2>1, <4>1, EventsMade, EventsName
      <4>. QED
        BY <4>1, <4>2, CallsSame DEF RecordEvent
    <3>2. CASE ~EndedUnlogged(mem)
      BY <1>8, <3>2, CallsSame DEF RestoreOutcome, MemoryOnly, disk
    <3>. QED
      BY <3>1, <3>2
  <2>. QED
    BY <2>1, <2>2, CountQuiet DEF SameCalls, Reserving
<1>9. CASE RestoreStages
  <2>1. op' = NoOp /\ UNCHANGED <<mem, log, ckpt, exec>>
    BY <1>9 DEF RestoreStages, MemoryOnly, disk, clients
  <2>. QED
    BY <2>1, CallsSame, CountQuiet DEF SameCalls, NoOp, Reserving
<1>10. CASE StartFails \/ Crash
  <2>1. /\ mem'.mission = 0 /\ mem'.toolCallsUsed = 0 /\ mem'.reservedKeys = {} /\ op' = NoOp
        /\ \A m \in Missions, k \in Slots : exec'[m][k] = "none" <=> exec[m][k] = "none"
        /\ UNCHANGED <<log, ckpt>>
    BY <1>10, HaltMoves DEF disk
  <2>. QED
    BY <2>1, CallsSame, CountAnew DEF NoOp, Reserving
<1>. QED
  BY <1>1, <1>2, <1>3, <1>4, <1>5, <1>6, <1>7, <1>8, <1>9, <1>10 DEF StartNext

\* Every step keeps the count.
LEMMA CountStep == TypeInv /\ LogInv /\ ReplayInv /\ CountInv /\ [Next]_vars => CountInv'
<1>1. CountInv /\ UNCHANGED vars => CountInv'
  BY DEF CountInv, Calls, Logged, vars, engine, disk, clients
<1>. QED
  BY <1>1, CountModel, CountTools, CountMission, CountStart DEF Next

\* Every call that ever ran in the mission is paid for out of maxToolCalls, whatever fails and however often
\* the process dies.
THEOREM CallsAreCounted == Spec => []ExecutedCallsAreCounted
<1>1. Init => TypeInv /\ LogInv /\ ReplayInv /\ CountInv
  BY TypeInit, LogInit, ReplayInit, CountInit
<1>2. TypeInv /\ LogInv /\ ReplayInv /\ CountInv /\ [Next]_vars => (TypeInv /\ LogInv /\ ReplayInv /\ CountInv)'
  BY TypeStep, LogStep, ReplayStep, CountStep
<1>3. TypeInv /\ CountInv => ExecutedCallsAreCounted
  <2> SUFFICES ASSUME TypeInv, CountInv, alive
               PROVE  /\ Cardinality({k \in Slots : Exec(k) # "none"}) <= mem.toolCallsUsed
                      /\ mem.toolCallsUsed <= MaxToolCalls
    BY DEF ExecutedCallsAreCounted
  <2> DEFINE ran == {k \in Slots : Exec(k) # "none"}
  <2>1. mem.mission \in Missions /\ mem.toolCallsUsed \in Nat
    BY Typed DEF State
  <2>2. ran \subseteq Known(mem, Calls)
    BY <2>1 DEF CountInv, Known, Exec
  <2>3. /\ Cardinality(ran) \in Nat /\ Cardinality(Known(mem, Calls)) \in Nat
        /\ Cardinality(ran) <= Cardinality(Known(mem, Calls))
    BY <2>2, Typed, KnownFinite, FS_Subset, FS_CardinalityType
  <2> HIDE DEF ran
  <2>4. Cardinality(ran) <= mem.toolCallsUsed
    BY <2>1, <2>3 DEF CountInv, Counted
  <2>. QED
    BY <2>4 DEF CountInv, Counted, ran
<1>. QED
  BY <1>1, <1>2, <1>3, PTL DEF Spec
=============================================================================
