------------------------------- MODULE Mission -------------------------------
(***************************************************************************)
(* The durable control plane of a mission: class MissionEngine of          *)
(* src/src/core/orchestrator/mission-engine.ts, as the swarm workers and   *)
(* the audit pipeline use it through MissionRuntimeObserver.               *)
(*                                                                         *)
(* Every runtime operation is chained on runtimeMutation, so at most one   *)
(* is under way (variable op).  An operation changes the state in memory   *)
(* and then makes it durable in one or more awaited steps, the save of a   *)
(* checkpoint or the append of an event.  Each such step may fail, which   *)
(* ends the operation with an exception, and the process may die before    *)
(* any of them.  Meanwhile the model providers and the tools the workers   *)
(* called run on their own.                                                *)
(*                                                                         *)
(* A failed append or save leaves the file as it was, and the checkpoint   *)
(* restored is the last one saved: EventStore and CheckpointManager are    *)
(* abstracted to that.  A mission is a number, a fresh one for every       *)
(* crypto.randomUUID().  A tool call is its slot, the key                  *)
(* agent:execution:call; a batch is the set of slots of one response.      *)
(***************************************************************************)
EXTENDS Integers, FiniteSets

CONSTANTS
    Invocations,             \* reservation ids; each is used for one invocation
    Slots,                   \* tool-call keys
    Batches,                 \* the calls of one response, a partition of Slots
    ConfirmedBatches,        \* batches that pause for a human confirmation
    Stages,                  \* names of stages
    Charges,                 \* what an invocation may be charged
    MaxTokens, MaxTokensPerInvocation, MaxToolCalls,   \* MissionEngineOptions
    MaxMissions,             \* bound: missions created
    MaxCrashes,              \* bound: deaths of the process
    MaxAppendFailures,       \* bound: failed appends to the event log
    MaxSaveFailures          \* bound: failed saves of a checkpoint

ASSUME BudgetAssumption ==
    /\ MaxTokens \in Nat /\ MaxTokensPerInvocation \in Nat /\ MaxToolCalls \in Nat
    /\ Charges \subseteq Nat
ASSUME BoundAssumption ==
    MaxMissions \in Nat /\ MaxCrashes \in Nat
    /\ MaxAppendFailures \in Nat /\ MaxSaveFailures \in Nat
ASSUME FiniteAssumption == IsFiniteSet(Invocations) /\ IsFiniteSet(Slots)
ASSUME BatchAssumption ==
    /\ Batches \subseteq SUBSET Slots /\ {} \notin Batches
    /\ \A B, C \in Batches : B = C \/ B \cap C = {}
    /\ ConfirmedBatches \subseteq Batches

VARIABLES
    alive,            \* the process runs and holds a MissionEngine
    mem,              \* MissionEngine.state
    startedStages,    \* MissionEngine.startedStages
    completedStages,  \* MissionEngine.completedStages
    op,               \* the runtime mutation under way
    ckpt,             \* the newest checkpoint on disk
    log,              \* events.jsonl: how often each event was appended
    model,            \* where each model invocation is
    charge,           \* what each invocation consumed, 0 until its answer
    exec,             \* where each tool call of each mission is
    lastMission,      \* the last mission id drawn
    faults            \* how many crashes and failures have happened

engine  == <<alive, mem, startedStages, completedStages, op>>
disk    == <<ckpt, log>>
clients == <<model, charge, exec>>
vars    == <<engine, disk, clients, lastMission, faults>>

-----------------------------------------------------------------------------
Missions  == 1..MaxMissions
Outcomes  == {"COMPLETE", "FAILED"}
Phases    == {"OBSERVE"} \cup Outcomes   \* all the other phases act as OBSERVE

State == [mission      : 0..MaxMissions,
          phase        : Phases,
          tokensUsed   : Nat,
          reservations : SUBSET Invocations,  \* MaxTokensPerInvocation each
          reservedKeys : SUBSET Slots,
          toolCallsUsed : Nat]

InitialState(m) ==
    [mission |-> m, phase |-> "OBSERVE", tokensUsed |-> 0, reservations |-> {},
     reservedKeys |-> {}, toolCallsUsed |-> 0]

NoState == InitialState(0)    \* in ckpt: no checkpoint was saved yet

Events == ({"model_usage"} \X Missions \X Invocations)
     \cup ({"tool_call"} \X Missions \X Slots)
     \cup ({"stage_started", "stage_completed"} \X Missions \X Stages)
     \cup ({"mission_started"} \X Missions \X {"OBSERVE"})
     \cup ({"mission_ended"} \X Missions \X Outcomes)

ModelUsage(m, i)     == <<"model_usage", m, i>>
ToolCall(m, k)       == <<"tool_call", m, k>>
StageStarted(m, s)   == <<"stage_started", m, s>>
StageCompleted(m, s) == <<"stage_completed", m, s>>
MissionStarted(m)    == <<"mission_started", m, "OBSERVE">>
MissionEnded(m, p)   == <<"mission_ended", m, p>>  \* mission_completed, _failed

Logged(e) == log[e] > 0

Reserved(s)  == MaxTokensPerInvocation * Cardinality(s.reservations)
\* Faulty variant: what other invocations hold is not subtracted.
AvailableIgnoringReservations(s) == MaxTokens - s.tokensUsed

Available(s) == MaxTokens - s.tokensUsed - Reserved(s)

NoOp == [kind |-> "none"]
Idle == alive /\ op = NoOp      \* initialized, nothing on runtimeMutation

(***************************************************************************)
(* The awaited steps.                                                      *)
(***************************************************************************)
SaveCheckpoint == ckpt' = mem /\ UNCHANGED <<log, faults>>

SaveFails ==
    /\ faults.saves < MaxSaveFailures
    /\ faults' = [faults EXCEPT !.saves = @ + 1]
    /\ UNCHANGED disk

RecordEvent(e) ==
    log' = [log EXCEPT ![e] = @ + 1] /\ UNCHANGED <<ckpt, faults>>

AppendFails ==
    /\ faults.appends < MaxAppendFailures
    /\ faults' = [faults EXCEPT !.appends = @ + 1]
    /\ UNCHANGED disk

MemoryOnly == UNCHANGED <<disk, faults>>

Init ==
    /\ alive = FALSE /\ mem = NoState /\ op = NoOp
    /\ startedStages = {} /\ completedStages = {}
    /\ ckpt = NoState
    /\ log = [e \in Events |-> 0]
    /\ model = [i \in Invocations |-> "idle"]
    /\ charge = [i \in Invocations |-> 0]
    /\ exec = [m \in Missions |-> [k \in Slots |-> "none"]]
    /\ lastMission = 0
    /\ faults = [crashes |-> 0, appends |-> 0, saves |-> 0]

-----------------------------------------------------------------------------
(***************************************************************************)
(* Model invocations: runObservedModelInvocation reserves, calls the       *)
(* provider, and charges what came back.                                   *)
(***************************************************************************)
ReserveModel(i) ==
    /\ Idle /\ model[i] = "idle"
    /\ Available(mem) >= MaxTokensPerInvocation
    /\ mem' = [mem EXCEPT !.reservations = @ \cup {i}]
    /\ op' = [kind |-> "reserve_model", id |-> i, undo |-> mem]
    /\ model' = [model EXCEPT ![i] = "reserving"]
    /\ MemoryOnly
    /\ UNCHANGED <<alive, startedStages, completedStages, charge, exec, lastMission>>

ReserveModelSaved ==
    /\ op.kind = "reserve_model"
    /\ SaveCheckpoint
    /\ op' = NoOp
    /\ model' = [model EXCEPT ![op.id] = "calling"]
    /\ UNCHANGED <<alive, mem, startedStages, completedStages, charge, exec, lastMission>>

ReserveModelFails ==
    /\ op.kind = "reserve_model"
    /\ SaveFails
    /\ mem' = op.undo
    /\ op' = NoOp
    /\ model' = [model EXCEPT ![op.id] = "settled"]
    /\ UNCHANGED <<alive, startedStages, completedStages, charge, exec, lastMission>>

\* The provider answers, or fails: then there is no usage and the whole
\* reservation is charged.
ModelAnswers(i, c) ==
    /\ alive /\ model[i] = "calling"
    /\ model' = [model EXCEPT ![i] = "answered"]
    /\ charge' = [charge EXCEPT ![i] = c]
    /\ MemoryOnly
    /\ UNCHANGED <<engine, exec, lastMission>>

ChargeModel(i) ==
    /\ Idle /\ model[i] = "answered" /\ i \in mem.reservations
    /\ mem' = [mem EXCEPT !.reservations = @ \ {i}, !.tokensUsed = @ + charge[i]]
    /\ op' = [kind |-> "log_usage", id |-> i]
    /\ model' = [model EXCEPT ![i] = "settled"]
    /\ MemoryOnly
    /\ UNCHANGED <<alive, startedStages, completedStages, charge, exec, lastMission>>

\* The reservation went with an earlier mission: afterModelInvocation throws.
ChargeModelUnknown(i) ==
    /\ Idle /\ model[i] = "answered" /\ i \notin mem.reservations
    /\ model' = [model EXCEPT ![i] = "settled"]
    /\ MemoryOnly
    /\ UNCHANGED <<engine, charge, exec, lastMission>>

UsageLogged ==
    /\ op.kind = "log_usage"
    /\ RecordEvent(ModelUsage(mem.mission, op.id))
    /\ op' = [kind |-> "save", then |-> "none"]
    /\ UNCHANGED <<alive, mem, startedStages, completedStages, clients, lastMission>>

\* A step of an operation that keeps what it changed in memory when it fails.
LastAppendFails ==
    /\ op.kind \in {"log_usage", "log_calls", "log_outcome", "log_start",
                    "log_stage_started", "log_stage_completed"}
    /\ AppendFails
    /\ op' = NoOp
    /\ UNCHANGED <<alive, mem, startedStages, completedStages, clients, lastMission>>

-----------------------------------------------------------------------------
(***************************************************************************)
(* Tool calls.  exec[m][k] is where the call in slot k of mission m is:    *)
(*   none        never executed                                            *)
(*   running     reserved and logged; its tool runs                        *)
(*   paused      it asked for a human confirmation and returned            *)
(*   resumed     it runs again, the confirmation given                     *)
(*   done        it ran and afterToolExecution was called                  *)
(*   interrupted the process died while it ran                             *)
(***************************************************************************)
Exec(k) == exec[mem.mission][k]
SetExec(B, status) ==
    exec' = [exec EXCEPT ![mem.mission] =
                [k \in Slots |-> IF k \in B THEN status ELSE @[k]]]

\* beforeToolExecution of calls none of which is reserved.
ReserveTools(B) ==
    /\ Idle
    /\ \A k \in B : Exec(k) \notin {"running", "resumed"}
    /\ B \cap mem.reservedKeys = {}
    /\ mem.toolCallsUsed + Cardinality(B) <= MaxToolCalls
    /\ mem' = [mem EXCEPT !.reservedKeys = @ \cup B,
                          !.toolCallsUsed = @ + Cardinality(B)]
    /\ op' = [kind |-> "reserve_tools", batch |-> B, undo |-> mem]
    /\ MemoryOnly
    /\ UNCHANGED <<alive, startedStages, completedStages, clients, lastMission>>

\* Faulty variant: the reservation is not made durable before the tools run.
ReserveToolsUnsaved ==
    /\ op.kind = "reserve_tools"
    /\ op' = [kind |-> "log_calls", batch |-> op.batch, left |-> op.batch]
    /\ MemoryOnly
    /\ UNCHANGED <<alive, mem, startedStages, completedStages, clients, lastMission>>

ReserveToolsSaved ==
    /\ op.kind = "reserve_tools"
    /\ SaveCheckpoint
    /\ op' = [kind |-> "log_calls", batch |-> op.batch, left |-> op.batch]
    /\ UNCHANGED <<alive, mem, startedStages, completedStages, clients, lastMission>>

ReserveToolsFails ==
    /\ op.kind = "reserve_tools"
    /\ SaveFails
    /\ mem' = op.undo
    /\ op' = NoOp
    /\ UNCHANGED <<alive, startedStages, completedStages, clients, lastMission>>

\* The tools run once the last call of the batch is in the log.
ToolCallLogged(k) ==
    /\ op.kind = "log_calls" /\ k \in op.left
    /\ RecordEvent(ToolCall(mem.mission, k))
    /\ IF op.left = {k}
          THEN op' = NoOp /\ SetExec(op.batch, "running")
          ELSE op' = [op EXCEPT !.left = @ \ {k}] /\ UNCHANGED exec
    /\ UNCHANGED <<alive, mem, startedStages, completedStages, model, charge, lastMission>>

\* memoryAwareToolNode returns the Command of the tool: no afterToolExecution.
ToolsPause(B) ==
    /\ Idle /\ B \in ConfirmedBatches
    /\ \A k \in B : Exec(k) = "running"
    /\ SetExec(B, "paused")
    /\ MemoryOnly
    /\ UNCHANGED <<engine, model, charge, lastMission>>

\* The *ResumeTools node, with resumeReservedTools: the calls of the batch are
\* reserved already, so beforeToolExecution returns at once.
ResumeTools(B) ==
    /\ Idle
    /\ \A k \in B : Exec(k) = "paused"
    /\ B \subseteq mem.reservedKeys
    /\ SetExec(B, "resumed")
    /\ MemoryOnly
    /\ UNCHANGED <<engine, model, charge, lastMission>>

\* afterToolExecution: the tool_result events, which nothing reads back, then
\* the release of those calls that are reserved.
ReleaseTools(B) ==
    /\ Idle
    /\ \A k \in B : Exec(k) \in {"running", "resumed"}
    /\ SetExec(B, "done")
    /\ mem' = [mem EXCEPT !.reservedKeys = @ \ B]
    /\ op' = IF B \cap mem.reservedKeys = {} THEN NoOp ELSE [kind |-> "save", then |-> "none"]
    /\ MemoryOnly
    /\ UNCHANGED <<alive, startedStages, completedStages, model, charge, lastMission>>

ToolResultFails(B) ==
    /\ Idle
    /\ \A k \in B : Exec(k) \in {"running", "resumed"}
    /\ AppendFails
    /\ SetExec(B, "done")
    /\ UNCHANGED <<engine, model, charge, lastMission>>

-----------------------------------------------------------------------------
(***************************************************************************)
(* Stages and the outcome of the mission.                                  *)
(***************************************************************************)
RecordStageStarted(s) ==
    /\ Idle /\ s \notin startedStages
    /\ op' = [kind |-> "log_stage_started", stage |-> s]
    /\ MemoryOnly
    /\ UNCHANGED <<alive, mem, startedStages, completedStages, clients, lastMission>>

StageStartedLogged ==
    /\ op.kind = "log_stage_started"
    /\ RecordEvent(StageStarted(mem.mission, op.stage))
    /\ startedStages' = startedStages \cup {op.stage}
    /\ op' = NoOp
    /\ UNCHANGED <<alive, mem, completedStages, clients, lastMission>>

RecordStageCompleted(s) ==
    /\ Idle /\ s \notin completedStages
    /\ op' = [kind |-> "log_stage_completed", stage |-> s]
    /\ MemoryOnly
    /\ UNCHANGED <<alive, mem, startedStages, completedStages, clients, lastMission>>

StageCompletedLogged ==
    /\ op.kind = "log_stage_completed"
    /\ RecordEvent(StageCompleted(mem.mission, op.stage))
    /\ completedStages' = completedStages \cup {op.stage}
    /\ op' = [kind |-> "save", then |-> "none"]
    /\ UNCHANGED <<alive, mem, startedStages, clients, lastMission>>

EndedUnlogged(s) == s.phase \in Outcomes /\ ~Logged(MissionEnded(s.mission, s.phase))

\* Faulty variant: a mission that ended the other way is ended again.
RecordOutcomeAnyway(p) ==
    /\ Idle /\ mem.phase # p
    /\ mem' = [mem EXCEPT !.phase = p]
    /\ op' = [kind |-> "save", then |-> "log_outcome"]
    /\ MemoryOnly
    /\ UNCHANGED <<alive, startedStages, completedStages, clients, lastMission>>

\* recordMissionCompleted and recordMissionFailed: end the mission, or, when it
\* ended this way before, append the event if it is missing.
RecordOutcome(p) ==
    /\ Idle
    /\ \/ /\ mem.phase = "OBSERVE"
          /\ mem' = [mem EXCEPT !.phase = p]
          /\ op' = [kind |-> "save", then |-> "log_outcome"]
       \/ /\ mem.phase = p /\ EndedUnlogged(mem)
          /\ op' = [kind |-> "log_outcome", then |-> "none"]
          /\ UNCHANGED mem
    /\ MemoryOnly
    /\ UNCHANGED <<alive, startedStages, completedStages, clients, lastMission>>

RecordMissionCompleted == RecordOutcome("COMPLETE")
RecordMissionFailed    == RecordOutcome("FAILED")

OutcomeLogged ==
    /\ op.kind = "log_outcome" /\ op.then = "none"
    /\ RecordEvent(MissionEnded(mem.mission, mem.phase))
    /\ op' = NoOp
    /\ UNCHANGED <<alive, mem, startedStages, completedStages, clients, lastMission>>

NewMission(then) ==
    /\ lastMission' = lastMission + 1
    /\ mem' = InitialState(lastMission + 1)
    /\ startedStages' = {} /\ completedStages' = {}
    /\ op' = then

\* Faulty variant: the outcome of the old mission is not looked up.
BeginExecutionUnreconciled ==
    /\ Idle /\ mem.phase \in Outcomes /\ lastMission < MaxMissions
    /\ MemoryOnly
    /\ NewMission([kind |-> "save", then |-> "log_start"])
    /\ UNCHANGED <<alive, clients>>

\* beginExecution: a new mission replaces one that has ended, once the outcome
\* of the old one is in the log.
BeginExecution ==
    /\ Idle /\ mem.phase \in Outcomes /\ lastMission < MaxMissions
    /\ MemoryOnly
    /\ IF EndedUnlogged(mem)
         THEN /\ op' = [kind |-> "log_outcome", then |-> "new_mission"]
              /\ UNCHANGED <<mem, startedStages, completedStages, lastMission>>
         ELSE NewMission([kind |-> "save", then |-> "log_start"])
    /\ UNCHANGED <<alive, clients>>

BeginExecutionLogged ==
    /\ op.kind = "log_outcome" /\ op.then = "new_mission"
    /\ RecordEvent(MissionEnded(mem.mission, mem.phase))
    /\ NewMission([kind |-> "save", then |-> "log_start"])
    /\ UNCHANGED <<alive, clients>>

MissionStartedLogged ==
    /\ op.kind = "log_start"
    /\ RecordEvent(MissionStarted(mem.mission))
    /\ op' = NoOp
    /\ UNCHANGED <<alive, mem, startedStages, completedStages, clients, lastMission>>

\* The save of the operations that do not undo their change when it fails.
Saved ==
    /\ op.kind = "save"
    /\ SaveCheckpoint
    /\ op' = CASE op.then = "none"        -> NoOp
               [] op.then = "log_outcome" -> [kind |-> "log_outcome", then |-> "none"]
               [] op.then = "log_start"   -> [kind |-> "log_start"]
    /\ UNCHANGED <<alive, mem, startedStages, completedStages, clients, lastMission>>

SavedFails ==
    /\ op.kind = "save"
    /\ SaveFails
    /\ op' = NoOp
    /\ UNCHANGED <<alive, mem, startedStages, completedStages, clients, lastMission>>

-----------------------------------------------------------------------------
(***************************************************************************)
(* The death of the process, and initialize.                               *)
(***************************************************************************)
Halt ==
    /\ alive' = FALSE /\ mem' = NoState /\ op' = NoOp
    /\ startedStages' = {} /\ completedStages' = {}
    /\ model' = [i \in Invocations |->
                    IF model[i] \in {"reserving", "calling", "answered"}
                      THEN "lost" ELSE model[i]]
    /\ exec' = [m \in Missions |-> [k \in Slots |->
                   CASE exec[m][k] = "running" -> "interrupted"
                     [] exec[m][k] = "resumed" -> "paused"
                     [] OTHER -> exec[m][k]]]
    /\ UNCHANGED <<charge, lastMission>>

Crash ==
    /\ alive /\ faults.crashes < MaxCrashes
    /\ faults' = [faults EXCEPT !.crashes = @ + 1]
    /\ Halt
    /\ UNCHANGED disk

\* initialize without a checkpoint.
StartFresh ==
    /\ ~alive /\ ckpt = NoState /\ lastMission < MaxMissions
    /\ alive' = TRUE
    /\ NewMission([kind |-> "init_start"])
    /\ MemoryOnly
    /\ UNCHANGED clients

StartFreshLogged ==
    /\ op.kind = "init_start"
    /\ RecordEvent(MissionStarted(mem.mission))
    /\ op' = NoOp
    /\ UNCHANGED <<alive, mem, startedStages, completedStages, clients, lastMission>>

\* initialize with one: the state restored is repaired from the log.
Restore ==
    /\ ~alive /\ ckpt # NoState
    /\ alive' = TRUE
    /\ mem' = ckpt
    /\ op' = [kind |-> "restore_usage", changed |-> FALSE]
    /\ MemoryOnly
    /\ UNCHANGED <<startedStages, completedStages, clients, lastMission>>

\* Faulty variant: the log is not consulted.
NoUsageEventOf(i) == FALSE

UsageEventOf(i) == \E m \in Missions : Logged(ModelUsage(m, i))

\* reconcileModelUsageEvents: one event of a reservation that is still held ...
RestoreUsage(i) ==
    /\ op.kind = "restore_usage" /\ i \in mem.reservations /\ UsageEventOf(i)
    /\ mem' = [mem EXCEPT !.reservations = @ \ {i}, !.tokensUsed = @ + charge[i]]
    /\ op' = [op EXCEPT !.changed = TRUE]
    /\ MemoryOnly
    /\ UNCHANGED <<alive, startedStages, completedStages, clients, lastMission>>

\* ... and then the release of the reservations without one.
RestoreOrphans ==
    /\ op.kind = "restore_usage"
    /\ \A i \in mem.reservations : ~UsageEventOf(i)
    /\ mem' = [mem EXCEPT !.reservations = {}]
    /\ op' = IF op.changed \/ mem.reservations # {}
               THEN [kind |-> "init_save", then |-> "restore_tools"]
               ELSE [kind |-> "restore_tools"]
    /\ MemoryOnly
    /\ UNCHANGED <<alive, startedStages, completedStages, clients, lastMission>>

\* Faulty variant: every reserved call is taken for one that never ran.
RestoreToolsReleasingAll ==
    /\ op.kind = "restore_tools"
    /\ LET used == mem.toolCallsUsed - Cardinality(mem.reservedKeys)
       IN  mem' = [mem EXCEPT !.reservedKeys = {},
                              !.toolCallsUsed = IF used < 0 THEN 0 ELSE used]
    /\ op' = [kind |-> "init_save", then |-> "restore_outcome"]
    /\ MemoryOnly
    /\ UNCHANGED <<alive, startedStages, completedStages, clients, lastMission>>

\* reconcileToolReservations: a call that is not in the log never ran.
RestoreTools ==
    /\ op.kind = "restore_tools"
    /\ LET released == {k \in mem.reservedKeys : ~Logged(ToolCall(mem.mission, k))}
           used == mem.toolCallsUsed - Cardinality(released)
       IN  IF released = {}
             THEN op' = [kind |-> "restore_outcome"] /\ UNCHANGED mem
             ELSE /\ mem' = [mem EXCEPT !.reservedKeys = @ \ released,
                                        !.toolCallsUsed = IF used < 0 THEN 0 ELSE used]
                  /\ op' = [kind |-> "init_save", then |-> "restore_outcome"]
    /\ MemoryOnly
    /\ UNCHANGED <<alive, startedStages, completedStages, clients, lastMission>>

InitSaved ==
    /\ op.kind = "init_save"
    /\ SaveCheckpoint
    /\ op' = [kind |-> op.then]
    /\ UNCHANGED <<alive, mem, startedStages, completedStages, clients, lastMission>>

\* Faulty variant: the missing event of an ended mission is not repaired.
RestoreOutcomeUnrepaired ==
    /\ op.kind = "restore_outcome"
    /\ op' = [kind |-> "restore_stages"]
    /\ MemoryOnly
    /\ UNCHANGED <<alive, mem, startedStages, completedStages, clients, lastMission>>

\* reconcileTerminalEvent.
RestoreOutcome ==
    /\ op.kind = "restore_outcome"
    /\ IF EndedUnlogged(mem) THEN RecordEvent(MissionEnded(mem.mission, mem.phase))
                             ELSE MemoryOnly
    /\ op' = [kind |-> "restore_stages"]
    /\ UNCHANGED <<alive, mem, startedStages, completedStages, clients, lastMission>>

\* checkpoint_restored is appended (nothing reads it back), and the stages of
\* this mission are read from the log.
RestoreStages ==
    /\ op.kind = "restore_stages"
    /\ startedStages'   = {s \in Stages : Logged(StageStarted(mem.mission, s))}
    /\ completedStages' = {s \in Stages : Logged(StageCompleted(mem.mission, s))}
    /\ op' = NoOp
    /\ MemoryOnly
    /\ UNCHANGED <<alive, mem, clients, lastMission>>

\* initialize throws, and the agent refuses to start.
StartFails ==
    /\ \/ op.kind = "init_save" /\ SaveFails
       \/ op.kind \in {"init_start", "restore_stages"} /\ AppendFails
       \/ op.kind = "restore_outcome" /\ EndedUnlogged(mem) /\ AppendFails
    /\ Halt

-----------------------------------------------------------------------------
ModelNext ==
    \/ \E i \in Invocations : \/ ReserveModel(i)
                              \/ \E c \in Charges \cup {MaxTokensPerInvocation} :
                                    ModelAnswers(i, c)
                              \/ ChargeModel(i)
                              \/ ChargeModelUnknown(i)
    \/ ReserveModelSaved \/ ReserveModelFails \/ UsageLogged

ToolNext ==
    \/ \E B \in Batches : \/ ReserveTools(B)
                          \/ ToolsPause(B)
                          \/ ResumeTools(B)
                          \/ ReleaseTools(B)
                          \/ ToolResultFails(B)
    \/ ReserveToolsSaved \/ ReserveToolsFails
    \/ \E k \in Slots : ToolCallLogged(k)

MissionNext ==
    \/ \E s \in Stages : RecordStageStarted(s) \/ RecordStageCompleted(s)
    \/ StageStartedLogged \/ StageCompletedLogged
    \/ RecordMissionCompleted \/ RecordMissionFailed \/ OutcomeLogged
    \/ BeginExecution \/ BeginExecutionLogged \/ MissionStartedLogged
    \/ Saved \/ SavedFails \/ LastAppendFails

StartNext ==
    \/ StartFresh \/ StartFreshLogged
    \/ Restore \/ (\E i \in Invocations : RestoreUsage(i)) \/ RestoreOrphans
    \/ RestoreTools \/ InitSaved \/ RestoreOutcome \/ RestoreStages
    \/ StartFails \/ Crash

Next == ModelNext \/ ToolNext \/ MissionNext \/ StartNext

Spec == Init /\ [][Next]_vars

(***************************************************************************)
(* The event loop runs the awaited steps of the mutation under way.  The   *)
(* workers, the providers, the user and the restart of the process promise *)
(* nothing.                                                                *)
(***************************************************************************)
Step ==
    \/ ReserveModelSaved \/ UsageLogged
    \/ ReserveToolsSaved \/ (\E k \in Slots : ToolCallLogged(k))
    \/ StageStartedLogged \/ StageCompletedLogged
    \/ OutcomeLogged \/ BeginExecutionLogged \/ MissionStartedLogged \/ Saved
    \/ StartFreshLogged \/ (\E i \in Invocations : RestoreUsage(i)) \/ RestoreOrphans
    \/ RestoreTools \/ InitSaved \/ RestoreOutcome \/ RestoreStages

FairSpec == Spec /\ WF_vars(Step)

-----------------------------------------------------------------------------
(***************************************************************************)
(* Properties.                                                             *)
(***************************************************************************)
OpKinds ==
         [kind : {"none", "init_start", "log_start", "restore_tools",
                  "restore_outcome", "restore_stages"}]
    \cup [kind : {"reserve_model"}, id : Invocations, undo : State]
    \cup [kind : {"log_usage"}, id : Invocations]
    \cup [kind : {"reserve_tools"}, batch : Batches, undo : State]
    \cup [kind : {"log_calls"}, batch : Batches, left : SUBSET Slots]
    \cup [kind : {"log_stage_started", "log_stage_completed"}, stage : Stages]
    \cup [kind : {"save"}, then : {"none", "log_outcome", "log_start"}]
    \cup [kind : {"log_outcome"}, then : {"none", "new_mission"}]
    \cup [kind : {"restore_usage"}, changed : BOOLEAN]
    \cup [kind : {"init_save"}, then : {"restore_tools", "restore_outcome"}]

ModelStatus == {"idle", "reserving", "calling", "answered", "settled", "lost"}
ExecStatus  == {"none", "running", "paused", "resumed", "done", "interrupted"}

\* Every variable has its type; the engine holds a mission while it lives, and
\* nothing is under way in a dead process.
TypeOK ==
    /\ alive \in BOOLEAN
    /\ mem \in State /\ ckpt \in State
    /\ startedStages \in SUBSET Stages /\ completedStages \in SUBSET Stages
    /\ op \in OpKinds
    /\ log \in [Events -> Nat]
    /\ model \in [Invocations -> ModelStatus]
    /\ charge \in [Invocations -> Nat]
    /\ exec \in [Missions -> [Slots -> ExecStatus]]
    /\ lastMission \in 0..MaxMissions
    /\ faults \in [crashes : Nat, appends : Nat, saves : Nat]
    /\ alive <=> mem.mission # 0
    /\ ~alive => op = NoOp

\* The tokens spent and those reserved never exceed the budget of the mission,
\* in memory and in what a restart restores, as long as no answer is charged
\* more than its reservation (afterModelInvocation charges what the provider
\* reports or the estimate, whichever is larger, and does not clip it).
WithinBudget(s) == s.tokensUsed + Reserved(s) <= MaxTokens
BudgetNotOversubscribed ==
    (\A i \in Invocations : charge[i] <= MaxTokensPerInvocation)
        => WithinBudget(mem) /\ WithinBudget(ckpt)

\* The tokens that the invocations S consumed, of each of them those after the first n.
TokensAfter(n, S) == UNION {{i} \X ((n + 1)..charge[i]) : i \in S}
SumOfCharges(S)   == Cardinality(TokensAfter(0, S))
UsageLoggedUnder(m) == {i \in Invocations : Logged(ModelUsage(m, i))}

\* Across crashes, failed appends and failed saves, an invocation whose
\* model_usage event is durable is charged to its mission, and no invocation
\* is charged twice (reconcileModelUsageEvents).
UsageChargedExactlyOnce ==
    alive /\ op.kind # "restore_usage" =>
        LET others == UNION {UsageLoggedUnder(m) : m \in Missions \ {mem.mission}}
        IN  /\ SumOfCharges(UsageLoggedUnder(mem.mission)) <= mem.tokensUsed
            /\ mem.tokensUsed <= SumOfCharges(Invocations \ others)

\* However far the charges run over their reservations, the budget is exceeded
\* by no more than what they ran over.
OverspendIsOverrun ==
    LET excess == Cardinality(TokensAfter(MaxTokensPerInvocation, Invocations))
    IN  /\ mem.tokensUsed + Reserved(mem) <= MaxTokens + excess
        /\ ckpt.tokensUsed + Reserved(ckpt) <= MaxTokens + excess

\* What the answers cost is in the budget once, and exceeds it by no more than they ran over.
UsageIsExact == UsageChargedExactlyOnce /\ OverspendIsOverrun

\* "Persist reservations before any external side effect. Ambiguous calls remain
\* reserved after interruption and cannot be replayed automatically": a call that
\* was under way when the process died, and is so interrupted, never runs again in its
\* mission.  A confirmed call is not among them: it is paused again (Halt) and may run again.
InterruptedCallNotReplayed ==
    [][\A m \in Missions, k \in Slots :
         exec[m][k] = "interrupted" => exec'[m][k] = "interrupted"]_vars

\* Every call that ever ran in the mission has been paid for out of maxToolCalls:
\* no failure and no restart gives back the budget of a call that was executed.
ExecutedCallsAreCounted ==
    alive => /\ Cardinality({k \in Slots : Exec(k) # "none"}) <= mem.toolCallsUsed
             /\ mem.toolCallsUsed <= MaxToolCalls

\* A mission has one outcome in the log (test/mission-runtime.test.ts:183).
ExclusiveOutcome ==
    \A m \in Missions :
        ~(Logged(MissionEnded(m, "COMPLETE")) /\ Logged(MissionEnded(m, "FAILED")))

\* What is recorded once is in the log once, however often it is retried and
\* whatever is reconstructed after a crash: usage of an invocation, the start
\* and the completion of a stage, the outcome of a mission.
NoDuplicateEvents ==
    \A e \in Events : e[1] # "tool_call" => log[e] <= 1

\* A mission that executed anything is not replaced by another one before its
\* outcome is in the log (beginExecution, reconcileTerminalEvent).
ReplacedMissionsAreClosed ==
    \A m \in Missions :
        /\ m < mem.mission \/ m < ckpt.mission
        /\ \/ \E i \in Invocations : Logged(ModelUsage(m, i))
           \/ \E k \in Slots : Logged(ToolCall(m, k))
        => \E p \in Outcomes : Logged(MissionEnded(m, p))

\* The log tells one story of every mission: an outcome at most, what was recorded once,
\* and an end before another mission begins.
LogIsSound == ExclusiveOutcome /\ NoDuplicateEvents /\ ReplacedMissionsAreClosed

\* The checkpoint never reopens a mission that it shows as ended.
DurableOutcomeIsFinal ==
    [][ckpt.phase \in Outcomes /\ ckpt'.mission = ckpt.mission
         => ckpt'.phase = ckpt.phase]_vars

\* Not so: the comment at mission-engine.ts:788-792, that a reservation that the restore releases
\* uncharged belongs to an invocation that consumed nothing.
OrphansConsumedNothing ==
    [][\A i \in Invocations :
         /\ op.kind = "restore_usage"
         /\ i \in mem.reservations /\ i \notin mem'.reservations
         /\ ~UsageEventOf(i)
         => charge[i] = 0]_vars

\* Every runtime mutation ends: one that throws does not block those behind it.
MutationsEnd == op # NoOp ~> op = NoOp

\* A process that restores an ended mission puts its outcome into the log,
\* unless it dies or cannot write.
RestoredOutcomeIsLogged ==
    (op.kind = "restore_usage" /\ mem.phase \in Outcomes)
        ~> (~alive \/ \E p \in Outcomes : Logged(MissionEnded(mem.mission, p)))

\* What the engine begins it ends: its mutations, and what a restart has to repair.
MutationsAreFinished == MutationsEnd /\ RestoredOutcomeIsLogged

=============================================================================
