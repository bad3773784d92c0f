----------------------------- MODULE ToolLoop -----------------------------
(***************************************************************************)
(* The tool loop of a swarm worker (langchain-tool-executor.ts, run by     *)
(* AgentWorker.executeTask): the model is called with the messages so far, *)
(* the calls of its answer are reserved with the mission, executed (read-  *)
(* only batches concurrently, others one call at a time), answered and     *)
(* appended, until finish_task succeeds, the model stops calling or the    *)
(* steps run out.  The run may be aborted or die at any point and the task *)
(* be executed again, or be retried after it failed.                       *)
(***************************************************************************)
EXTENDS Naturals, FiniteSets, Sequences, SequencesExt

CONSTANTS
    Batches,             \* what the model may ask for: sequences of tool names
    ReadOnly,            \* PARALLEL_READ_ONLY_TOOLS
    MaxActive,           \* MAX_ACTIVE_WORKER_MESSAGES (48 in the code)
    MaxContext,          \* maxContextMessages (40)
    MaxParallel,         \* MAX_PARALLEL_TOOL_CALLS (8)
    MaxToolSteps,        \* maxToolSteps
    MaxTasks, MaxRestarts    \* bounds

ToolLoopAssumption ==
    /\ Batches \subseteq Seq(STRING) /\ {MaxActive, MaxContext, MaxParallel} \subseteq Nat \ {0}
    /\ MaxToolSteps \in Nat /\ MaxTasks \in Nat /\ MaxRestarts \in Nat

VARIABLES
    pc, task, retry, step,     \* where the worker is, in which execution of which task
    history, messages, delta,  \* of the worker, sent to the model, of this execution
    batch, next, running, results,   \* the calls of the answer, the first not taken up, under way, done
    reserved, interrupted,     \* slots the mission holds; slots that were under way when a run ended
    ids, tasks, restarts

loopVars == <<pc, task, retry, step, history, messages, delta, batch, next, running, results,
              reserved, interrupted, ids, tasks, restarts>>
callVars == <<next, running, results>>

Msg(kind, of) == [kind |-> kind, ids |-> of]
System == Msg("system", {})
Human == Msg("human", {})
Calls(m) == m.kind = "ai" /\ m.ids # {}

Init ==
    /\ pc = "idle" /\ task = 0 /\ retry = 0 /\ step = 0
    /\ history = <<>> /\ messages = <<>> /\ delta = <<>>
    /\ batch = <<>> /\ next = 1 /\ running = {} /\ results = <<>>
    /\ reserved = {} /\ interrupted = {} /\ ids = 0 /\ tasks = 0 /\ restarts = 0

TypeOK ==
    /\ pc \in {"idle", "model", "reserve", "tools", "final", "failed"}
    /\ step \in 0..MaxToolSteps /\ running \subseteq DOMAIN batch /\ next \in 1..(Len(batch) + 1)
    /\ results \in [DOMAIN batch -> {"none", "ok", "error"}]
    /\ \A m \in Range(history \o messages \o delta) :
          m.kind \in {"system", "memory", "human", "ai", "tool"} /\ m.ids \subseteq 1..ids

-----------------------------------------------------------------------------
\* Where groups start: a tool message belongs to the group of the answer that it follows.
Starts(s) == {i \in DOMAIN s : ~\E j \in 1..i - 1 : s[j].kind = "ai" /\ \A k \in j + 1..i : s[k].kind = "tool"}

\* The longest suffix of groups, of one group at least, that has at most max messages.
Retained(s, max) ==
    LET short == {i \in Starts(s) : Len(s) - i < max}
    IN  IF s = <<>> THEN s ELSE SubSeq(s, IF short # {} THEN Min(short) ELSE Max(Starts(s)), Len(s))

\* compactWorkerMessages: the system message, a memory of what is dropped, the last groups.
compactWorkerMessages(s) ==
    IF Len(s) <= MaxActive THEN s
    ELSE <<s[1], Msg("memory", {})>> \o Retained(Tail(s), MaxActive - 2)

\* Faulty variant: the last messages, whatever they belong to.
trimPlainSuffix(s) == IF Len(s) <= MaxContext THEN s ELSE SubSeq(s, Len(s) - MaxContext + 1, Len(s))

\* AgentWorker.trimMessages
trimMessages(s) == IF Len(s) <= MaxContext THEN s ELSE Retained(s, MaxContext)

-----------------------------------------------------------------------------
Begin(t, r) ==
    /\ task' = t /\ retry' = r /\ step' = 0 /\ pc' = "model"
    /\ messages' = compactWorkerMessages(<<System>> \o history \o <<Human>>) /\ delta' = <<Human>>
    /\ batch' = <<>> /\ next' = 1 /\ running' = {} /\ results' = <<>>

\* executeTask: the next task, or the one that failed.
executeTask ==
    /\ tasks < MaxTasks /\ tasks' = tasks + 1
    /\ \/ pc = "idle" /\ Begin(task + 1, 0)
       \/ pc = "failed" /\ running = {} /\ Begin(task, retry + 1)
    /\ UNCHANGED <<history, reserved, interrupted, ids, restarts>>

\* The process dies and the run is resumed: a new worker, the same execution of the task.
Restart ==
    /\ pc \notin {"idle", "failed"} /\ restarts < MaxRestarts /\ restarts' = restarts + 1
    /\ interrupted' = interrupted \cup {<<task, retry, step, i>> : i \in running}
    /\ history' = <<>> /\ task' = task /\ retry' = retry /\ step' = 0 /\ pc' = "model"
    /\ messages' = <<System, Human>> /\ delta' = <<Human>>
    /\ batch' = <<>> /\ next' = 1 /\ running' = {} /\ results' = <<>>
    /\ UNCHANGED <<reserved, ids, tasks>>

\* An answer of the model, its calls with ids of their own; one without a call ends the loop,
\* and executeTask fails for want of finish_task.
Respond(b) ==
    /\ pc = "model" /\ ids' = ids + Len(b)
    /\ batch' = b /\ next' = 1 /\ running' = {} /\ results' = [i \in DOMAIN b |-> "none"]
    /\ LET m == Msg("ai", (ids + 1)..(ids + Len(b)))
       IN  messages' = Append(messages, m) /\ delta' = Append(delta, m)
    /\ pc' = IF b = <<>> THEN "failed" ELSE IF step = MaxToolSteps THEN "final" ELSE "reserve"
    /\ UNCHANGED <<task, retry, step, history, reserved, interrupted, tasks, restarts>>

\* The model fails, or the run is aborted before or after it answers.
RespondFails ==
    /\ pc \in {"model", "final"} /\ pc' = "failed"
    /\ UNCHANGED <<task, retry, step, history, messages, delta, batch, callVars, reserved, interrupted,
                   ids, tasks, restarts>>

Id(i) == (ids - Len(batch)) + i
Answers == [i \in DOMAIN batch |-> Msg("tool", {Id(i)})]

\* finalizeAtToolBudget: the calls are answered as denied; the last answer ends the loop, but it
\* is no finish_task and executeTask fails.
finalizeAtToolBudget ==
    /\ pc = "final" /\ pc' = "failed"
    /\ messages' = messages \o Append(Answers, Human) /\ delta' = delta \o Append(Answers, Human)
    /\ UNCHANGED <<task, retry, step, history, batch, callVars, reserved, interrupted, ids, tasks, restarts>>

Slot(i) == <<task, retry, step, i>>
Slots == {Slot(i) : i \in DOMAIN batch}

\* The mission refuses slots it holds.
MayReserve == Slots \cap reserved = {}

beforeToolExecution ==
    /\ pc = "reserve"
    /\ IF MayReserve THEN pc' = "tools" /\ reserved' = reserved \cup Slots
       ELSE pc' = "failed" /\ UNCHANGED reserved
    /\ UNCHANGED <<task, retry, step, history, messages, delta, batch, callVars, interrupted, ids, tasks, restarts>>

canRunToolBatchConcurrently == Len(batch) > 1 /\ \A i \in DOMAIN batch : batch[i] \in ReadOnly

\* mapWithConcurrency: each of its loops takes up the next call when it has done one.
StartCall ==
    /\ pc = "tools" /\ next <= Len(batch)
    /\ Cardinality(running) < (IF canRunToolBatchConcurrently THEN MaxParallel ELSE 1)
    /\ running' = running \cup {next} /\ next' = next + 1
    /\ UNCHANGED <<pc, task, retry, step, history, messages, delta, batch, results, reserved, interrupted,
                   ids, tasks, restarts>>

\* A call returns, with an error too when there is no such tool or it needs a confirmation.
EndCall(i, result) ==
    /\ i \in running /\ running' = running \ {i} /\ results' = [results EXCEPT ![i] = result]
    /\ UNCHANGED <<pc, task, retry, step, history, messages, delta, batch, next, reserved, interrupted,
                   ids, tasks, restarts>>

\* An abort is noticed by the first call that returns; the others go on, and the slots stay held.
Abort ==
    /\ pc = "tools" /\ pc' = "failed" /\ next' = Len(batch) + 1
    /\ interrupted' = interrupted \cup {Slot(i) : i \in running}
    /\ UNCHANGED <<task, retry, step, history, messages, delta, batch, running, results, reserved,
                   ids, tasks, restarts>>

\* All calls have returned: the mission is told and frees the slots (or fails to), the answers are
\* appended; a finish_task that succeeded ends the task and its messages join the history.
recordExecutions ==
    /\ pc = "tools" /\ next > Len(batch) /\ running = {}
    /\ LET done == \E i \in DOMAIN batch : batch[i] = "finish_task" /\ results[i] = "ok"
       IN  /\ reserved' = reserved \ Slots
           /\ delta' = delta \o Answers
           /\ messages' = IF done THEN messages \o Answers ELSE compactWorkerMessages(messages \o Answers)
           /\ history' = IF done THEN trimMessages(history \o delta') ELSE history
           /\ pc' = IF done THEN "idle" ELSE "model"
           /\ step' = IF done THEN step ELSE step + 1
    /\ UNCHANGED <<task, retry, batch, callVars, interrupted, ids, tasks, restarts>>

afterToolExecutionFails ==
    /\ pc = "tools" /\ next > Len(batch) /\ running = {} /\ pc' = "failed"
    /\ UNCHANGED <<task, retry, step, history, messages, delta, batch, callVars, reserved, interrupted,
                   ids, tasks, restarts>>

Next ==
    \/ executeTask \/ Restart
    \/ \E b \in Batches : Respond(b)
    \/ RespondFails \/ finalizeAtToolBudget \/ beforeToolExecution
    \/ StartCall \/ (\E i \in running, r \in {"ok", "error"} : EndCall(i, r)) \/ Abort
    \/ recordExecutions \/ afterToolExecutionFails

Spec == Init /\ [][Next]_loopVars

-----------------------------------------------------------------------------
\* The calls of a message are answered, each once, by the messages right after it, and there is
\* no answer to a call that is not there.
IsClosed(s) ==
    /\ \A i \in DOMAIN s : Calls(s[i]) =>
          LET n == Cardinality(s[i].ids)
          IN  i + n <= Len(s) /\ {s[i + k].ids : k \in 1..n} = {{c} : c \in s[i].ids}
                              /\ \A k \in 1..n : s[i + k].kind = "tool"
    /\ \A j \in DOMAIN s : s[j].kind = "tool" => \E i \in 1..(j - 1) : Calls(s[i]) /\ s[j].ids \subseteq s[i].ids

\* Whatever was compacted, denied or cut short before, a model is sent closed messages only.
ContextIsClosed == IsClosed(history) /\ (pc = "model" => IsClosed(messages))

\* A tool that changes something never runs next to another call of its batch.
MutationsRunAlone == \A i \in running : batch[i] \notin ReadOnly => running = {i}

\* A call that was under way when its run ended is not made again in the same slot.
InterruptedIsNotReplayed == pc = "tools" => \A i \in running : Slot(i) \notin interrupted

ToolLoopIsSound == ContextIsClosed /\ MutationsRunAlone /\ InterruptedIsNotReplayed

\* Not so: the prompt of the task is in the oldest group, which compaction drops first.
TaskIsKept == pc = "model" => \E i \in DOMAIN messages : messages[i].kind = "human"
=============================================================================
