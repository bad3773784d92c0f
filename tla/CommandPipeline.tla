---------------------------- MODULE CommandPipeline ----------------------------
(***************************************************************************)
(* The command tool (execute-command.ts): a command is parsed, checked     *)
(* twice, confirmed by the user, and run as processes whose outputs the    *)
(* auditor pipes into one another.  Processes end when they like, a reader *)
(* may end before its writer, and the timer, the abort of the call and the *)
(* limit of the output may come at any point.                              *)
(***************************************************************************)
EXTENDS Naturals, Sequences

CONSTANTS
    Commands,       \* records: issues of the text as written and as parsed, whether it parses and stays in
                    \* the target, and for each stage whether it is on the list of allowed commands
    MaxRuns         \* bound

Issues == {"composition", "path", "option", "action", "substitution", "denied"}

CommandAssumption ==
    /\ Commands # {}
    /\ \A c \in Commands : /\ c.raw \subseteq Issues /\ c.parsed \subseteq Issues /\ {c.parses, c.confined} \subseteq BOOLEAN
                           /\ c.listed \in Seq(BOOLEAN) \ {<<>>}
    /\ MaxRuns \in Nat

VARIABLES
    expertUnsafe,       \* of the session
    pc, command,        \* of the call
    stages,             \* the processes: "running", "blocked", "zero", "nonzero", "terminated" or "absent"
    stderr,             \* those that wrote to it
    unread,             \* stages whose reader is gone: "no", "broken" (a write fails) or "unpiped"
    expected,           \* expectedPipeTerminations
    stray,              \* stages that were terminated by someone else
    timer, aborted, overflow, spawnError, pipeError,
    outcome,            \* "none", "denied", "done", "error" or "aborted"
    runs

commandVars == <<expertUnsafe, pc, command, stages, stderr, unread, expected, stray, timer, aborted, overflow, spawnError, pipeError,
                 outcome, runs>>

Init ==
    /\ expertUnsafe \in BOOLEAN /\ pc = "idle" /\ command = (CHOOSE c \in Commands : TRUE)
    /\ stages = <<>> /\ stderr = {} /\ unread = <<>> /\ expected = {} /\ stray = {}
    /\ timer = "off" /\ aborted = FALSE /\ overflow = FALSE /\ spawnError = FALSE /\ pipeError = FALSE
    /\ outcome = "none" /\ runs = 0

TypeOK ==
    /\ pc \in {"idle", "dialog", "resolving", "running"} /\ command \in Commands
    /\ \A i \in DOMAIN stages : stages[i] \in {"running", "blocked", "zero", "nonzero", "terminated", "absent"}
    /\ DOMAIN unread = DOMAIN stages /\ \A i \in DOMAIN unread : unread[i] \in {"no", "broken", "unpiped"}
    /\ stderr \cup expected \cup stray \subseteq DOMAIN stages /\ timer \in {"off", "on", "fired"}
    /\ outcome \in {"none", "denied", "done", "error", "aborted"} /\ runs \in 0..MaxRuns

call == <<expertUnsafe, pc, command, outcome, runs>>
signals == <<timer, aborted, overflow, spawnError, pipeError>>
Last == Len(stages)

-----------------------------------------------------------------------------
\* evaluateCommandPolicy: in safe mode no issue, and every stage on the list.
evaluateCommandPolicy(issues, listed) == expertUnsafe \/ (issues = {} /\ \A i \in DOMAIN listed : listed[i])

\* parsePipeline: no quote or escape is left open and no stage is empty.
parsePipeline(c) == c.parses

\* validateParsedStages, validateArgumentPathBoundaries: no stage acts, and all its arguments lead into the target.
validateStages(c) == c.confined

\* prepareSafeStages: the parsed command once more, with what quotes and escapes may have hidden.
prepareSafeStages(c) == parsePipeline(c) /\ evaluateCommandPolicy(c.parsed, c.listed) /\ validateStages(c)

\* The processes of an earlier command that are left are followed no further.
execute(c) ==
    /\ pc = "idle" /\ runs < MaxRuns /\ runs' = runs + 1 /\ command' = c /\ aborted' = FALSE
    /\ LET allowed == evaluateCommandPolicy(c.raw, c.listed) /\ (expertUnsafe \/ prepareSafeStages(c))
       IN  pc' = (IF allowed THEN "dialog" ELSE "idle") /\ outcome' = (IF allowed THEN "none" ELSE "denied")
    /\ stages' = <<>> /\ stderr' = {} /\ unread' = <<>> /\ expected' = {} /\ stray' = {}
    /\ timer' = "off" /\ overflow' = FALSE /\ spawnError' = FALSE /\ pipeError' = FALSE /\ UNCHANGED expertUnsafe

confirmCommandExecution ==
    /\ pc = "dialog"
    /\ \/ pc' = "resolving" /\ UNCHANGED outcome
       \/ pc' = "idle" /\ outcome' = "denied"
    /\ UNCHANGED <<expertUnsafe, command, stages, stderr, unread, expected, stray, signals, runs>>

Abort ==
    /\ pc # "idle" /\ ~aborted /\ aborted' = TRUE
    /\ UNCHANGED <<call, stages, stderr, unread, expected, stray, timer, overflow, spawnError, pipeError>>

\* The outcome of an error: the call ends with the reason of the abort when it was aborted.
Fails == pc' = "idle" /\ outcome' = (IF aborted THEN "aborted" ELSE "error") /\ timer' = (IF timer = "on" THEN "off" ELSE timer)

\* The executables are looked up, and the processes are started; a shell runs an unsafe command.
Spawn ==
    /\ pc = "resolving"
    /\ LET n == IF expertUnsafe THEN 1 ELSE Len(command.listed)
       IN  \/ /\ pc' = "running" /\ timer' = "on" /\ UNCHANGED outcome
              /\ \E absent \in {{}} \cup {{i} : i \in 1..n}, u \in {"broken", "unpiped"} :
                    /\ stages' = [i \in 1..n |-> IF i \in absent THEN "absent" ELSE "running"]
                    /\ unread' = [i \in 1..n |-> IF i + 1 \in absent THEN u ELSE "no"]
                    /\ spawnError' = (absent # {})
           \/ Fails /\ UNCHANGED <<stages, unread, spawnError>>
    /\ UNCHANGED <<expertUnsafe, command, stderr, expected, stray, aborted, overflow, pipeError, runs>>

-----------------------------------------------------------------------------
\* The processes.

Runs(i) == stages[i] \in {"running", "blocked"}

\* When stage i is gone something of its writer, which may have ended, is still to be written to it, which
\* fails, or it is not read any more.
Unread(i, u) == IF i = 1 \/ stages[i - 1] = "absent" THEN unread ELSE [unread EXCEPT ![i - 1] = u]

Leaves(i, how) ==
    /\ stages' = [stages EXCEPT ![i] = how]
    /\ \E u \in {"broken", "unpiped"} : unread' = Unread(i, u)

Ends(i) ==
    /\ stages[i] = "running"
    /\ \/ Leaves(i, "zero") /\ UNCHANGED stderr
       \/ Leaves(i, "nonzero") /\ stderr' \in {stderr, stderr \cup {i}}
    /\ UNCHANGED <<call, expected, stray, signals>>

Complains(i) == stages[i] = "running" /\ i \notin stderr /\ stderr' = stderr \cup {i} /\ UNCHANGED <<call, stages, unread, expected, stray, signals>>

\* A writer that is not read any more stands still when its pipe is full.
Blocks(i) ==
    /\ stages[i] = "running" /\ unread[i] = "unpiped" /\ stages' = [stages EXCEPT ![i] = "blocked"]
    /\ UNCHANGED <<call, stderr, unread, expected, stray, signals>>

\* With SIGTERM; any other signal is like an exit code that is not 0.
TerminatedByOthers(i) ==
    /\ stages[i] = "running" /\ Leaves(i, "terminated") /\ stray' = stray \cup {i} /\ UNCHANGED <<call, stderr, expected, signals>>

\* The stage of which a failed write is held to be the end.
CutOff(i) == i

\* The error is reported once, and terminates the writer if it has not ended: with EPIPE that was to be
\* expected, and with any other error the call fails.
PipeBreaks(i) ==
    /\ unread[i] = "broken"
    /\ \/ /\ Runs(i) /\ stages' = [stages EXCEPT ![i] = "terminated"]
          /\ \E u \in {"broken", "unpiped"} : unread' = [Unread(i, u) EXCEPT ![i] = "unpiped"]
       \/ ~Runs(i) /\ unread' = [unread EXCEPT ![i] = "unpiped"] /\ UNCHANGED stages
    /\ \/ expected' = expected \cup ({CutOff(i)} \cap DOMAIN stages) /\ UNCHANGED pipeError
       \/ pipeError' = TRUE /\ UNCHANGED expected
    /\ UNCHANGED <<call, stderr, stray, timer, aborted, overflow, spawnError>>

-----------------------------------------------------------------------------
\* What ends the call.

TerminateAll ==
    /\ stages' = [i \in DOMAIN stages |-> IF Runs(i) THEN "terminated" ELSE stages[i]] /\ UNCHANGED unread

TimerFires ==
    /\ pc = "running" /\ timer = "on" /\ TerminateAll /\ pc' = "idle" /\ outcome' = (IF aborted THEN "aborted" ELSE "error") /\ timer' = "fired"
    /\ \E i \in DOMAIN stages : Runs(i)
    /\ UNCHANGED <<expertUnsafe, command, stderr, expected, stray, aborted, overflow, spawnError, pipeError, runs>>

AbortEnds ==
    /\ pc = "running" /\ aborted /\ (\E i \in DOMAIN stages : Runs(i)) /\ TerminateAll /\ Fails
    /\ UNCHANGED <<expertUnsafe, command, stderr, expected, stray, aborted, overflow, spawnError, pipeError, runs>>

\* collectStream: the last output, or what a stage writes to stderr, is too much.
OutputLimit ==
    /\ pc = "running" /\ overflow' = TRUE
    /\ \E i \in DOMAIN stages : Runs(i) /\ TerminateAll /\ Fails
    /\ UNCHANGED <<expertUnsafe, command, stderr, expected, stray, aborted, spawnError, pipeError, runs>>

\* The error of a process that did not start ends the call; the other processes are let be, without timer.
SpawnFails ==
    /\ pc = "running" /\ spawnError /\ Fails
    /\ UNCHANGED <<expertUnsafe, command, stages, stderr, unread, expected, stray, aborted, overflow, spawnError, pipeError, runs>>

\* expectedTermination.
IsExpected(i) == i \in expected /\ stages[i] = "terminated" /\ i \notin stderr

\* All processes have closed.
Close ==
    /\ pc = "running" /\ ~spawnError /\ \A i \in DOMAIN stages : ~Runs(i)
    /\ IF ~pipeError /\ \A i \in DOMAIN stages : stages[i] = "zero" \/ IsExpected(i)
       THEN pc' = "idle" /\ outcome' = "done" /\ timer' = "off"
       ELSE Fails
    /\ UNCHANGED <<expertUnsafe, command, stages, stderr, unread, expected, stray, aborted, overflow, spawnError, pipeError, runs>>

Next ==
    \/ confirmCommandExecution \/ Abort \/ Spawn \/ TimerFires \/ AbortEnds \/ OutputLimit \/ SpawnFails \/ Close
    \/ \E c \in Commands : execute(c)
    \/ \E i \in DOMAIN stages : Ends(i) \/ Complains(i) \/ Blocks(i) \/ TerminatedByOthers(i) \/ PipeBreaks(i)

Spec == Init /\ [][Next]_commandVars

-----------------------------------------------------------------------------
\* A command that is done has its whole output: its last stage ended well, and any other either did too
\* or was cut off after its reader had ended, by others only if a write to the reader failed as well.  And it fails only for a cause: a stage that failed,
\* complained, did not start or was terminated by others, the limits, or the abort.
CommandIsSound ==
    /\ outcome = "done" =>
          /\ stages[Last] = "zero" /\ stray \subseteq expected
          /\ \A i \in 1..(Last - 1) : stages[i] = "zero" \/ (stages[i] = "terminated" /\ ~Runs(i + 1))
    /\ outcome = "error" /\ stages # <<>> =>
          \/ timer = "fired" \/ overflow \/ spawnError \/ pipeError \/ stray # {}
          \/ \E i \in DOMAIN stages : stages[i] = "nonzero" \/ (stages[i] = "terminated" /\ i \in stderr)

\* Not so: the processes of a pipeline of which another did not start go on, and no timer ends them.
NothingRunsOn == pc = "idle" => \A i \in DOMAIN stages : ~Runs(i)

\* Not so: a reader that needs no more ends, its writer stands still, and the call fails by its timer.
TimersFireForReaders == timer = "fired" => \E i \in DOMAIN stages : stages[i] = "terminated" /\ unread[i] = "no"
=============================================================================
