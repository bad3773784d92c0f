------------------------------ MODULE Sandbox ------------------------------
(***************************************************************************)
(* The DAST sandbox of an audit run (sandbox-manager.ts, mirage-oast.ts,   *)
(* sandbox-tools.ts): a copy of the sources on the host, and a network     *)
(* with the Mirage and the target container on it, named after the run.    *)
(* Tool calls create it, and run one at a time; disposing of the session   *)
(* destroys it.  A Docker command may fail, with or without having done    *)
(* what it was asked; the process may crash and the run be resumed.        *)
(***************************************************************************)
EXTENDS Naturals, FiniteSets, Sequences, SequencesExt

CONSTANTS
    MaxCallbackEntries,   \* what the callback log of a session holds (5000 in the code)
    MaxCallbacks, MaxFailures, MaxCreates, MaxSyncs   \* bounds

SandboxAssumption ==
    /\ MaxCallbackEntries \in Nat \ {0} /\ MaxCallbacks \in Nat
    /\ MaxFailures \in Nat /\ MaxCreates \in Nat /\ MaxSyncs \in Nat

VARIABLES
    network, mirage, target,   \* in Docker: "none", "created" or "up"
    workspaces,                \* copies of the sources on the host
    pc,                        \* the command that is under way
    running, mirageRunning,    \* what the session believes
    workspaceRoot,             \* its copy of the sources, 0 for none
    mirageLog, callbackLog,    \* callbacks: in the container, in the session
    abandoned,                 \* copies that a crash or a failed removal has left
    left,                      \* a removal of the last destroy failed
    creates, failures, syncs

dockerVars == <<network, mirage, target, workspaces>>
sessionVars == <<pc, running, mirageRunning, workspaceRoot, callbackLog>>
sandboxVars == <<dockerVars, sessionVars, mirageLog, abandoned, left, creates, failures, syncs>>

Init ==
    /\ network = "none" /\ mirage = "none" /\ target = "none" /\ workspaces = {}
    /\ pc = "idle" /\ running = FALSE /\ mirageRunning = FALSE /\ workspaceRoot = 0
    /\ mirageLog = <<>> /\ callbackLog = <<>> /\ abandoned = {} /\ left = FALSE
    /\ creates = 0 /\ failures = 0 /\ syncs = 0

Creating == {"copy", "network", "mirage", "create", "start", "inspect"}
Removing == {"rmTarget", "rmMirage", "rmNetwork", "rmWorkspace"}
Disposing == {"disposeTarget", "disposeMirage", "disposeNetwork", "disposeWorkspace"}

TypeOK ==
    /\ {network, mirage, target} \subseteq {"none", "created", "up"}
    /\ pc \in {"idle", "disposed"} \cup Creating \cup Removing \cup Disposing
    /\ running \in BOOLEAN /\ mirageRunning \in BOOLEAN /\ workspaceRoot \in 0..MaxCreates
    /\ workspaces \subseteq 1..MaxCreates /\ abandoned \subseteq 1..MaxCreates

-----------------------------------------------------------------------------
\* sandbox_deploy of a sandbox that is not running: create makes a new copy of the sources.
sandbox_deploy ==
    /\ pc = "idle" /\ ~running /\ creates < MaxCreates /\ creates' = creates + 1
    /\ workspaceRoot' = creates + 1 /\ workspaces' = workspaces \cup {creates + 1}
    /\ abandoned' = IF workspaceRoot = 0 THEN abandoned ELSE abandoned \cup {workspaceRoot}
    /\ pc' = "copy"
    /\ UNCHANGED <<network, mirage, target, running, mirageRunning, mirageLog, callbackLog, left, failures, syncs>>

Fails == failures < MaxFailures /\ failures' = failures + 1
Works == UNCHANGED failures

\* create: an error, or an abort, destroys what there is.
AfterFailure == "rmTarget"

SourcesCopied ==
    /\ pc = "copy"
    /\ (Works /\ pc' = "network") \/ (Fails /\ pc' = AfterFailure)
    /\ UNCHANGED <<dockerVars, running, mirageRunning, workspaceRoot, mirageLog, callbackLog, abandoned, left, creates, syncs>>

\* docker network create: a network of that name is an error.
NetworkCreated ==
    /\ pc = "network"
    /\ \/ Works /\ network = "none" /\ network' = "up" /\ pc' = "mirage"
       \/ Works /\ network # "none" /\ UNCHANGED network /\ pc' = AfterFailure
       \/ Fails /\ network' \in {network, "up"} /\ pc' = AfterFailure
    /\ UNCHANGED <<mirage, target, workspaces, running, mirageRunning, workspaceRoot, mirageLog, callbackLog, abandoned, left, creates, syncs>>

\* MirageOAST.start
MirageStarted ==
    /\ pc = "mirage"
    /\ IF mirageRunning THEN Works /\ pc' = "create" /\ UNCHANGED <<mirage, mirageRunning, mirageLog>>
       ELSE \/ /\ Works /\ mirage = "none" /\ mirage' = "up" /\ pc' = "create"
               /\ mirageRunning' = TRUE /\ mirageLog' = <<>>
            \/ Works /\ mirage # "none" /\ pc' = AfterFailure /\ UNCHANGED <<mirage, mirageRunning, mirageLog>>
            \/ /\ Fails /\ mirage' \in {mirage, "created", "up"} /\ pc' = AfterFailure
               /\ UNCHANGED <<mirageRunning, mirageLog>>
    /\ UNCHANGED <<network, target, workspaces, running, workspaceRoot, callbackLog, abandoned, left, creates, syncs>>

TargetCreated ==
    /\ pc = "create"
    /\ \/ Works /\ target = "none" /\ target' = "created" /\ pc' = "start"
       \/ Works /\ target # "none" /\ UNCHANGED target /\ pc' = AfterFailure
       \/ Fails /\ target' \in {target, "created"} /\ pc' = AfterFailure
    /\ UNCHANGED <<network, mirage, workspaces, running, mirageRunning, workspaceRoot, mirageLog, callbackLog, abandoned, left, creates, syncs>>

TargetStarted ==
    /\ pc = "start"
    /\ \/ Works /\ target' = "up" /\ pc' = "inspect"
       \/ Fails /\ target' \in {target, "up"} /\ pc' = AfterFailure
    /\ UNCHANGED <<network, mirage, workspaces, running, mirageRunning, workspaceRoot, mirageLog, callbackLog, abandoned, left, creates, syncs>>

\* docker inspect, and the sandbox runs.
TargetInspected ==
    /\ pc = "inspect"
    /\ (Works /\ running' = TRUE /\ pc' = "idle") \/ (Fails /\ UNCHANGED running /\ pc' = AfterFailure)
    /\ UNCHANGED <<dockerVars, mirageRunning, workspaceRoot, mirageLog, callbackLog, abandoned, left, creates, syncs>>

-----------------------------------------------------------------------------
\* destroy, for create or for the session, goes on whatever Docker answers.
From(step, next) == pc = step /\ pc' = next

RemoveTarget ==
    /\ From("rmTarget", "rmMirage") \/ From("disposeTarget", "disposeMirage")
    /\ (Works /\ target' = "none" /\ left' = FALSE) \/ (Fails /\ target' \in {target, "none"} /\ left' = TRUE)
    /\ UNCHANGED <<network, mirage, workspaces, running, mirageRunning, workspaceRoot, mirageLog, callbackLog, abandoned, creates, syncs>>

RemoveMirage ==
    /\ From("rmMirage", "rmNetwork") \/ From("disposeMirage", "disposeNetwork")
    /\ mirageRunning' = FALSE
    /\ (Works /\ mirage' = "none" /\ UNCHANGED left) \/ (Fails /\ mirage' \in {mirage, "none"} /\ left' = TRUE)
    /\ mirageLog' = IF mirage' = "none" THEN <<>> ELSE mirageLog
    /\ UNCHANGED <<network, target, workspaces, running, workspaceRoot, callbackLog, abandoned, creates, syncs>>

\* A network is not removed as long as a container is on it.
RemoveNetwork ==
    /\ From("rmNetwork", "rmWorkspace") \/ From("disposeNetwork", "disposeWorkspace")
    /\ running' = FALSE
    /\ \/ Works /\ network' = (IF target = "up" \/ mirage = "up" THEN network ELSE "none") /\ UNCHANGED left
       \/ Fails /\ network' \in {network, "none"} /\ left' = TRUE
    /\ UNCHANGED <<mirage, target, workspaces, mirageRunning, workspaceRoot, mirageLog, callbackLog, abandoned, creates, syncs>>

RemoveWorkspace ==
    /\ From("rmWorkspace", "idle") \/ From("disposeWorkspace", "disposed")
    /\ \/ Works /\ workspaces' = workspaces \ {workspaceRoot} /\ workspaceRoot' = 0 /\ UNCHANGED left
       \/ Fails /\ workspaceRoot # 0 /\ left' = TRUE /\ UNCHANGED <<workspaces, workspaceRoot>>
    /\ UNCHANGED <<network, mirage, target, running, mirageRunning, mirageLog, callbackLog, abandoned, creates, syncs>>

\* RuntimeToolAssembly.cleanup, when the session is disposed of.
DisposeFrom == "disposeTarget"
cleanup ==
    /\ pc = "idle" /\ pc' = DisposeFrom
    /\ UNCHANGED <<dockerVars, running, mirageRunning, workspaceRoot, mirageLog, callbackLog, abandoned, left, creates, failures, syncs>>

\* The process dies, and another session resumes the run; or a new session follows a disposed one.
NewSession ==
    /\ pc' = "idle" /\ running' = FALSE /\ mirageRunning' = FALSE /\ workspaceRoot' = 0 /\ callbackLog' = <<>>
    /\ abandoned' = IF workspaceRoot = 0 THEN abandoned ELSE abandoned \cup {workspaceRoot}
    /\ UNCHANGED <<dockerVars, mirageLog, left, creates, syncs>>
Crash == pc # "disposed" /\ Fails /\ NewSession
Resume == pc = "disposed" /\ creates < MaxCreates /\ Works /\ NewSession

-----------------------------------------------------------------------------
\* The target, run by sandbox_exec or by itself, calls something that the Mirage answers.
Callback ==
    /\ target = "up" /\ mirage = "up" /\ network = "up" /\ Len(mirageLog) < MaxCallbacks
    /\ mirageLog' = Append(mirageLog, <<creates, Len(mirageLog) + 1>>)
    /\ UNCHANGED <<dockerVars, sessionVars, abandoned, left, creates, failures, syncs>>

\* recordCallback: a log that is full loses its oldest entry.
recordCallback(log, c) == Append(IF Len(log) >= MaxCallbackEntries THEN Tail(log) ELSE log, c)

\* syncLog: what was not in the log when it began.
IsNew(c) == c \notin Range(callbackLog)

check_oast_logs ==
    /\ pc = "idle" /\ mirageRunning /\ syncs < MaxSyncs /\ syncs' = syncs + 1
    /\ callbackLog' = FoldLeft(LAMBDA log, c : IF IsNew(c) THEN recordCallback(log, c) ELSE log, callbackLog, mirageLog)
    /\ UNCHANGED <<dockerVars, pc, running, mirageRunning, workspaceRoot, mirageLog, abandoned, left, creates, failures>>

Next ==
    \/ sandbox_deploy \/ SourcesCopied \/ NetworkCreated \/ MirageStarted
    \/ TargetCreated \/ TargetStarted \/ TargetInspected
    \/ RemoveTarget \/ RemoveMirage \/ RemoveNetwork \/ RemoveWorkspace
    \/ cleanup \/ Crash \/ Resume \/ Callback \/ check_oast_logs

Spec == Init /\ [][Next]_sandboxVars

-----------------------------------------------------------------------------
\* Commands run only where everything is that isolates them: the network, the Mirage and a copy
\* of the sources, whatever an earlier attempt or an earlier session has left behind.
RunningIsIsolated == running /\ pc = "idle" =>
    network = "up" /\ mirage = "up" /\ mirageRunning /\ target = "up" /\ workspaceRoot \in workspaces

\* A session that was disposed of leaves nothing if what its destroy removed was removed, also
\* after a command that failed and had done its work.
NothingIsLeft == pc = "disposed" /\ ~left =>
    network = "none" /\ mirage = "none" /\ target = "none" /\ workspaces \subseteq abandoned

SandboxIsSound == RunningIsIsolated /\ NothingIsLeft

\* The log has every callback once, and not more of them than it may hold.
NoCallbackTwice ==
    /\ \A i, j \in DOMAIN callbackLog : callbackLog[i] = callbackLog[j] => i = j
    /\ Len(callbackLog) <= MaxCallbackEntries

\* Not so, an entry that was evicted is recorded again by the next synchronization:
\* mirage-oast.ts, of recordCallback: "Capped as a ring buffer (oldest evicted)"
OldestIsEvicted == \A i, j, k \in DOMAIN mirageLog : i < j /\ j < k =>
    ({mirageLog[i], mirageLog[k]} \subseteq Range(callbackLog) => mirageLog[j] \in Range(callbackLog))
=============================================================================
