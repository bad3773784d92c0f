---------------------------- MODULE Checkpoints ----------------------------
(***************************************************************************)
(* The checkpoints of a mission (src/src/core/orchestrator/checkpoints.ts): *)
(* each is two files, written one after the other, and old ones are        *)
(* deleted file by file.                                                   *)
(*                                                                         *)
(* A checkpoint is the number of its save, in the place of its createdAt:  *)
(* the clock is taken to advance between two saves. A file of a checkpoint *)
(* is written atomically (module FsAtomic) and read whole.                 *)
(***************************************************************************)
EXTENDS Naturals, FiniteSets, FiniteSetsExt

CONSTANTS
    NoCheckpoint,
    MaxCheckpoints, \* options.maxCheckpoints
    MaxSaves,       \* bounds the saves
    MaxTroubles     \* bounds failed file operations and crashes

CheckpointAssumption ==
    /\ MaxCheckpoints \in Nat \ {0} /\ MaxSaves \in Nat /\ MaxTroubles \in Nat
    /\ NoCheckpoint \notin Nat

VARIABLES
    states, metas,  \* the checkpoints with a .json and with a .meta.json file
    cpPc, saving,   \* where saveCheckpoint is, and which checkpoint it saves
    doomed,         \* the checkpoints that cleanupOldCheckpoints has yet to delete
    saves, troubles,
    cpAcked         \* the last save that returned ok

vars == <<states, metas, cpPc, saving, doomed, saves, troubles, cpAcked>>

TypeOK ==
    /\ states \subseteq 1..MaxSaves /\ metas \subseteq 1..MaxSaves
    /\ cpPc \in {"idle", "state", "meta", "cleanup", "deleteState", "deleteMeta"}
    /\ saving \in 1..MaxSaves \cup {NoCheckpoint} /\ cpAcked \in 1..MaxSaves \cup {NoCheckpoint}
    /\ doomed \subseteq 1..MaxSaves
    /\ saves \in 0..MaxSaves /\ troubles \in 0..MaxTroubles

Init ==
    /\ states = {} /\ metas = {}
    /\ cpPc = "idle" /\ saving = NoCheckpoint /\ doomed = {}
    /\ saves = 0 /\ troubles = 0
    /\ cpAcked = NoCheckpoint

\* loadLatestCheckpoint: the newest metadata names the file that is read. A file that is
\* missing is an error, and 0 stands for it.
Loaded ==
    IF metas = {} THEN NoCheckpoint
    ELSE IF Max(metas) \in states THEN Max(metas) ELSE 0

Trouble == troubles < MaxTroubles /\ troubles' = troubles + 1
NoTrouble == troubles' = troubles

Return(result) ==
    /\ cpPc' = "idle"
    /\ cpAcked' = result
    /\ saving' = NoCheckpoint
    /\ doomed' = {}

saveCheckpoint ==
    /\ cpPc = "idle" /\ saves < MaxSaves
    /\ saves' = saves + 1
    /\ saving' = saves'
    /\ cpPc' = "state"
    /\ UNCHANGED <<states, metas, doomed, troubles, cpAcked>>

WriteState ==
    /\ cpPc = "state"
    /\ \/ /\ states' = states \cup {saving}
          /\ cpPc' = "meta" /\ NoTrouble /\ UNCHANGED <<saving, doomed, cpAcked>>
       \/ Trouble /\ Return(cpAcked) /\ UNCHANGED states
    /\ UNCHANGED <<metas, saves>>

WriteMeta ==
    /\ cpPc = "meta"
    /\ \/ /\ metas' = metas \cup {saving}
          /\ cpPc' = "cleanup" /\ NoTrouble /\ UNCHANGED <<saving, doomed, cpAcked>>
       \/ Trouble /\ Return(cpAcked) /\ UNCHANGED metas
    /\ UNCHANGED <<states, saves>>

\* Faulty variant: the newest are taken for the oldest.
Newest(listed) == {c \in listed : Cardinality({d \in listed : d < c}) >= MaxCheckpoints}

\* The checkpoints beyond the limit, oldest first.
Oldest(listed) == {c \in listed : Cardinality({d \in listed : d > c}) >= MaxCheckpoints}

\* cleanupOldCheckpoints: metadata that cannot be read is left out of the list.
Cleanup ==
    /\ cpPc = "cleanup"
    /\ \E listed \in {metas} \cup {metas \ {m} : m \in metas} :
        /\ IF listed = metas THEN NoTrouble ELSE Trouble
        /\ IF Oldest(listed) = {} THEN Return(saving)
           ELSE doomed' = Oldest(listed) /\ cpPc' = "deleteState" /\ UNCHANGED <<saving, cpAcked>>
    /\ UNCHANGED <<states, metas, saves>>

\* What is left of the deletion of one checkpoint, done or failed.
NextDoomed ==
    LET rest == doomed \ {Min(doomed)} IN
    IF rest = {} THEN Return(saving)
    ELSE doomed' = rest /\ cpPc' = "deleteState" /\ UNCHANGED <<saving, cpAcked>>

\* deleteCheckpoint, whose errors cleanupOldCheckpoints ignores.
DeleteState ==
    /\ cpPc = "deleteState"
    /\ \/ /\ states' = states \ {Min(doomed)}
          /\ cpPc' = "deleteMeta" /\ NoTrouble /\ UNCHANGED <<saving, doomed, cpAcked>>
       \/ Trouble /\ NextDoomed /\ UNCHANGED states
    /\ UNCHANGED <<metas, saves>>

DeleteMeta ==
    /\ cpPc = "deleteMeta"
    /\ \/ metas' = metas \ {Min(doomed)} /\ NoTrouble
       \/ Trouble /\ UNCHANGED metas
    /\ NextDoomed
    /\ UNCHANGED <<states, saves>>

\* The process dies in the middle of a save.
Crash ==
    /\ cpPc # "idle" /\ Trouble
    /\ Return(cpAcked)
    /\ UNCHANGED <<states, metas, saves>>

Next ==
    \/ saveCheckpoint \/ WriteState \/ WriteMeta \/ Cleanup
    \/ DeleteState \/ DeleteMeta \/ Crash

Spec == Init /\ [][Next]_vars

-----------------------------------------------------------------------------
Latest == INSTANCE DurableFile WITH
    Writes <- 1..MaxSaves,
    content <- Loaded,
    open <- {saving} \ {NoCheckpoint},
    base <- cpAcked,
    acked <- cpAcked

\* What loadLatestCheckpoint loads is the last save that was acknowledged, or a later
\* one that was begun, although files are written and deleted one by one, any of these
\* operations may fail, and the process may die between any two of them. Module Mission
\* uses this: its ckpt is the last save.
LatestIsDurable == Latest!Spec
=============================================================================
