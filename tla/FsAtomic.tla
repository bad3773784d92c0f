------------------------------ MODULE FsAtomic ------------------------------
(***************************************************************************)
(* Atomic replacement of one file (src/src/utils/fs-atomic.ts) by processes    *)
(* that share a workspace: the lock file, stale locks, the journal of a    *)
(* replacement that the file system refuses, recovery after a crash.       *)
(*                                                                         *)
(* In a process the map pathLocks lets one operation at a time near the    *)
(* path, so a process has one operation. File contents are the numbers of  *)
(* the writes, 0 for what was there before; temporary files have names of  *)
(* their own and are left out, and so are modes and symbolic links.        *)
(***************************************************************************)
EXTENDS Naturals, FiniteSets

CONSTANTS
    Procs,
    NoFile,         \* a path at which there is no file
    MaxWrites,      \* bounds the writes
    MaxFaults,      \* bounds the file operations that fail
    MaxCrashes,     \* bounds the processes that die
    LockFaults      \* whether operations on the lock file fail too

FsAssumption ==
    /\ MaxWrites \in Nat /\ MaxFaults \in Nat /\ MaxCrashes \in Nat
    /\ LockFaults \in BOOLEAN
    /\ NoFile \notin Nat /\ NoFile \notin Procs

VARIABLES
    dest, backup,   \* the file and its .shadow-atomic-backup
    journal,        \* whether there is a .shadow-atomic-journal
    lock,           \* whose .shadow-atomic-lock there is
    stale,          \* whether that lock is older than CROSS_PROCESS_LOCK_STALE_MS
    fsPc,           \* where each process is in its operation
    op,             \* what it writes; NoFile when it only recovers
    writes, fsFaults,
    settled, fileAcked  \* history: the file when the last write ended, the last acknowledged write

fileVars == <<dest, backup, journal, settled, fileAcked>>
lockVars == <<lock, stale>>
vars == <<dest, backup, journal, lock, stale, fsPc, op, writes, fsFaults, settled, fileAcked>>

Revisions == 0..MaxWrites \cup {NoFile}

\* The places inside the lock, in the order of the code.
Inside == {"recover", "recoverJournal", "rename", "journal", "aside", "replace",
           "dropBackup", "dropJournal", "restore", "undoJournal", "done", "failed"}

TypeOK ==
    /\ dest \in Revisions /\ backup \in Revisions /\ settled \in Revisions /\ fileAcked \in Revisions
    /\ journal \in BOOLEAN /\ stale \in BOOLEAN
    /\ lock \in Procs \cup {NoFile}
    /\ fsPc \in [Procs -> Inside \cup {"idle", "open", "held", "steal", "dead"}]
    /\ op \in [Procs -> Revisions]
    /\ writes \in 0..MaxWrites /\ fsFaults \in 0..MaxFaults

Init ==
    /\ dest \in {0, NoFile}
    /\ backup = NoFile /\ journal = FALSE
    /\ lock = NoFile /\ stale = FALSE
    /\ fsPc = [p \in Procs |-> "idle"]
    /\ op = [p \in Procs |-> NoFile]
    /\ writes = 0 /\ fsFaults = 0
    /\ settled = dest /\ fileAcked = dest

\* What recoverAtomicWriteUnlocked would leave at the path, and readers would get.
Recovered == IF dest # NoFile \/ ~journal THEN dest ELSE backup

-----------------------------------------------------------------------------
At(p, here) == fsPc[p] = here
To(p, there) == fsPc' = [fsPc EXCEPT ![p] = there]
Fault == fsFaults < MaxFaults /\ fsFaults' = fsFaults + 1
NoFault == fsFaults' = fsFaults

Failed(p) == To(p, "failed")

\* writeFileAtomic, or recoverAtomicWrite before a file is read.
Call(p) ==
    /\ At(p, "idle")
    /\ \/ /\ writes < MaxWrites
          /\ writes' = writes + 1
          /\ op' = [op EXCEPT ![p] = writes + 1]
       \/ /\ writes' = writes
          /\ op' = [op EXCEPT ![p] = NoFile]
    /\ To(p, "open")
    /\ UNCHANGED <<fileVars, lockVars, fsFaults>>

\* acquireCrossProcessLock: the exclusive open. When the write into the new lock file
\* fails the operation throws and leaves the lock behind.
OpenLock(p) ==
    /\ At(p, "open")
    /\ \/ lock # NoFile /\ To(p, "held") /\ NoFault /\ UNCHANGED <<lockVars, op>>
       \/ /\ lock = NoFile
          /\ lock' = p /\ stale' = FALSE
          /\ \/ To(p, "recover") /\ NoFault /\ UNCHANGED op
             \/ LockFaults /\ To(p, "idle") /\ Fault /\ op' = [op EXCEPT ![p] = NoFile]
    /\ UNCHANGED <<fileVars, writes>>

\* The look at the age of a lock that is held, and the sleep when it is fresh or gone.
LookAtLock(p) ==
    /\ At(p, "held")
    /\ To(p, IF lock # NoFile /\ stale THEN "steal" ELSE "open")
    /\ UNCHANGED <<fileVars, lockVars, op, writes, fsFaults>>

StealLock(p) ==
    /\ At(p, "steal")
    /\ lock' = NoFile /\ stale' = FALSE
    /\ To(p, "open")
    /\ UNCHANGED <<fileVars, op, writes, fsFaults>>

LockTimesOut(p) ==
    /\ At(p, "open") /\ lock # NoFile
    /\ To(p, "idle")
    /\ op' = [op EXCEPT ![p] = NoFile]
    /\ UNCHANGED <<fileVars, lockVars, writes, fsFaults>>

\* Thirty seconds pass over a lock whose owner no longer works on the file.
LockAges ==
    /\ lock # NoFile /\ ~stale
    /\ fsPc[lock] \notin Inside
    /\ stale' = TRUE
    /\ UNCHANGED <<fileVars, lock, fsPc, op, writes, fsFaults>>

-----------------------------------------------------------------------------
AfterRecovery(p) == To(p, IF op[p] = NoFile THEN "done" ELSE "rename")

\* recoverAtomicWriteUnlocked up to the removal of the journal.
Recover(p) ==
    /\ At(p, "recover")
    /\ \/ /\ ~journal /\ AfterRecovery(p)
          /\ NoFault /\ UNCHANGED <<dest, backup, journal>>
       \/ /\ journal /\ backup = NoFile
          /\ journal' = FALSE /\ AfterRecovery(p)
          /\ NoFault /\ UNCHANGED <<dest, backup>>
       \/ /\ journal /\ backup # NoFile
          /\ dest' = IF dest = NoFile THEN backup ELSE dest
          /\ backup' = NoFile /\ To(p, "recoverJournal")
          /\ NoFault /\ UNCHANGED journal
       \/ journal /\ Fault /\ Failed(p) /\ UNCHANGED <<dest, backup, journal>>
    /\ UNCHANGED <<lockVars, op, writes, settled, fileAcked>>

RecoverJournal(p) ==
    /\ At(p, "recoverJournal")
    /\ \/ journal' = FALSE /\ AfterRecovery(p) /\ NoFault
       \/ Fault /\ Failed(p) /\ UNCHANGED journal
    /\ UNCHANGED <<dest, backup, lockVars, op, writes, settled, fileAcked>>

\* The temporary file is written and renamed; a file system may refuse to rename over
\* a file that exists (EEXIST, EPERM).
Rename(p) ==
    /\ At(p, "rename")
    /\ \/ dest' = op[p] /\ To(p, "done") /\ NoFault
       \/ dest # NoFile /\ To(p, "journal") /\ NoFault /\ UNCHANGED dest
       \/ Fault /\ Failed(p) /\ UNCHANGED dest
    /\ UNCHANGED <<backup, journal, lockVars, op, writes, settled, fileAcked>>

WriteJournal(p) ==
    /\ At(p, "journal")
    /\ \/ journal' = TRUE /\ To(p, "aside") /\ NoFault
       \/ journal' \in BOOLEAN /\ Fault /\ To(p, "undoJournal")
    /\ UNCHANGED <<dest, backup, lockVars, op, writes, settled, fileAcked>>

MoveAside(p) ==
    /\ At(p, "aside")
    /\ \/ backup' = dest /\ dest' = NoFile /\ To(p, "replace") /\ NoFault
       \/ Fault /\ To(p, "undoJournal") /\ UNCHANGED <<dest, backup>>
    /\ UNCHANGED <<journal, lockVars, op, writes, settled, fileAcked>>

Replace(p) ==
    /\ At(p, "replace")
    /\ \/ dest' = op[p] /\ To(p, "dropBackup") /\ NoFault
       \/ Fault /\ To(p, "restore") /\ UNCHANGED dest
    /\ UNCHANGED <<backup, journal, lockVars, op, writes, settled, fileAcked>>

DropBackup(p) ==
    /\ At(p, "dropBackup")
    /\ \/ backup' = NoFile /\ To(p, "dropJournal") /\ NoFault
       \/ Fault /\ To(p, "restore") /\ UNCHANGED backup
    /\ UNCHANGED <<dest, journal, lockVars, op, writes, settled, fileAcked>>

DropJournal(p) ==
    /\ At(p, "dropJournal")
    /\ \/ journal' = FALSE /\ To(p, "done") /\ NoFault
       \/ Fault /\ To(p, "restore") /\ UNCHANGED journal
    /\ UNCHANGED <<dest, backup, lockVars, op, writes, settled, fileAcked>>

\* Faulty variant: the journal is removed before the backup is back.
RestoreForgetting(p) ==
    /\ At(p, "restore")
    /\ journal' = FALSE
    /\ \/ /\ dest' = backup /\ backup' = NoFile /\ NoFault
       \/ Fault /\ UNCHANGED <<dest, backup>>
    /\ Failed(p)
    /\ UNCHANGED <<lockVars, op, writes, settled, fileAcked>>

\* restoreBackup; when it fails too, the journal stays for a later recovery.
Restore(p) ==
    /\ At(p, "restore")
    /\ \/ /\ backup # NoFile
          /\ dest' = backup /\ backup' = NoFile
          /\ To(p, "undoJournal") /\ NoFault
       \/ backup = NoFile /\ Failed(p) /\ NoFault /\ UNCHANGED <<dest, backup>>
       \/ backup # NoFile /\ Fault /\ Failed(p) /\ UNCHANGED <<dest, backup>>
    /\ UNCHANGED <<journal, lockVars, op, writes, settled, fileAcked>>

UndoJournal(p) ==
    /\ At(p, "undoJournal")
    /\ \/ journal' = FALSE /\ NoFault
       \/ Fault /\ UNCHANGED journal
    /\ Failed(p)
    /\ UNCHANGED <<dest, backup, lockVars, op, writes, settled, fileAcked>>

\* The release removes whatever lock file is at the path.
Release(p) ==
    /\ fsPc[p] \in {"done", "failed"}
    /\ \/ /\ lock' = NoFile /\ stale' = FALSE /\ NoFault
          /\ fileAcked' = IF At(p, "done") /\ op[p] # NoFile THEN op[p] ELSE fileAcked
       \/ LockFaults /\ Fault /\ UNCHANGED <<lockVars, fileAcked>>
    /\ settled' = Recovered
    /\ op' = [op EXCEPT ![p] = NoFile]
    /\ To(p, "idle")
    /\ UNCHANGED <<dest, backup, journal, writes>>

\* A process dies in the middle of an operation; its lock stays.
Crash(p) ==
    /\ fsPc[p] \notin {"idle", "dead"}
    /\ Cardinality({q \in Procs : At(q, "dead")}) < MaxCrashes
    /\ settled' = IF fsPc[p] \in Inside THEN Recovered ELSE settled
    /\ op' = [op EXCEPT ![p] = NoFile]
    /\ To(p, "dead")
    /\ UNCHANGED <<dest, backup, journal, lockVars, writes, fsFaults, fileAcked>>

Next ==
    \/ LockAges
    \/ \E p \in Procs :
        \/ Call(p) \/ OpenLock(p) \/ LookAtLock(p) \/ StealLock(p) \/ LockTimesOut(p)
        \/ Recover(p) \/ RecoverJournal(p)
        \/ Rename(p) \/ WriteJournal(p) \/ MoveAside(p) \/ Replace(p)
        \/ DropBackup(p) \/ DropJournal(p) \/ Restore(p) \/ UndoJournal(p)
        \/ Release(p) \/ Crash(p)

Spec == Init /\ [][Next]_vars

-----------------------------------------------------------------------------
\* "Only one process can hold the lock at a time", and not so with two that wait for the lock of a dead
\* one: the second removes what the first has taken. Two processes never work on the file together.
OneHolder == \A p, q \in Procs : fsPc[p] \in Inside /\ fsPc[q] \in Inside => p = q

File == INSTANCE DurableFile WITH
    Writes <- 1..MaxWrites,
    content <- Recovered,
    open <- {op[p] : p \in Procs} \ {NoFile},
    base <- settled,
    acked <- fileAcked

\* Wherever processes die and whichever file operations fail, the file can be recovered
\* to what the last acknowledged write left, or to a later write that was begun.
FileIsDurable == File!Spec
=============================================================================
