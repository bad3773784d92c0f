-------------------------- MODULE GraphCheckpoints --------------------------
(***************************************************************************)
(* The checkpoints of one thread of a LangGraph graph                      *)
(* (src/src/core/orchestrator/checkpoint-saver.ts): put, putWrites and     *)
(* prune take turns on the lock of the thread; writes that arrive before   *)
(* their checkpoint are staged in a file of their own.                     *)
(*                                                                         *)
(* LangGraph is external: it puts the checkpoints of a thread in the order *)
(* of their timestamps, attaches writes to one that exists or is about to, *)
(* and the program prunes a thread when no graph runs on it. Signatures    *)
(* and serialization are left out; files are atomic (module FsAtomic).     *)
(***************************************************************************)
EXTENDS Naturals, Sequences, FiniteSets, FiniteSetsExt

CONSTANTS
    Tasks,              \* the tasks whose writes are attached to checkpoints
    NotStored,
    MaxPerThread,       \* options.maxCheckpointsPerThread
    MaxPuts,            \* bounds the checkpoints
    MaxWaiting,         \* bounds the calls that wait for the lock
    MaxErrors           \* bounds failed file operations and crashes

GraphAssumption ==
    /\ MaxPerThread \in Nat \ {0}
    /\ MaxPuts \in Nat /\ MaxWaiting \in Nat /\ MaxErrors \in Nat
    /\ \A done \in SUBSET Tasks : NotStored # done

Ids == 1..MaxPuts

VARIABLES
    stored,         \* the writes in the file of each checkpoint
    staged,         \* the writes in its .pending.json file, none if there is no file
    index,          \* latest.json
    calls,          \* the calls that hold and await the lock, in its order
    gcPc, taken,    \* where the call with the lock is; the staged writes that put has read
    puts, errors, pruned,
    putAcked, writesAcked   \* what has returned without an error

vars == <<stored, staged, index, calls, gcPc, taken, puts, errors, pruned, putAcked, writesAcked>>

Call == [kind : {"put", "prune"}, id : 0..MaxPuts] \cup [kind : {"putWrites"}, id : Ids, task : Tasks]

TypeOK ==
    /\ stored \in [Ids -> (SUBSET Tasks) \cup {NotStored}]
    /\ staged \in [Ids -> SUBSET Tasks]
    /\ calls \in Seq(Call)
    /\ gcPc \in {"start", "write", "unstage", "index"}
    /\ taken \in SUBSET Tasks
    /\ index \in 0..MaxPuts /\ puts \in 0..MaxPuts /\ errors \in 0..MaxErrors
    /\ pruned \subseteq Ids /\ putAcked \subseteq Ids /\ writesAcked \subseteq Ids \X Tasks

Init ==
    /\ stored = [i \in Ids |-> NotStored]
    /\ staged = [i \in Ids |-> {}]
    /\ index = 0
    /\ calls = <<>> /\ gcPc = "start" /\ taken = {}
    /\ puts = 0 /\ errors = 0 /\ pruned = {}
    /\ putAcked = {} /\ writesAcked = {}

Kept == {i \in Ids : stored[i] # NotStored}

\* getTuple without a checkpoint id: the newest file, whatever latest.json says.
getTuple == IF Kept = {} THEN 0 ELSE Max(Kept)

-----------------------------------------------------------------------------
Enqueue(c) == Len(calls) < MaxWaiting /\ calls' = Append(calls, c)

put ==
    /\ puts < MaxPuts
    /\ puts' = puts + 1
    /\ Enqueue([kind |-> "put", id |-> puts'])
    /\ UNCHANGED <<stored, staged, index, gcPc, taken, errors, pruned, putAcked, writesAcked>>

putWrites(i, t) ==
    /\ i <= puts + 1 /\ i \notin pruned
    /\ i > puts \/ stored[i] # NotStored \/ \E k \in DOMAIN calls : calls[k].id = i
    /\ <<i, t>> \notin writesAcked
    /\ Enqueue([kind |-> "putWrites", id |-> i, task |-> t])
    /\ UNCHANGED <<stored, staged, index, gcPc, taken, puts, errors, pruned, putAcked, writesAcked>>

prune ==
    /\ calls = <<>>
    /\ Cardinality(Kept) > MaxPerThread
    /\ Enqueue([kind |-> "prune", id |-> 0])
    /\ UNCHANGED <<stored, staged, index, gcPc, taken, puts, errors, pruned, putAcked, writesAcked>>

-----------------------------------------------------------------------------
Turn(kind, here) == calls # <<>> /\ Head(calls).kind = kind /\ gcPc = here
Done == calls' = Tail(calls) /\ gcPc' = "start" /\ taken' = {}
Go(there) == gcPc' = there /\ UNCHANGED calls

\* Faulty variant: the staged writes are not taken along.
PutReadsNothing ==
    /\ Turn("put", "start")
    /\ taken' = {}
    /\ Go("write")
    /\ UNCHANGED <<stored, staged, index, puts, errors, pruned, putAcked, writesAcked>>

\* put under the lock: the staged writes are read, the checkpoint is written with them,
\* the staged file is removed, the index is written.
PutReads ==
    /\ Turn("put", "start")
    /\ taken' = staged[Head(calls).id]
    /\ Go("write")
    /\ UNCHANGED <<stored, staged, index, puts, errors, pruned, putAcked, writesAcked>>

PutWrites ==
    /\ Turn("put", "write")
    /\ stored' = [stored EXCEPT ![Head(calls).id] = taken]
    /\ Go("unstage")
    /\ UNCHANGED <<staged, index, taken, puts, errors, pruned, putAcked, writesAcked>>

PutUnstages ==
    /\ Turn("put", "unstage")
    /\ staged' = [staged EXCEPT ![Head(calls).id] = {}]
    /\ Go("index")
    /\ UNCHANGED <<stored, index, taken, puts, errors, pruned, putAcked, writesAcked>>

\* Faulty variant: latest.json names the checkpoint that comes next.
PutIndexesNext ==
    /\ Turn("put", "index")
    /\ index' = Head(calls).id + 1
    /\ putAcked' = putAcked \cup {Head(calls).id}
    /\ Done
    /\ UNCHANGED <<stored, staged, puts, errors, pruned, writesAcked>>

PutIndexes ==
    /\ Turn("put", "index")
    /\ index' = Head(calls).id
    /\ putAcked' = putAcked \cup {Head(calls).id}
    /\ Done
    /\ UNCHANGED <<stored, staged, puts, errors, pruned, writesAcked>>

\* putWrites under the lock: into the checkpoint, or else into the staged file.
AddWrites ==
    /\ Turn("putWrites", "start")
    /\ LET i == Head(calls).id
           t == Head(calls).task
       IN /\ IF stored[i] # NotStored
             THEN stored' = [stored EXCEPT ![i] = @ \cup {t}] /\ UNCHANGED staged
             ELSE staged' = [staged EXCEPT ![i] = @ \cup {t}] /\ UNCHANGED stored
          /\ writesAcked' = writesAcked \cup {<<i, t>>}
    /\ Done
    /\ UNCHANGED <<index, puts, errors, pruned, putAcked>>

\* Those that pruneThread removes, the newest of them first.
Excess == {i \in Kept : Cardinality({j \in Kept : j > i}) >= MaxPerThread}

PruneOne ==
    /\ Turn("prune", "start")
    /\ IF Excess = {} THEN Done /\ UNCHANGED <<stored, pruned>>
       ELSE /\ stored' = [stored EXCEPT ![Max(Excess)] = NotStored]
            /\ pruned' = pruned \cup {Max(Excess)}
            /\ UNCHANGED <<calls, gcPc, taken>>
    /\ UNCHANGED <<staged, index, puts, errors, putAcked, writesAcked>>

\* A file operation of the call with the lock fails: the call rejects.
CallFails ==
    /\ calls # <<>> /\ errors < MaxErrors
    /\ errors' = errors + 1
    /\ Done
    /\ UNCHANGED <<stored, staged, index, puts, pruned, putAcked, writesAcked>>

\* The process dies, and with it every call.
Crash ==
    /\ errors < MaxErrors
    /\ errors' = errors + 1
    /\ calls' = <<>> /\ gcPc' = "start" /\ taken' = {}
    /\ UNCHANGED <<stored, staged, index, puts, pruned, putAcked, writesAcked>>

Next ==
    \/ put \/ prune
    \/ \E i \in Ids, t \in Tasks : putWrites(i, t)
    \/ PutReads \/ PutWrites \/ PutUnstages \/ PutIndexes \/ AddWrites \/ PruneOne
    \/ CallFails \/ Crash

Spec == Init /\ [][Next]_vars

-----------------------------------------------------------------------------
\* Whoever resumes a thread finds its newest durable checkpoint, with every write that
\* was acknowledged for it: before the checkpoint, after it, or while it was written.
ResumedThreadIsComplete ==
    /\ \A i \in putAcked : getTuple >= i
    /\ \A w \in writesAcked :
        w[1] \notin pruned =>
            \/ stored[w[1]] # NotStored /\ w[2] \in stored[w[1]]
            \/ stored[w[1]] = NotStored /\ w[2] \in staged[w[1]]
=============================================================================
