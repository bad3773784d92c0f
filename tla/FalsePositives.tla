-------------------------- MODULE FalsePositives --------------------------
(***************************************************************************)
(* False-positive memory (false-positive-store.ts): suppressions reviewed  *)
(* by a human, in a file of the repository that the processes of all       *)
(* sessions share.  Every operation takes a lock between processes (a      *)
(* directory renamed into place with its owner in it), loads the file      *)
(* again, and writes it.  The lock of a dead process is taken away under a *)
(* second lock, the reclaim directory.  Records are signed with a key that *)
(* the first session creates.  Processes may crash between any two steps.  *)
(***************************************************************************)
EXTENDS Naturals, FiniteSets

CONSTANTS
    Procs,
    MaxRecords, MaxOps, MaxCrashes, MaxEdits    \* bounds

FalsePositivesAssumption ==
    /\ MaxRecords \in Nat /\ MaxOps \in Nat /\ MaxCrashes \in Nat /\ MaxEdits \in Nat

VARIABLES
    key,               \* the key file: "none", "empty" (created, not yet written) or "full"
    file, source,      \* the records on disk; the content of the file they are about
    expired,           \* records whose expiry is over
    lock, reclaim,     \* the owner of each directory, None if it is not there
    pc, life,          \* of each process; its incarnation, for its process id
    op, records,       \* of each process: what it does, the records it loaded
    approved, revoked, \* records whose approval, whose revocation was acknowledged
    match,             \* of each process: the record that its last match found, 0 for none
    ops, crashes

memoryVars == <<key, file, source, expired, lock, reclaim, pc, life, op, records, approved, revoked, match, ops, crashes>>

None == <<>>
Ids == 1..MaxRecords
NoOp == [kind |-> "none", id |-> 0]
Kinds == {"none", "approve", "revoke", "match"}
Record == [status : {"approved", "revoked"}, digest : Nat]

\* Records are a partial function of their ids.
IsRecords(f) == DOMAIN f \subseteq Ids /\ \A i \in DOMAIN f : f[i] \in Record

Init ==
    /\ key = "none" /\ file = <<>> /\ source = 0 /\ expired = {} /\ lock = None /\ reclaim = None
    /\ pc = [p \in Procs |-> "closed"] /\ life = [p \in Procs |-> 0]
    /\ op = [p \in Procs |-> NoOp] /\ records = [p \in Procs |-> <<>>]
    /\ approved = {} /\ revoked = {} /\ match = [p \in Procs |-> 0] /\ ops = 0 /\ crashes = 0

Locked == {"load", "work", "persist", "release", "releaseError"}
Steps == {"closed", "createKey", "writeKey", "waitKey", "idle", "failed", "acquire", "contended", "reading",
          "renaming", "wait"} \cup Locked

TypeOK ==
    /\ key \in {"none", "empty", "full"} /\ pc \in [Procs -> Steps]
    /\ IsRecords(file) /\ \A p \in Procs : IsRecords(records[p]) /\ op[p].kind \in Kinds /\ match[p] \in Ids \cup {0}
    /\ {lock, reclaim} \subseteq {None} \cup (Procs \X (0..MaxCrashes))

Pid(p) == <<p, life[p]>>
processIsAlive(owner) == life[owner[1]] = owner[2] /\ pc[owner[1]] # "closed"
Goto(p, s) == pc' = [pc EXCEPT ![p] = s]
Step(p, from, to) == pc[p] = from /\ Goto(p, to)

keyUnchanged == UNCHANGED <<key, life, source, expired, approved, revoked, ops, crashes>>

-----------------------------------------------------------------------------
\* loadOrCreateKey.  A key file of another process that has no key in it yet is an error for a
\* process that reads it first; one that lost the creation waits for it, until a timeout.
open(p) ==
    /\ pc[p] = "closed"
    /\ Goto(p, CASE key = "none" -> "createKey" [] key = "empty" -> "failed" [] OTHER -> "acquire")
    /\ UNCHANGED <<key, file, source, expired, lock, reclaim, life, op, records, approved, revoked, match, ops, crashes>>

CreateKey(p) ==
    /\ pc[p] = "createKey"
    /\ IF key = "none" THEN key' = "empty" /\ Goto(p, "writeKey") ELSE Goto(p, "waitKey") /\ UNCHANGED key
    /\ UNCHANGED <<file, source, expired, lock, reclaim, life, op, records, approved, revoked, match, ops, crashes>>

WriteKey(p) ==
    /\ Step(p, "writeKey", "acquire") /\ key' = "full"
    /\ UNCHANGED <<file, source, expired, lock, reclaim, life, op, records, approved, revoked, match, ops, crashes>>

WaitForKey(p) ==
    /\ pc[p] = "waitKey" /\ Goto(p, IF key = "full" THEN "acquire" ELSE "failed")
    /\ UNCHANGED <<key, file, source, expired, lock, reclaim, life, op, records, approved, revoked, match, ops, crashes>>

-----------------------------------------------------------------------------
\* Operations of one process follow one another: approve, revoke of a record, match.
serialize(p, o) ==
    /\ Step(p, "idle", "acquire") /\ ops < MaxOps /\ ops' = ops + 1
    /\ op' = [op EXCEPT ![p] = o] /\ match' = [match EXCEPT ![p] = 0]
    /\ UNCHANGED <<key, file, source, expired, lock, reclaim, life, records, approved, revoked, crashes>>

\* withInterprocessLock: the candidate is renamed into place if nothing is there.
Acquire(p) ==
    /\ pc[p] = "acquire"
    /\ IF lock = None THEN lock' = Pid(p) /\ Goto(p, "load") ELSE Goto(p, "contended") /\ UNCHANGED lock
    /\ UNCHANGED <<file, reclaim, op, records, match>> /\ keyUnchanged

\* Faulty variant: any number of processes at a time.
MayAlwaysReclaim == TRUE

\* removeAbandonedLock: one process at a time.
MayReclaim == reclaim = None
TakeReclaim(p) ==
    /\ pc[p] = "contended"
    /\ IF MayReclaim THEN reclaim' = Pid(p) /\ Goto(p, "reading") ELSE Goto(p, "wait") /\ UNCHANGED reclaim
    /\ UNCHANGED <<file, lock, op, records, match>> /\ keyUnchanged

\* reclaimAbandonedLock reads the owner.  (A lock without a readable owner is not made here.)
IsAbandoned == ~processIsAlive(lock)
ReadOwner(p) ==
    /\ pc[p] = "reading"
    /\ IF lock = None THEN Goto(p, "acquire") /\ reclaim' = None
       ELSE IF IsAbandoned THEN Goto(p, "renaming") /\ UNCHANGED reclaim
       ELSE Goto(p, "wait") /\ reclaim' = None
    /\ UNCHANGED <<file, lock, op, records, match>> /\ keyUnchanged

\* It renames what is there now.
RenameLock(p) ==
    /\ Step(p, "renaming", "acquire") /\ lock' = None /\ reclaim' = None
    /\ UNCHANGED <<file, op, records, match>> /\ keyUnchanged

\* The next attempt, or the timeout: an error for the caller, which fails to open or goes on.
Retry(p) ==
    /\ Step(p, "wait", "acquire") /\ UNCHANGED <<file, lock, reclaim, op, records, match>> /\ keyUnchanged
TimeOut(p) ==
    /\ pc[p] = "wait" /\ Goto(p, IF op[p] = NoOp THEN "failed" ELSE "idle")
    /\ UNCHANGED <<file, lock, reclaim, op, records, match>> /\ keyUnchanged

LoadedBy(p) == file
Load(p) ==
    /\ pc[p] = "load" /\ records' = [records EXCEPT ![p] = LoadedBy(p)]
    /\ Goto(p, IF op[p] = NoOp THEN "release" ELSE "work")
    /\ UNCHANGED <<file, lock, reclaim, op, match>> /\ keyUnchanged

\* The locations are fingerprinted, and the operation is done on what was loaded.
NewId(p) == CHOOSE i \in Ids : i \notin DOMAIN file /\ \A q \in Procs : i \notin DOMAIN records[q]
HasNewId(p) == Ids \ (DOMAIN file \cup UNION {DOMAIN records[q] : q \in Procs}) # {}
With(f, i, r) == [j \in DOMAIN f \cup {i} |-> IF j = i THEN r ELSE f[j]]
Matches(r, i) == r[i].status = "approved" /\ i \notin expired /\ r[i].digest = source

Approve(p) ==
    /\ pc[p] = "work" /\ op[p].kind = "approve" /\ HasNewId(p) /\ Goto(p, "persist")
    /\ records' = [records EXCEPT ![p] = With(@, NewId(p), [status |-> "approved", digest |-> source])]
    /\ op' = [op EXCEPT ![p].id = NewId(p)]
    /\ UNCHANGED <<file, lock, reclaim, match>> /\ keyUnchanged

Revoke(p) ==
    /\ pc[p] = "work" /\ op[p].kind = "revoke"
    /\ IF op[p].id \in DOMAIN records[p]
       THEN /\ Goto(p, "persist") /\ records' = [records EXCEPT ![p][op[p].id].status = "revoked"]
       ELSE /\ Goto(p, "releaseError") /\ UNCHANGED records
    /\ UNCHANGED <<file, lock, reclaim, op, match>> /\ keyUnchanged

Match(p) ==
    /\ Step(p, "work", "release") /\ op[p].kind = "match"
    /\ LET m == {i \in DOMAIN records[p] : Matches(records[p], i)}
       IN  match' = [match EXCEPT ![p] = IF m = {} THEN 0 ELSE CHOOSE i \in m : \A j \in m : i <= j]
    /\ UNCHANGED <<file, lock, reclaim, op, records>> /\ keyUnchanged

\* persist: all records or, when it fails, none.
Persist(p) ==
    /\ pc[p] = "persist"
    /\ \/ file' = records[p] /\ Goto(p, "release")
       \/ UNCHANGED file /\ Goto(p, "releaseError")
    /\ UNCHANGED <<lock, reclaim, op, records, match>> /\ keyUnchanged

\* releaseInterprocessLock, and the answer to the caller.
Release(p) ==
    /\ pc[p] \in {"release", "releaseError"} /\ Goto(p, "idle")
    /\ lock' = IF lock = Pid(p) THEN None ELSE lock
    /\ LET done(kind) == pc[p] = "release" /\ lock = Pid(p) /\ op[p].kind = kind
       IN  /\ approved' = IF done("approve") THEN approved \cup {op[p].id} ELSE approved
           /\ revoked' = IF done("revoke") THEN revoked \cup {op[p].id} ELSE revoked
    /\ UNCHANGED <<key, file, source, expired, reclaim, life, op, records, match, ops, crashes>>

-----------------------------------------------------------------------------
Crash(p) ==
    /\ pc[p] # "closed" /\ crashes < MaxCrashes /\ crashes' = crashes + 1
    /\ Goto(p, "closed") /\ life' = [life EXCEPT ![p] = @ + 1]
    /\ op' = [op EXCEPT ![p] = NoOp] /\ records' = [records EXCEPT ![p] = <<>>] /\ match' = [match EXCEPT ![p] = 0]
    /\ UNCHANGED <<key, file, source, expired, lock, reclaim, approved, revoked, ops>>

Edit ==
    /\ source < MaxEdits /\ source' = source + 1
    /\ UNCHANGED <<key, file, expired, lock, reclaim, pc, life, op, records, approved, revoked, match, ops, crashes>>

Expire(i) ==
    /\ i \in approved \ expired /\ expired' = expired \cup {i}
    /\ UNCHANGED <<key, file, source, lock, reclaim, pc, life, op, records, approved, revoked, match, ops, crashes>>

Operation == [kind : {"approve", "match"}, id : {0}] \cup [kind : {"revoke"}, id : DOMAIN file]

Next ==
    \/ \E p \in Procs :
          \/ open(p) \/ CreateKey(p) \/ WriteKey(p) \/ WaitForKey(p)
          \/ \E o \in Operation : serialize(p, o)
          \/ Acquire(p) \/ TakeReclaim(p) \/ ReadOwner(p) \/ RenameLock(p) \/ Retry(p) \/ TimeOut(p)
          \/ Load(p) \/ Approve(p) \/ Revoke(p) \/ Match(p) \/ Persist(p) \/ Release(p) \/ Crash(p)
    \/ Edit \/ \E i \in Ids : Expire(i)

Spec == Init /\ [][Next]_memoryVars

-----------------------------------------------------------------------------
\* One process at a time works on the file, however many find the lock of a dead one.
OneAtATime == \A p, q \in Procs : pc[p] \in Locked /\ pc[q] \in Locked => p = q

\* No approval and no revocation that a reviewer was told of is lost or undone by another process.
DecisionsAreKept ==
    /\ approved \subseteq DOMAIN file
    /\ \A i \in revoked : file[i].status = "revoked"

\* A suppression that was revoked before the match began is not applied by any process.
RevokedIsNotMatched == \A p \in Procs :
    pc[p] \in {"work", "release"} /\ op[p].kind = "match" => match[p] \notin revoked

MemoryIsSound == OneAtATime /\ DecisionsAreKept /\ RevokedIsNotMatched

\* Not so: a key file that is created and not yet written fails every session that reads it, for
\* ever if its creator crashes; a crashed holder of the reclaim directory blocks every reclaim.
KeyIsUsable == \A p \in Procs : pc[p] # "failed"
ReclaimIsPossible == reclaim # None => processIsAlive(reclaim)
=============================================================================
