------------------------------ MODULE StorageMC ------------------------------
(***************************************************************************)
(* The files that keep what a session must not lose: those that are        *)
(* replaced, the log and the two kinds of checkpoints; and those that      *)
(* several sessions share: the vector index, signed evidence, false        *)
(* positives, transcripts and the cache of the license.  They share        *)
(* nothing, so a behaviour is about one of them, part.                     *)
(***************************************************************************)
EXTENDS Integers, Sequences, FiniteSets

CONSTANTS Procs, NoFile, MaxWrites, MaxFaults, MaxCrashes, LockFaults
CONSTANTS MaxEvents, MaxFailures, TornFailures
CONSTANTS NoCheckpoint, MaxCheckpoints, MaxSaves, MaxTroubles
CONSTANTS Tasks, NotStored, MaxPerThread, MaxPuts, MaxWaiting, MaxErrors
CONSTANTS Files, Sessions, Contents, MaxEdits, MaxRuns, MaxIndexFailures
CONSTANTS Findings, MaxArtifacts, MaxEvidenceCrashes
CONSTANTS Reviewers, MaxDecisions, MaxOps, MaxReviewerCrashes
CONSTANTS Appenders, MaxLines, MaxRecords, MaxOverlapped, MaxRefusals
CONSTANTS Processes, Keys, Grants, Requests, ProModes, MaxTime, MaxChecks, MaxChanges

VARIABLE part
VARIABLES dest, backup, journal, fsLock, stale, fsPc, fsOp, writes, fsFaults, settled, fileAcked
VARIABLES lines, torn, writeQueue, called, logFailures, logAcked, logOpen
VARIABLES states, metas, cpPc, saving, doomed, saves, troubles, cpAcked
VARIABLES stored, staged, index, calls, gcPc, taken, puts, errors, pruned, putAcked, writesAcked
VARIABLES indexSource, vectors, metadata, indexLock, indexPc, attempt, provider, store, chunks, todo, dirty, edits,
    runs, indexFailures
VARIABLES privateFile, publicFile, artifacts, evidencePc, evidenceSeen, pair, keys, loaded, evidenceAcknowledged,
    evidenceRecords, evidenceCrashes
VARIABLES memoryKey, memoryFile, memorySource, expired, memoryLock, reclaim, memoryPc, life, memoryOp, memoryRecords,
    approved, revoked, match, ops, memoryCrashes
VARIABLES lineFile, linePc, record, handle, lineSeen, lineAcknowledged, dropped, disturbed, lineRecords, lineCrashes,
    refusals
VARIABLES time, granted, until, cache, licensePc, licenseKey, request, now, licenseSeen, entry, result, checks,
    changes

replacingVars == <<dest, backup, journal, fsLock, stale, fsPc, fsOp, writes, fsFaults, settled, fileAcked>>
logVars == <<lines, torn, writeQueue, called, logFailures, logAcked, logOpen>>
missionVars == <<states, metas, cpPc, saving, doomed, saves, troubles, cpAcked>>
graphVars == <<stored, staged, index, calls, gcPc, taken, puts, errors, pruned, putAcked, writesAcked>>
indexVars == <<indexSource, vectors, metadata, indexLock, indexPc, attempt, provider, store, chunks, todo, dirty,
    edits, runs, indexFailures>>
evidenceVars == <<privateFile, publicFile, artifacts, evidencePc, evidenceSeen, pair, keys, loaded,
    evidenceAcknowledged, evidenceRecords, evidenceCrashes>>
memoryVars == <<memoryKey, memoryFile, memorySource, expired, memoryLock, reclaim, memoryPc, life, memoryOp,
    memoryRecords, approved, revoked, match, ops, memoryCrashes>>
transcriptVars == <<lineFile, linePc, record, handle, lineSeen, lineAcknowledged, dropped, disturbed, lineRecords,
    lineCrashes, refusals>>
licenseVars == <<time, granted, until, cache, licensePc, licenseKey, request, now, licenseSeen, entry, result, checks,
    changes>>

\* Values of the constants that a configuration cannot write: a file with one or two chunks, moved or changed, or
\* absent; a key that is valid and one that is not; an audit in CI.
Texts == {{}, {<<1, "a">>}, {<<1, "b">>}, {<<1, "a">>, <<2, "b">>}, {<<2, "a">>}}
Granted == {[k \in Keys |-> IF k = "k1" THEN "pro" ELSE "free"]}
InCI == {<<"deep-sast", TRUE>>}

Replacing == INSTANCE FsAtomic WITH lock <- fsLock, op <- fsOp
Log == INSTANCE EventStore WITH failures <- logFailures
Mission == INSTANCE Checkpoints
Graph == INSTANCE GraphCheckpoints

Index == INSTANCE SemanticIndex WITH source <- indexSource, lock <- indexLock, pc <- indexPc,
    failures <- indexFailures, MaxFailures <- MaxIndexFailures

Evidence == INSTANCE EvidenceStore WITH pc <- evidencePc, seen <- evidenceSeen, acknowledged <- evidenceAcknowledged,
    records <- evidenceRecords, crashes <- evidenceCrashes, MaxRecords <- MaxArtifacts, MaxCrashes <- MaxEvidenceCrashes

Memory == INSTANCE FalsePositives WITH key <- memoryKey, file <- memoryFile, source <- memorySource,
    lock <- memoryLock, pc <- memoryPc, op <- memoryOp, records <- memoryRecords, crashes <- memoryCrashes,
    Procs <- Reviewers, MaxRecords <- MaxDecisions, MaxCrashes <- MaxReviewerCrashes

Lines == INSTANCE Transcript WITH file <- lineFile, pc <- linePc, seen <- lineSeen, acknowledged <- lineAcknowledged,
    records <- lineRecords, crashes <- lineCrashes

License == INSTANCE Licence WITH pc <- licensePc, key <- licenseKey, seen <- licenseSeen

ASSUME StorageAssumption ==
    /\ Replacing!FsAssumption /\ Log!EventAssumption /\ Mission!CheckpointAssumption
    /\ Graph!GraphAssumption /\ Index!IndexAssumption /\ Evidence!EvidenceAssumption
    /\ Memory!FalsePositivesAssumption /\ Lines!TranscriptAssumption /\ License!LicenceAssumption

Init ==
    /\ part \in {"replacing", "log", "mission", "graph", "index", "evidence", "memory", "lines", "license"}
    /\ part # "replacing" => dest = NoFile
    /\ part # "index" => indexSource = [f \in Files |-> CHOOSE c \in Contents \ {{}} : TRUE]
    /\ Replacing!Init /\ Log!Init /\ Mission!Init /\ Graph!Init /\ Index!Init
    /\ Evidence!Init /\ Memory!Init /\ Lines!Init /\ License!Init

\* The other parts stay as they are.
Others ==
    /\ UNCHANGED part
    /\ part # "replacing" => UNCHANGED replacingVars
    /\ part # "log" => UNCHANGED logVars
    /\ part # "mission" => UNCHANGED missionVars
    /\ part # "graph" => UNCHANGED graphVars
    /\ part # "index" => UNCHANGED indexVars
    /\ part # "evidence" => UNCHANGED evidenceVars
    /\ part # "memory" => UNCHANGED memoryVars
    /\ part # "lines" => UNCHANGED transcriptVars
    /\ part # "license" => UNCHANGED licenseVars

Next ==
    \/ part = "replacing" /\ Replacing!Next /\ Others
    \/ part = "log" /\ Log!Next /\ Others
    \/ part = "mission" /\ Mission!Next /\ Others
    \/ part = "graph" /\ Graph!Next /\ Others
    \/ part = "index" /\ Index!Next /\ Others
    \/ part = "evidence" /\ Evidence!Next /\ Others
    \/ part = "memory" /\ Memory!Next /\ Others
    \/ part = "lines" /\ Lines!Next /\ Others
    \/ part = "license" /\ License!Next /\ Others

Spec == Init /\ [][Next]_<<part, replacingVars, logVars, missionVars, graphVars, indexVars, evidenceVars,
                         memoryVars, transcriptVars, licenseVars>>

\* The behaviours about one part.
ReplacingSpec == part = "replacing" /\ Spec

TypesOK ==
    /\ part = "replacing" => Replacing!TypeOK
    /\ part = "log" => Log!TypeOK
    /\ part = "mission" => Mission!TypeOK
    /\ part = "graph" => Graph!TypeOK
    /\ part = "index" => Index!TypeOK
    /\ part = "evidence" => Evidence!TypeOK
    /\ part = "memory" => Memory!TypeOK
    /\ part = "lines" => Lines!TypeOK
    /\ part = "license" => License!TypeOK

FileIsDurable == Replacing!FileIsDurable
AcknowledgedEventsAreRead == Log!AcknowledgedEventsAreRead
LatestIsDurable == Mission!LatestIsDurable
ResumedThreadIsComplete == Graph!ResumedThreadIsComplete

\* What several processes write into one place is what each of them may rely on. The vectors by which a session
\* finds a chunk are of what the chunk holds, and a ready index is of the files as they are.
IndexIsSound == Index!IndexIsSound
\* Evidence that a session files is verified by every session of its run, and is that of its finding.
EvidenceIsSound == Evidence!EvidenceIsSound
\* Approvals and revocations of false positives are kept, whoever else writes the memory.
MemoryIsSound == Memory!MemoryIsSound
\* A transcript has its lines, through crashes and rotations.
TranscriptIsSound == Lines!TranscriptIsSound
TranscriptIsRead == Lines!TranscriptIsRead
\* A license is not older than its grace.
LicenceIsRecent == License!LicenceIsRecent

\* Not so, as module FsAtomic says: two processes never work on the file at the same time.
OneHolder == Replacing!OneHolder
=============================================================================
