\* Three processes, of which one dies with the lock while two wait for it.
CONSTANTS
    Procs = {p1, p2, p3}
    NoFile = NoFile
    MaxWrites = 1
    MaxFaults = 0
    MaxCrashes = 1
    LockFaults = FALSE
    MaxEvents = 5
    MaxFailures = 3
    TornFailures = FALSE
    NoCheckpoint = NoCheckpoint
    MaxCheckpoints = 2
    MaxSaves = 5
    MaxTroubles = 3
    Tasks = {t1, t2}
    NotStored = NotStored
    MaxPerThread = 1
    MaxPuts = 3
    MaxWaiting = 2
    MaxErrors = 2
    Files = {1}
    Sessions = {"s1", "s2"}
    Contents <- Texts
    MaxEdits = 1
    MaxRuns = 2
    MaxIndexFailures = 1
    Findings = {"f1", "f2"}
    MaxArtifacts = 1
    MaxEvidenceCrashes = 2
    Reviewers = {1, 2}
    MaxDecisions = 1
    MaxOps = 2
    MaxReviewerCrashes = 1
    Appenders = {"a", "b"}
    MaxLines = 2
    MaxRecords = 9
    MaxOverlapped = 2
    MaxRefusals = 1
    Processes = {"p", "q"}
    Keys = {"k1", "k2"}
    Grants <- Granted
    Requests <- InCI
    ProModes = {"deep-sast"}
    MaxTime = 3
    MaxChecks = 2
    MaxChanges = 1
SPECIFICATION ReplacingSpec
INVARIANT OneHolder
CHECK_DEADLOCK FALSE
