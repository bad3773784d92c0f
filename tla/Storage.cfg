\* Two processes on one file, of which one may die, three writes and two file operations
\* that fail; five events with three failures; five saves of which two are kept; three
\* checkpoints of a thread of which one is kept. Sessions end, so the system may stop.
CONSTANTS
    Procs = {p1, p2}
    NoFile = NoFile
    MaxWrites = 3
    MaxFaults = 2
    MaxCrashes = 1
    LockFaults = FALSE
    MaxEvents = 5
    MaxFailures = 3
    TornFailures = FALSE
    NoCheckpoint = NoCheckpoint
    MaxCheckpoints = 2
    MaxSaves = 5
    MaxTroubles = 3
    Tasks = {t1, t2}
    NotStored = NotStored
    MaxPerThread = 1
    MaxPuts = 3
    MaxWaiting = 2
    MaxErrors = 2
    Files = {1}
    Sessions = {"s1", "s2"}
    Contents <- Texts
    MaxEdits = 1
    MaxRuns = 2
    MaxIndexFailures = 1
    Findings = {"f1", "f2"}
    MaxArtifacts = 1
    MaxEvidenceCrashes = 2
    Reviewers = {1, 2}
    MaxDecisions = 1
    MaxOps = 2
    MaxReviewerCrashes = 1
    Appenders = {"a", "b"}
    MaxLines = 2
    MaxRecords = 9
    MaxOverlapped = 2
    MaxRefusals = 1
    Processes = {"p", "q"}
    Keys = {"k1", "k2"}
    Grants <- Granted
    Requests <- InCI
    ProModes = {"deep-sast"}
    MaxTime = 3
    MaxChecks = 2
    MaxChanges = 1
SPECIFICATION Spec
INVARIANTS TypesOK AcknowledgedEventsAreRead ResumedThreadIsComplete IndexIsSound EvidenceIsSound MemoryIsSound TranscriptIsSound TranscriptIsRead LicenceIsRecent
PROPERTIES FileIsDurable LatestIsDurable
CHECK_DEADLOCK FALSE
