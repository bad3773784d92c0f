\* Two of everything that may interleave; the bounds of the parts that are not of AuditTools are in the module.
\* Sessions end, so the system may stop.
CONSTANTS
    Elsewhere = {"synthesis", "stream", "session", "graph", "report"}
    Files = {1, 2}
    Callers = {"c1", "c2"}
    MaxCalls = 2
    MaxEdits = 1
    MaxRestarts = 1
    MaxCallbackEntries = 2
    MaxCallbacks = 3
    MaxBoxFailures = 2
    MaxCreates = 2
    MaxSyncs = 2
    Offered <- McpNames
    Configurations <- Configured
    DefaultTier <- TierOf
    Asking = {"nmap"}
    MaxPolls = 1
    Commands <- Pipelines
    MaxRuns = 1
    Patches = {"p", "q"}
    Versions = {"before", "after"}
    Touched <- TouchedBy
    Tests = {"t1"}
    WatchFindings = {"f1", "f12"}
    LocationsOf <- LocatedIn
    maxBatchSize = 1
    MaxChanges = 2
    MaxWatchAudits = 3
    Targets = {"t1"}
    Inits = {1, 2}
    MaxMounts = 2
    MaxMaps = 1
    Batches <- Calls
    ReadOnly = {"read"}
    MaxActive = 6
    MaxWorkerContext = 4
    MaxParallel = 2
    MaxWorkerSteps = 1
    MaxTasks = 2
    Claims = {"v1"}
    MaxContext = 3
    MaxToolSteps = 2
    ExtraInvocations = 0
    MaxAudits = 1
    MaxReviews = 1
    Providers = {"azure", "custom", "openai"}
    Keyless = {"custom"}
    Embedding = {"custom"}
    Compatible = {"custom"}
    WithUrl = {"custom"}
    InEnvironment = {"openai"}
    MaxSubmits = 1
    MaxWizardFailures = 1
    MaxReplacements = 1
SPECIFICATION Spec
INVARIANTS TypesOK FindingsAreEarned AuditIsTold TrafficIsWhole ToolsAreSound EditsAreSound InterfaceIsSound
CHECK_DEADLOCK FALSE
