\* The plan with its three patch perspectives and two workers at once: two runs, the
\* second one a restart or not, with any two faults (failed tasks, aborts, crashes,
\* snapshots that are not written) at any moment.  The runs of a session are bounded, so
\* the system may stop.
CONSTANTS
    Patches <- MCPatches
    TaskIds <- MCTasks
    AgentIds <- MCTasks
    Roles <- MCRoles
    AnyRole = AnyRole
    NoAgent = NoAgent
    MaxWorkers = 2
    MaxRuns = 2
    MaxFaults = 2
SPECIFICATION Spec
INVARIANTS DispatchIsSound ReportedIsSaved
PROPERTIES CancelledByFailure RunEnds
CHECK_DEADLOCK FALSE
