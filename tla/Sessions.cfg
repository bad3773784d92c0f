\* Two callers with three calls and one failure; four tool calls for two requests with three
\* failures or restarts; four requests to the worker. Sessions end, so the system may stop.
CONSTANTS
    Callers = {c1, c2}
    NoCaller = NoCaller
    Swarm = FALSE
    MaxCalls = 3
    MaxFaults = 1
    Requests = {r1, r2}
    NoRequest = NoRequest
    MaxToolCalls = 4
    MaxDisorders = 3
    MaxRequests = 4
SPECIFICATION FairSpec
INVARIANTS RunsAreApproved OperationsAreExclusive ReportsAreComplete
PROPERTY CallsReturn
CHECK_DEADLOCK FALSE
