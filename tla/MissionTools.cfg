\* Tool calls: a batch of two and one that pauses for a confirmation.
CONSTANTS
    Invocations = {}
    Slots <- MCSlots
    Batches <- MCBatches
    ConfirmedBatches <- MCConfirmedBatches
    Stages = {}
    Charges = {1}
    MaxTokens = 4
    MaxTokensPerInvocation = 2
    MaxToolCalls = 4
    MaxMissions = 1
    MaxCrashes = 2
    MaxAppendFailures = 1
    MaxSaveFailures = 1
    k1 = k1
    k2 = k2
    k3 = k3
SPECIFICATION Spec
INVARIANTS ExecutedCallsAreCounted
PROPERTIES InterruptedCallNotReplayed
CHECK_DEADLOCK FALSE
