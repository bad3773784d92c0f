\* Outcomes and stages without a failing save, and the progress of the mutations.
CONSTANTS
    Invocations = {i1}
    Slots = {}
    Batches = {}
    ConfirmedBatches = {}
    Stages = {s1}
    Charges = {1}
    MaxTokens = 4
    MaxTokensPerInvocation = 2
    MaxToolCalls = 4
    MaxMissions = 2
    MaxCrashes = 2
    MaxAppendFailures = 1
    MaxSaveFailures = 0
    k1 = k1
    k2 = k2
    k3 = k3
SPECIFICATION FairSpec
INVARIANT LogIsSound
PROPERTIES DurableOutcomeIsFinal MutationsAreFinished
CHECK_DEADLOCK FALSE
