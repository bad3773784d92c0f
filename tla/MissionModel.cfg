\* Token accounting: three invocations compete for a budget of two reservations, and an
\* answer may be charged more than was reserved for it.
CONSTANTS
    Invocations = {i1, i2, i3}
    Slots = {}
    Batches = {}
    ConfirmedBatches = {}
    Stages = {}
    Charges = {1, 3}
    MaxTokens = 5
    MaxTokensPerInvocation = 2
    MaxToolCalls = 0
    MaxMissions = 2
    MaxCrashes = 1
    MaxAppendFailures = 1
    MaxSaveFailures = 1
    k1 = k1
    k2 = k2
    k3 = k3
SPECIFICATION Spec
INVARIANTS BudgetNotOversubscribed UsageIsExact
SYMMETRY InvocationSymmetry
CHECK_DEADLOCK FALSE
