\* Three tasks, any dependencies, any order of calls, exported once and imported at any
\* later time; each task is for a verifier or for any role.
CONSTANTS
    TaskIds = {t1, t2, t3}
    AgentIds = {a1}
    Roles = {verifier}
    AnyRole = AnyRole
    NoAgent = NoAgent
    MaxExported = 1
SPECIFICATION Spec
INVARIANTS IndexAgrees NoDeadlock NoLostWakeup
SYMMETRY Symmetry
