\* One claim that four trusted agents and a distrusted one submit and review, with
\* a snapshot, a failing write and restarts.
CONSTANTS
    AgentIds = {a1, a2, a3, a4, low}
    ClaimIds = {c1}
    Distrusted = {low}
    MaxSaves = 1
SPECIFICATION Spec
INVARIANTS LabelFollowsCounts VotesMatchReviews DecisionHasMajority
PROPERTIES VerdictsAreFinal
SYMMETRY Symmetry
