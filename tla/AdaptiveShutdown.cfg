CONSTANTS
    Callers = {c1, c2}
    MaxBuilds = 1
    None = none
SPECIFICATION FairSpec
INVARIANTS JoinedAll BudgetFirst
PROPERTIES LatestBudget ComesToRest
CHECK_DEADLOCK FALSE
