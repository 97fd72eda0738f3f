CHECK_DEADLOCK FALSE
SPECIFICATION FairSpec
CONSTANTS
    Pods = {p, q}
    JobPods = {p}
    Containers = {a, b}
    Pids = {i}
    Resolvers = {r}
    MaxEvents = 1
    MaxRelists = 1
INVARIANT NoWaitCycle
INVARIANT AnswersAreRight
PROPERTY StaleEntryLeaves
