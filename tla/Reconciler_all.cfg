SPECIFICATION FairSpec
CONSTANTS
    o1 = o1  o2 = o2  web = web  pr42 = pr42
    Nothing = Nothing
    DeploymentIds <- TwoIds
    WorkloadOf <- MixedWorkloads
    Workloads = {web, pr42}
    Previews = {pr42}
    Orchestrators = {o1, o2}
    MaxBuilds = 1
    MaxOrchFaults = 1
CHECK_DEADLOCK FALSE
INVARIANTS NoDanglingRollout CleanedUpIsGone
PROPERTIES EveryRolloutEnds
