SPECIFICATION Spec
CONSTANTS
    w1 = w1  w2 = w2
    Workers = {w1, w2}
    Jobs <- ThreeJobs
    Deployments <- TwoDeployments
    Head = "head"
    None = "none"
    CommitOf <- Commits
    TypeOf <- JobTypes
    Options <- Configurations
    MaxAttempts = 2
    RetryBase = 1
    RetryMax = 2
    MaxOutside = 1
    MaxMishaps = 1
CHECK_DEADLOCK FALSE
INVARIANTS
    HandoutsCounted
    RowsAgree
    ImageOfCommit
PROPERTIES
    EveryJobSettles
