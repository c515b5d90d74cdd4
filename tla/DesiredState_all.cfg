SPECIFICATION DesiredSpec
CONSTANTS
    Projects <- TwoProjects
    Services <- TwoServices
    Resources <- OneResource
    ConnectionEnv <- Postgres
    SecretKeys = {"DATABASE_URL", "API_TOKEN"}
    Reword <- Rewordings
    ServiceSpecs <- SomeSpecs
    Operators = {o1, o2}
    MaxEdits = 2
    MaxRuns = 2
    MaxKubectlFaults = 1
    Absent = Absent
INVARIANTS AppliedCanStart HostsAreApart
CHECK_DEADLOCK FALSE
SYMMETRY OperatorSymmetry
