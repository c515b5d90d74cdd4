SPECIFICATION Spec
CONSTANTS
    w1 = w1  w2 = w2  c1 = c1  c2 = c2  r1 = r1
    None = None
    Jobs <- TwoIds
    Deployments <- TwoIds
    Workers = {w1, w2}
    Commits = {c1, c2}
    Requests = {r1}
    Reports = {"READY"}
    MaxAttempts = 2
    ReclaimRunning = TRUE
    MaxFaults = 1
SYMMETRY Symmetry
CHECK_DEADLOCK FALSE
INVARIANTS
    DigestOfCommit
    AnnouncedIsPushed
    SucceededHasImage
    NoDanglingBuild
