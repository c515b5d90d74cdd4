SPECIFICATION Spec
CONSTANTS
    a = a
    b = b
    p1 = p1
    p2 = p2
    s1 = s1
    s2 = s2
    r1 = r1
    r2 = r2
    d1 = d1
    d2 = d2
    Orgs = {a, b}
    Projects = {p1, p2}
    Services = {s1, s2}
    Resources = {r1, r2}
    Deployments = {d1, d2}
    Subjects <- SomeSubjects
    Requests <- TwoRequests
    Load <- Two
    Home = a
    Work = p1
    Main = s1
    Attached = {r1, d1}
    None = None
CHECK_DEADLOCK FALSE
INVARIANTS
    NoOrphans
    UpdatesReachRows
    InScope
    ServersAgree
