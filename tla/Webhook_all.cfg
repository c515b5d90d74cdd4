SPECIFICATION Spec
CONSTANTS
    c1 = c1  d1 = d1  d2 = d2
    Requests = {1, 2}
    Deliveries = {d1, d2}
    Services = {s1, s2}
    Payloads <- SentByGitHub
    Scenarios <- Twice
    Built = {s1}
    MaxFaults = 1
INVARIANTS OncePerDelivery NoOrphanDeployment AcceptedIsComplete ClosedIsCleaned
PROPERTIES DeliveryIsHandled
CHECK_DEADLOCK FALSE
