SPECIFICATION Spec
CONSTANTS
    Emails = {"e1", "e2"}
    Slugs = {"s1", "s2"}
    Names = {"p", "q"}
    None = None
    Requests <- TwoRequests
    AdminEmails = {"e2"}
    Sizes <- SomeSizes
    Limits <- SomeLimits
    Scenarios <- SomeScenarios
    MaxAdmin = 2
    MaxFaults = 1
CHECK_DEADLOCK FALSE
INVARIANTS
    SignupsDoNotCollide
    AdminsAccounted
    OrganizationsAreOwned
    RejectedIsStopped
PROPERTIES
    QuotaHeldUnlessRaced
