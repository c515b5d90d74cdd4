SPECIFICATION Spec
CONSTANTS
    Requests = {r1, r2}
    Inputs <- SomeInputs
    Databases = {d1, d2}
    Kinds <- AllKinds
    MaxChanges = 1
    MaxFaults = 1
    None = None
INVARIANTS ChangesWereAllowed AnswersAreTrue
SYMMETRY RequestSymmetry
CHECK_DEADLOCK FALSE
