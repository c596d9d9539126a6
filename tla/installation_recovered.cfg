SPECIFICATION Spec
CONSTANTS
    Operators = {o1, o2}
    None = None
    Versions = {1, 2, 3}
    Irreversible = {2}
    Capacity = 3
    MaxPlans = 3
    MaxFaults = 1
    MaxCommits = 1
INVARIANTS
    StablePlannable
CHECK_DEADLOCK FALSE
