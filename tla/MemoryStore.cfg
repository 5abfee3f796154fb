\* The stores of an instance are bounded.
CHECK_DEADLOCK FALSE
SPECIFICATION Spec
CONSTANTS
    api = api
    learner = learner
    u1 = u1
    u2 = u2
    Processes = {api, learner}
    Users = {u1, u2}
    Nobody = Nobody
    MaxEvents = 3
    None = None
SYMMETRY Symmetry
INVARIANTS
    OwnWords
    Durable
