SPECIFICATION Spec
CONSTANTS
    Workers = {w1, w2}
    Clients = {c1, c2}
    Tasks = {k1, k2}
    NoThread = NoThread
    NoTask = NoTask
SYMMETRY Symmetric
INVARIANT
    NoNewWorkAfterShutdown
