SPECIFICATION Spec
CONSTANTS
    Peers = {fd1, fd2}
    Listener = lfd
    Addresses = {p1, p2}
    ListenerHolder = p0
    MaxEvents = 2
    MaxPending = 1
    None = None
SYMMETRY Symmetric
INVARIANT
    CallbackMatchesEvent
