\* Every disturbance, five of them in any order.
CONSTANTS
    a = a
    b = b
    Plugin = {a, b}
    Faults = {"serve", "dial", "register", "remove", "send", "late", "crash", "kubelet", "hup", "term"}
    MaxFaults = 5
    None = None
SPECIFICATION FairSpec
INVARIANTS
    TypeOK
    NeverWaitsInVain
    SocketLeadsToServer
PROPERTIES
    EventuallyServed
\* Main waits for events that need not come.
CHECK_DEADLOCK FALSE
