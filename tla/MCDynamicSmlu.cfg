CONSTANTS
    p1 = p1
    p2 = p2
    s1 = s1
    shape = shape
    i1 = i1
    i2 = i2
    c1 = c1
    c2 = c2
    Pod = {p1, p2}
    NameOf <- MCSameName
    ProfileOf <- MCProfileOf
    MultiContainer = {}
    Malformed = {}
    Slot = {s1}
    Shape = {shape}
    InstanceId = {i1, i2}
    Capacity = 2
    MinDsmluUnit = 0
    Call = {c1, c2}
    Faults = {"api", "conflict", "driver", "restart", "tombstone", "reject"}
    MaxFaults = 1
    None = None
SPECIFICATION Spec
INVARIANTS
    TypeOK
    LockProtectsCandidate
    PodOwnsInstance
PROPERTIES
    ExecSparesListed
SYMMETRY Symmetry
