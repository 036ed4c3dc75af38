CONSTANTS
    d1 = d1
    added = added
    s1 = s1
    Device = {d1, added}
    Listed = {d1}
    Slot = {s1}
    SlotOf <- MCSlotOf
    None = None
    MaxReadErrors = 2
SPECIFICATION Spec
INVARIANTS
    TypeOK
    PipelineConsistent
    EveryReportIsAChange
    StreamInSync
PROPERTIES
    UnhealthyAdvertised
    RecoveryAdvertised
    StopQuiesces
    ImplementsFeed
