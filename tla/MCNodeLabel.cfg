\* Two edits by others and one fault of any kind, at any time.
CONSTANTS
    model = model
    driverVersion = driverVersion
    Key = {model, driverVersion}
    VersionKey = {driverVersion}
    Faults = {"driver", "api", "write", "crash"}
    MaxFaults = 1
    MaxEdits = 2
    Steps = 2
    None = None
SPECIFICATION FairSpec
INVARIANTS
    TypeOK
    CacheFollowsInformer
PROPERTIES
    OnlyAdds
    LabelsRepaired
\* In one-shot mode nothing is left to do after the first check.
CHECK_DEADLOCK FALSE
