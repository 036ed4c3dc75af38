\* The process may serve with nothing left to happen: no deadlock check.
CONSTANTS
    Card = {0, 1, 2}
    ImageHasLib = FALSE
    MaxFaults = 3
SPECIFICATION Spec
CHECK_DEADLOCK FALSE
INVARIANTS
    TypeOK
    LibraryOpenedOnce
    NoCardLeftOut
    NoCardTwice
PROPERTIES
    EventuallyServing
