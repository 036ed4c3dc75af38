CONSTANTS
    p1 = p1
    p2 = p2
    Card <- MCCard
    Pod = {p1, p2}
    Demand <- MCDemand
    topoRule <- MCTopoRule
    Rings <- MCRings
    Faults = {"resources", "rings", "api", "crash", "tombstone"}
    MaxFaults = 2
    None = None
SPECIFICATION FairSpec
INVARIANTS
    TypeOK
    NodeOffersAvailable
PROPERTIES
    NodeOffersFree
\* Without pods there is nothing the informer could call a handler for.
CHECK_DEADLOCK FALSE
