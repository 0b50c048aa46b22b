CONSTANT MDS_TRIES <- MCTries
SPECIFICATION FairSpec
INVARIANTS
    TypeOK
    SteadyGivesUp
    SteadyVersion
    PortsOpen
PROPERTIES
    UnitAdvances
    
    
