SPECIFICATION FairSpec
CONSTANTS
    a = a
    b = b
    c = c
    Steps <- Three
    Graphs <- AllGraphs
    Remote <- Stores
INVARIANTS
    RejectsExactlyCycles
    NeverStuck
    SeesEarlierLayers
    
PROPERTIES
    NoLayerAfterAnError
    RunsAsDataflow
    EveryWorkflowEnds
CHECK_DEADLOCK FALSE
