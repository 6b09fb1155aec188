SPECIFICATION Spec
CONSTANTS
    MaxMedia = 3
    MaxCommands = 3
    MaxTroubles = 2
INVARIANTS
    ServiceInStep
    
PROPERTIES
    CallsAnswered
CHECK_DEADLOCK FALSE
