SPECIFICATION FairSpec
CONSTANTS
    Eager = FALSE
    MaxCalls = 3
    MaxAttempts = 2
    MaxSockets = 4
    MaxLosses = 3
INVARIANTS
    TypeOK
    ConnectedIsServed
    DisconnectIsFinal
PROPERTIES
    AutoReconnects
