\* Two objects, one retry, slots interrupted once.
SPECIFICATION Spec
CONSTANTS
    MaxObjects = 2
    MaxProcs = 3
    MaxRetries = 1
    MaxDepth = 2
INVARIANTS
    TypeOK
    StoppedIsUndone
    ConnectedIsBacked
    NoForgottenProcess
    RetriesBounded
PROPERTIES
    ImplementsProtocolObject
