SPECIFICATION Spec
CONSTANTS
    Kinds <- MCKinds
    NoClient = NoClient
    MaxPieces = 3
    MaxClients = 2
    MaxConns = 2
    MaxChunk = 2
    Answer = 2
    Room = 1
    AuthRequired = TRUE
CHECK_DEADLOCK FALSE
INVARIANT EstablishedMeansConnected
