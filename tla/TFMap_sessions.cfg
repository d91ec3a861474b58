SPECIFICATION Spec
CONSTANTS
    Fds = {1, 2, 3}
    Workers = {w1, w2}
    Messages <- MCMessages
    NoClient = NoClient
    Unset = Unset
    AuthRequired = TRUE
CHECK_DEADLOCK FALSE
SYMMETRY MCWorkerSymmetry
CONSTRAINT MCNotOvertaken
INVARIANT LiveWorkerOwnsRecord
INVARIANT FlagTracksWorker
INVARIANT NoDefaultRecord
INVARIANT QuitsOwnThread
PROPERTY ImplementsSession
