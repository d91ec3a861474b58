SPECIFICATION FairSpec
CONSTANTS
    Fds = {1, 2}
    Workers = {w1, w2}
    Messages <- MCMessages
    NoClient = NoClient
    Unset = Unset
    AuthRequired = TRUE
CHECK_DEADLOCK FALSE
CONSTRAINT MCLive
PROPERTY HandlerReturns
PROPERTY ConnectingEnds
