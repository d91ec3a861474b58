SPECIFICATION Spec
CONSTANTS
    Fds = {1, 2}
    Workers = {w1, w2}
    Messages <- MCMessages
    NoClient = NoClient
    Unset = Unset
    AuthRequired = TRUE
CHECK_DEADLOCK FALSE
INVARIANT OldWorkerExited
