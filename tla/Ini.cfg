SPECIFICATION Spec
CONSTANTS
    Sections = {"module", "tfmap"}
    Keys = {"username", "password"}
    Values = {"", "a", "b"}
    Files <- MCFiles
CHECK_DEADLOCK FALSE
INVARIANT ReadsWhatFileSays
