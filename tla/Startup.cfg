SPECIFICATION Spec
CONSTANTS
    MaxPid = 3
    Names = {"tfmap", "/usr/bin/tfmap"}
    Confs <- MCConfs
INVARIANT OneProgram
