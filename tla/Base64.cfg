SPECIFICATION Spec
CONSTANTS
    Bytes = {1, 58, 65, 85, 127}
    MaxLen = 6
CHECK_DEADLOCK FALSE
INVARIANT EncodeIsBase64
INVARIANT DecodeInverts
