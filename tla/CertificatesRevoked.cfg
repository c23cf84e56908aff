SPECIFICATION Spec
CONSTANTS
    MaxKeys = 5
    MaxRequests = 4
    MaxSerials = 2
    Addresses = {"a1", "a2"}
    FirstAddress = "a1"
    MaxDeferred = 2
    Disturbances = {"revoke"}
    MaxDisturbed = 1
INVARIANTS
    RevokedIsDropped
CHECK_DEADLOCK FALSE
