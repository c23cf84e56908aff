SPECIFICATION Spec
CONSTANTS
    MaxKeys = 5
    MaxRequests = 4
    MaxSerials = 2
    Addresses = {"a1", "a2"}
    FirstAddress = "a1"
    MaxDeferred = 2
    Disturbances = {"unrelate", "move", "replace", "revoke", "mistake"}
    MaxDisturbed = 1
INVARIANTS
    TypeOK
    IdentityMatches
    OfferIsUsed
    RenewalAskedInTime
CHECK_DEADLOCK FALSE
PROPERTIES
    CertificateArrives
    ExpiredIsReplaced
    IdentitySpec
