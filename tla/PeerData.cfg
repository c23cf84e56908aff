SPECIFICATION Spec
SYMMETRY Symmetric
CONSTANTS
    Units = {u1, u2}
    AppSecrets = {"admin-password", "oauth-client-secret"}
    AppPlain = {}
    UnitSecrets = {"private-key"}
    UnitPlain = {"certificate"}
    Values = {v1}
    Empty = Empty
    MaxWrites = 3
    MaxLeads = 1
    MaxFaults = 1
INVARIANTS
    TypeOK
    PeerSecretsStaySecret
PROPERTIES
    IsADictionary
