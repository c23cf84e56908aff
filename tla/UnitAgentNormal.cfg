SPECIFICATION Spec
CONSTANTS
    CAs <- MCCAs
    NoCA <- MCNoCA
    ProviderCA <- MCProvider
    Sha256CAs <- MCSha256
    Data <- MCData
    Passwords <- MCPasswords
    Worlds <- NormalWorlds
    MaxChanges = 2
    MaxFaults = 0
    Faults = {}
INVARIANTS
    TypeOK
    ReconcileStartsServer
    StoresOpen
    TruststoreTrustsUnitCert
    RestartHasCause
    FileIsApplied
    TrustConverges
