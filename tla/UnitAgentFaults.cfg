SPECIFICATION Spec
CONSTANTS
    CAs <- MCCAs
    NoCA <- MCNoCA
    ProviderCA <- MCProvider
    Sha256CAs <- MCSha256
    Data <- MCData
    Passwords <- MCPasswords
    Worlds <- FaultWorlds
    MaxChanges = 2
    MaxFaults = 1
    Faults = {"crash", "restart", "lease"}
INVARIANTS
    JvmOpensCacerts
    KeystoreServesUnitCert
PROPERTIES
    StorePasswordsPermanent
