SPECIFICATION FairSpec
CONSTANTS
    Units = {u1, u2}
    FirstLeaders = {u1}
    Kinds = {"kafka"}
    Enabled = Enabled
    Disabled = Disabled
    Absent = Absent
    Publications = {{"set_credentials", "set_tls_ca"},
                    {"set_credentials", "set_tls", "set_tls_ca", "set_endpoints"}}
    MaxSets = 2
    MaxLeads = 1
    MaxFaults = 1
INVARIANTS
    TypeOK
    CredentialsStaySecret
    PairsAreWhole
    AskedOnce
    RestIsAsPublished
PROPERTIES
    ClientsConverge
