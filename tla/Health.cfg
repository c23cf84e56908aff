SPECIFICATION Spec
CONSTANTS
    Revisions = {"r3", "r4"}
    MaxChanges = 2
INVARIANTS
    TypeOK
PROPERTIES
    ActiveIsEarned
    InstallIsTold
    StatusConverges
