SPECIFICATION Spec
CONSTANTS
    Revisions = {"r3"}
    MaxChanges = 1
PROPERTIES
    ActiveMeansAnswered
