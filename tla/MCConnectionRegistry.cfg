SPECIFICATION Spec
CONSTANTS
    MAX_CONNECTIONS = 2
    MaxAccepts = 5
INVARIANTS CountMeaning LiveListed
PROPERTIES NeverRecovers
CHECK_DEADLOCK FALSE
