SPECIFICATION Spec
CONSTANTS
    MaxRequests = 1
    MaxSaves = 1
PROPERTIES
    FailedLoadChangesNothing
CHECK_DEADLOCK FALSE
