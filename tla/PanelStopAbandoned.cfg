SPECIFICATION Spec
CONSTANTS
    N = 1
    Services = {1}
    ServiceStarts = 2
    TaskStarts = 1
CHECK_DEADLOCK FALSE
PROPERTIES StopRecordsItsChild
