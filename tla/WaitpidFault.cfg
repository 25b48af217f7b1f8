SPECIFICATION Spec
CONSTANTS
    MaxPid = 2
    Calls = {"fork", "waitpid", "fault"}
INVARIANT WaiterOfDeadIsResumed
